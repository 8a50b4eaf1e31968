SPECIFICATION FairSpec
CONSTANTS
    k1 = k1
    k2 = k2
    NoClient = NoClient
    Clients = {k1, k2}
    Setups <- MCSetups
    Calls = {"createLocal", "createDistributed", "createAll", "send", "sendAll", "shutdown", "shutdownAll", "disconnect", "disconnectAll", "wait", "destroy"}
    MaxSessions = 1
    MaxMessages = 1
INVARIANTS  LocalStopped EngineReadyIsCurrent
PROPERTIES LossIsReported 
CHECK_DEADLOCK FALSE
