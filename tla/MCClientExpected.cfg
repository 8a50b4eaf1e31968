SPECIFICATION Spec
CONSTANTS
    k1 = k1
    k2 = k2
    NoClient = NoClient
    Clients = {k1}
    Setups <- MCLocal
    Calls = {"createLocal", "shutdown", "wait"}
    MaxSessions = 1
    MaxMessages = 0
INVARIANT ExpectedIsNotAnError
CHECK_DEADLOCK FALSE
