SPECIFICATION FairSpec
CONSTANTS
    p1 = p1
    p2 = p2
    c1 = c1
    c2 = c2
    NoOne = NoOne
    Procs <- MCProcs
    Callers <- MCCallers
    Available = 3
    AssignedMb = 2
    Modulus = 16
    QuietReset = TRUE
    MaxForks = 3
    MaxCalls = 4
CHECK_DEADLOCK FALSE
INVARIANT ProcessesFollowed
PROPERTIES ExitIsNoticed RemoveReturns MemoryHeldUntilExit
