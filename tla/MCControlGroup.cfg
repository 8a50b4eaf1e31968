\* Both groups are watched; one process has cleanupProcessGroup.
SPECIFICATION FairSpec
CONSTANTS
    NumProcs = 2
    AvailableMb = 3
    AssignedMb <- MCAssigned
    Monitored = {1, 2}
    CleanedUp = {1}
INVARIANTS  LimitsAccepted
 
CHECK_DEADLOCK FALSE
