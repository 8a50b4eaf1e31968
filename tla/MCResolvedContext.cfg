CONSTANTS
    MAX_QUEUE = 2
    PipeSize = 2
    NumLines <- MCNumLines
    DirectLevels <- MCDirectLevels
    Athena = TRUE
    Threshold = 3
    TraceThreshold = 1
    MaxBody = 3
    MaxRequests = 2
    RecordsPerPage = 2
    MaxItems = 4
    MaxFailures = 1
    MaxMessages = 4
    MaxGuis = 2
    AutoExec = TRUE
    RezDefinitions <- MCDefinitions
    Scripts <- MCScripts
    PipeCapacity = 1
    ReqVersion2Set = FALSE
    UIntMod = 4096
    HardwareCores = 4
    PkDefinitions <- MCPkDefinitions
    EnvContexts <- MCEnvContexts
    CurrentEnv <- MCCurrentEnv
    PathDirs <- MCPathDirs
    ExecDirs <- MCExecDirs
    SessionPaths <- MCSessionPaths
    DefFiles <- MCDefFiles
    ShortDirs = {"a", "b"}
    Options <- MCOptions
    UnsignedMax = 4095
    CpuSetSize = 4
    Tasks = {t1, t2}
    MaxQueries = 2
    NotifyCores = 4
    Resources <- MCResources
    MaxCalls = 4
    Directories <- MCDirectories
    MaxDelay = 5
SPECIFICATION Spec
INVARIANTS ContextComplete
CHECK_DEADLOCK FALSE
