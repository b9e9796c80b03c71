CONSTANTS
    a = a
    b = b
    None = None
    SelfName = edgesentinel
    Names <- MCNames
    Pids <- MCPids
    SelfPid <- MCSelfPid
    Configs <- MCSingleName
    MemorySamples = {0}
    CpuSamples = {0}
SPECIFICATION Spec
INVARIANTS LogTellsAvailability
