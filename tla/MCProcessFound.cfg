CONSTANTS
    a = a
    b = b
    None = None
    SelfName = edgesentinel
    Names <- MCNames
    Pids <- MCPids
    SelfPid <- MCSelfPid
    Configs <- MCTwoNames
    MemorySamples = {0}
    CpuSamples = {0}
SPECIFICATION FairSpec
PROPERTIES LastTargetFound
