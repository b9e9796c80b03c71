CONSTANTS
    a = a
    b = b
    None = None
    SelfName = edgesentinel
    Names <- MCNames
    Pids <- MCPids
    SelfPid <- MCSelfPid
    Configs <- MCConfigs
    MemorySamples = {0, 2}
    CpuSamples = {0, 1}
SPECIFICATION Spec
INVARIANTS
    TypeOK
    CpuSampleUnbroken
    UsageShownIsOfThisRound
    LastTargetLooksUpAgain
    AvailabilityLogAccurate
PROPERTIES
    AttachedUntilLost
    StreamsImplemented
