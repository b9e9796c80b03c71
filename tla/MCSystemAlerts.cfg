CONSTANTS
    Samples <- MCSamples
    Thresholds <- MCThresholds
    MaxSpent = 2
    Word = 5
SPECIFICATION CSpec
INVARIANTS
    TypeOK
    StatusIsHighestNotified
    StatusChangeExplained
    TellsWhatTheRoundChanged
    RecordedRegularly
    CpuLevelIsBusyShare
PROPERTIES
    StreamsImplemented
CHECK_DEADLOCK FALSE
