CONSTANTS
    firstPath = firstPath
    secondPath = secondPath
    Paths <- MCPaths
    Limits = {2, 3}
    MaxRecordSize = 2
    MaxRecords = 4
    MaxRuns = 2
SPECIFICATION Spec
INVARIANTS LimitIsTheConfiguredOne
CHECK_DEADLOCK FALSE
