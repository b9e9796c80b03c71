CONSTANTS
    a = a
    b = b
    blankB = blankB
    command = command
    Empty = Empty
    TooLong = TooLong
    DefaultLogFile = DefaultLogFile
    DefaultLogMaxSize = 1048576
    Words <- MCWords
    Trim <- MCTrim
    FitsBuffer <- MCFitsBuffer
    Lines <- MCLines
    MaxLines = 3
    IntMax = 127
    UIntMax = 255
    ULongMax = 2000000
    CONFIG_MAX_PROCESS_NAMES = 2
    CONFIG_MAX_NETWORK_INTERFACES = 2
    MAX_MONITORED_PROCESSES = 2
SPECIFICATION Spec
INVARIANTS
    TypeOK
    InForceIsUsable
    TargetsMonitorable
PROPERTIES
    WholeTextOrNothing
    TargetsAsDocumented
