CONSTANTS
    MaxVersion = 2
    lo = lo
    eth = eth
    Interfaces <- MCInterfaces
    Loopback = lo
    Listed <- MCListed
    MaxBytes = 2
    MaxCarried = 2
SPECIFICATION SSpec
INVARIANTS
    TypeOK
    STypeOK
    ReloadNotLost
    SpeedBaseComparable
    OneSleepAfterStop
PROPERTIES
    StopEnds
    ReloadServed
    SpeedIsTraffic
CHECK_DEADLOCK FALSE
