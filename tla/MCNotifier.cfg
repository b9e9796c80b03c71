CONSTANTS
    MessageLength = 3
    Capacity = 2
    StdinOpen = {TRUE, FALSE}
    SigchldIgnored = {TRUE, FALSE}
    Dispositions = {"default", "ignore"}
SPECIFICATION FairSpec
INVARIANTS
    TypeOK
    SuccessMeansSent
    SurvivesEarlyEnd
    CommandsGetInheritedSigpipe
    NothingLeftBehind
    NoCircularWait
PROPERTIES
    SendReturns
