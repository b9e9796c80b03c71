CONSTANTS
    MessageLength = 1
    Capacity = 4
    StdinOpen = {FALSE}
    SigchldIgnored = {FALSE}
    Dispositions = {"default", "ignore"}
SPECIFICATION Spec
INVARIANTS SuccessMeansOnStdin
