SPECIFICATION FairSpec
CONSTANTS
    Last = 2
    Horizon = 4
    Window = 3
    Day = 2
    Bindings = 2
    MaxChanges = 2
    FaultKinds = {"lost", "power", "sd"}
    MaxFaults = 1
CHECK_DEADLOCK FALSE
INVARIANTS
    Isolated
    SameRevision
    Armed
PROPERTIES
    CatchesUp
