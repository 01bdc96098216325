SPECIFICATION FairSpec
CONSTANTS
    Last = 2
    MaxHeard = 2
    RingRoom = 1
    Room = 1
    FaultKinds = {"lost", "late", "power", "restart", "sd", "slow", "asr"}
    MaxFaults = 2
CHECK_DEADLOCK FALSE
INVARIANTS
    SavedIsKept
    OneOwner
    OneEntry
PROPERTIES
    Resolved
