SPECIFICATION Spec
CONSTANTS
    Last = 1
    MaxHeard = 2
    RingRoom = 2
    Room = 2
    FaultKinds = {}
    MaxFaults = 0
INVARIANTS AllHeardIsKept
CHECK_DEADLOCK FALSE
