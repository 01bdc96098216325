SPECIFICATION Spec
CONSTANTS
    Last = 1
    MaxHeard = 2
    RingRoom = 1
    Room = 2
    FaultKinds = {}
    MaxFaults = 0
INVARIANTS RingTakesAll
CHECK_DEADLOCK FALSE
