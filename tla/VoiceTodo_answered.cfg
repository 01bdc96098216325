SPECIFICATION FairSpec
CONSTANTS
    Last = 2
    MaxHeard = 1
    RingRoom = 1
    Room = 1
    FaultKinds = {}
    MaxFaults = 0
PROPERTIES Answered
CHECK_DEADLOCK FALSE
