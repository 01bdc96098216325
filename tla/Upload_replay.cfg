SPECIFICATION Spec
CONSTANTS
    MaxPcm = 2
    CHUNK = 2
    BLOCK = 3
    MaxMarks = 0
    FaultKinds = {"crash"}
    MaxFaults = 1
CHECK_DEADLOCK FALSE
INVARIANTS
    Replayable
