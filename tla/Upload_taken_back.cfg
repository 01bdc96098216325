SPECIFICATION GuidedSpec
CONSTANTS
    MaxPcm = 3
    CHUNK = 2
    BLOCK = 2
    MaxMarks = 0
    FaultKinds = {"lost", "late", "crash"}
    MaxFaults = 5
CHECK_DEADLOCK FALSE
PROPERTIES
    StaysTaken
