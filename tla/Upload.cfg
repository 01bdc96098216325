SPECIFICATION FairSpec
CONSTANTS
    MaxPcm = 3
    CHUNK = 2
    BLOCK = 2
    MaxMarks = 1
    FaultKinds = {"lost", "late", "offline", "reset", "crash", "refused"}
    MaxFaults = 2
CHECK_DEADLOCK FALSE
INVARIANTS
    NothingLost
PROPERTIES
    StaysTaken
    HandsOver
    Uploaded
