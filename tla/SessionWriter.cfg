SPECIFICATION FairSpec
CONSTANTS
  MaxSessions = 2
  MaxFrames = 4
  RingFrames = 2
  BlockFrames = 2
  SyncFrames = 2
  MaxFaults = 2
CHECK_DEADLOCK FALSE
INVARIANTS
    OfferedSurvives
    DoneIsWhole
PROPERTIES
    StopCloses
    ErrorTold
    KeepsRecordings
