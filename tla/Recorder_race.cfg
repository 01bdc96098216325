SPECIFICATION RecorderSpec
CONSTANTS
  ClosePollLimit = 2
  MaxSessions = 2
  MaxFrames = 2
  RingFrames = 2
  BlockFrames = 2
  SyncFrames = 2
  MaxFaults = 1
  KeySlots = 3
  Uploader = FALSE
INVARIANTS
  HomeCanRecord
CHECK_DEADLOCK FALSE
