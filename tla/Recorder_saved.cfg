SPECIFICATION RecorderSpec
CONSTANTS
  ClosePollLimit = 1
  MaxSessions = 3
  MaxFrames = 1
  RingFrames = 1
  BlockFrames = 1
  SyncFrames = 1
  MaxFaults = 1
  KeySlots = 3
  Uploader = FALSE
INVARIANTS
  SavedIsSaved
CHECK_DEADLOCK FALSE
