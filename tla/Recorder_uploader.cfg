SPECIFICATION RecorderSpec
CONSTANTS
  ClosePollLimit = 2
  MaxSessions = 1
  MaxFrames = 2
  RingFrames = 2
  BlockFrames = 2
  SyncFrames = 2
  MaxFaults = 1
  KeySlots = 2
  Uploader = TRUE
INVARIANTS
  Salvaging
CHECK_DEADLOCK FALSE
