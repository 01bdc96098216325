SPECIFICATION FairRecorder
CONSTANTS
  ClosePollLimit = 2
  MaxSessions = 2
  MaxFrames = 2
  RingFrames = 2
  BlockFrames = 2
  SyncFrames = 2
  MaxFaults = 1
  KeySlots = 1
  Uploader = TRUE
INVARIANTS
  SavedIsSaved
  HomeCanRecord
PROPERTIES
  CloseSettles
CHECK_DEADLOCK FALSE
