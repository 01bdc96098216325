SPECIFICATION FairSpec
CONSTANTS
  ClosePollLimit = 2
  QueueSlots = 2
  Sources = {"alarm", "card", "sync", "results"}
PROPERTIES
    LockedKeepsRecording
    ReminderAfterClose
