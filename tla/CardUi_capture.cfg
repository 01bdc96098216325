SPECIFICATION Spec
CONSTANTS
  ClosePollLimit = 2
  QueueSlots = 2
  Sources = {"todo", "sync"}
INVARIANTS
  CaptureFollowsPage
