SPECIFICATION Spec
CONSTANTS
  ClosePollLimit = 2
  QueueSlots = 2
  Sources = {"todo", "alarm", "pairing", "card", "battery"}
INVARIANTS
    MicHasUser
    NoDeadPage
    CaptureFollowsPage
