SPECIFICATION Spec
CONSTANTS
  ClosePollLimit = 2
  QueueSlots = 2
  Sources = {"pairing"}
PROPERTIES
  BoundReturnsHome
