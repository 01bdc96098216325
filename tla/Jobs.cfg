SPECIFICATION FairSpec
CONSTANTS
    Windows = 3
    Workers = {w1, w2}
    MaxRetries = 1
    MaxRestarts = 2
    MaxExpiries = 1
CHECK_DEADLOCK FALSE
INVARIANTS
    DoneIsWhole
PROPERTIES
    WholeIsLast
    CancelledStays
    Settles
