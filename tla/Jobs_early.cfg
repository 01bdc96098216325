SPECIFICATION Spec
CONSTANTS
    Windows = 2
    Workers = {w1, w2}
    MaxRetries = 1
    MaxRestarts = 1
    MaxExpiries = 0
CHECK_DEADLOCK FALSE
INVARIANT Kept
