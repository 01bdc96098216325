SPECIFICATION Spec
CONSTANTS
    Last = 2
    Horizon = 3
    Window = 2
    Day = 2
    Bindings = 2
    MaxChanges = 2
    FaultKinds = {}
    MaxFaults = 0
INVARIANTS ReadBack
CHECK_DEADLOCK FALSE
