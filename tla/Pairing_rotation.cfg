SPECIFICATION Spec
CONSTANTS
    Accounts = {a, b}
    a = a
    b = b
    NoOne = NoOne
    MaxVisits = 1
    MaxUnbinds = 0
    FaultKinds = {"lost", "link", "slow", "power", "nvs"}
    MaxFaults = 0
INVARIANT OldTokenLives
CHECK_DEADLOCK FALSE
