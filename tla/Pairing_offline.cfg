SPECIFICATION FairSpec
CONSTANTS
    Accounts = {a, b}
    a = a
    b = b
    NoOne = NoOne
    MaxVisits = 1
    MaxUnbinds = 1
    FaultKinds = {"lost", "link", "slow", "power", "nvs"}
    MaxFaults = 1
PROPERTY BackOnline
CHECK_DEADLOCK FALSE
