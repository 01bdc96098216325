SPECIFICATION FairSpec
CONSTANTS
    Last = 2
    Page = 1
    MaxOrders = 1
    FaultKinds = {"lost", "late", "power", "io"}
    MaxFaults = 1
INVARIANTS
    DoneIsGone
PROPERTIES
    ListSettles
    OrdersEnd
