SPECIFICATION Spec
CONSTANTS
    Last = 1
    Page = 1
    MaxOrders = 1
    FaultKinds = {"power"}
    MaxFaults = 1
INVARIANT TakenUp
