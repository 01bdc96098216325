SPECIFICATION FairSpec
CONSTANTS
    MaxPresses = 1
    FaultKinds = {"link", "start", "slow", "wake", "alarm"}
    MaxFaults = 1
CHECK_DEADLOCK FALSE
PROPERTIES
    Reopens
    AgendaComes
    SleepsAgain
