SPECIFICATION FairSpec
CONSTANTS
    Sessions = 2
    N = 1
    Faults = {"app", "child"}
    MaxFaults = 2
PROPERTY
    AppLossIsCleaned
CHECK_DEADLOCK FALSE
