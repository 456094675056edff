SPECIFICATION Spec
CONSTANTS
    MaxOps = 2
    Carriers = 2
    Threshold = 2
INVARIANTS
    DisconnectedIsClean
    RoutesOutermost
    LeaseIsKept
    NothingIsShared
CHECK_DEADLOCK FALSE
