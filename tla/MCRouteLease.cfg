SPECIFICATION Spec
CONSTANTS
    Sessions = 2
    N = 2
    Faults = {"app", "helper", "child", "persist", "route", "xpc", "timeout", "reap"}
    MaxFaults = 3
INVARIANTS
    RoutesAreUnderLease
    LeaseIsRecorded
CHECK_DEADLOCK FALSE
