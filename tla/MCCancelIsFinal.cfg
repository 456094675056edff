SPECIFICATION Spec
CONSTANTS
    MaxOps = 1
    Carriers = 2
    Threshold = 1
PROPERTY
    CancelIsFinal
CHECK_DEADLOCK FALSE
