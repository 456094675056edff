SPECIFICATION FairSpec
CONSTANTS
    MaxOps = 1
    Carriers = 2
    Threshold = 1
PROPERTY
    CommandsSettle
CHECK_DEADLOCK FALSE
