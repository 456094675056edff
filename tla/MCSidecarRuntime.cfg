SPECIFICATION FairSpec
CONSTANTS
  Launchers = {"local", "broker"}
  Kinds = {"connect", "disconnect_transport", "status"}
  MaxCalls = 4
  MaxFaults = 1
INVARIANT StreamIsClean
PROPERTIES
  AnswersAreTrue
  CallsEnd
CHECK_DEADLOCK FALSE
