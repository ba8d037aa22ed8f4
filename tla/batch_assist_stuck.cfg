SPECIFICATION FairSpec
CONSTANTS
  Count = 3
  Concurrency = 2
  StopAfter = 2
  AssistModes = {"pending"}
  MaxLosses = 0
PROPERTY AlwaysConcludes
CHECK_DEADLOCK FALSE
