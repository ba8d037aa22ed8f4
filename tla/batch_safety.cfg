SPECIFICATION FairSpec
CONSTANTS
  Count = 4
  Concurrency = 2
  StopAfter = 2
  AssistModes = {"off", "pending"}
  MaxLosses = 1
INVARIANTS RefundedIffFailed OutcomeTruthful AdvancePending
PROPERTIES StopNeedsFailures WindowRespected BatchConcludes
CHECK_DEADLOCK FALSE
