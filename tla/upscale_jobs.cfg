SPECIFICATION FairSpec
CONSTANTS
  MaxJobs = 2
  Limits <- QueueLimits
  Kinds = {"sync", "later"}
  MaxFaults = 1
  MaxCrashes = 1
INVARIANTS SlotsTrue SuccessHonest JobAttended
PROPERTIES GpuSpared JobEnds
CHECK_DEADLOCK FALSE
