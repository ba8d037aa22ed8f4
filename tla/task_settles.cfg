SPECIFICATION FairSpec
CONSTANTS
  Workers = {w1}
  Sources = {"web", "bot"}
  Sweeps = {"handler"}
  MaxDispatch = 2
  MaxAttempts = 2
  MaxFaults = 1
  MaxCrashes = 1
PROPERTY ChargeSettled
CHECK_DEADLOCK FALSE
