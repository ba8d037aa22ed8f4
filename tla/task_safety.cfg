SPECIFICATION Spec
CONSTANTS
  Workers = {w1, w2}
  Sources = {"web", "bot"}
  Sweeps = {"timer"}
  MaxDispatch = 1
  MaxAttempts = 2
  MaxFaults = 1
  MaxCrashes = 0
SYMMETRY WorkerSymmetry
INVARIANTS RefundedIffFailed ClaimsWithinOffers BotSuccessDelivered
PROPERTY TerminalIsFinal
CHECK_DEADLOCK FALSE
