SPECIFICATION Spec
CONSTANTS
  Worlds <- CancelWorlds
  MaxAttempts = 2
  MaxFaults = 0
  QueueCap = 2
  AttemptCap = 6
PROPERTY OnlyIdleCancelled
