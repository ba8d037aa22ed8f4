SPECIFICATION FairSpec
CONSTANTS
  Worlds <- LocalWorlds
  MaxAttempts = 2
  MaxFaults = 2
  QueueCap = 2
  AttemptCap = 6
INVARIANTS SucceededPaid CommittedDrawn ReservationHonest
PROPERTIES DrawnOnce JobSettles
