SPECIFICATION FairSpec
CONSTANTS
  p1 = p1
  p2 = p2
  t1 = t1
  t2 = t2
  s1 = s1
  s2 = s2
  s3 = s3
  Processes = {p1, p2}
  Tasks = {t1, t2}
  Owner <- MCOwner
  Sites = {s1, s2, s3}
  Allowed <- MCAllowed
  Scopes = {"single_site", "all_enabled"}
  MaxAttempts = 2
  SiteRetries = 1
  MaxMinutes = 1
  MaxFaults = 1
INVARIANTS QuotaHeld CountTrue
PROPERTIES FallbackJust TaskEnds
CHECK_DEADLOCK FALSE
