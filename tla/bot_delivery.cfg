SPECIFICATION FairSpec
CONSTANTS
  p1 = p1
  p2 = p2
  s1 = s1
  d1 = d1
  Pollers = {p1, p2}
  Scanners = {s1}
  Drainers = {d1}
  MaxFaults = 1
  MaxCrashes = 1
INVARIANTS OneSender KeysHeld FlagsHeld SuccessAnswered PictureOnce
 
CHECK_DEADLOCK FALSE
