SPECIFICATION FairSpec
CONSTANTS
  Callers = {"c1", "c2", "c3"}
  WindowSize = 3
  MinimumCalls = 2
  HalfOpenPermits = 2
  FailurePercent = 50
  SlowPercent = 100
  WaitInOpen = 1
  RetryAfters = {2}
  Unrecorded = TRUE
  MaxForces = 0
PROPERTIES
  Recovers
CHECK_DEADLOCK FALSE
