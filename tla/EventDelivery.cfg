SPECIFICATION FairSpec
CONSTANTS
  Messages = {"m1"}
  Replicas = {"r1", "r2"}
  maxAttempts = 2
  MaxSends = 1
  MaxFaults = 2
  MaxPauses = 1
  MaxRefusals = 1
INVARIANTS
  NothingDropped
  QuarantineEarned
PROPERTIES
  Settled
CHECK_DEADLOCK FALSE
