SPECIFICATION FairSpec
CONSTANTS
  a1 = a1
  a2 = a2
  A = A
  NoEvent = NoEvent
  Events = {a1, a2}
  Aggregates = {A}
  AggOf <- MCAggOf
  VersionOf <- MCVersionOf
  AtOf <- MCAtOf
  Drains = {"sweep", "inline"}
  Sweeper = "sweep"
  Batch = 2
  MaxAttempts = 2
  MaxFaults = 1
INVARIANTS
  TypeOK
  TwiceOnlyIfShared
  OrderedUnlessRaced
PROPERTIES
  EventuallySettled
