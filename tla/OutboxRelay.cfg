SPECIFICATION FairSpec
CONSTANTS
  a1 = a1
  a2 = a2
  b1 = b1
  A = A
  B = B
  NoEvent = NoEvent
  Events = {a1, a2, b1}
  Aggregates = {A, B}
  AggOf <- MCAggOf
  VersionOf <- MCVersionOf
  AtOf <- MCAtOf
  Drains = {"sweep", "inline"}
  Sweeper = "sweep"
  Batch = 2
  MaxAttempts = 2
  MaxUpsets = 1
INVARIANTS
  TypeOK
  OrderedFirstPublish
  NothingLost
  CeilingHolds
PROPERTIES
  RefinesPromise
  EventuallySettled
