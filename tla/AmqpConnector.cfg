SPECIFICATION FairSpec
CONSTANTS
  Callers = {d1}
  Consumers = {c1, c2}
  Pausable = {c1}
  MaxConns = 2
  MaxFaults = 1
  MaxWire = 2
INVARIANTS
  TypeOK
  OneSubscription
  IntakeStops
PROPERTIES
  Rearmed
CHECK_DEADLOCK FALSE
