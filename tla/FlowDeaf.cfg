SPECIFICATION FlowSpec
CONSTANTS
  Slips <- MCVendors
  Outcomes <- MCOutcomes
  concurrency = 2
  MaxCrashes = 0
  MaxDefects = 0
  f = f
  NoFlow = NoFlow
  Flows = {f}
  s1 = s1
  Starters = {s1}
  c1 = c1
  Signallers = {c1}
  MaxFaults = 0
INVARIANTS
  ParkedIsHeard
CHECK_DEADLOCK FALSE
