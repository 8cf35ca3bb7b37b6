SPECIFICATION FlowSpec
CONSTANTS
  Slips <- MCSlips
  Outcomes <- MCOutcomes
  concurrency = 2
  MaxCrashes = 1
  MaxDefects = 0
  f = f
  g = g
  NoFlow = NoFlow
  Flows = {f, g}
  s1 = s1
  s2 = s2
  Starters = {s1, s2}
  c1 = c1
  c2 = c2
  Signallers = {c1, c2}
  MaxFaults = 1
SYMMETRY MCSymmetry
INVARIANTS
  AcceptedIsTheAnswer
  EndedStays
  ParkedIsSignallable
  StartedUnlessDied
CHECK_DEADLOCK FALSE
