SPECIFICATION Spec
CONSTANTS
  r1 = r1
  r2 = r2
  r3 = r3
  r4 = r4
  f = f
  g = g
  NoRecord = NoRecord
  NoOne = NoOne
  Requests = {r1, r2, r3, r4}
  Prints = {f, g}
  MaxLapses = 2
  MaxFaults = 1
SYMMETRY Interchangeable
INVARIANTS
  TypeOK
  OneAtATime
  OneActPerRetention
  ReplaysItsAnswer
  KeyGivenBack
CHECK_DEADLOCK FALSE
