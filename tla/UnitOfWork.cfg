SPECIFICATION Spec
CONSTANTS
  r1 = r1  r2 = r2  r3 = r3
  c1 = c1  c2 = c2  f1 = f1  e1 = e1  e2 = e2
  Runs = {r1, r2, r3}
  Commands = {c1, c2}
  EventClaims = {f1}
  Events = {e1, e2}
  Scenarios <- MCScenarios
  NoOne = NoOne
  NoView = NoView
  Attempts = 2
  MaxFaults = 2
INVARIANTS
  TypeOK
PROPERTIES
  KeepsThePromise
  AppliedForward
