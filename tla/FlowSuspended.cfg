SPECIFICATION BackSpec
CONSTANTS
  Slips <- MCCommitted
  Outcomes <- MCOutcomes
  concurrency = 1
  MaxCrashes = 0
  MaxDefects = 0
PROPERTIES
  RollsForward
CHECK_DEADLOCK FALSE
