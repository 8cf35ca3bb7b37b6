SPECIFICATION FairSpec
CONSTANTS
  Slips <- MCSlips
  Outcomes <- MCOutcomes
  concurrency = 2
  MaxCrashes = 2
  MaxDefects = 1
INVARIANTS
  TypeOK
  UndoesWhatItDid
  NeverBack
  SaysHowItEnded
  LosesOneGroup
  HeardUnlessWaited
PROPERTIES
  Concludes
CHECK_DEADLOCK FALSE
