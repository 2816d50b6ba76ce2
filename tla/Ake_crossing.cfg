SPECIFICATION FairSpec
CONSTANTS
  A = A
  B = B
  Versions = {3}
  Starters = {A, B}
  MaxStarts = 2
  MaxDup = 0
  MaxEvents = 4
  Faults = {}
CHECK_DEADLOCK FALSE
PROPERTY OneCommitWins
