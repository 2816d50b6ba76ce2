SPECIFICATION Spec
CONSTANTS
  A = A
  B = B
  Versions = {2}
  Starters = {A, B}
  MaxStarts = 2
  MaxDup = 0
  MaxEvents = 4
  Faults = {}
CHECK_DEADLOCK FALSE
INVARIANT RevealsWhatItCommitted
