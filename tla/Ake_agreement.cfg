SPECIFICATION Spec
CONSTANTS
  A = A
  B = B
  Versions = {2, 3}
  Starters = {A, B}
  MaxStarts = 3
  MaxDup = 1
  MaxEvents = 3
  Faults = {"reorder", "slow", "noprivkey", "leave"}
SYMMETRY Symmetry
CHECK_DEADLOCK FALSE
INVARIANT TypeOK
PROPERTIES
  InitiatorIsLast
  ImplementsKeyAgreement
