SPECIFICATION FairSpec
CONSTANTS
  A = A
  B = B
  Secrets = {s, t}
  Questions = {TRUE,FALSE}
  Aborting <- AllOrNoneAbort
  Verified <- OneVerified
  LeftOpen <- OneOrNoneOpen
  MaxRuns = 2
  MaxEvents = 3
CHECK_DEADLOCK FALSE
INVARIANT TypeOK
PROPERTIES
  ImplementsComparison
  NobodyWaits
