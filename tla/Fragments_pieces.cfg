SPECIFICATION FairSpec
CONSTANTS
  OldClient = o
  NewClient = c
  Clients = {o, c}
  Version <- TwoVersions
  Master = master
  MaxSize = 5
  HeaderLen <- HeaderLengths
  Lengths = {5, 6, 7}
  MaxSent = 3
  MaxLost = 3
  MaxShuffles = 1
  Faults = {{"lose", "end"}, {"overtake"}, {"repeat"}}
CHECK_DEADLOCK FALSE
INVARIANTS
  TypeOK
  MixesNeedLosses
PROPERTY Arrives
