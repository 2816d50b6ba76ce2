SPECIFICATION Spec
CONSTANTS
  N = 2
  ClientSets <- EverySetOfClients
  Policies <- EveryPolicy
  Owned = {TRUE}
  Slow = TRUE
  MaxTexts <- TwoUnlessTwoClients
  MaxErrors <- OneUnlessTwoClients
INVARIANTS
  TypeOK
  RequiredNeverInClear
  SentOncePerError
  PrivateIsBest
PROPERTY KeylessIsInherited
