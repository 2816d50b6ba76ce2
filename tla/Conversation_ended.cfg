SPECIFICATION Spec
CONSTANTS
  N = 1
  ClientSets <- NewClient
  Policies <- Opportunistic
  Owned = {TRUE}
  Slow = FALSE
  MaxTexts <- Two
  MaxErrors <- None
PROPERTY EndedLetsNothingOut
