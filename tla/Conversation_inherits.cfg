SPECIFICATION Spec
CONSTANTS
  N = 1
  ClientSets <- OldAndNewClient
  Policies <- Always
  Owned = {TRUE}
  Slow = FALSE
  MaxTexts <- One
  MaxErrors <- None
INVARIANT EncryptedHasKeys
