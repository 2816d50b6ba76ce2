SPECIFICATION Spec
CONSTANTS
  N = 1
  ClientSets <- NewClient
  Policies <- Always
  Owned = {TRUE}
  Slow = FALSE
  MaxTexts <- One
  MaxErrors <- None
INVARIANT HeldIsSentWhenPrivate
