SPECIFICATION Spec
CONSTANTS
  A = A
  B = B
  MaxAke = 2
  MaxSend <- FiveThenThree

SYMMETRY Symmetry
INVARIANTS
  TypeOK
  SlotsInSync
  KeyidsAgree
  NoReplay
  NoCounterReuse
  RevealedMacKeysAreDead
  InOrderReadable
  KeyGoneAfterRoundTrip
PROPERTY ImplementsChannel
