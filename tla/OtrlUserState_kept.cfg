SPECIFICATION SpecAll
CONSTANTS
  OldClient = o
  NewClient = x
  FirstAccount = a
  SecondAccount = b
  Correspondents = {o, x}
  Old = {o}
  Accounts = {a, b}
  AccountOf <- AccountOfEach
  Keys = {k, l}
  PoolSize = 2
  Outcomes = {"done", "unopened", "cut"}
  MaxEvents = 4
CHECK_DEADLOCK FALSE
INVARIANTS
  StateOK
  ActiveIsKnown
  FileIsMemory
  TrustIsTheUsers
  OneTag
PROPERTIES
  CommitsExpire
  IdentityLasts
