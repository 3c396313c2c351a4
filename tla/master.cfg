SPECIFICATION FairSpec
CONSTANTS
  Calls = {m1, m2}
  Requests <- MCRequests
  None = None
  d1 = d1
  d2 = d2
INVARIANTS
  TypeOK
  KeysMatchStore
PROPERTIES
  ImplementsSharedStore
  CallsReturn
CHECK_DEADLOCK FALSE
