SPECIFICATION Spec
CONSTANTS
  Clients = {c1, c2}
  NoClient = NoClient
  Buckets = 3
  BatchBuckets = 2
  BranchBlocks = 2
  Torn = Torn
  Unfinished = Unfinished
  MaxCalls = 2
  MaxRestarts = 1
  MaxClears = 0
INVARIANT SavedOnSuccess
CHECK_DEADLOCK FALSE
