SPECIFICATION FairSpec
CONSTANTS
  Clients = {c1, c2}
  NoClient = NoClient
  Buckets = 3
  BatchBuckets = 2
  BranchBlocks = 2
  Torn = Torn
  Unfinished = Unfinished
  MaxCalls = 2
  MaxRestarts = 1
  MaxClears = 1
INVARIANTS
  TypeOK
  MessagesStayInStep
  FlagMeansTree
  ConfirmedIsCommitted
  FileDescribesTreeUnlessMishap
PROPERTIES
  NewestIsWritten
  ServerIsFreed
  InitializeReturns
  CallsReturn
CHECK_DEADLOCK FALSE
