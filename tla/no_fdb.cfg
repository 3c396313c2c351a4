SPECIFICATION FairSpec
CONSTANTS
  Limit = 2
  SHUTDOWN = SHUTDOWN
PROPERTY CallsReturn
CHECK_DEADLOCK FALSE
