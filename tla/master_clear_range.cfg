SPECIFICATION Spec
CONSTANTS
  Calls = {m1, m2}
  Requests <- MCRequests
  None = None
  d1 = d1
  d2 = d2
INVARIANT ClearRangeClears
CHECK_DEADLOCK FALSE
