SPECIFICATION Spec
CONSTANTS
  TREE_LEVELS = 2
  BLOCKS_PER_BUCKET = 2
  Keys = {k1, k2}
  Data = {d1}
  ZeroData = ZeroData
  NoData = NoData
  Ok = Ok
  Failed = Failed
  IdModulus = 8
INVARIANT ClearRemovesBlock
CHECK_DEADLOCK FALSE
