SPECIFICATION Spec
CONSTANTS
  TREE_LEVELS = 2
  BLOCKS_PER_BUCKET = 1
  Keys = {k1, k2, k3, k4}
  Data = {d1}
  ZeroData = ZeroData
  NoData = NoData
  Ok = Ok
  Failed = Failed
  IdModulus = 4
INVARIANT PutStores
CHECK_DEADLOCK FALSE
