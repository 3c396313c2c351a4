SPECIFICATION FairSpec
CONSTANTS
  TREE_LEVELS = 3
  BLOCKS_PER_BUCKET = 1
  Keys = {k1, k2}
  Data = {d1}
  ZeroData = ZeroData
  NoData = NoData
  Ok = Ok
  Failed = Failed
  IdModulus = 8
INVARIANTS
  OneCopy
  BlocksOnTheirPath
PROPERTY CallsReturn
