SPECIFICATION Spec
CONSTANTS
  TREE_LEVELS = 2
  BLOCKS_PER_BUCKET = 1
  Keys = {k1, k2, k3}
  Data = {d1, d2}
  ZeroData = ZeroData
  NoData = NoData
  Ok = Ok
  Failed = Failed
  IdModulus = 4
SYMMETRY Symmetry
INVARIANTS
  OneCopy
  BlocksOnTheirPath
  KeysHaveTheirOwnBlocks
  NoBlockLost
  EvictionIsGreedy
  ClearRemovesBlock
  NeverCrashes
  NoLeafSentTwice
PROPERTIES
  ImplementsKVStore

