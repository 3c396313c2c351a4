SPECIFICATION Spec
CONSTANTS
  TREE_LEVELS = 2
  BLOCKS_PER_BUCKET = 1
  Keys = {k1, k2, k3, k4}
  Data = {d1}
  ZeroData = ZeroData
  NoData = NoData
  Ok = Ok
  Failed = Failed
  IdModulus = 3
SYMMETRY Symmetry
INVARIANTS
  TypeOK
  NoLeafSentTwice
PROPERTY FreshIdWhileOneIsLeft
CHECK_DEADLOCK FALSE
