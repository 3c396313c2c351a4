SPECIFICATION Spec
CONSTANTS
  TREE_LEVELS = 8
  BLOCKS_PER_BUCKET = 1
  IdBits = 8
INVARIANTS
  IndexesNameTheBranch
  IntersectionIsLowest
  MissingLeafIsOutside
PROPERTY LoopsEnd
CHECK_DEADLOCK FALSE
