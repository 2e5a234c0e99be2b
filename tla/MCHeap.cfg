CONSTANTS
  NumBlocks = 9
  Sizes = {4, 5, 13, 28}
  Owners = {o1, o2, o3}
  NoOne = noone
  Preempt = FALSE
SPECIFICATION Spec
SYMMETRY MCSymmetry
INVARIANTS
  Integrity
  NoFreeNeighbours
  ContentKept
  NothingLost
  ZeroMeansOnePiece
PROPERTIES
  FailsOnlyWhenFull
CHECK_DEADLOCK FALSE
