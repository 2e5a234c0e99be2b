CONSTANTS
  BlockCount = 4
  DataSize = 2
  NameSize = 1
  CounterSize = 65536
  Names = {n1, n2}
  Texts = {t1, t2}
  Sizes = {0, 2, 5}
  NoBlock = null
  NoName = noname
  NoEntry = none
  CutGrowth = FALSE
  OnlyWhileFree = TRUE
SPECIFICATION Spec
SYMMETRY MCSymmetry
INVARIANTS
  OneChainPerBlock
  NeverOverstated
PROPERTIES
  OnlyResetsLose
  OkMeansStored
  ImplementsStore
