SPECIFICATION Spec
CONSTANTS
  Seqs = {0, 1}
  MaxPos = 3
  MaxAdd = 2
  Confs <- AllConfs
INVARIANTS
  IndexAgrees
  CacheHoldsSlot
  NoHole
PROPERTY
  ImplementsSequences
