SPECIFICATION Spec
CONSTANTS
  Seqs = {0, 1}
  MaxPos = 3
  MaxAdd = 2
  Confs <- WindowReuse
INVARIANT
  CacheHoldsSlot
