CONSTANTS
  c1 = c1
  p1 = p1
  p2 = p2
  r1 = r1
  d1 = d1
  None = None
  Convs = {c1}
  Posts = {p1}
  ConvOf <- SameConv
  MayFail = {p1}
  Readers = {r1}
  Deleters = {d1}
  MaxBytes = 3
  Lens = {0, 1, 2, 4}
  Froms = {0, 1, 3}
  MaxProduced = 6
  MaxTime = 4
  TTL = 2
SPECIFICATION Spec
CHECK_DEADLOCK FALSE
PROPERTY FinalizedIsFrozen GcSparesRecent
INVARIANT TypeOK ContiguousReplay RingHoldsTail ReplayEndsComplete
