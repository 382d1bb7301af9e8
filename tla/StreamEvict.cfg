CONSTANTS
  c1 = c1
  p1 = p1
  p2 = p2
  r1 = r1
  d1 = d1
  None = None
  Convs = {c1}
  Posts = {p1, p2}
  ConvOf <- SameConv
  MayFail = {p1, p2}
  Readers = {}
  Deleters = {d1}
  MaxBytes = 2
  Lens = {1}
  Froms = {0}
  MaxProduced = 2
  MaxTime = 4
  TTL = 2
SPECIFICATION Spec
CHECK_DEADLOCK FALSE
INVARIANT FailedEvictsItsOwn
