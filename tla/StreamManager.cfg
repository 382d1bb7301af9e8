CONSTANTS
  c1 = c1
  p1 = p1
  p2 = p2
  r1 = r1
  d1 = d1
  None = None
  Convs = {c1}
  Posts = {p1, p2}
  ConvOf <- SameConv
  MayFail = {p1, p2}
  Readers = {r1}
  Deleters = {d1}
  MaxBytes = 1
  Lens = {1}
  Froms = {0}
  MaxProduced = 1
  MaxTime = 1
  TTL = 1
SPECIFICATION FairSpec
CHECK_DEADLOCK FALSE
INVARIANT OneLiveSession
PROPERTY LiveStreamKeepsRing ReaderReleased StopTerminates
