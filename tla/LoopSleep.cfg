CONSTANTS
  a = a
  b = b
  d = d
  x = x
  y = y
  z = z
  w = w
  NoTask = NoTask
  MainThread = MainThread
  Clients = {a, b, d}
  Tasks = {x, y, z, w}
  Posted <- PostedMixed
  Children <- NoChildren
  Kind <- MixedKinds
  IdSlot <- YWantsSlot3
  ActionSlot <- Slot0
  MayFailLaunch = {}
  MayBeEmpty = {}
  MayBeRejected = {}
  Stream = {w}
  MayDisconnect = {d}
  SleepEnabled = TRUE
  MayTerminate = TRUE
  MaxTokens = 2
  MaxFaults = 0
  NSlots = 2
SPECIFICATION FairSpec
CHECK_DEADLOCK FALSE
INVARIANT FinalIsLast SleepsOnlyWhenDrained
PROPERTY TerminateEndsLoop
