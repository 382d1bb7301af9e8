CONSTANTS
  a = a
  b = b
  d = d
  x = x
  y = y
  z = z
  w = w
  NoTask = NoTask
  MainThread = MainThread
  Clients = {a, b}
  Tasks = {x, y, z}
  Posted <- PostedAll
  Children <- PairOfX
  Kind <- AllGenerate
  IdSlot <- ZWantsSlot1
  ActionSlot <- Slot0
  MayFailLaunch = {x}
  MayBeEmpty = {x}
  MayBeRejected = {x}
  Stream = {}
  MayDisconnect = {a}
  SleepEnabled = FALSE
  MayTerminate = FALSE
  MaxTokens = 2
  MaxFaults = 1
  NSlots = 2
SPECIFICATION FairSpec
CHECK_DEADLOCK FALSE
INVARIANT DeferredServedInTurn AnsweredAtMostOnce NoTaskLost ReaderLeavesNothing
PROPERTY EveryRequestAnswered CancelFreesSlots
