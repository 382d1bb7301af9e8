SPECIFICATION Spec
CONSTANTS
  w1 = w1
  w2 = w2
  Writers <- MCWriters
  Capacity = 3
  MaxAdds = 2
  MaxCalls = 3
INVARIANTS PrintedInOrder FlushedWhenPaused
PROPERTIES ReadsUndisturbed AddReturns PauseReturns
CHECK_DEADLOCK FALSE
