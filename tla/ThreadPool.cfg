SPECIFICATION Spec
CONSTANTS
  N = 3
  NChunks = 8
  MaxGraphs = 2
  Graphs <- MCGraphs
INVARIANTS NodesInOrder ChunksOnce QuietAtReset
PROPERTY CallsReturn
CHECK_DEADLOCK FALSE
