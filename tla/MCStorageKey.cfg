SPECIFICATION MCSpec
CONSTANTS
  a = a
  b = b
  c = c
  Captures = {a, b, c}
  CellsOf <- CellsDef
  Illegible = {b}
  MaxStarts = 3
  MaxFrameBytes = 3
  MaxStream = 9
  MaxChunk = 2
  Writers = {w1, w2}
  Seed = seed
  NoInode = noinode
  Unlocked = unlocked
INVARIANTS KeyOutlivesRestarts
CHECK_DEADLOCK FALSE
