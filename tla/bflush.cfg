SPECIFICATION Spec
CONSTANTS
  NBlocks = 4
  TailBlocks = 0
  WordBits = 3
  Bufs = {}
  BufBlocks <- MCBufBlocks
  Modes = {"LOCK", "ATOMIC"}
  Writers = {w1, w2}
  Kinds = {"dma", "ext"}
  MaxTokens = 1
  MaxWrites = 2
  Grans = {1, 2}
  MaxRanges = 2
  FAlls = {3, 6}
  TStart = 1
  BlkCosts = {1}
  Margins = {10}
  Parts = {{0, 1}, {1, 2, 3}}
INVARIANTS TypeOK DirtyAccounted SnapshotSuperset
SYMMETRY WriterSymmetry
CHECK_DEADLOCK FALSE
