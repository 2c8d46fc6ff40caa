SPECIFICATION Spec
CONSTANTS
  NBlocks = 4
  TailBlocks = 0
  WordBits = 2
  Bufs = {}
  BufBlocks <- MCBufBlocks
  Modes = {"LOCK"}
  Writers = {w1}
  Kinds = {"cpu"}
  MaxTokens = 1
  MaxWrites = 2
  Grans = {1}
  MaxRanges = 2
  FAlls = {20}
  TStart = 1
  BlkCosts = {1}
  Margins = {10}
  Parts = {{0, 1}}
INVARIANT NoLostDirty
