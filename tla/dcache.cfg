SPECIFICATION Spec
CONSTANTS
  buf = buf
  f1 = f1
  f2 = f2
  NBlocks = 3
  TailBlocks = 0
  WordBits = 3
  Bufs = {buf}
  BufBlocks <- MCBufBlocks
  Modes = {"ATOMIC"}
  Writers = {w}
  Kinds = {"cpu"}
  MaxTokens = 0
  MaxWrites = 1
  Readers = {r1, r2}
  Fmts = {f1, f2}
  Size <- MCSize
  MaxEntries = 2
  MaxBytes = 3
  Replacements = {"LRU", "DIRECT"}
INVARIANTS TypeOK Coherent BytesAccounted
PROPERTIES ReturnsCurrent CorpsesFirst
SYMMETRY ReaderSymmetry
CHECK_DEADLOCK FALSE
