------------------------------ MODULE MCDCache -------------------------------
\* One buffer of two blocks, so that a copy can be torn, a block before it, and
\* two formats that the cache cannot hold in two versions each.
EXTENDS DCache, TLC

CONSTANTS buf, f1, f2
MCBufBlocks == buf :> {1, 2}
MCSize == f1 :> 1 @@ f2 :> 2

ReaderSymmetry == Permutations(Readers)
=============================================================================
