------------------------------ MODULE MCBFlush -------------------------------
EXTENDS BFlush

\* The boundary does not look at versions: no buffer is registered.
MCBufBlocks == [b \in {} |-> {}]

WriterSymmetry == Permutations(Writers)
=============================================================================
