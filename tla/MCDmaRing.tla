------------------------------ MODULE MCDmaRing ------------------------------
EXTENDS DmaRing
=============================================================================
