--------------------------- MODULE MCChainLedger ---------------------------
EXTENDS ChainLedger, TLC

CONSTANTS w1, w2

TwoWriters == {w1, w2}
TwoInos == {1, 2}
Symmetry == Permutations(TwoWriters)
============================================================================
