----------------------------- MODULE MCMtQueue -----------------------------
EXTENDS MtQueue, TLC

Symmetry == Permutations(Threads) \cup Permutations(Values)
=============================================================================
