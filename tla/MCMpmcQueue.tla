---------------------------- MODULE MCMpmcQueue ----------------------------
EXTENDS MpmcQueue, TLC

Symmetry == Permutations(Threads) \cup Permutations(Values)
=============================================================================
