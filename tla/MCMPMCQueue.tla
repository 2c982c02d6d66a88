----------------------------- MODULE MCMPMCQueue -----------------------------
EXTENDS MPMCQueue, TLC
Symmetry == Permutations(Producers) \cup Permutations(Consumers) \cup Permutations(Values)
=============================================================================
