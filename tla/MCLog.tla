------------------------------- MODULE MCLog -------------------------------
EXTENDS Log, TLC
Symmetry == Permutations(Procs) \cup Permutations(Blocks)
=============================================================================
