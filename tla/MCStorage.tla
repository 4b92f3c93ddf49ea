----------------------------- MODULE MCStorage ------------------------------
EXTENDS Storage, TLC
Symmetry == Permutations(Procs) \cup Permutations(Keys)
=============================================================================
