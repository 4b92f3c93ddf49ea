----------------------------- MODULE MCDatabase -----------------------------
EXTENDS Database, TLC
Symmetry == Permutations(Procs) \cup Permutations(Keys)
=============================================================================
