---------------------------- MODULE MCLifecycle ----------------------------
\* Instance of Lifecycle for TLC.
EXTENDS Lifecycle, TLC

CONSTANTS i1, i2, r1, r2, r3, n1, n2, n3, c1

Symmetry == Permutations(Ids) \cup Permutations(Runs) \cup Permutations(Pids)
=============================================================================
