-------------------------- MODULE MCStatusMonitor --------------------------
\* Instance of StatusMonitor for TLC.
EXTENDS StatusMonitor, TLC

CONSTANTS a, b, w1, w2, c1, c2

Symmetry == Permutations(Keys) \cup Permutations(Writers) \cup Permutations(Clients)
=============================================================================
