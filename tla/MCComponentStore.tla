-------------------------- MODULE MCComponentStore --------------------------
\* Instance of ComponentStore for TLC.
EXTENDS ComponentStore, FiniteSets, TLC

CONSTANTS p1, p2, p3, i1, i2, running, failed

WantedAll == {Ids, {i1}}

\* An entry that says "Failed" is shorter than one that says "Running".
Width(v) == IF v = Absent THEN 0 ELSE IF v = failed THEN 2 ELSE 3
SizeOf(d) == 1 + Width(d[i1]) + Width(d[i2])

Symmetry == Permutations(Procs)
=============================================================================
