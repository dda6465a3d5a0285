---------------------------- MODULE MCInstances ----------------------------
\* Instance of Instances for TLC.
EXTENDS Instances, TLC

CONSTANTS s1, s2, s3

Symmetry == Permutations(Starts)
=============================================================================
