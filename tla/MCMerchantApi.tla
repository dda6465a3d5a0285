--------------------------- MODULE MCMerchantApi ---------------------------
\* Instance of MerchantApi for TLC.
EXTENDS MerchantApi, TLC

CONSTANTS c1, c2

Symmetry == Permutations(Cmds)
=============================================================================
