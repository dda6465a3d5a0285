---------------------------- MODULE MCInvoicePage ----------------------------
\* Instance of InvoicePage for TLC.
EXTENDS InvoicePage, TLC

CONSTANTS i1, i2, k1, k2

Symmetry == Permutations(Calls)
=============================================================================
