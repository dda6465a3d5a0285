-------------------------- MODULE MCInvoiceServer --------------------------
\* Instance of InvoiceServer for TLC: an invoice of at most one output, which t1 and t2 pay
\* and t3 pays too little.
EXTENDS InvoiceServer, TLC

CONSTANTS i1, p1, p2, t1, t2, t3, c1, c2

Outputs == [t \in {t1, t2, t3} |->
    CASE t = t1 -> {Output(0), Output(1)}
      [] t = t2 -> {Output(0)}
      [] t = t3 -> {[script |-> 0, amount |-> 0]}]
=============================================================================
