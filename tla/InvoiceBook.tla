----------------------------- MODULE InvoiceBook -----------------------------
(***************************************************************************)
(* What the payee may rely on: a book of invoices.  An invoice is opened   *)
(* with outputs that no other one has, and is paid in one step, by an      *)
(* accepted transaction with every output of it, for good -- but two pages *)
(* may contest an invoice that is not paid yet, whose payment may then     *)
(* change, and once scripts are reused the outputs may be another's too.   *)
(***************************************************************************)
CONSTANTS Invoices, Txs, TxOutputs, NoTx,
          Outputs  \* that invoices may have

VARIABLES book, accepted, contested, reused

vars == <<book, accepted, contested, reused>>

Init ==
    /\ book = [i \in Invoices |-> [state |-> "none", tx |-> NoTx, outs |-> {}]]
    /\ accepted = {}
    /\ contested = {}
    /\ reused = FALSE

Open(i, outs) ==
    /\ book[i].state = "none"
    /\ reused \/ \A j \in Invoices \ {i} : outs \cap book[j].outs = {}
    /\ book' = [book EXCEPT ![i] = [state |-> "UNPAID", tx |-> NoTx, outs |-> outs]]
    /\ UNCHANGED <<accepted, contested, reused>>

Close(i) ==
    /\ book[i].state # "none"
    /\ book' = [book EXCEPT ![i].state = "CLOSED"]
    /\ UNCHANGED <<accepted, contested, reused>>

Contest(i) ==
    /\ book[i].state # "none"
    /\ book[i].tx = NoTx
    /\ contested' = contested \cup {i}
    /\ UNCHANGED <<book, accepted, reused>>

Accept(t) ==
    /\ accepted' = accepted \cup {t}
    /\ UNCHANGED <<book, contested, reused>>

\* Also of a closed invoice: its payment was on the way.
Pay(i, t) ==
    /\ book[i].outs # {}
    /\ book[i].outs \subseteq TxOutputs[t]
    /\ t \in accepted
    /\ book[i].tx = NoTx \/ i \in contested
    /\ book' = [book EXCEPT ![i].state = "PAID", ![i].tx = t]
    /\ UNCHANGED <<accepted, contested, reused>>

Reuse ==
    /\ reused' = TRUE
    /\ UNCHANGED <<book, accepted, contested>>

Next ==
    \/ \E i \in Invoices :
         \/ \E outs \in SUBSET Outputs : Open(i, outs)
         \/ Close(i) \/ Contest(i)
         \/ \E t \in Txs : Pay(i, t)
    \/ \E t \in Txs : Accept(t)
    \/ Reuse

Spec == Init /\ [][Next]_vars
=============================================================================
