------------------------------ MODULE StatusMap ------------------------------
(***************************************************************************)
(* What the users of ComponentStore may rely on: a map from component ids  *)
(* to entries, updated and queried atomically, whose calls may also fail   *)
(* without effect -- until the promise is withdrawn for good ("degraded"), *)
(* after which calls may return anything.                                  *)
(***************************************************************************)
CONSTANTS Procs, Ids, Values, Absent, Queries, Results,
          Answer(_, _),   \* result of a query on a map
          Failures,       \* outcomes of a call that had no effect
          Done            \* outcome of an update that took effect

VARIABLES db, applied, result, degraded

vars == <<db, applied, result, degraded>>

Init ==
    /\ db = [i \in Ids |-> Absent]
    /\ applied = [p \in Procs |-> FALSE]
    /\ result \in [Procs -> Failures]
    /\ degraded = FALSE

Update(p, i, v) ==
    /\ ~degraded /\ ~applied[p]
    /\ db' = [db EXCEPT ![i] = v]
    /\ applied' = [applied EXCEPT ![p] = TRUE]
    /\ UNCHANGED <<result, degraded>>

Acknowledge(p) ==
    /\ ~degraded /\ applied[p]
    /\ applied' = [applied EXCEPT ![p] = FALSE]
    /\ result' = [result EXCEPT ![p] = Done]
    /\ UNCHANGED <<db, degraded>>

Query(p, o) ==
    /\ ~degraded /\ ~applied[p]
    /\ result' = [result EXCEPT ![p] = Answer(db, o)]
    /\ UNCHANGED <<db, applied, degraded>>

Fail(p, why) ==
    /\ ~degraded /\ ~applied[p]
    /\ result' = [result EXCEPT ![p] = why]
    /\ UNCHANGED <<db, applied, degraded>>

Anything ==
    /\ degraded' = TRUE
    /\ result' \in [Procs -> Results]
    /\ db' = [i \in Ids |-> Absent]
    /\ applied' = [p \in Procs |-> FALSE]

Next ==
    \/ \E p \in Procs :
         \/ \E i \in Ids, v \in Values : Update(p, i, v)
         \/ Acknowledge(p)
         \/ \E o \in Queries : Query(p, o)
         \/ \E why \in Failures : Fail(p, why)
    \/ Anything

Spec == Init /\ [][Next]_vars
=============================================================================
