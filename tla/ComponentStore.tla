--------------------------- MODULE ComponentStore ---------------------------
(***************************************************************************)
(* electrumsv_sdk/components.py, class ComponentStore: the file            *)
(* component_state.json that every SDK process (CLI commands, the          *)
(* supervisors of background components, the status monitor) reads and     *)
(* rewrites.  One action per step another process can come between: the    *)
(* exists() test and the creation in __init__, the acquisition of the file *)
(* lock, the read under it, and the truncation (open "w") and the flush of *)
(* the new text, which are both outside the lock.                          *)
(***************************************************************************)
EXTENDS Naturals

CONSTANTS Procs,    \* processes that use the store
          Ids,      \* component ids
          Values,   \* what an entry may hold (component_state, pid, ...)
          Wanted,   \* the sets of ids a get_status by type or of everything selects
          Absent,   \* no entry
          Garbage,  \* text json.loads rejects
          NoProc,   \* the lock is free
          Size(_)   \* length of the text of a document

Docs == [Ids -> Values \cup {Absent}]
EmptyDoc == [i \in Ids |-> Absent]

ASSUME ConstantsAssumption ==
    /\ Absent \notin Values
    /\ Garbage \notin Docs
    /\ NoProc \notin Procs
    /\ \A d \in Docs : Size(d) \in Nat \ {0}

Updates == [kind : {"update"}, id : Ids, val : Values]
Queries == [kind : {"filter"}, want : Wanted] \cup [kind : {"byid"}, want : {{i} : i \in Ids}]
NoOp == [kind |-> "none"]

VARIABLES file,     \* component_state.json: exists, text length, what the text parses to
          lock,     \* holder of component_state.json.lock
          pc,       \* per process: where it is in the call
          op,       \* per process: the call
          buf,      \* per process: component_state, the document about to be written
          result,   \* per process: outcome of its last call
          last,     \* history: value of the last update_status_file of each id that returned
          degraded  \* history: a call has overlapped an update in a harmful way, or died in one

vars == <<file, lock, pc, op, buf, result, last, degraded>>

Outcome(tag, d) == [tag |-> tag, doc |-> d]
Plain(tag) == Outcome(tag, EmptyDoc)

\* What get_status returns from the parsed file.
Select(d, want) == [i \in Ids |-> IF i \in want THEN d[i] ELSE Absent]

Answer(d, o) ==
    IF o.kind = "byid" /\ \A i \in o.want : d[i] = Absent
    THEN Plain("ValueError")
    ELSE Outcome("answer", Select(d, o.want))

Emptied == [exists |-> TRUE, len |-> 0, doc |-> EmptyDoc]

\* Text written from offset 0 over a file of f.len characters.
Overlay(f, d) == [exists |-> TRUE,
                  len    |-> IF Size(d) >= f.len THEN Size(d) ELSE f.len,
                  doc    |-> IF Size(d) >= f.len THEN d ELSE Garbage]

InUpdate(p) == pc[p] \in {"truncate", "flush"}

Init ==
    /\ file = [exists |-> FALSE, len |-> 0, doc |-> EmptyDoc]
    /\ lock = NoProc
    /\ pc = [p \in Procs |-> "idle"]
    /\ op = [p \in Procs |-> NoOp]
    /\ buf = [p \in Procs |-> EmptyDoc]
    /\ result = [p \in Procs |-> Plain("none")]
    /\ last = EmptyDoc
    /\ degraded = FALSE

\* A call ends: its locals are gone, its outcome is kept.
Return(p, outcome) ==
    /\ pc' = [pc EXCEPT ![p] = "idle"]
    /\ op' = [op EXCEPT ![p] = NoOp]
    /\ buf' = [buf EXCEPT ![p] = EmptyDoc]
    /\ result' = [result EXCEPT ![p] = outcome]

\* ComponentStore() followed by one call: __init__ tests whether the file exists.
Open(p, o) ==
    /\ pc[p] = "idle"
    /\ op' = [op EXCEPT ![p] = o]
    /\ pc' = [pc EXCEPT ![p] = IF file.exists THEN "acquire" ELSE "create"]
    /\ UNCHANGED <<file, lock, buf, result, last, degraded>>

\* open(path, 'w').close(): by now another process may have created and filled the file.
Create(p) ==
    /\ pc[p] = "create"
    /\ file' = Emptied
    /\ pc' = [pc EXCEPT ![p] = "acquire"]
    /\ degraded' = (degraded \/ file.len > 0)
    /\ UNCHANGED <<lock, op, buf, result, last>>

Acquire(p) ==
    /\ pc[p] = "acquire"
    /\ lock = NoProc
    /\ lock' = p
    /\ pc' = [pc EXCEPT ![p] = "read"]
    /\ UNCHANGED <<file, op, buf, result, last, degraded>>

\* Mutant of LockTimeout: FileLock without a timeout polls for ever.
LockPolls(p) ==
    /\ pc[p] = "acquire"
    /\ lock # NoProc
    /\ UNCHANGED vars

\* FileLock(timeout=5) raises Timeout when somebody else keeps the lock.
LockTimeout(p) ==
    /\ pc[p] = "acquire"
    /\ lock # NoProc
    /\ Return(p, Plain("Timeout"))
    /\ UNCHANGED <<file, lock, last, degraded>>

\* json.loads raises under the lock; `with` releases it.
ReadFails(p) ==
    /\ pc[p] = "read"
    /\ file.doc = Garbage
    /\ lock' = NoProc
    /\ Return(p, Plain("JSONDecodeError"))
    /\ UNCHANGED <<file, last, degraded>>

\* get_status: empty text is {}, so a reader of a file that is being rewritten sees no entry.
ReadForQuery(p) ==
    /\ pc[p] = "read"
    /\ op[p].kind # "update"
    /\ file.doc # Garbage
    /\ lock' = NoProc
    /\ Return(p, Answer(file.doc, op[p]))
    /\ degraded' = (degraded \/ \E q \in Procs : pc[q] = "flush")
    /\ UNCHANGED <<file, last>>

\* Mutant of ReadForUpdate: the document is built from nothing.
ReadForUpdateAfresh(p) ==
    /\ pc[p] = "read"
    /\ op[p].kind = "update"
    /\ file.doc # Garbage
    /\ lock' = NoProc
    /\ buf' = [buf EXCEPT ![p] = [EmptyDoc EXCEPT ![op[p].id] = op[p].val]]
    /\ pc' = [pc EXCEPT ![p] = "truncate"]
    /\ degraded' = (degraded \/ \E q \in Procs : InUpdate(q))
    /\ UNCHANGED <<file, op, result, last>>

\* update_status_file: the read, the release of the lock, the entry set in memory.
ReadForUpdate(p) ==
    /\ pc[p] = "read"
    /\ op[p].kind = "update"
    /\ file.doc # Garbage
    /\ lock' = NoProc
    /\ buf' = [buf EXCEPT ![p] = [file.doc EXCEPT ![op[p].id] = op[p].val]]
    /\ pc' = [pc EXCEPT ![p] = "truncate"]
    /\ degraded' = (degraded \/ \E q \in Procs : InUpdate(q))
    /\ UNCHANGED <<file, op, result, last>>

\* open(path, "w")
Truncate(p) ==
    /\ pc[p] = "truncate"
    /\ file' = Emptied
    /\ pc' = [pc EXCEPT ![p] = "flush"]
    /\ UNCHANGED <<lock, op, buf, result, last, degraded>>

\* f.write(json.dumps(...)); f.flush()
Flush(p) ==
    /\ pc[p] = "flush"
    /\ file' = Overlay(file, buf[p])
    /\ last' = [last EXCEPT ![op[p].id] = op[p].val]
    /\ Return(p, Plain("ok"))
    /\ UNCHANGED <<lock, degraded>>

\* The process is killed; the operating system drops its lock and its unflushed text.
Crash(p) ==
    /\ pc[p] # "idle"
    /\ lock' = IF lock = p THEN NoProc ELSE lock
    /\ Return(p, Plain("crashed"))
    /\ degraded' = (degraded \/ pc[p] = "flush")
    /\ UNCHANGED <<file, last>>

Proceed(p) ==
    \/ Create(p) \/ Acquire(p) \/ LockTimeout(p)
    \/ ReadFails(p) \/ ReadForQuery(p) \/ ReadForUpdate(p)
    \/ Truncate(p) \/ Flush(p)

Next == \E p \in Procs :
    \/ \E o \in Updates \cup Queries : Open(p, o)
    \/ Proceed(p)
    \/ Crash(p)

\* A process that is alive gets on with its call; nobody is forced to make one.
Fairness == \A p \in Procs : WF_vars(Proceed(p))

Spec == Init /\ [][Next]_vars
FairSpec == Spec /\ Fairness
-----------------------------------------------------------------------------
Files == [exists : BOOLEAN, len : Nat, doc : Docs \cup {Garbage}]
Tags == {"none", "ok", "answer", "ValueError", "Timeout", "JSONDecodeError", "crashed"}

\* Every variable keeps its type.
TypeOK ==
    /\ file \in Files
    /\ lock \in Procs \cup {NoProc}
    /\ pc \in [Procs -> {"idle", "create", "acquire", "read", "truncate", "flush"}]
    /\ op \in [Procs -> Updates \cup Queries \cup {NoOp}]
    /\ buf \in [Procs -> Docs]
    /\ result \in [Procs -> [tag : Tags, doc : Docs]]
    /\ last \in Docs
    /\ degraded \in BOOLEAN

\* As long as no call has overlapped an update between its read and its flush, and no
\* process has died between truncating and flushing, the file holds exactly the last
\* update of every component whenever no update is half way: read-modify-write of
\* update_status_file loses nothing by itself, and the window is the only danger.
SerialHistoryKept ==
    (~degraded /\ \A p \in Procs : ~InUpdate(p)) => file.doc = last

\* A file json.loads rejects, with no process past its read.
Stuck ==
    /\ file.doc = Garbage
    /\ \A p \in Procs : pc[p] \notin {"create", "truncate", "flush"}

\* A corrupt component_state.json never heals: once no write is under way, whatever calls are
\* made each raises before it would write, because update_status_file reads first.
CorruptionIsPermanent == [][Stuck => Stuck']_vars

\* Garbage comes only from two processes that were both past open("w") when they wrote.
GarbageNeedsOverlap == file.doc = Garbage => degraded

\* Every call of the store ends, with an answer or an exception: the lock is always given
\* back and the 5 second timeout bounds the wait for it.
EveryCallEnds == \A p \in Procs : pc[p] # "idle" ~> pc[p] = "idle"

-----------------------------------------------------------------------------
(* Refinement of StatusMap: an update takes effect when it truncates the file. *)
Content == IF \E p \in Procs : pc[p] = "flush"
           THEN buf[CHOOSE p \in Procs : pc[p] = "flush"]
           ELSE file.doc

Promise == INSTANCE StatusMap WITH
    db <- IF degraded THEN EmptyDoc ELSE Content,
    applied <- [p \in Procs |-> ~degraded /\ pc[p] = "flush"],
    Results <- [tag : Tags, doc : Docs],
    Failures <- {Plain(t) : t \in {"none", "Timeout", "crashed"}},
    Done <- Plain("ok")

\* Until it is degraded the store is an atomic map: an update changes its own entry only,
\* a query answers from the map as it is, and a call that raises Timeout or is killed
\* outside its write has changed nothing.
AtomicUntilDegraded == Promise!Spec
=============================================================================
