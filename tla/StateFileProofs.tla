-------------------------- MODULE StateFileProofs --------------------------
(***************************************************************************)
(* Theorems about the two modules of component_state.json, for any number  *)
(* of processes, ids, values, writers, clients and bounds: ComponentStore, *)
(* which rewrites it, and StatusMonitor, which polls it.                   *)
(***************************************************************************)
EXTENDS ComponentStore, StatusMonitor, FiniteSetTheorems, TLAPS

\* The holder of the lock is the process that reads; a call in its update is an update.
LockInv ==
    /\ \A p \in Procs : pc[p] = "read" <=> lock = p
    /\ \A p \in Procs : InUpdate(p) => op[p] \in Updates
    /\ \A p \in Procs : pc[p] = "read" => op[p] \in Updates \cup Queries
    /\ \A p \in Procs : pc[p] \in {"create", "acquire"} => op[p] \in Updates \cup Queries

\* Empty text holds no entry; a missing file has no text.
FileInv ==
    /\ file.len = 0 => file.doc = EmptyDoc
    /\ ~file.exists => file.len = 0

\* Until degraded: one update at a time is in its window, and it started from the
\* full history.
WindowInv ==
    ~degraded =>
        /\ file.doc \in Docs
        /\ \A p, q \in Procs : InUpdate(p) /\ InUpdate(q) => p = q
        /\ \A p \in Procs : InUpdate(p) => buf[p] = [last EXCEPT ![op[p].id] = op[p].val]
        /\ \A p \in Procs : pc[p] = "flush" => file = Emptied
        /\ (\A p \in Procs : pc[p] # "flush") => file.doc = last

\* The inductive invariant behind the theorems.
IInv == TypeOK /\ LockInv /\ FileInv /\ WindowInv

\* The empty document is a document.
LEMMA EmptyDocType == EmptyDoc \in Docs
  BY DEF EmptyDoc, Docs

\* A selection of a document (get_status) is a document.
LEMMA SelectType == ASSUME NEW d \in Docs, NEW S PROVE Select(d, S) \in Docs
  BY DEF Select, Docs

\* get_status returns an outcome.
LEMMA AnswerType ==
    ASSUME NEW d \in Docs, NEW o \in Queries
    PROVE  Answer(d, o) \in [tag : Tags, doc : Docs]
  BY SelectType, EmptyDocType DEF Answer, Plain, Outcome, Tags

\* An exception, or the end of an update, is an outcome.
LEMMA PlainType == ASSUME NEW t \in Tags PROVE Plain(t) \in [tag : Tags, doc : Docs]
  BY EmptyDocType DEF Plain, Outcome

\* Writing a document over a file leaves a file with text; over an empty file, that document.
LEMMA OverlayType ==
    ASSUME NEW f \in Files, NEW d \in Docs
    PROVE  /\ Overlay(f, d) \in Files
           /\ Overlay(f, d).len # 0
           /\ Overlay(f, d).exists
           /\ f.len = 0 => Overlay(f, d).doc = d
  BY ConstantsAssumption DEF Overlay, Files

\* A call that ends keeps the types of the locals of every process.
LEMMA ReturnType ==
    ASSUME TypeOK, NEW p \in Procs, NEW r \in [tag : Tags, doc : Docs], Return(p, r)
    PROVE  /\ pc' \in [Procs -> {"idle", "create", "acquire", "read", "truncate", "flush"}]
           /\ op' \in [Procs -> Updates \cup Queries \cup {NoOp}]
           /\ buf' \in [Procs -> Docs]
           /\ result' \in [Procs -> [tag : Tags, doc : Docs]]
  BY EmptyDocType DEF Return, TypeOK

\* A call that ends while it holds the lock gives it back.
LEMMA ReturnLock ==
    ASSUME TypeOK, LockInv, NEW p \in Procs, NEW r, Return(p, r),
           lock' = IF lock = p THEN NoProc ELSE lock
    PROVE  LockInv'
  BY ConstantsAssumption DEF Return, TypeOK, LockInv, InUpdate

\* The invariant holds in the initial state.
LEMMA InitInv == Init => IInv
  <1> SUFFICES ASSUME Init PROVE IInv
    OBVIOUS
  <1>1. TypeOK
    BY EmptyDocType, PlainType DEF Init, TypeOK, Files, Tags
  <1>2. LockInv /\ FileInv
    BY ConstantsAssumption DEF Init, LockInv, FileInv, InUpdate
  <1>3. WindowInv
    BY EmptyDocType DEF Init, WindowInv, InUpdate
  <1> QED
    BY <1>1, <1>2, <1>3 DEF IInv

\* ComponentStore() keeps the invariant: nothing is locked or written yet.
LEMMA OpenInv ==
    ASSUME IInv, NEW p \in Procs, NEW o \in Updates \cup Queries, Open(p, o) PROVE IInv'
  <1> USE DEF IInv, Open
  <1>1. TypeOK'
    BY DEF TypeOK
  <1>2. LockInv' /\ FileInv'
    BY DEF TypeOK, LockInv, FileInv, InUpdate
  <1>3. WindowInv'
    <2>1. \A q \in Procs : /\ InUpdate(q)' = InUpdate(q)
                           /\ InUpdate(q) => op'[q] = op[q]
                           /\ pc'[q] = "flush" <=> pc[q] = "flush"
      BY DEF TypeOK, InUpdate
    <2> QED
      BY <2>1 DEF WindowInv
  <1> QED
    BY <1>1, <1>2, <1>3

\* Creating the file keeps the invariant: it degrades the store if there was text.
LEMMA CreateInv ==
    ASSUME IInv, NEW p \in Procs, Create(p) PROVE IInv'
  <1> USE DEF IInv, Create
  <1>1. TypeOK'
    BY EmptyDocType DEF TypeOK, Emptied, Files
  <1>2. LockInv' /\ FileInv'
    BY DEF TypeOK, LockInv, FileInv, InUpdate, Emptied
  <1>3. WindowInv'
    <2> SUFFICES ASSUME ~degraded' PROVE WindowInv'
      BY DEF WindowInv
    <2>1. ~degraded /\ file.len = 0 /\ file.doc = EmptyDoc /\ file'.doc = EmptyDoc
      <3>1. ~degraded /\ ~(file.len > 0)
        BY Zenon
      <3>2. file.len \in Nat
        BY DEF TypeOK, Files
      <3>3. file.len = 0
        BY <3>1, <3>2
      <3> QED
        BY <3>1, <3>3 DEF FileInv, Emptied
    <2>2. \A q \in Procs : /\ InUpdate(q)' = InUpdate(q)
                           /\ pc'[q] = "flush" <=> pc[q] = "flush"
      BY DEF TypeOK, InUpdate
    <2> QED
      BY <2>1, <2>2, EmptyDocType DEF WindowInv
  <1> QED
    BY <1>1, <1>2, <1>3

\* Taking the lock keeps the invariant: nobody else is in its read.
LEMMA AcquireInv ==
    ASSUME IInv, NEW p \in Procs, Acquire(p) PROVE IInv'
  <1> USE DEF IInv, Acquire
  <1>1. TypeOK'
    BY DEF TypeOK
  <1>2. LockInv' /\ FileInv'
    BY ConstantsAssumption DEF TypeOK, LockInv, FileInv, InUpdate
  <1>3. WindowInv'
    <2>1. \A q \in Procs : /\ InUpdate(q)' = InUpdate(q)
                           /\ pc'[q] = "flush" <=> pc[q] = "flush"
      BY DEF TypeOK, InUpdate
    <2> QED
      BY <2>1 DEF WindowInv
  <1> QED
    BY <1>1, <1>2, <1>3

\* A call that ends outside its update leaves the window of the others as it was.
LEMMA ReturnWindow ==
    ASSUME TypeOK, WindowInv, NEW p \in Procs, NEW r, Return(p, r), ~InUpdate(p),
           UNCHANGED <<file, last>>, degraded => degraded'
    PROVE  WindowInv'
  <1>1. \A q \in Procs : /\ InUpdate(q)' = InUpdate(q)
                         /\ InUpdate(q) => buf'[q] = buf[q] /\ op'[q] = op[q]
                         /\ pc'[q] = "flush" <=> pc[q] = "flush"
    BY DEF TypeOK, InUpdate, Return
  <1> QED
    BY <1>1 DEF WindowInv

\* A Timeout of the lock keeps the invariant.
LEMMA LockTimeoutInv ==
    ASSUME IInv, NEW p \in Procs, LockTimeout(p) PROVE IInv'
  <1> USE DEF IInv, LockTimeout
  <1>1. TypeOK'
    BY ReturnType, PlainType DEF TypeOK, Tags
  <1>2. LockInv' /\ FileInv'
    <2>1. lock # p
      BY DEF LockInv
    <2> QED
      BY <2>1, ReturnLock DEF FileInv
  <1>3. WindowInv'
    BY ReturnWindow DEF InUpdate
  <1> QED
    BY <1>1, <1>2, <1>3

\* A JSONDecodeError keeps the invariant.
LEMMA ReadFailsInv ==
    ASSUME IInv, NEW p \in Procs, ReadFails(p) PROVE IInv'
  <1> USE DEF IInv, ReadFails
  <1>1. TypeOK'
    BY ReturnType, PlainType DEF TypeOK, Tags
  <1>2. LockInv' /\ FileInv'
    <2>1. lock = p
      BY DEF LockInv
    <2> QED
      BY <2>1, ReturnLock DEF FileInv
  <1>3. WindowInv'
    BY ReturnWindow DEF InUpdate
  <1> QED
    BY <1>1, <1>2, <1>3

\* get_status keeps the invariant.
LEMMA ReadForQueryInv ==
    ASSUME IInv, NEW p \in Procs, ReadForQuery(p) PROVE IInv'
  <1> USE DEF IInv, ReadForQuery
  <1>1. TypeOK'
    <2>1. file.doc \in Docs /\ op[p] \in Queries
      BY DEF TypeOK, Files, LockInv, Updates
    <2>2. Answer(file.doc, op[p]) \in [tag : Tags, doc : Docs]
      BY <2>1, AnswerType
    <2> QED
      BY <2>2, ReturnType DEF TypeOK
  <1>2. LockInv' /\ FileInv'
    <2>1. lock = p
      BY DEF LockInv
    <2> QED
      BY <2>1, ReturnLock DEF FileInv
  <1>3. WindowInv'
    BY ReturnWindow DEF InUpdate
  <1> QED
    BY <1>1, <1>2, <1>3

\* The read of update_status_file keeps the invariant: it sees the last updates, or it overlaps.
LEMMA ReadForUpdateInv ==
    ASSUME IInv, NEW p \in Procs, ReadForUpdate(p) PROVE IInv'
  <1> USE DEF IInv, ReadForUpdate
  <1>1. op[p] \in Updates /\ file.doc \in Docs /\ lock = p
    BY DEF TypeOK, Files, LockInv, Queries
  <1>2. [file.doc EXCEPT ![op[p].id] = op[p].val] \in Docs
    BY <1>1 DEF Docs, Updates
  <1>3. TypeOK'
    BY <1>2 DEF TypeOK
  <1>4. LockInv' /\ FileInv'
    BY <1>1, ConstantsAssumption DEF TypeOK, LockInv, FileInv, InUpdate
  <1>5. WindowInv'
    <2> SUFFICES ASSUME ~degraded' PROVE WindowInv'
      BY DEF WindowInv
    <2>1. ~degraded /\ \A q \in Procs : ~InUpdate(q)
      BY Zenon
    <2>2. file.doc = last
      BY <2>1 DEF WindowInv, InUpdate
    <2>3. \A q \in Procs : (InUpdate(q)' <=> q = p) /\ pc'[q] # "flush"
      BY <2>1 DEF TypeOK, InUpdate
    <2> QED
      BY <1>1, <2>1, <2>2, <2>3 DEF WindowInv, TypeOK
  <1> QED
    BY <1>3, <1>4, <1>5

\* open("w") keeps the invariant.
LEMMA TruncateInv ==
    ASSUME IInv, NEW p \in Procs, Truncate(p) PROVE IInv'
  <1> USE DEF IInv, Truncate
  <1>1. TypeOK'
    BY EmptyDocType DEF TypeOK, Emptied, Files
  <1>2. LockInv' /\ FileInv'
    BY DEF TypeOK, LockInv, FileInv, InUpdate, Emptied
  <1>3. WindowInv'
    <2>1. \A q \in Procs : InUpdate(q)' = InUpdate(q)
      BY DEF TypeOK, InUpdate
    <2>2. pc'[p] = "flush" /\ InUpdate(p)
      BY DEF TypeOK, InUpdate
    <2>3. file'.doc \in Docs
      BY EmptyDocType DEF Emptied
    <2> QED
      BY <2>1, <2>2, <2>3 DEF WindowInv
  <1> QED
    BY <1>1, <1>2, <1>3

\* The flush keeps the invariant: undegraded, it goes to an empty file.
LEMMA FlushInv ==
    ASSUME IInv, NEW p \in Procs, Flush(p) PROVE IInv'
  <1> USE DEF IInv, Flush
  <1>1. op[p] \in Updates /\ buf[p] \in Docs /\ file \in Files /\ lock # p
    BY DEF LockInv, InUpdate, TypeOK
  <1>2. TypeOK'
    <2>1. last' \in Docs
      BY <1>1 DEF TypeOK, Docs, Updates
    <2> QED
      BY <1>1, <2>1, OverlayType, ReturnType, PlainType DEF TypeOK, Tags
  <1>3. LockInv' /\ FileInv'
    BY <1>1, ReturnLock, OverlayType DEF FileInv
  <1>4. WindowInv'
    <2> SUFFICES ASSUME ~degraded' PROVE WindowInv'
      BY DEF WindowInv
    <2>1. InUpdate(p) /\ file = Emptied /\ buf[p] = last'
      BY DEF WindowInv, InUpdate
    <2>2. file'.doc = buf[p]
      BY <1>1, <2>1, OverlayType DEF Emptied
    <2>3. \A q \in Procs : ~InUpdate(q)'
      BY <2>1 DEF WindowInv, InUpdate, Return, TypeOK
    <2>4. \A q \in Procs : pc'[q] # "flush"
      BY <2>3 DEF InUpdate
    <2> QED
      BY <1>1, <2>1, <2>2, <2>3, <2>4 DEF WindowInv
  <1> QED
    BY <1>2, <1>3, <1>4

\* A crash keeps the invariant: in a flush it degrades the store.
LEMMA CrashInv ==
    ASSUME IInv, NEW p \in Procs, Crash(p) PROVE IInv'
  <1> USE DEF IInv, Crash
  <1>1. TypeOK'
    BY ReturnType, PlainType DEF TypeOK, Tags
  <1>2. LockInv' /\ FileInv'
    BY ReturnLock DEF FileInv
  <1>3. WindowInv'
    <2> SUFFICES ASSUME ~degraded' PROVE WindowInv'
      BY DEF WindowInv
    <2>1. ~degraded /\ pc[p] # "flush"
      BY Zenon
    <2>2. \A q \in Procs : /\ InUpdate(q)' => InUpdate(q) /\ buf'[q] = buf[q] /\ op'[q] = op[q]
                           /\ pc'[q] = "flush" <=> pc[q] = "flush"
      BY <2>1 DEF TypeOK, InUpdate, Return
    <2> QED
      BY <2>1, <2>2 DEF WindowInv
  <1> QED
    BY <1>1, <1>2, <1>3

\* Every step keeps the invariant.
LEMMA StepInv == IInv /\ [Next]_vars => IInv'
  <1> SUFFICES ASSUME IInv, [Next]_vars PROVE IInv'
    OBVIOUS
  <1>1. CASE UNCHANGED vars
    BY <1>1 DEF vars, IInv, TypeOK, LockInv, FileInv, WindowInv, InUpdate
  <1>2. ASSUME NEW p \in Procs, Proceed(p) PROVE IInv'
    BY <1>2, CreateInv, AcquireInv, LockTimeoutInv, ReadFailsInv, ReadForQueryInv,
       ReadForUpdateInv, TruncateInv, FlushInv DEF Proceed
  <1> QED
    BY <1>1, <1>2, OpenInv, CrashInv DEF Next

\* The inductive invariant holds in every reachable state.
THEOREM Invariance == Spec => []IInv
  BY InitInv, StepInv, PTL DEF Spec

\* Every variable keeps its type.
THEOREM TypeCorrect == Spec => []TypeOK
  BY Invariance, PTL DEF IInv

\* Without a harmful overlap or a death inside the write, the file holds exactly the last
\* update of every component whenever no update is half way.
THEOREM HistoryKept == Spec => []SerialHistoryKept
  <1>1. IInv => SerialHistoryKept
    BY DEF IInv, WindowInv, SerialHistoryKept, InUpdate
  <1> QED
    BY <1>1, Invariance, PTL

\* A corrupt file is always the result of an overlap (or of a death inside the write).
THEOREM GarbageOnlyFromOverlap == Spec => []GarbageNeedsOverlap
  <1>1. IInv => GarbageNeedsOverlap
    BY ConstantsAssumption DEF IInv, WindowInv, GarbageNeedsOverlap
  <1> QED
    BY <1>1, Invariance, PTL

\* Once the file is corrupt and no write is under way, it is corrupt for good.
THEOREM CorruptionStays == Spec => CorruptionIsPermanent
  <1>1. IInv /\ [Next]_vars => (Stuck => Stuck')
    <2> SUFFICES ASSUME IInv, Stuck, [Next]_vars PROVE Stuck'
      OBVIOUS
    <2> USE DEF IInv, Stuck
    <2>0. file.exists
      BY EmptyDocType, ConstantsAssumption DEF FileInv, TypeOK, Files
    <2>1. CASE UNCHANGED vars
      BY <2>1 DEF vars
    <2>2. ASSUME NEW p \in Procs, NEW o \in Updates \cup Queries, Open(p, o) PROVE Stuck'
      BY <2>0, <2>2 DEF Open, TypeOK
    <2>3. ASSUME NEW p \in Procs, NEW r, Return(p, r), UNCHANGED file PROVE Stuck'
      BY <2>3 DEF Return, TypeOK
    <2>4. ASSUME NEW p \in Procs, Proceed(p) PROVE Stuck'
      <3>1. CASE Acquire(p)
        BY <3>1 DEF Acquire, TypeOK
      <3>2. ~Create(p) /\ ~ReadForQuery(p) /\ ~ReadForUpdate(p) /\ ~Truncate(p) /\ ~Flush(p)
        BY DEF Create, ReadForQuery, ReadForUpdate, Truncate, Flush
      <3>3. CASE LockTimeout(p) \/ ReadFails(p)
        BY <3>3, <2>3 DEF LockTimeout, ReadFails
      <3> QED
        BY <2>4, <3>1, <3>2, <3>3 DEF Proceed
    <2>5. ASSUME NEW p \in Procs, Crash(p) PROVE Stuck'
      BY <2>5, <2>3 DEF Crash
    <2> QED
      BY <2>1, <2>2, <2>4, <2>5 DEF Next
  <1> QED
    BY <1>1, Invariance, PTL DEF Spec, CorruptionIsPermanent
-----------------------------------------------------------------------------
(* ComponentStore implements StatusMap. *)

\* While no process is in its write, the content is the file; else it is that write.
LEMMA ContentDef ==
    /\ (\A q \in Procs : pc[q] # "flush") => Content = file.doc
    /\ \A p \in Procs : (/\ pc[p] = "flush"
                         /\ \A q \in Procs : pc[q] = "flush" => q = p) => Content = buf[p]
  BY DEF Content

\* A step that leaves the file, the flushers and their buffers alone leaves the content alone.
LEMMA SameContent ==
    ASSUME UNCHANGED file,
           \A q \in Procs : /\ pc'[q] = "flush" <=> pc[q] = "flush"
                            /\ pc[q] = "flush" => buf'[q] = buf[q],
           \A p, q \in Procs : pc[p] = "flush" /\ pc[q] = "flush" => p = q
    PROVE  Content' = Content
  <1>1. CASE \A q \in Procs : pc[q] # "flush"
    BY <1>1 DEF Content
  <1>2. ASSUME NEW p \in Procs, pc[p] = "flush" PROVE Content' = Content
    <2>1. \A q \in Procs : pc[q] = "flush" => q = p
      BY <1>2
    <2>2. Content = buf[p]
      BY <1>2, <2>1 DEF Content
    <2>3. Content' = buf'[p]
      BY <1>2, <2>1 DEF Content
    <2> QED
      BY <1>2, <2>2, <2>3
  <1> QED
    BY <1>1, <1>2

\* A step into or within the degraded part is allowed by the abstract store.
LEMMA DegradedStep ==
    ASSUME TypeOK', degraded' PROVE Promise!Anything
  BY DEF TypeOK, Promise!Anything, EmptyDoc

\* The initial states implement those of the abstract store.
LEMMA RefineInit == Init => Promise!Init
  <1> SUFFICES ASSUME Init PROVE Promise!Init
    OBVIOUS
  <1>1. ~degraded /\ Content = EmptyDoc /\ \A p \in Procs : pc[p] # "flush"
    BY ContentDef DEF Init
  <1> QED
    BY <1>1 DEF Init, Promise!Init, EmptyDoc

\* One flusher at a time until degraded.
LEMMA OneFlush ==
    ASSUME WindowInv, ~degraded
    PROVE  \A p, q \in Procs : pc[p] = "flush" /\ pc[q] = "flush" => p = q
  BY DEF WindowInv, InUpdate

\* A step that leaves the content, the flushers and the results alone is a stutter.
LEMMA Stutter ==
    ASSUME TypeOK, TypeOK', ~degraded, ~degraded', Content' = Content, result' = result,
           \A q \in Procs : pc'[q] = "flush" <=> pc[q] = "flush"
    PROVE  UNCHANGED Promise!vars
  <1>1. degraded = FALSE /\ degraded' = FALSE
    BY DEF TypeOK
  <1>2. \A q \in Procs : (pc'[q] = "flush") = (pc[q] = "flush")
    OBVIOUS
  <1> QED
    BY <1>1, <1>2 DEF Promise!vars

\* A call that ends outside its write has read the map or failed without effect.
LEMMA ReturnRefines ==
    ASSUME IInv, IInv', ~degraded, ~degraded', NEW p \in Procs, NEW r, Return(p, r),
           pc[p] # "flush", UNCHANGED file,
           \/ r \in {Plain(t) : t \in {"none", "Timeout", "crashed"}}
           \/ op[p] \in Queries /\ r = Answer(Content, op[p])
    PROVE  Promise!Next
  <1>1. \A q \in Procs : /\ pc'[q] = "flush" <=> pc[q] = "flush"
                         /\ pc[q] = "flush" => buf'[q] = buf[q]
    BY DEF Return, IInv, TypeOK
  <1>2. Content' = Content
    BY <1>1, SameContent, OneFlush DEF IInv
  <1>0. /\ degraded = FALSE /\ degraded' = FALSE
        /\ \A q \in Procs : (pc'[q] = "flush") = (pc[q] = "flush")
    BY <1>1 DEF IInv, TypeOK
  <1>3. CASE r \in {Plain(t) : t \in {"none", "Timeout", "crashed"}}
    <2>1. Promise!Fail(p, r)
      BY <1>0, <1>2 DEF Promise!Fail, Return
    <2> QED
      BY <1>3, <2>1 DEF Promise!Next
  <1>4. CASE op[p] \in Queries /\ r = Answer(Content, op[p])
    <2>1. Promise!Query(p, op[p])
      BY <1>0, <1>2, <1>4 DEF Promise!Query, Return
    <2> QED
      BY <1>4, <2>1 DEF Promise!Next
  <1> QED
    BY <1>3, <1>4

\* open("w") of an update is the point where the abstract update takes effect.
LEMMA TruncateRefines ==
    ASSUME IInv, ~degraded, NEW p \in Procs, Truncate(p)
    PROVE  Promise!Next
  <1> USE DEF IInv, Truncate
  <1>1. op[p] \in Updates /\ InUpdate(p)
    BY DEF LockInv, InUpdate
  <1>2. \A q \in Procs : pc[q] # "flush"
    BY <1>1 DEF WindowInv, InUpdate
  <1>3. Content = last
    BY <1>2, ContentDef DEF WindowInv
  <1>4. \A q \in Procs : pc'[q] = "flush" <=> q = p
    BY <1>2 DEF TypeOK
  <1>5. Content' = buf[p]
    BY <1>4 DEF Content
  <1>6. buf[p] = [Content EXCEPT ![op[p].id] = op[p].val]
    BY <1>1, <1>3 DEF WindowInv
  <1>7. PICK i \in Ids, v \in Values : i = op[p].id /\ v = op[p].val
    BY <1>1 DEF Updates
  <1>8. Promise!Update(p, i, v)
    BY <1>2, <1>4, <1>5, <1>6, <1>7 DEF Promise!Update
  <1> QED
    BY <1>8 DEF Promise!Next

\* The flush acknowledges the abstract update.
LEMMA FlushRefines ==
    ASSUME IInv, ~degraded, NEW p \in Procs, Flush(p)
    PROVE  Promise!Next
  <1> USE DEF IInv, Flush
  <1>1. buf[p] \in Docs /\ file \in Files /\ file.len = 0
    BY DEF TypeOK, WindowInv, Emptied
  <1>2. \A q \in Procs : pc[q] = "flush" => q = p
    BY OneFlush
  <1>3. Content = buf[p]
    BY <1>2, ContentDef
  <1>4. \A q \in Procs : pc'[q] # "flush"
    BY <1>2 DEF Return, TypeOK
  <1>5. Content' = file'.doc
    BY <1>4 DEF Content
  <1>6. file'.doc = buf[p]
    BY <1>1, OverlayType
  <1>7. Promise!Acknowledge(p)
    BY <1>2, <1>3, <1>4, <1>5, <1>6 DEF Promise!Acknowledge, Return
  <1> QED
    BY <1>7 DEF Promise!Next

\* Every step is a step of the abstract store or a stutter.
LEMMA RefineStep ==
    IInv /\ IInv' /\ [Next]_vars => [Promise!Next]_Promise!vars
  <1> SUFFICES ASSUME IInv, IInv', [Next]_vars PROVE [Promise!Next]_Promise!vars
    OBVIOUS
  <1>1. CASE degraded'
    BY <1>1, DegradedStep DEF IInv, Promise!Next
  <1>2. CASE UNCHANGED vars
    BY <1>2 DEF vars, Promise!vars, Content
  <1>3. ASSUME ~degraded', NEW p \in Procs, NEW o \in Updates \cup Queries, Open(p, o)
        PROVE  [Promise!Next]_Promise!vars
    <2>1. \A q \in Procs : pc'[q] = "flush" <=> pc[q] = "flush"
      BY <1>3 DEF Open, IInv, TypeOK
    <2>2. ~degraded /\ Content' = Content /\ result' = result
      BY <1>3, <2>1, SameContent, OneFlush DEF IInv, Open
    <2> QED
      BY <1>3, <2>1, <2>2, Stutter DEF IInv
  <1>4. ASSUME ~degraded', NEW p \in Procs, Proceed(p)
        PROVE  [Promise!Next]_Promise!vars
    <2>1. ~degraded
      BY <1>4, Zenon DEF Proceed, Create, Acquire, LockTimeout, ReadFails, ReadForQuery,
         ReadForUpdate, Truncate, Flush
    <2>2. CASE Create(p)
      <3>1. file.len = 0 /\ file.doc = EmptyDoc
        <4>1. ~(file.len > 0)
          BY <1>4, <2>2, Zenon DEF Create
        <4> QED
          BY <4>1 DEF IInv, TypeOK, Files, FileInv
      <3>2. \A q \in Procs : pc'[q] = "flush" <=> pc[q] = "flush"
        BY <2>2 DEF Create, IInv, TypeOK
      <3>3. file'.doc = file.doc /\ result' = result /\ buf' = buf
        BY <2>2, <3>1 DEF Create, Emptied
      <3>4. Content' = Content
        BY <3>2, <3>3, <2>1, OneFlush, ContentDef DEF Content, IInv
      <3> QED
        BY <1>4, <2>1, <3>2, <3>3, <3>4, Stutter DEF IInv
    <2>3. CASE Acquire(p) \/ ReadForUpdate(p)
      <3>1. \A q \in Procs : /\ pc'[q] = "flush" <=> pc[q] = "flush"
                             /\ pc[q] = "flush" => buf'[q] = buf[q]
        BY <2>3 DEF Acquire, ReadForUpdate, IInv, TypeOK
      <3>2. Content' = Content /\ result' = result
        BY <2>1, <2>3, <3>1, SameContent, OneFlush DEF IInv, Acquire, ReadForUpdate
      <3> QED
        BY <1>4, <2>1, <3>1, <3>2, Stutter DEF IInv
    <2>4. CASE LockTimeout(p)
      BY <1>4, <2>1, <2>4, ReturnRefines DEF LockTimeout
    <2>5. CASE ReadForQuery(p)
      <3>1. \A q \in Procs : pc[q] # "flush"
        BY <1>4, <2>5, Zenon DEF ReadForQuery
      <3>2. Content = file.doc /\ op[p] \in Queries
        BY <2>5, <3>1, ContentDef DEF ReadForQuery, IInv, LockInv, Updates
      <3> QED
        BY <1>4, <2>1, <2>5, <3>2, ReturnRefines DEF ReadForQuery
    <2>6. ~ReadFails(p)
      BY <2>1, ConstantsAssumption DEF ReadFails, IInv, WindowInv
    <2> QED
      BY <1>4, <2>1, <2>2, <2>3, <2>4, <2>5, <2>6, TruncateRefines, FlushRefines DEF Proceed
  <1>5. ASSUME ~degraded', NEW p \in Procs, Crash(p)
        PROVE  [Promise!Next]_Promise!vars
    <2>1. ~degraded /\ pc[p] # "flush"
      BY <1>5, Zenon DEF Crash
    <2> QED
      BY <1>5, <2>1, ReturnRefines DEF Crash
  <1> QED
    BY <1>1, <1>2, <1>3, <1>4, <1>5 DEF Next

\* Until it is degraded, the store is an atomic map.
THEOREM Refinement == Spec => AtomicUntilDegraded
  BY RefineInit, RefineStep, Invariance, PTL DEF Spec, AtomicUntilDegraded, Promise!Spec
-----------------------------------------------------------------------------
(* The status monitor. *)

\* The types the polling thread depends on, and what it has pushed.
PollInv ==
    /\ now \in 0..MaxTime /\ updates \in 0..MaxUpdates
    /\ stateFile \in StateDocs \cup {Empty, NotJson}
    /\ writer \in [Writers -> StateDocs \cup {None}]
    /\ previous \in StateDocs /\ notified \in StateDocs
    /\ PreviousIsNotified

\* The types of the handlers, the set of connections, and the event they share: it is set
\* from the first answer on, so a handler whose client has answered finds it set.
ConnInv ==
    /\ websockets \subseteq Clients
    /\ conn \in [Clients -> {"new", "listed", "idle", "pinged", "failed", "closed"}]
    /\ answered \in [Clients -> BOOLEAN]
    /\ pongEvent \in BOOLEAN
    /\ ListedIsServed
    /\ \A c \in Clients : conn[c] = "pinged" /\ answered[c] => pongEvent
-----------------------------------------------------------------------------
\* The queue of the notifications, which is made after the polling has begun, and the threads.
Notifications == Keys \X (0..MaxUpdates)
QueueInv ==
    /\ queue \in Seq(Notifications)
    /\ queueMade \in BOOLEAN
    /\ updater \in {"alive", "dead"}
    /\ pusher \in {"new", "waiting", "pushing", "dead"}
    /\ queueMade <=> pusher # "new"
    /\ queue # <<>> => queueMade
    /\ gone \subseteq Clients

\* A file that is not garbage is read as a document.
LEMMA ReadIsDoc ==
    ASSUME stateFile \in StateDocs \cup {Empty, NotJson}, stateFile # NotJson
    PROVE  Read \in StateDocs
BY DEF Read, NoEntries, StateDocs

\* A document in which an update has stamped an entry is a document.
LEMMA UpdateIsDoc ==
    ASSUME NEW d \in StateDocs, NEW i \in Keys, now \in 0..MaxTime, updates \in 0..MaxUpdates,
           updates < MaxUpdates
    PROVE  [d EXCEPT ![i] = [seq |-> updates + 1, stamp |-> now]] \in StateDocs
<1>1. updates + 1 \in 0..MaxUpdates
  BY StatusMonitorAssumption
<1>2. [seq |-> updates + 1, stamp |-> now] \in Entries
  BY <1>1 DEF Entries
<1>3. QED
  BY <1>2 DEF StateDocs

\* At the start the polling thread has the state it has read, and nothing is owed.
LEMMA InitPoll == MonitorInit => PollInv
<1>1. SUFFICES ASSUME MonitorInit PROVE PollInv
  OBVIOUS
<1>2. now \in 0..MaxTime /\ updates \in 0..MaxUpdates
  BY <1>1, StatusMonitorAssumption DEF MonitorInit
<1>3. stateFile \in StateDocs \cup {Empty}
  <2>1. [seq |-> 0, stamp |-> 0] \in Entries
    BY StatusMonitorAssumption DEF Entries
  <2>2. QED
    BY <1>1, <2>1 DEF MonitorInit, StateDocs
<1>4. Read \in StateDocs
  BY <1>3 DEF Read, NoEntries, StateDocs
<1>5. previous = Read /\ notified = previous
  BY <1>1 DEF MonitorInit
<1>6. PreviousIsNotified
  BY <1>5 DEF PreviousIsNotified
<1>7. writer = [w \in Writers |-> None]
  BY <1>1 DEF MonitorInit
<1>8. QED
  BY <1>2, <1>3, <1>4, <1>5, <1>6, <1>7 DEF PollInv

\* A poll pushes exactly the entries that it no longer owes afterwards.
LEMMA ScanPushes == PollInv /\ Scan => PollInv'
<1>1. SUFFICES ASSUME PollInv, Scan PROVE PollInv'
  OBVIOUS
<1>2. Read \in StateDocs
  BY <1>1, ReadIsDoc DEF PollInv, Scan, Polls
<1>3. /\ previous' = Read
      /\ notified' = [i \in Keys |-> IF i \in Changed THEN Read[i] ELSE notified[i]]
      /\ UNCHANGED fileVars
  BY <1>1 DEF Scan, Push
<1>4. notified' \in StateDocs
  BY <1>1, <1>2, <1>3 DEF PollInv, StateDocs
<1>5. ASSUME NEW i \in Keys, Read[i] # None
      PROVE  notified'[i] # None /\ notified'[i].stamp = Read[i].stamp
  <2>1. CASE i \in Changed
    BY <1>3, <1>5, <2>1
  <2>2. CASE i \notin Changed
    <3>1. previous[i] # None /\ previous[i].stamp = Read[i].stamp
      BY <1>5, <2>2 DEF Changed
    <3>2. notified[i] # None /\ notified[i].stamp = previous[i].stamp
      BY <1>1, <3>1 DEF PollInv, PreviousIsNotified
    <3>3. notified'[i] = notified[i]
      BY <1>3, <2>2
    <3>4. QED
      BY <3>1, <3>2, <3>3
  <2>3. QED
    BY <2>1, <2>2
<1>6. PreviousIsNotified'
  BY <1>3, <1>5 DEF PreviousIsNotified
<1>7. QED
  BY <1>1, <1>2, <1>3, <1>4, <1>6 DEF PollInv, fileVars

\* Every step keeps what the polling thread has pushed in agreement.
LEMMA StepPoll == PollInv /\ [MonitorNext]_monitorVars => PollInv'
<1>1. SUFFICES ASSUME PollInv, [MonitorNext]_monitorVars PROVE PollInv'
  OBVIOUS
<1>2. CASE Tick
  BY <1>1, <1>2, StatusMonitorAssumption DEF PollInv, Tick, threadVars, PreviousIsNotified
<1>3. ASSUME NEW w \in Writers, NEW i \in Keys, BeginWrite(w, i) PROVE PollInv'
  <2>1. Read \in StateDocs
    BY <1>1, <1>3, ReadIsDoc DEF PollInv, BeginWrite
  <2>2. [Read EXCEPT ![i] = [seq |-> updates + 1, stamp |-> now]] \in StateDocs
    BY <1>1, <1>3, <2>1, UpdateIsDoc DEF PollInv, BeginWrite
  <2>3. updates' \in 0..MaxUpdates
    BY <1>1, <1>3, StatusMonitorAssumption DEF PollInv, BeginWrite
  <2>4. UNCHANGED <<now, previous, notified>> /\ stateFile' = Empty
    BY <1>3 DEF BeginWrite, threadVars
  <2>5. writer' \in [Writers -> StateDocs \cup {None}]
    BY <1>1, <1>3, <2>2 DEF PollInv, BeginWrite
  <2>6. QED
    BY <1>1, <2>3, <2>4, <2>5 DEF PollInv, PreviousIsNotified
<1>4. ASSUME NEW w \in Writers, EndWrite(w) \/ WriterDies(w) PROVE PollInv'
  BY <1>1, <1>4 DEF PollInv, EndWrite, WriterDies, threadVars, PreviousIsNotified
<1>5. CASE Scan
  BY <1>1, <1>5, ScanPushes
<1>6. CASE MakeQueue \/ UpdaterDies \/ Take \/ Emit
  BY <1>1, <1>6 DEF PollInv, MakeQueue, UpdaterDies, Take, Emit, fileVars, PreviousIsNotified
<1>7. ASSUME NEW c \in Clients, Serve(c) \/ Client(c) PROVE PollInv'
  <2>1. UNCHANGED <<fileVars, threadVars>>
    BY <1>7 DEF Serve, Client, Snapshot, SnapshotFails, Ping, PingFails, CheckPong, NoPong, Drop,
                Connect, Pong, Leave
  <2>2. QED
    BY <1>1, <2>1 DEF PollInv, PreviousIsNotified, fileVars, threadVars
<1>8. CASE UNCHANGED monitorVars
  BY <1>1, <1>8 DEF PollInv, PreviousIsNotified, monitorVars, fileVars, threadVars
<1>9. QED
  BY <1>1, <1>2, <1>3, <1>4, <1>5, <1>6, <1>7, <1>8 DEF MonitorNext, FileSteps, Threads
-----------------------------------------------------------------------------
\* Every step keeps the connections and their handlers in agreement.
LEMMA StepConn == ConnInv /\ [MonitorNext]_monitorVars => ConnInv'
<1>1. SUFFICES ASSUME ConnInv, [MonitorNext]_monitorVars PROVE ConnInv'
  OBVIOUS
<1>2. ASSUME NEW c \in Clients, Client(c) PROVE ConnInv'
  <2>1. CASE Connect(c)
    BY <1>1, <2>1 DEF ConnInv, ListedIsServed, Connect
  <2>2. CASE Pong(c)
    BY <1>1, <2>2 DEF ConnInv, ListedIsServed, Pong
  <2>3. CASE Leave(c)
    BY <1>1, <2>3 DEF ConnInv, ListedIsServed, Leave
  <2>4. QED
    BY <1>2, <2>1, <2>2, <2>3 DEF Client
<1>3. ASSUME NEW c \in Clients, Serve(c) PROVE ConnInv'
  <2>1. CASE Snapshot(c) \/ SnapshotFails(c)
    BY <1>1, <2>1 DEF ConnInv, ListedIsServed, Snapshot, SnapshotFails
  <2>2. CASE Ping(c)
    BY <1>1, <2>2 DEF ConnInv, ListedIsServed, Ping
  <2>3. CASE CheckPong(c)
    BY <1>1, <2>3 DEF ConnInv, ListedIsServed, CheckPong
  <2>4. CASE PingFails(c) \/ NoPong(c)
    BY <1>1, <2>4 DEF ConnInv, ListedIsServed, PingFails, NoPong, Drop
  <2>5. QED
    BY <1>3, <2>1, <2>2, <2>3, <2>4 DEF Serve
<1>4. CASE FileSteps \/ Threads \/ UNCHANGED monitorVars
  <2>1. UNCHANGED clientVars
    BY <1>4 DEF FileSteps, Threads, Tick, BeginWrite, EndWrite, WriterDies, MakeQueue, Scan, Push,
                UpdaterDies, Take, Emit, monitorVars
  <2>2. QED
    BY <1>1, <2>1 DEF ConnInv, ListedIsServed, clientVars
<1>5. QED
  BY <1>1, <1>2, <1>3, <1>4 DEF MonitorNext
-----------------------------------------------------------------------------
\* For any writers, whatever order their stamps reach the file in: what was pushed last of an
\* id has the stamp the polling thread compares with next (update_status_thread).
THEOREM NothingSkipped == MonitorSpec => []PreviousIsNotified
<1>1. PollInv => PreviousIsNotified
  BY DEF PollInv
<1>2. QED
  BY InitPoll, StepPoll, <1>1, PTL DEF MonitorSpec

\* The handlers and the set of connections agree in every reachable state.
LEMMA ConnInvariant == MonitorSpec => []ConnInv
<1>1. MonitorInit => ConnInv
  BY DEF MonitorInit, ConnInv, ListedIsServed
<1>2. QED
  BY <1>1, StepConn, PTL DEF MonitorSpec

\* For any clients: a connection is in the set exactly while its handler serves it or has
\* failed in its first send (websocket_handler, manual_heartbeat).
THEOREM ListedServed == MonitorSpec => []ListedIsServed
<1>1. ConnInv => ListedIsServed
  BY DEF ConnInv
<1>2. QED
  BY ConnInvariant, <1>1, PTL

\* For any clients: the one event they share never makes the heartbeat of one drop a client
\* that has answered (manual_heartbeat, listen_for_close).
THEOREM AnsweringIsKept == MonitorSpec => AnsweringStays
<1>1. ASSUME ConnInv, MonitorNext, NEW c \in Clients, conn[c] = "pinged", answered[c]
      PROVE  conn'[c] # "closed"
  <2>1. pongEvent
    BY <1>1 DEF ConnInv
  <2>2. ASSUME NEW d \in Clients, Serve(d) \/ Client(d) PROVE conn'[c] # "closed"
    BY <1>1, <2>1, <2>2 DEF ConnInv, Serve, Client, Snapshot, SnapshotFails, Ping, PingFails,
                CheckPong, NoPong, Drop, Connect, Pong, Leave
  <2>3. CASE FileSteps \/ Threads
    <3>1. conn' = conn
      BY <2>3 DEF FileSteps, Threads, Tick, BeginWrite, EndWrite, WriterDies, MakeQueue, Scan, Push,
                  UpdaterDies, Take, Emit, clientVars
    <3>2. QED
      BY <1>1, <3>1
  <2>4. QED
    BY <1>1, <2>2, <2>3 DEF MonitorNext
<1>2. ConnInv /\ [MonitorNext]_monitorVars =>
        [\A c \in Clients : conn[c] = "pinged" /\ answered[c] => conn'[c] # "closed"]_monitorVars
  BY <1>1
<1>3. QED
  BY ConnInvariant, <1>2, PTL DEF MonitorSpec, AnsweringStays
-----------------------------------------------------------------------------
(* The types of the monitor, the queue included. *)

\* The elements of a finite set make a sequence; those of the empty one the empty sequence.
LEMMA SetToSeqType ==
    ASSUME NEW S, IsFiniteSet(S)
    PROVE  SetToSeq(S) \in Seq(S) /\ (S = {} => SetToSeq(S) = <<>>)
<1>1. Cardinality(S) \in Nat /\ ExistsBijection(1..Cardinality(S), S)
  BY FS_CardinalityType
<1>2. \E f \in [1..Cardinality(S) -> S] : IsInjective(f)
  BY <1>1, Zenon DEF ExistsBijection, Bijection, Injection
<1>3. SetToSeq(S) \in [1..Cardinality(S) -> S]
  BY <1>2, Zenon DEF SetToSeq
<1>4. SetToSeq(S) \in Seq(S)
  BY <1>1, <1>3
<1>5. ASSUME S = {} PROVE SetToSeq(S) = <<>>
  <2>1. Cardinality(S) = 0
    BY <1>5, FS_EmptySet
  <2>2. QED
    BY <1>3, <1>4, <2>1
<1>6. QED
  BY <1>4, <1>5

\* What a poll queues: ids of the document it has read, each with its update.
LEMMA PushedType ==
    ASSUME Read \in StateDocs, updates \in 0..MaxUpdates
    PROVE  /\ SetToSeq({<<i, Read[i].seq>> : i \in Changed}) \in Seq(Notifications)
           /\ Changed = {} => SetToSeq({<<i, Read[i].seq>> : i \in Changed}) = <<>>
<1> DEFINE S == {<<i, Read[i].seq>> : i \in Changed}
<1>1. \A i \in Changed : i \in Keys /\ Read[i] \in Entries
  BY DEF Changed, StateDocs
<1>2. S \subseteq Notifications
  BY <1>1 DEF Entries, Notifications
<1>3. IsFiniteSet(Notifications)
  <2>1. IsFiniteSet(0..MaxUpdates)
    <3>1. 0 \in Int /\ MaxUpdates \in Int
      BY StatusMonitorAssumption
    <3>2. QED
      BY <3>1, FS_Interval
  <2>2. QED
    BY <2>1, FS_Product, StatusMonitorAssumption DEF Notifications
<1>4. IsFiniteSet(S)
  BY <1>2, <1>3, FS_Subset
<1>5. SetToSeq(S) \in Seq(S) /\ (S = {} => SetToSeq(S) = <<>>)
  BY <1>4, SetToSeqType
<1>6. Changed = {} => S = {}
  OBVIOUS
<1> HIDE DEF S
<1>7. SetToSeq(S) \in Seq(Notifications)
  BY <1>2, <1>5
<1>8. QED
  BY <1>5, <1>6, <1>7 DEF S

\* Every step keeps the queue and the places of the two threads.
LEMMA StepQueue == PollInv /\ QueueInv /\ [MonitorNext]_monitorVars => QueueInv'
<1>1. SUFFICES ASSUME PollInv, QueueInv, [MonitorNext]_monitorVars PROVE QueueInv'
  OBVIOUS
<1>2. CASE Scan
  <2> DEFINE pushed == SetToSeq({<<i, Read[i].seq>> : i \in Changed})
  <2>1. Read \in StateDocs
    BY <1>1, <1>2, ReadIsDoc DEF PollInv, Scan, Polls
  <2>2. pushed \in Seq(Notifications) /\ (Changed = {} => pushed = <<>>)
    BY <1>1, <2>1, PushedType DEF PollInv
  <2>3. /\ queue' = queue \o pushed
        /\ queueMade \/ Changed = {}
        /\ UNCHANGED <<queueMade, updater, pusher, gone>>
    BY <1>2 DEF Scan, Push, clientVars
  <2> HIDE DEF pushed
  <2>4. queue \in Seq(Notifications) /\ (queue # <<>> => queueMade)
    BY <1>1 DEF QueueInv
  <2>5. queue' \in Seq(Notifications)
    BY <2>2, <2>3, <2>4
  <2>6. queue' # <<>> => queueMade
    <3>1. ASSUME ~queueMade PROVE queue' = <<>>
      BY <3>1, <2>2, <2>3, <2>4
    <3>2. QED
      BY <3>1
  <2>7. QED
    BY <1>1, <2>3, <2>5, <2>6 DEF QueueInv
<1>3. CASE MakeQueue
  BY <1>1, <1>3 DEF QueueInv, MakeQueue, clientVars
<1>4. CASE UpdaterDies
  BY <1>1, <1>4 DEF QueueInv, UpdaterDies, clientVars
<1>5. CASE Emit
  BY <1>1, <1>5 DEF QueueInv, Emit, clientVars
<1>6. CASE Take
  BY <1>1, <1>6 DEF QueueInv, Take, clientVars
<1>7. CASE FileSteps \/ UNCHANGED monitorVars
  BY <1>1, <1>7 DEF QueueInv, FileSteps, Tick, BeginWrite, EndWrite, WriterDies, monitorVars,
                    threadVars, clientVars
<1>8. ASSUME NEW c \in Clients, Serve(c) \/ Client(c) PROVE QueueInv'
  BY <1>1, <1>8 DEF QueueInv, Serve, Client, Snapshot, SnapshotFails, Ping, PingFails, CheckPong,
                    NoPong, Drop, Connect, Pong, Leave, threadVars
<1>9. QED
  BY <1>1, <1>2, <1>3, <1>4, <1>5, <1>6, <1>7, <1>8 DEF MonitorNext, Threads

\* For any ids, writers, clients and bounds: the types of the monitor; only ids and updates
\* get into the queue, and none before it exists (push_notification_queue).
THEOREM MonitorTypes == MonitorSpec => []MonitorTypeOK
<1>1. MonitorInit => QueueInv
  <2>1. SUFFICES ASSUME MonitorInit PROVE QueueInv
    OBVIOUS
  <2>2. ~queueMade /\ queueMade \in BOOLEAN /\ pusher = "new" /\ updater = "alive" /\ gone = {}
    BY <2>1 DEF MonitorInit
  <2>3. queue = <<>> /\ <<>> \in Seq(Notifications)
    BY <2>1 DEF MonitorInit
  <2>4. QED
    BY <2>2, <2>3 DEF QueueInv
<1>2. PollInv /\ ConnInv /\ QueueInv => MonitorTypeOK
  BY DEF PollInv, ConnInv, QueueInv, Notifications, MonitorTypeOK
<1>3. QED
  BY <1>1, <1>2, InitPoll, StepPoll, ConnInvariant, StepQueue, PTL DEF MonitorSpec
=============================================================================
