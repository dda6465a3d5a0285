-------------------------- MODULE InstancesProofs --------------------------
(***************************************************************************)
(* Proofs of the safety properties of Instances for any number of start    *)
(* commands and any MaxId.  Two start commands that allocate at a time are *)
(* a pair of `raced` (Overlap), so a race at the directory (Doubled) or at *)
(* the port (Contended) is always such a pair.                             *)
(***************************************************************************)
EXTENDS Instances, TLAPS

\* The directory of a start command that has passed makedirs stays.
DirsKept == \A s \in Starts : Placed(s) => id[s] \in dirs

\* Two start commands that are allocating are a pair of `raced`.
Overlap == \A s, t \in Allocating : s # t => {s, t} \in raced

\* A start with --new that has found its directory free shares it only with one it raced.
Doubled ==
    \A s, t \in Starts :
        (isNew[s] /\ pc[s] = "mkdir" /\ s # t /\ Placed(t) /\ id[s] = id[t]) => {s, t} \in raced

IdInv == TypeOK /\ DirsKept /\ Overlap /\ Doubled /\ NewIsUniqueUnlessRaced

\* A start that has found its port free meets on it only one it raced.
Contended ==
    \A s \in Starts :
        (pc[s] \in {"spawn", "boot"} /\ listen[port[s]] # None) => {s, listen[port[s]]} \in raced

PortInv == TypeOK /\ Overlap /\ Contended
-----------------------------------------------------------------------------
\* No start command has begun in an initial state.
LEMMA InitIds == Init => IdInv
<1>1. SUFFICES ASSUME Init PROVE IdInv
  OBVIOUS
<1>2. TypeOK
  BY <1>1, InstancesAssumption DEF Init, TypeOK, Ports, Ids
<1>3. Allocating = {} /\ \A s \in Starts : ~Placed(s)
  BY <1>1 DEF Init, Allocating, Placed
<1>4. QED
  BY <1>2, <1>3 DEF IdInv, DirsKept, Overlap, Doubled, NewIsUniqueUnlessRaced

\* Every step keeps the types and who listens where.
LEMMA StepType == TypeOK /\ Next => TypeOK'
<1>1. SUFFICES ASSUME TypeOK, Next PROVE TypeOK'
  OBVIOUS
<1>2. ASSUME NEW s \in Starts, Begin(s) PROVE TypeOK'
  <2>1. ASSUME NEW new \in BOOLEAN, NEW i \in Ids, NEW w \in {"count", "mkdir", "exited"},
               Begins(s, new, i), Go(s, w)
        PROVE  TypeOK'
    <3>1. raced' \subseteq SUBSET Starts
      BY <1>1, <2>1 DEF TypeOK, Begins, Allocating
    <3>2. QED
      BY <1>1, <2>1, <3>1 DEF TypeOK, Begins, Go
  <2>2. Default \in Ids
    BY InstancesAssumption DEF Default, Ids
  <2>3. QED
    BY <1>2, <2>1, <2>2 DEF Begin, StartNew, StartId, StartNewId
<1>3. ASSUME NEW s \in Starts, Count(s) \/ CountEnds(s) PROVE TypeOK'
  <2>1. CASE Count(s)
    <3>1. id[s] + 1 \in Ids
      BY <1>1, <2>1, InstancesAssumption DEF TypeOK, Count, Ids
    <3>2. QED
      BY <1>1, <2>1, <3>1 DEF TypeOK, Count
  <2>2. CASE CountEnds(s)
    BY <1>1, <2>2 DEF TypeOK, CountEnds, Go
  <2>3. QED
    BY <1>3, <2>1, <2>2
<1>4. ASSUME NEW s \in Starts, MakeDir(s) PROVE TypeOK'
  <2>1. {0, 1} \subseteq Ports /\ id[s] \in Ids
    BY <1>1, <1>4, InstancesAssumption DEF Ports, TypeOK, MakeDir
  <2>2. QED
    BY <1>1, <1>4, <2>1 DEF TypeOK, MakeDir, Go
<1>5. ASSUME NEW s \in Starts, TakePort(s) \/ DefaultPortInUse(s) PROVE TypeOK'
  BY <1>1, <1>5 DEF TypeOK, TakePort, DefaultPortInUse, Go
<1>6. ASSUME NEW s \in Starts, NextPort(s) PROVE TypeOK'
  <2>1. port[s] + 1 \in Ports
    BY <1>1, <1>6, InstancesAssumption DEF TypeOK, NextPort, Ports
  <2>2. QED
    BY <1>1, <1>6, <2>1 DEF TypeOK, NextPort
<1>7. ASSUME NEW s \in Starts, Run(s) PROVE TypeOK'
  <2>1. CASE Spawn(s)
    BY <1>1, <2>1 DEF TypeOK, Spawn, Go
  <2>2. CASE Boot(s)
    BY <1>1, <2>2, InstancesAssumption DEF TypeOK, Boot, Go
  <2>3. CASE BootFails(s)
    BY <1>1, <2>3 DEF TypeOK, BootFails, Go
  <2>4. QED
    BY <1>7, <2>1, <2>2, <2>3 DEF Run
<1>8. ASSUME NEW s \in Starts, Ends(s) PROVE TypeOK'
  BY <1>1, <1>8 DEF TypeOK, Ends, Go
<1>9. ASSUME NEW i \in Ids, RpcStop(i) PROVE TypeOK'
  <2>1. PICK s \in Starts : s = listen[entry[i]] /\ pc[s] = "up" /\ port[s] = entry[i]
    BY <1>1, <1>9 DEF TypeOK, RpcStop
  <2>2. /\ listen' = [listen EXCEPT ![port[s]] = None]
        /\ pc' = [pc EXCEPT ![s] = "down"]
        /\ victims' = victims \cup {<<i, s>>}
    BY <1>9, <2>1 DEF RpcStop, Go
  <2>3. QED
    BY <1>1, <1>9, <2>1, <2>2 DEF TypeOK, RpcStop
<1>10. QED
  BY <1>1, <1>2, <1>3, <1>4, <1>5, <1>6, <1>7, <1>8, <1>9 DEF Next, Allocate

\* How a step changes what the rest of the proofs read.
LEMMA StepKinds ==
    ASSUME TypeOK, Next
    PROVE  \/ \E s \in Starts, new \in BOOLEAN, i \in Ids, w \in {"count", "mkdir", "exited"} :
                Begins(s, new, i) /\ Go(s, w) /\ (new => w = "count")
           \/ \E s \in Starts : Allocate(s) \/ Run(s) \/ Ends(s)
           \/ \E i \in Ids : RpcStop(i)
<1>1. Default \in Ids
  BY InstancesAssumption DEF Default, Ids
<1>2. QED
  BY <1>1 DEF Next, Begin, StartNew, StartId, StartNewId

\* A process that is stopped was up.
LEMMA StopIsDown ==
    ASSUME TypeOK, NEW i \in Ids, RpcStop(i)
    PROVE  \E s \in Starts : pc[s] = "up" /\ pc' = [pc EXCEPT ![s] = "down"]
BY DEF TypeOK, RpcStop, Go

\* The pairs that allocate at a time stay recorded in `raced`.
LEMMA StepOverlap == TypeOK /\ Overlap /\ Next => Overlap'
<1>1. SUFFICES ASSUME TypeOK, Overlap, Next PROVE Overlap'
  OBVIOUS
<1>2. ASSUME NEW s \in Starts, NEW new \in BOOLEAN, NEW i \in Ids,
             NEW w \in {"count", "mkdir", "exited"}, Begins(s, new, i), Go(s, w)
      PROVE  Overlap'
  <2>1. Allocating' \subseteq Allocating \cup {s}
    BY <1>1, <1>2 DEF TypeOK, Allocating, Go
  <2>2. \A t \in Allocating : {s, t} \in raced'
    BY <1>2 DEF Begins
  <2>3. raced \subseteq raced'
    BY <1>2 DEF Begins
  <2>4. SUFFICES ASSUME NEW t \in Allocating', NEW u \in Allocating', t # u
                 PROVE  {t, u} \in raced'
    BY DEF Overlap
  <2>5. CASE t \in Allocating /\ u \in Allocating
    BY <1>1, <2>3, <2>4, <2>5 DEF Overlap
  <2>6. CASE t = s /\ u \in Allocating
    BY <2>2, <2>6
  <2>7. CASE t \in Allocating /\ u = s
    <3>1. {t, u} = {s, t}
      BY <2>7
    <3>2. QED
      BY <2>2, <2>7, <3>1
  <2>8. QED
    BY <2>1, <2>4, <2>5, <2>6, <2>7
<1>3. ASSUME NEW s \in Starts, Allocate(s) \/ Run(s) \/ Ends(s) PROVE Overlap'
  <2>1. raced' = raced
    BY <1>3 DEF Allocate, Run, Count, CountEnds, MakeDir, TakePort, DefaultPortInUse, NextPort,
                Spawn, Boot, BootFails, Ends
  <2>2. Allocating' \subseteq Allocating
    BY <1>1, <1>3 DEF TypeOK, Allocating, Go, Allocate, Run, Count, CountEnds, MakeDir, TakePort,
                DefaultPortInUse, NextPort, Spawn, Boot, BootFails, Ends
  <2>3. QED
    BY <1>1, <2>1, <2>2 DEF Overlap
<1>4. ASSUME NEW i \in Ids, RpcStop(i) PROVE Overlap'
  <2>1. raced' = raced
    BY <1>4 DEF RpcStop
  <2>2. Allocating' \subseteq Allocating
    BY <1>1, <1>4, StopIsDown DEF TypeOK, Allocating
  <2>3. QED
    BY <1>1, <2>1, <2>2 DEF Overlap
<1>5. QED
  BY <1>1, <1>2, <1>3, <1>4, StepKinds
-----------------------------------------------------------------------------
\* A step that leaves what is allocated alone keeps the directories and the pairs.
LEMMA SameIds ==
    ASSUME TypeOK, DirsKept, Doubled, NewIsUniqueUnlessRaced,
           dirs' = dirs, isNew' = isNew, raced' = raced,
           \A t \in Starts : Placed(t)' => Placed(t) /\ id'[t] = id[t],
           \A t \in Starts : pc'[t] = "mkdir" => pc[t] = "mkdir" /\ id'[t] = id[t]
    PROVE  DirsKept' /\ Doubled' /\ NewIsUniqueUnlessRaced'
<1>1. DirsKept'
  BY DEF DirsKept
<1>2. Doubled'
  BY DEF Doubled
<1>3. NewIsUniqueUnlessRaced'
  BY DEF NewIsUniqueUnlessRaced
<1>4. QED
  BY <1>1, <1>2, <1>3

\* Every step keeps the directories of the start commands and the pairs that share one.
LEMMA StepIds == IdInv /\ Next => IdInv'
<1>1. SUFFICES ASSUME TypeOK, DirsKept, Overlap, Doubled, NewIsUniqueUnlessRaced, Next
               PROVE  DirsKept' /\ Doubled' /\ NewIsUniqueUnlessRaced'
  BY StepType, StepOverlap DEF IdInv
<1>2. ASSUME NEW s \in Starts, NEW new \in BOOLEAN, NEW i \in Ids,
             NEW w \in {"count", "mkdir", "exited"}, Begins(s, new, i), Go(s, w),
             new => w = "count"
      PROVE  DirsKept' /\ Doubled' /\ NewIsUniqueUnlessRaced'
  <2>1. \A t \in Starts : Placed(t)' => t # s /\ Placed(t) /\ id'[t] = id[t] /\ isNew'[t] = isNew[t]
    BY <1>1, <1>2 DEF TypeOK, Begins, Go, Placed
  <2>2. \A t \in Starts : isNew'[t] /\ pc'[t] = "mkdir" =>
                              isNew[t] /\ pc[t] = "mkdir" /\ id'[t] = id[t]
    BY <1>1, <1>2 DEF TypeOK, Begins, Go
  <2>3. dirs' = dirs /\ raced \subseteq raced'
    BY <1>2 DEF Begins
  <2>4. DirsKept'
    BY <1>1, <2>1, <2>3 DEF DirsKept
  <2>5. Doubled'
    BY <1>1, <2>1, <2>2, <2>3 DEF Doubled
  <2>6. NewIsUniqueUnlessRaced'
    BY <1>1, <2>1, <2>3 DEF NewIsUniqueUnlessRaced
  <2>7. QED
    BY <2>4, <2>5, <2>6
<1>3. ASSUME NEW s \in Starts, CountEnds(s)
      PROVE  DirsKept' /\ Doubled' /\ NewIsUniqueUnlessRaced'
  <2>1. \A t \in Starts : Placed(t)' => t # s /\ Placed(t) /\ id[t] # id[s]
    BY <1>1, <1>3 DEF TypeOK, CountEnds, Go, Placed, DirsKept
  <2>2. \A t \in Starts \ {s} : pc'[t] = pc[t]
    BY <1>1, <1>3 DEF TypeOK, CountEnds, Go
  <2>3. UNCHANGED <<dirs, isNew, id, raced>>
    BY <1>3 DEF CountEnds
  <2>4. Doubled'
    BY <1>1, <2>1, <2>2, <2>3 DEF Doubled
  <2>5. DirsKept' /\ NewIsUniqueUnlessRaced'
    BY <1>1, <2>1, <2>3 DEF DirsKept, NewIsUniqueUnlessRaced
  <2>6. QED
    BY <2>4, <2>5
<1>4. ASSUME NEW s \in Starts, MakeDir(s)
      PROVE  DirsKept' /\ Doubled' /\ NewIsUniqueUnlessRaced'
  <2>1. /\ UNCHANGED <<isNew, id, raced>>
        /\ dirs' = dirs \cup {id[s]} /\ pc[s] = "mkdir" /\ pc'[s] \in {"port", "spawn"}
        /\ \A t \in Starts \ {s} : pc'[t] = pc[t]
    BY <1>1, <1>4 DEF TypeOK, MakeDir, Go
  <2>2. \A t \in Starts \ {s} : Placed(t)' <=> Placed(t)
    BY <2>1 DEF Placed
  <2>3. DirsKept'
    BY <1>1, <2>1, <2>2 DEF DirsKept
  <2>4. \A t \in Starts : t # s /\ pc[t] = "mkdir" => {t, s} \in raced
    BY <1>1, <2>1 DEF Overlap, Allocating
  <2>5. Doubled'
    BY <1>1, <2>1, <2>2, <2>4 DEF Doubled
  <2>6. ASSUME NEW t \in Starts, t # s, isNew[s], Placed(t), id[s] = id[t]
        PROVE  {s, t} \in raced /\ {t, s} \in raced
    <3>1. {s, t} \in raced
      BY <1>1, <2>1, <2>6 DEF Doubled
    <3>2. {t, s} = {s, t}
      OBVIOUS
    <3>3. QED
      BY <3>1, <3>2
  <2>7. NewIsUniqueUnlessRaced'
    BY <1>1, <2>1, <2>2, <2>6 DEF NewIsUniqueUnlessRaced
  <2>8. QED
    BY <2>3, <2>5, <2>7
<1>5. ASSUME NEW s \in Starts, Count(s) \/ TakePort(s) \/ DefaultPortInUse(s) \/ NextPort(s)
                                 \/ Run(s) \/ Ends(s)
      PROVE  DirsKept' /\ Doubled' /\ NewIsUniqueUnlessRaced'
  <2>1. UNCHANGED <<dirs, isNew, raced>>
    BY <1>5 DEF Count, TakePort, DefaultPortInUse, NextPort, Run, Spawn, Boot, BootFails, Ends
  <2>2. /\ \A t \in Starts : Placed(t)' => Placed(t) /\ id'[t] = id[t]
        /\ \A t \in Starts : pc'[t] = "mkdir" => pc[t] = "mkdir" /\ id'[t] = id[t]
    BY <1>1, <1>5 DEF TypeOK, Placed, Go, Count, TakePort, DefaultPortInUse, NextPort, Run, Spawn,
                      Boot, BootFails, Ends
  <2>3. QED
    BY <1>1, <2>1, <2>2, SameIds
<1>6. ASSUME NEW i \in Ids, RpcStop(i)
      PROVE  DirsKept' /\ Doubled' /\ NewIsUniqueUnlessRaced'
  <2>1. PICK s \in Starts : pc[s] = "up" /\ pc' = [pc EXCEPT ![s] = "down"]
    BY <1>1, <1>6, StopIsDown
  <2>2. UNCHANGED <<dirs, isNew, id, raced>>
    BY <1>6 DEF RpcStop
  <2>3. /\ \A t \in Starts : Placed(t)' => Placed(t) /\ id'[t] = id[t]
        /\ \A t \in Starts : pc'[t] = "mkdir" => pc[t] = "mkdir" /\ id'[t] = id[t]
    BY <1>1, <2>1, <2>2 DEF TypeOK, Placed
  <2>4. QED
    BY <1>1, <2>2, <2>3, SameIds
<1>7. QED
  BY <1>1, <1>2, <1>3, <1>4, <1>5, <1>6, StepKinds DEF Allocate
-----------------------------------------------------------------------------
\* A step that starts no listening and frees no start for the port keeps Contended.
LEMMA SamePorts ==
    ASSUME TypeOK, Contended, raced \subseteq raced',
           \A t \in Starts : pc'[t] \in {"spawn", "boot"} =>
                (pc[t] \in {"spawn", "boot"} \/ listen[port[t]] = None) /\ port'[t] = port[t],
           \A p \in Ports : listen'[p] # None => listen'[p] = listen[p],
           \A t \in Starts : pc'[t] \in {"spawn", "boot"} => port[t] \in Ports
    PROVE  Contended'
BY DEF Contended

\* Every step keeps it that a start meets on its port only one it raced.
LEMMA StepPort ==
    ASSUME NetstatSeen, ~FixedPort, TypeOK, Overlap, Contended, Next
    PROVE  Contended'
<1>1. ASSUME NEW s \in Starts, NEW new \in BOOLEAN, NEW i \in Ids,
             NEW w \in {"count", "mkdir", "exited"}, Begins(s, new, i), Go(s, w)
      PROVE  Contended'
  <2>1. \A t \in Starts : pc'[t] \in {"spawn", "boot"} => pc[t] \in {"spawn", "boot"}
    BY <1>1 DEF TypeOK, Begins, Go
  <2>2. UNCHANGED <<port, listen>> /\ raced \subseteq raced'
    BY <1>1 DEF Begins
  <2>3. QED
    BY <2>1, <2>2 DEF Contended
<1>2. ASSUME NEW s \in Starts, Allocate(s) PROVE Contended'
  <2>1. UNCHANGED <<listen, raced>>
    BY <1>2 DEF Allocate, Count, CountEnds, MakeDir, TakePort, DefaultPortInUse, NextPort
  <2>2. \A t \in Starts : pc'[t] \in {"spawn", "boot"} =>
            (pc[t] \in {"spawn", "boot"} \/ listen[port[t]] = None) /\ port'[t] = port[t]
    BY <1>2 DEF TypeOK, Allocate, Count, CountEnds, MakeDir, TakePort, DefaultPortInUse, NextPort,
                InUse, Go
  <2>3. QED
    BY <2>1, <2>2 DEF Contended
<1>3. ASSUME NEW s \in Starts, Spawn(s) \/ BootFails(s) PROVE Contended'
  <2>1. UNCHANGED <<port, listen, raced>>
    BY <1>3 DEF Spawn, BootFails
  <2>2. \A t \in Starts : pc'[t] \in {"spawn", "boot"} => pc[t] \in {"spawn", "boot"}
    BY <1>3 DEF TypeOK, Spawn, BootFails, Go
  <2>3. QED
    BY <2>1, <2>2 DEF Contended
<1>4. ASSUME NEW s \in Starts, Boot(s) PROVE Contended'
  <2>1. /\ UNCHANGED <<port, raced>> /\ listen' = [listen EXCEPT ![port[s]] = s]
        /\ pc' = [pc EXCEPT ![s] = "up"] /\ pc[s] = "boot"
    BY <1>4 DEF Boot, Go
  <2>2. SUFFICES ASSUME NEW t \in Starts, pc'[t] \in {"spawn", "boot"}, listen'[port[t]] # None
                 PROVE  {t, listen'[port[t]]} \in raced
    BY <2>1 DEF Contended
  <2>3. t # s /\ pc[t] \in {"spawn", "boot"} /\ port[t] \in Ports
    BY <2>1, <2>2 DEF TypeOK
  <2>4. {t, s} \in raced
    BY <2>1, <2>3 DEF Overlap, Allocating
  <2>5. CASE port[t] = port[s]
    BY <2>1, <2>3, <2>4, <2>5 DEF TypeOK
  <2>6. CASE port[t] # port[s]
    BY <2>1, <2>2, <2>3, <2>6 DEF TypeOK, Contended
  <2>7. QED
    BY <2>5, <2>6
<1>5. ASSUME NEW s \in Starts, Ends(s) PROVE Contended'
  <2>1. /\ UNCHANGED <<port, raced>>
        /\ \A p \in Ports : listen'[p] # None => listen'[p] = listen[p]
        /\ \A t \in Starts : pc'[t] \in {"spawn", "boot"} => pc[t] \in {"spawn", "boot"}
    BY <1>5 DEF TypeOK, Ends, Go
  <2>2. QED
    BY <2>1, SamePorts DEF TypeOK
<1>6. ASSUME NEW i \in Ids, RpcStop(i) PROVE Contended'
  <2>1. PICK s \in Starts : pc[s] = "up" /\ pc' = [pc EXCEPT ![s] = "down"]
    BY <1>6, StopIsDown
  <2>2. /\ UNCHANGED <<port, raced>>
        /\ \A p \in Ports : listen'[p] # None => listen'[p] = listen[p]
    BY <1>6 DEF TypeOK, RpcStop
  <2>3. \A t \in Starts : pc'[t] \in {"spawn", "boot"} => pc[t] \in {"spawn", "boot"}
    BY <2>1 DEF TypeOK
  <2>4. QED
    BY <2>2, <2>3, SamePorts DEF TypeOK
<1>7. QED
  BY <1>1, <1>2, <1>3, <1>4, <1>5, <1>6, StepKinds DEF Run
-----------------------------------------------------------------------------
\* The identifiers, their directories and the pairs that share one, in every reachable state.
THEOREM IdInvariant == Spec => []IdInv
<1>1. IdInv /\ UNCHANGED vars => IdInv'
  BY DEF IdInv, TypeOK, DirsKept, Overlap, Doubled, NewIsUniqueUnlessRaced, Placed, Allocating, vars
<1>2. IdInv /\ [Next]_vars => IdInv'
  BY <1>1, StepIds
<1>3. QED
  BY InitIds, <1>2, PTL DEF Spec

\* Types, and a port is listened on by exactly the process that is up with it.
THEOREM TypeCorrect == Spec => []TypeOK
<1>1. IdInv => TypeOK
  BY DEF IdInv
<1>2. QED
  BY <1>1, IdInvariant, PTL

\* For any number of starts: two starts with --new that share an id allocated at a time
\* (get_component_datadir tests and makes the directory in two steps).
THEOREM NewUniqueUnlessRaced == Spec => []NewIsUniqueUnlessRaced
<1>1. IdInv => NewIsUniqueUnlessRaced
  BY DEF IdInv
<1>2. QED
  BY <1>1, IdInvariant, PTL

\* For any number of starts, where netstat can be read and the plugin has no port from its
\* environment: a start that finds its port taken lost it to one that allocated at the time
\* (get_component_port tests the port, the process binds it later).
THEOREM PortClashNeedsRace ==
    ASSUME NetstatSeen, ~FixedPort
    PROVE  Spec => []ClashNeedsRace
<1>1. Init => PortInv
  <2>1. Init => Contended
    BY DEF Init, Contended
  <2>2. QED
    BY <2>1, InitIds DEF PortInv, IdInv
<1>2. PortInv /\ UNCHANGED vars => PortInv'
  BY DEF PortInv, TypeOK, Overlap, Contended, Allocating, Placed, vars
<1>3. PortInv /\ Next => PortInv'
  BY StepType, StepOverlap, StepPort DEF PortInv
<1>4. PortInv => ClashNeedsRace
  BY DEF PortInv, Contended, ClashNeedsRace
<1>5. QED
  BY <1>1, <1>2, <1>3, <1>4, PTL DEF Spec
=============================================================================
