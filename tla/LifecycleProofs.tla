-------------------------- MODULE LifecycleProofs --------------------------
(***************************************************************************)
(* Proofs of the safety properties of Lifecycle for any ids, runs, pids    *)
(* and stop commands.  A pid belongs to the run that was given it from the *)
(* start of its component to its reaping (PidsHeld), what is written of a  *)
(* run stays true of it (StoreWritten, SnapsWritten), two live runs of an  *)
(* id are noticed (SharedSeen), and a stop command always has a live       *)
(* component of its selection still before it (AimAhead).                  *)
(***************************************************************************)
EXTENDS Lifecycle, FiniteSetTheorems, TLAPS

Busy(r) == Supervised(r) \/ Live(r)

\* What the place of a supervisor says of its component.
PhaseFits ==
    \A r \in Runs :
        /\ phase[r] = "new" => rid[r] = None
        /\ phase[r] # "new" => rid[r] \in Ids
        /\ phase[r] \in {"new", "launch"} => child[r] = "none"
        /\ phase[r] \in {"report", "wait", "dead"} => child[r] # "none"
        /\ phase[r] = "exit" => child[r] = "exited"
        /\ phase[r] = "done" => child[r] # "alive"
        /\ child[r] # "none" => rpid[r] \in Pids

\* A component has its pid until it is reaped; nobody else has it meanwhile.
PidsHeld ==
    /\ \A n \in Pids : os[n] \in Runs => child[os[n]] # "none" /\ rpid[os[n]] = n
    /\ \A r \in Runs : Live(r) => os[rpid[r]] = r
    /\ \A r \in Runs : child[r] = "exited" /\ phase[r] \in {"exit", "done", "dead", "lost"}
                          => os[rpid[r]] # r
    /\ \A r \in Runs : child[r] = "exited" /\ phase[r] \in {"report", "wait"}
                          => os[rpid[r]] = r

\* An entry e of id i names a run of i and its pid.
Written(e, i) == rid[e.run] = i /\ rpid[e.run] = e.pid /\ child[e.run] # "none"

\* Entries are written for runs, the final ones when the run is done.
StoreWritten ==
    \A i \in Ids : store[i] # None =>
        Written(store[i], i) /\ (store[i].state # Running => phase[store[i].run] = "done")

\* Two runs of an id that are busy at a time make it shared.
SharedSeen ==
    \A q, r \in Runs : (q # r /\ Busy(q) /\ Busy(r) /\ rid[q] = rid[r]) => rid[r] \in shared

RunInv == TypeOK /\ PhaseFits /\ PidsHeld /\ StoreWritten /\ SharedSeen /\ LiveIsFindable

\* What a stop command has read was written for runs.
SnapWritten(c) ==
    /\ \A i \in Ids : cmd[c].snap[i] # None => Written(cmd[c].snap[i], i)
    /\ cmd[c].todo \subseteq cmd[c].scope
    /\ \A i \in cmd[c].todo : cmd[c].snap[i] # None
    /\ cmd[c].pc = "kill" => /\ cmd[c].target \in cmd[c].scope
                             /\ cmd[c].snap[cmd[c].target] # None
SnapsWritten == \A c \in Cmds : SnapWritten(c)

\* A live component that a stop command aims at is still before it: it has a round to go, or
\* the id is to be signalled or killed in this one under the pid that it has.
Before(c, r) ==
    /\ cmd[c].pc = "round" => cmd[c].rounds > 0
    /\ cmd[c].pc \in {"pick", "kill"} =>
          /\ cmd[c].snap[rid[r]] # None /\ cmd[c].snap[rid[r]].pid = rpid[r]
          /\ rid[r] \in cmd[c].todo \/ (cmd[c].pc = "kill" /\ cmd[c].target = rid[r])
Aimed(c, r) ==
    /\ rid[r] \in cmd[c].scope /\ child[r] # "none"
    /\ Live(r) => phase[r] \in {"wait", "dead"}
    /\ (Live(r) /\ rid[r] \notin shared) => Before(c, r)
AimAhead == \A c \in Cmds : \A r \in cmd[c].aim : Aimed(c, r)

StopInv == RunInv /\ SnapsWritten /\ AimAhead
-----------------------------------------------------------------------------
\* Nothing has been started in an initial state.
LEMMA InitInv == Init => StopInv
<1>1. SUFFICES ASSUME Init PROVE StopInv
  OBVIOUS
<1>2. TypeOK
  BY <1>1, LifecycleAssumption DEF Init, TypeOK, CmdStates, Idle, SuccessCode
<1>3. PhaseFits /\ PidsHeld /\ StoreWritten /\ SharedSeen /\ LiveIsFindable
  BY <1>1, LifecycleAssumption
     DEF Init, PhaseFits, PidsHeld, StoreWritten, SharedSeen, LiveIsFindable, Busy, Supervised, Live
<1>4. SnapsWritten /\ AimAhead
  BY <1>1 DEF Init, SnapsWritten, SnapWritten, AimAhead, Idle
<1>5. QED
  BY <1>2, <1>3, <1>4 DEF StopInv, RunInv

\* A component that ends keeps the types of what changes.
LEMMA ExitTypes ==
    ASSUME TypeOK, NEW r \in Runs, NEW c \in Int, Exit(r, c)
    PROVE  /\ child' \in [Runs -> {"none", "alive", "exited"}]
           /\ code' \in [Runs -> Int]
           /\ os' \in [Pids -> Runs \cup {Free, Foreign}]
BY DEF TypeOK, Exit, AfterExit

\* Every step keeps the types.
LEMMA StepType == TypeOK /\ PhaseFits /\ [Next]_vars => TypeOK'
<1> SUFFICES ASSUME TypeOK, PhaseFits, [Next]_vars PROVE TypeOK'
  OBVIOUS
<1>1. ASSUME NEW r \in Runs, NEW i \in Ids, NEW t \in BOOLEAN, Start(r, i, t) PROVE TypeOK'
  BY <1>1 DEF TypeOK, Start
<1>2. ASSUME NEW r \in Runs, Supervise(r) PROVE TypeOK'
  <2>1. ASSUME NEW n \in Pids, Launch(r, n) PROVE TypeOK'
    BY <2>1 DEF TypeOK, Launch
  <2>2. CASE LaunchFails(r)
    BY <2>2 DEF TypeOK, LaunchFails
  <2>3. CASE ReportRunning(r) \/ ReportExit(r)
    <3>1. rpid[r] \in Pids
      BY <2>3 DEF PhaseFits, ReportRunning, ReportExit
    <3>2. \A s \in {Running, Stopped, Failed} : Entry(r, s) \in Entries
      BY <3>1 DEF Entry, Entries
    <3>3. PICK s \in {Running, Stopped, Failed} : store' = [store EXCEPT ![rid[r]] = Entry(r, s)]
      BY <2>3 DEF ReportRunning, ReportExit
    <3>4. store' \in [Ids -> Entries \cup {None}]
      BY <3>2, <3>3 DEF TypeOK
    <3>5. QED
      BY <2>3, <3>4 DEF TypeOK, ReportRunning, ReportExit
  <2>4. CASE Reap(r)
    BY <2>4 DEF TypeOK, Reap
  <2>5. QED
    BY <1>2, <2>1, <2>2, <2>3, <2>4 DEF Supervise
<1>3. ASSUME NEW r \in Runs, ChildExits(r) \/ UserKills(r) PROVE TypeOK'
  <2>1. PICK c \in Int : Exit(r, c)
    BY <1>3 DEF ChildExits, UserKills, OwnCodes, SuccessCode, SigintLinux, SigkillLinux
  <2>2. QED
    BY <1>3, <2>1, ExitTypes DEF TypeOK, ChildExits, UserKills
<1>4. ASSUME NEW r \in Runs, SupervisorDies(r) PROVE TypeOK'
  BY <1>4 DEF TypeOK, SupervisorDies
<1>5. ASSUME NEW r \in Runs, CtrlC(r) PROVE TypeOK'
  <2>1. SigintLinux \in Int
    BY DEF SigintLinux
  <2>2. QED
    BY <1>5, <2>1 DEF TypeOK, CtrlC
<1>6. ASSUME NEW n \in Pids, ForeignStarts(n) \/ ForeignExits(n) PROVE TypeOK'
  BY <1>6 DEF TypeOK, ForeignStarts, ForeignExits, runVars
<1>7. ASSUME NEW c \in Cmds, StopType(c) \/ \E i \in Ids : StopId(c, i) PROVE TypeOK'
  <2>1. Recorded \subseteq Ids /\ Cardinality(Recorded) \in Nat
    BY LifecycleAssumption, FS_Subset, FS_CardinalityType DEF Recorded
  <2>2. \A S \in SUBSET Ids : Aim(S) \in SUBSET Runs
    BY DEF Aim
  <2>3. PICK S \in SUBSET Ids, k \in Nat :
          cmd' = [cmd EXCEPT ![c] = [Idle EXCEPT !.pc = "round", !.scope = S, !.rounds = k,
                                                 !.aim = Aim(S)]]
    BY <1>7, <2>1 DEF StopType, StopId
  <2>4. [Idle EXCEPT !.pc = "round", !.scope = S, !.rounds = k, !.aim = Aim(S)] \in CmdStates
    BY <2>2 DEF Idle, CmdStates
  <2>5. QED
    BY <1>7, <2>3, <2>4 DEF TypeOK, StopType, StopId, runVars
<1>8. ASSUME NEW c \in Cmds, Stopping(c) PROVE TypeOK'
  <2>1. cmd[c] \in CmdStates
    BY DEF TypeOK
  <2>2. CASE ReadStore(c)
    <3>1. cmd[c].rounds - 1 \in Nat /\ cmd[c].scope \cap Recorded \in SUBSET Ids
      BY <2>1, <2>2 DEF ReadStore, CmdStates, Recorded
    <3>2. cmd' \in [Cmds -> CmdStates]
      BY <2>1, <2>2, <3>1 DEF TypeOK, ReadStore, CmdStates
    <3>3. QED
      BY <2>2, <3>2 DEF TypeOK, ReadStore, runVars
  <2>3. ASSUME NEW i \in Ids, Signal(c, i) PROVE TypeOK'
    <3>1. cmd' \in [Cmds -> CmdStates]
      BY <2>1, <2>3 DEF TypeOK, Signal, CmdStates
    <3>2. /\ child' \in [Runs -> {"none", "alive", "exited"}]
          /\ code' \in [Runs -> Int]
          /\ os' \in [Pids -> Runs \cup {Free, Foreign}]
      BY <2>3, ExitTypes DEF TypeOK, Signal, SigintLinux
    <3>3. QED
      BY <2>3, <3>1, <3>2 DEF TypeOK, Signal
  <2>4. CASE Kill(c)
    <3>1. cmd' \in [Cmds -> CmdStates]
      BY <2>1, <2>4 DEF TypeOK, Kill, CmdStates
    <3>2. /\ child' \in [Runs -> {"none", "alive", "exited"}]
          /\ code' \in [Runs -> Int]
          /\ os' \in [Pids -> Runs \cup {Free, Foreign}]
      BY <2>4, ExitTypes DEF TypeOK, Kill, SigkillLinux
    <3>3. QED
      BY <2>4, <3>1, <3>2 DEF TypeOK, Kill
  <2>5. CASE EndRound(c)
    BY <2>1, <2>5 DEF TypeOK, EndRound, CmdStates, runVars
  <2>6. CASE StopReturns(c)
    BY <2>1, <2>6 DEF TypeOK, StopReturns, CmdStates, Idle, runVars
  <2>7. QED
    BY <1>8, <2>2, <2>3, <2>4, <2>5, <2>6 DEF Stopping
<1>9. CASE UNCHANGED vars
  BY <1>9 DEF TypeOK, vars, runVars
<1>10. QED
  BY <1>1, <1>2, <1>3, <1>4, <1>5, <1>6, <1>7, <1>8, <1>9 DEF Next

-----------------------------------------------------------------------------
\* A step of the components, the other programs or the stop commands: what it does to the runs.
ComponentEnds(r) ==
    /\ Live(r) /\ \E c \in Int : Exit(r, c)
    /\ UNCHANGED <<store, phase, rid, inline, rpid, shared>>
OthersStep ==
    /\ \E n \in Pids, x \in {Free, Foreign} : os[n] \notin Runs /\ os' = [os EXCEPT ![n] = x]
    /\ UNCHANGED <<store, runVars, shared>>
RunsUntouched == UNCHANGED <<store, os, runVars, shared>>

LEMMA SignalKinds ==
    ASSUME SnapsWritten, TypeOK, NEW c \in Cmds, Kill(c) \/ \E i \in Ids : Signal(c, i)
    PROVE  (\E r \in Runs : ComponentEnds(r)) \/ OthersStep \/ RunsUntouched
<1>1. Foreign \notin Runs /\ SigintLinux \in Int /\ SigkillLinux \in Int
  BY LifecycleAssumption DEF SigintLinux, SigkillLinux
<1>2. cmd[c] \in CmdStates
  BY DEF TypeOK
<1>3. ASSUME NEW i \in Ids, Signal(c, i)
      PROVE  (\E r \in Runs : ComponentEnds(r)) \/ OthersStep \/ RunsUntouched
  <2>1. cmd[c].snap[i].pid \in Pids
    BY <1>2, <1>3 DEF SnapsWritten, SnapWritten, Signal, CmdStates, Entries
  <2>2. QED
    BY <1>1, <1>3, <2>1 DEF Signal, ComponentEnds, OthersStep, RunsUntouched, runVars
<1>4. CASE Kill(c)
  <2>1. cmd[c].snap[cmd[c].target].pid \in Pids
    BY <1>2, <1>4 DEF SnapsWritten, SnapWritten, Kill, CmdStates, Entries
  <2>2. QED
    BY <1>1, <1>4, <2>1 DEF Kill, ComponentEnds, OthersStep, RunsUntouched, runVars
<1>5. QED
  BY <1>3, <1>4

LEMMA StepKinds ==
    ASSUME SnapsWritten, TypeOK, [Next]_vars
    PROVE  \/ \E r \in Runs : \/ (\E i \in Ids, t \in BOOLEAN : Start(r, i, t)) \/ Supervise(r)
                              \/ SupervisorDies(r) \/ CtrlC(r) \/ ComponentEnds(r)
           \/ OthersStep
           \/ RunsUntouched
<1>1. ASSUME NEW r \in Runs, ChildExits(r) \/ UserKills(r) PROVE ComponentEnds(r)
  BY <1>1 DEF ChildExits, UserKills, ComponentEnds, OwnCodes, SuccessCode, SigintLinux,
              SigkillLinux
<1>2. ASSUME NEW n \in Pids, ForeignStarts(n) \/ ForeignExits(n) PROVE OthersStep
  BY <1>2, LifecycleAssumption DEF ForeignStarts, ForeignExits, OthersStep
<1>3. ASSUME NEW c \in Cmds, \/ StopType(c) \/ (\E i \in Ids : StopId(c, i))
                             \/ ReadStore(c) \/ EndRound(c) \/ StopReturns(c)
      PROVE  RunsUntouched
  BY <1>3 DEF StopType, StopId, ReadStore, EndRound, StopReturns, RunsUntouched
<1>4. CASE UNCHANGED vars
  BY <1>4 DEF vars, RunsUntouched
<1>5. QED
  BY <1>1, <1>2, <1>3, <1>4, SignalKinds DEF Next, Stopping

\* Places of supervisors and components go on fitting.
LEMMA StepPhase == TypeOK /\ PhaseFits /\ SnapsWritten /\ [Next]_vars => PhaseFits'
<1> SUFFICES ASSUME TypeOK, PhaseFits, SnapsWritten, [Next]_vars PROVE PhaseFits'
  OBVIOUS
<1> USE DEF TypeOK, PhaseFits
<1>1. ASSUME NEW r \in Runs, NEW i \in Ids, NEW t \in BOOLEAN, Start(r, i, t) PROVE PhaseFits'
  BY <1>1 DEF Start
<1>2. ASSUME NEW r \in Runs, Supervise(r) PROVE PhaseFits'
  BY <1>2 DEF Supervise, Launch, LaunchFails, ReportRunning, Reap, ReportExit
<1>3. ASSUME NEW r \in Runs, SupervisorDies(r) PROVE PhaseFits'
  BY <1>3 DEF SupervisorDies, Supervised
<1>4. ASSUME NEW r \in Runs, CtrlC(r) PROVE PhaseFits'
  BY <1>4 DEF CtrlC
<1>5. ASSUME NEW r \in Runs, ComponentEnds(r) PROVE PhaseFits'
  BY <1>5 DEF ComponentEnds, Exit, Live
<1>6. CASE OthersStep \/ RunsUntouched
  BY <1>6 DEF OthersStep, RunsUntouched, runVars
<1>7. QED
  BY <1>1, <1>2, <1>3, <1>4, <1>5, <1>6, StepKinds

\* Pids stay with the runs that were given them.
LEMMA StepPids == TypeOK /\ PhaseFits /\ PidsHeld /\ SnapsWritten /\ [Next]_vars => PidsHeld'
<1> SUFFICES ASSUME TypeOK, PhaseFits, PidsHeld, SnapsWritten, [Next]_vars PROVE PidsHeld'
  OBVIOUS
<1> USE LifecycleAssumption DEF TypeOK, PhaseFits, PidsHeld, Live
<1>1. ASSUME NEW r \in Runs, NEW i \in Ids, NEW t \in BOOLEAN, Start(r, i, t) PROVE PidsHeld'
  BY <1>1 DEF Start
<1>2. ASSUME NEW r \in Runs, NEW n \in Pids, Launch(r, n) PROVE PidsHeld'
  BY <1>2 DEF Launch
<1>3. ASSUME NEW r \in Runs, LaunchFails(r) \/ ReportRunning(r) \/ ReportExit(r) PROVE PidsHeld'
  BY <1>3 DEF LaunchFails, ReportRunning, ReportExit
<1>4. ASSUME NEW r \in Runs, Reap(r) PROVE PidsHeld'
  BY <1>4 DEF Reap
<1>5. ASSUME NEW r \in Runs, SupervisorDies(r) PROVE PidsHeld'
  BY <1>5 DEF SupervisorDies, Supervised
<1>6. ASSUME NEW r \in Runs, CtrlC(r) PROVE PidsHeld'
  BY <1>6 DEF CtrlC
<1>7. ASSUME NEW r \in Runs, ComponentEnds(r) PROVE PidsHeld'
  BY <1>7 DEF ComponentEnds, Exit, AfterExit, Supervised
<1>8. CASE OthersStep \/ RunsUntouched
  BY <1>8 DEF OthersStep, RunsUntouched, runVars
<1>9. QED
  BY <1>1, <1>2, <1>3, <1>4, <1>5, <1>6, <1>7, <1>8, StepKinds DEF Supervise

\* What was written of a run stays true of it.
LEMMA WrittenStays ==
    ASSUME TypeOK, PhaseFits, SnapsWritten, [Next]_vars,
           NEW e \in Entries, NEW i \in Ids, Written(e, i)
    PROVE  Written(e, i)'
<1> USE DEF TypeOK, PhaseFits, Written, Entries
<1>1. ASSUME NEW r \in Runs, NEW j \in Ids, NEW t \in BOOLEAN, Start(r, j, t)
      PROVE  Written(e, i)'
  BY <1>1 DEF Start
<1>2. ASSUME NEW r \in Runs, Supervise(r) PROVE Written(e, i)'
  BY <1>2 DEF Supervise, Launch, LaunchFails, ReportRunning, Reap, ReportExit
<1>3. ASSUME NEW r \in Runs, SupervisorDies(r) \/ CtrlC(r) PROVE Written(e, i)'
  BY <1>3 DEF SupervisorDies, CtrlC
<1>4. ASSUME NEW r \in Runs, ComponentEnds(r) PROVE Written(e, i)'
  BY <1>4 DEF ComponentEnds, Exit, Live
<1>5. CASE OthersStep \/ RunsUntouched
  BY <1>5 DEF OthersStep, RunsUntouched, runVars
<1>6. QED
  BY <1>1, <1>2, <1>3, <1>4, <1>5, StepKinds

\* A run that is done stays so, and the entry of an id changes only by its reports.
LEMMA StoreChanges ==
    ASSUME TypeOK, SnapsWritten, [Next]_vars
    PROVE  /\ \A r \in Runs : phase[r] = "done" => phase'[r] = "done"
           /\ \/ UNCHANGED store
              \/ \E r \in Runs : ReportRunning(r) \/ ReportExit(r)
<1> USE DEF TypeOK
<1>1. ASSUME NEW r \in Runs, NEW j \in Ids, NEW t \in BOOLEAN, Start(r, j, t)
      PROVE  UNCHANGED store /\ \A q \in Runs : phase[q] = "done" => phase'[q] = "done"
  BY <1>1 DEF Start
<1>2. ASSUME NEW r \in Runs, Supervise(r)
      PROVE  /\ UNCHANGED store \/ ReportRunning(r) \/ ReportExit(r)
             /\ \A q \in Runs : phase[q] = "done" => phase'[q] = "done"
  BY <1>2 DEF Supervise, Launch, LaunchFails, ReportRunning, Reap, ReportExit
<1>3. ASSUME NEW r \in Runs, SupervisorDies(r) \/ CtrlC(r) \/ ComponentEnds(r)
      PROVE  UNCHANGED store /\ \A q \in Runs : phase[q] = "done" => phase'[q] = "done"
  BY <1>3 DEF SupervisorDies, CtrlC, ComponentEnds, Supervised
<1>4. CASE OthersStep \/ RunsUntouched
  BY <1>4 DEF OthersStep, RunsUntouched, runVars
<1>5. QED
  BY <1>1, <1>2, <1>3, <1>4, StepKinds

LEMMA StepStore ==
    TypeOK /\ PhaseFits /\ StoreWritten /\ SnapsWritten /\ [Next]_vars => StoreWritten'
<1> SUFFICES ASSUME TypeOK, PhaseFits, StoreWritten, SnapsWritten, [Next]_vars,
                    NEW i \in Ids, store'[i] # None
             PROVE  Written(store[i], i)' /\ (store'[i].state # Running
                                                => phase'[store'[i].run] = "done")
  BY DEF StoreWritten
<1>1. CASE store'[i] = store[i]
  <2>1. store[i] \in Entries /\ Written(store[i], i)
    BY <1>1 DEF TypeOK, StoreWritten
  <2>2. Written(store[i], i)'
    BY <1>1, <2>1, WrittenStays DEF Written
  <2>3. QED
    BY <1>1, <2>1, <2>2, StoreChanges DEF StoreWritten, Entries
<1>2. ASSUME NEW r \in Runs, ReportRunning(r) \/ ReportExit(r), store'[i] # store[i]
      PROVE  Written(store[i], i)' /\ (store'[i].state # Running
                                        => phase'[store'[i].run] = "done")
  <2>1. i = rid[r]
    BY <1>2 DEF TypeOK, ReportRunning, ReportExit
  <2>2. CASE ReportRunning(r)
    BY <2>1, <2>2 DEF TypeOK, PhaseFits, ReportRunning, Entry, Written
  <2>3. CASE ReportExit(r)
    <3>1. PICK s \in {Stopped, Failed} : store'[i] = Entry(r, s)
      BY <2>1, <2>3 DEF TypeOK, ReportExit
    <3>2. phase'[r] = "done" /\ child'[r] # "none" /\ rid'[r] = i /\ rpid' = rpid
      BY <2>1, <2>3 DEF TypeOK, PhaseFits, ReportExit
    <3>3. QED
      BY <3>1, <3>2 DEF Entry, Written
  <2>4. QED
    BY <1>2, <2>2, <2>3
<1>3. QED
  BY <1>1, <1>2, StoreChanges

\* Only a start makes a run busy, and it looks for others.
LEMMA StepShared ==
    TypeOK /\ PhaseFits /\ SharedSeen /\ SnapsWritten /\ [Next]_vars => SharedSeen'
<1> SUFFICES ASSUME TypeOK, PhaseFits, SharedSeen, SnapsWritten, [Next]_vars PROVE SharedSeen'
  OBVIOUS
<1> USE DEF TypeOK, PhaseFits, SharedSeen, Busy, Supervised, Live
<1>1. ASSUME NEW r \in Runs, NEW i \in Ids, NEW t \in BOOLEAN, Start(r, i, t) PROVE SharedSeen'
  BY <1>1 DEF Start
<1>2. ASSUME NEW r \in Runs, Supervise(r) PROVE SharedSeen'
  BY <1>2 DEF Supervise, Launch, LaunchFails, ReportRunning, Reap, ReportExit
<1>3. ASSUME NEW r \in Runs, SupervisorDies(r) \/ CtrlC(r) PROVE SharedSeen'
  BY <1>3 DEF SupervisorDies, CtrlC
<1>4. ASSUME NEW r \in Runs, ComponentEnds(r) PROVE SharedSeen'
  BY <1>4 DEF ComponentEnds, Exit
<1>5. CASE OthersStep \/ RunsUntouched
  BY <1>5 DEF OthersStep, RunsUntouched, runVars
<1>6. QED
  BY <1>1, <1>2, <1>3, <1>4, <1>5, StepKinds

\* A reported component keeps its entry: the next report of its id is that of a shared one.
LEMMA StepFindable == RunInv /\ SnapsWritten /\ [Next]_vars => LiveIsFindable'
<1> SUFFICES ASSUME RunInv, SnapsWritten, [Next]_vars, NEW q \in Runs,
                    Live(q)', phase'[q] \in {"wait", "dead"}, rid'[q] \notin shared'
             PROVE  store'[rid'[q]] = Entry(q, Running)' /\ os'[store'[rid'[q]].pid] = q
  BY DEF LiveIsFindable
<1>1. TypeOK' /\ PidsHeld'
  BY StepType, StepPids DEF RunInv
<1>2. SUFFICES store'[rid'[q]] = Entry(q, Running)'
  <2>1. os'[rpid'[q]] = q
    BY <1>1 DEF PidsHeld, Live
  <2>2. QED
    BY <1>2, <2>1 DEF Entry
<1>3. \/ /\ Live(q) /\ phase[q] \in {"wait", "dead"} /\ rid'[q] = rid[q] /\ rpid'[q] = rpid[q]
         /\ rid[q] \notin shared
      \/ ReportRunning(q)
  <2> USE DEF RunInv, TypeOK, PhaseFits, Live
  <2>1. ASSUME NEW r \in Runs, NEW i \in Ids, NEW t \in BOOLEAN, Start(r, i, t) PROVE <1>3
    BY <2>1 DEF Start
  <2>2. ASSUME NEW r \in Runs, Supervise(r) PROVE <1>3
    BY <2>2 DEF Supervise, Launch, LaunchFails, ReportRunning, Reap, ReportExit
  <2>3. ASSUME NEW r \in Runs, SupervisorDies(r) \/ CtrlC(r) PROVE <1>3
    BY <2>3 DEF SupervisorDies, CtrlC, Supervised
  <2>4. ASSUME NEW r \in Runs, ComponentEnds(r) PROVE <1>3
    BY <2>4 DEF ComponentEnds, Exit
  <2>5. CASE OthersStep \/ RunsUntouched
    BY <2>5 DEF OthersStep, RunsUntouched, runVars
  <2>6. QED
    BY <2>1, <2>2, <2>3, <2>4, <2>5, StepKinds
<1>4. CASE ReportRunning(q)
  BY <1>4 DEF RunInv, TypeOK, PhaseFits, ReportRunning, Entry
<1>5. CASE /\ Live(q) /\ phase[q] \in {"wait", "dead"} /\ rid'[q] = rid[q] /\ rpid'[q] = rpid[q]
           /\ rid[q] \notin shared
  <2>1. store[rid[q]] = Entry(q, Running)
    BY <1>5 DEF RunInv, LiveIsFindable
  <2>2. ASSUME NEW r \in Runs, ReportRunning(r) \/ ReportExit(r)
        PROVE  store'[rid[q]] = store[rid[q]]
    <3>1. CASE rid[r] = rid[q]
      <4>1. r # q
        BY <1>5, <2>2 DEF ReportRunning, ReportExit, RunInv, PhaseFits, Live
      <4>2. Busy(r) /\ Busy(q)
        BY <1>5, <2>2 DEF ReportRunning, ReportExit, Busy, Supervised
      <4>3. QED
        BY <1>5, <3>1, <4>1, <4>2 DEF RunInv, SharedSeen
    <3>2. CASE rid[r] # rid[q]
      BY <1>5, <2>2, <3>2 DEF ReportRunning, ReportExit, RunInv, TypeOK, PhaseFits
    <3>3. QED
      BY <3>1, <3>2
  <2>3. store'[rid[q]] = store[rid[q]]
    BY <2>2, StoreChanges DEF RunInv
  <2>4. QED
    BY <1>5, <2>1, <2>3 DEF Entry
<1>6. QED
  BY <1>3, <1>4, <1>5

LEMMA StepRun == RunInv /\ SnapsWritten /\ [Next]_vars => RunInv'
BY StepType, StepPhase, StepPids, StepStore, StepShared, StepFindable DEF RunInv

\* Who wrote a final state has ended.
LEMMA FinalFollows == RunInv => FinalStatusIsTrue
<1> SUFFICES ASSUME RunInv, NEW i \in Ids, store[i] # None, store[i].state # Running
             PROVE  /\ child[store[i].run] = "exited"
                    /\ \A n \in Pids : os[n] # store[i].run
  BY DEF FinalStatusIsTrue
<1>1. store[i].run \in Runs /\ phase[store[i].run] = "done" /\ child[store[i].run] # "none"
  BY DEF RunInv, TypeOK, StoreWritten, Written, Entries
<1>2. child[store[i].run] = "exited"
  BY <1>1 DEF RunInv, TypeOK, PhaseFits
<1>3. QED
  BY <1>1, <1>2 DEF RunInv, PidsHeld
-----------------------------------------------------------------------------
\* A stop command changes by its own steps only.
LEMMA CmdSteps ==
    ASSUME TypeOK, [Next]_vars, NEW c \in Cmds
    PROVE  \/ cmd'[c] = cmd[c]
           \/ StopType(c) \/ (\E i \in Ids : StopId(c, i)) \/ ReadStore(c)
           \/ (\E i \in Ids : Signal(c, i)) \/ Kill(c) \/ EndRound(c) \/ StopReturns(c)
<1>1. ASSUME NEW r \in Runs,
             \/ (\E i \in Ids, t \in BOOLEAN : Start(r, i, t)) \/ Supervise(r)
             \/ ChildExits(r) \/ UserKills(r) \/ SupervisorDies(r) \/ CtrlC(r)
      PROVE  UNCHANGED cmd
  BY <1>1 DEF Start, Supervise, Launch, LaunchFails, ReportRunning, Reap, ReportExit, ChildExits,
              UserKills, SupervisorDies, CtrlC
<1>2. ASSUME NEW n \in Pids, ForeignStarts(n) \/ ForeignExits(n) PROVE UNCHANGED cmd
  BY <1>2 DEF ForeignStarts, ForeignExits
<1>3. ASSUME NEW d \in Cmds, d # c,
             \/ StopType(d) \/ (\E i \in Ids : StopId(d, i)) \/ Stopping(d)
      PROVE  cmd'[c] = cmd[c]
  BY <1>3 DEF TypeOK, StopType, StopId, Stopping, ReadStore, Signal, Kill, EndRound, StopReturns
<1>4. CASE UNCHANGED vars
  BY <1>4 DEF vars
<1>5. QED
  BY <1>1, <1>2, <1>3, <1>4 DEF Next, Stopping

\* What a stop command is when it begins.
LEMMA Begun ==
    ASSUME NEW S, NEW k, NEW A
    PROVE  LET m == [Idle EXCEPT !.pc = "round", !.scope = S, !.rounds = k, !.aim = A]
           IN  /\ m.pc = "round" /\ m.scope = S /\ m.rounds = k /\ m.aim = A
               /\ m.todo = {} /\ m.snap = [i \in Ids |-> None]
BY DEF Idle

\* What stop commands hold was written for runs.
LEMMA StepSnaps == RunInv /\ SnapsWritten /\ [Next]_vars => SnapsWritten'
<1> SUFFICES ASSUME RunInv, SnapsWritten, [Next]_vars PROVE SnapsWritten'
  OBVIOUS
<1>1. TypeOK /\ PhaseFits /\ StoreWritten
  BY DEF RunInv
<1>2. \A e \in Entries, i \in Ids : Written(e, i) => Written(e, i)'
  BY <1>1, WrittenStays
<1>3. ASSUME NEW c \in Cmds, cmd'[c].snap = cmd[c].snap,
             NEW i \in Ids, cmd'[c].snap[i] # None
      PROVE  Written(cmd[c].snap[i], i)'
  <2>1. cmd'[c].snap[i] = cmd[c].snap[i] /\ cmd[c].snap[i] \in Entries
    BY <1>1, <1>3 DEF TypeOK, CmdStates
  <2>2. Written(cmd[c].snap[i], i)
    BY <1>3, <2>1 DEF SnapsWritten, SnapWritten
  <2>3. QED
    BY <1>2, <2>1, <2>2 DEF Written
<1>4. SUFFICES ASSUME NEW c \in Cmds PROVE SnapWritten(c)'
  BY DEF SnapsWritten
<1>5. cmd[c] \in CmdStates /\ cmd \in [Cmds -> CmdStates] /\ SnapWritten(c)
  BY <1>1 DEF TypeOK, SnapsWritten
<1>6. CASE cmd'[c] = cmd[c]
  BY <1>3, <1>5, <1>6 DEF SnapWritten
<1>7. CASE StopType(c) \/ \E i \in Ids : StopId(c, i)
  <2>2. cmd'[c].snap = [i \in Ids |-> None] /\ cmd'[c].todo = {} /\ cmd'[c].pc = "round"
    <3>1. CASE StopType(c)
      BY <1>5, <3>1, Begun DEF StopType
    <3>2. ASSUME NEW i \in Ids, StopId(c, i)
          PROVE  /\ cmd'[c].snap = [j \in Ids |-> None]
                 /\ cmd'[c].todo = {} /\ cmd'[c].pc = "round"
      BY <1>5, <3>2, Begun DEF StopId
    <3>3. QED
      BY <1>7, <3>1, <3>2
  <2>3. QED
    BY <2>2 DEF SnapWritten
<1>8. CASE ReadStore(c)
  <2>1. cmd'[c].snap = store /\ cmd'[c].todo = cmd'[c].scope \cap Recorded /\ cmd'[c].pc = "pick"
    BY <1>5, <1>8 DEF ReadStore, CmdStates
  <2>2. \A i \in Ids : store[i] # None =>
            LET e == store[i] IN
            rid'[e.run] = i /\ rpid'[e.run] = e.pid /\ child'[e.run] # "none"
    BY <1>1, <1>2 DEF StoreWritten, TypeOK, Written
  <2>3. \A i \in Ids : cmd'[c].snap[i] # None => Written(cmd[c].snap[i], i)'
    BY <2>1, <2>2 DEF Written
  <2>4. QED
    BY <2>1, <2>3 DEF SnapWritten, Recorded
<1>9. ASSUME NEW j \in Ids, Signal(c, j) PROVE SnapWritten(c)'
  <2>1. /\ cmd'[c].snap = cmd[c].snap /\ cmd'[c].todo = cmd[c].todo \ {j} /\ cmd'[c].target = j
        /\ cmd'[c].scope = cmd[c].scope /\ j \in cmd[c].todo
    BY <1>5, <1>9 DEF Signal, CmdStates
  <2>2. QED
    BY <1>3, <1>5, <2>1 DEF SnapWritten
<1>10. CASE Kill(c) \/ EndRound(c)
  <2>1. /\ cmd'[c].snap = cmd[c].snap /\ cmd'[c].todo = cmd[c].todo
        /\ cmd'[c].scope = cmd[c].scope /\ cmd'[c].pc \in {"pick", "round"}
    BY <1>5, <1>10 DEF Kill, EndRound, CmdStates
  <2>2. QED
    BY <1>3, <1>5, <2>1 DEF SnapWritten
<1>11. CASE StopReturns(c)
  BY <1>5, <1>11 DEF SnapWritten, StopReturns, Idle
<1>12. QED
  BY <1>6, <1>7, <1>8, <1>9, <1>10, <1>11, CmdSteps, <1>1

\* A component that has ended stays so, and one that lives and has been reported goes on.
LEMMA AimedStays ==
    ASSUME RunInv, SnapsWritten, [Next]_vars, NEW r \in Runs, child[r] # "none",
           Live(r) => phase[r] \in {"wait", "dead"}
    PROVE  /\ rid'[r] = rid[r] /\ rpid'[r] = rpid[r] /\ child'[r] # "none"
           /\ shared \subseteq shared'
           /\ Live(r)' => Live(r) /\ phase'[r] \in {"wait", "dead"}
<1> USE DEF RunInv, TypeOK, PhaseFits, Live
<1>1. ASSUME NEW q \in Runs, NEW i \in Ids, NEW t \in BOOLEAN, Start(q, i, t)
      PROVE  /\ rid'[r] = rid[r] /\ rpid'[r] = rpid[r] /\ child'[r] = child[r]
             /\ shared \subseteq shared' /\ phase'[r] = phase[r]
  BY <1>1 DEF Start
<1>2. ASSUME NEW q \in Runs, Supervise(q)
      PROVE  /\ rid'[r] = rid[r] /\ rpid'[r] = rpid[r] /\ child'[r] = child[r]
             /\ shared' = shared /\ (Live(r) => phase'[r] \in {"wait", "dead"})
  BY <1>2 DEF Supervise, Launch, LaunchFails, ReportRunning, Reap, ReportExit
<1>3. ASSUME NEW q \in Runs, SupervisorDies(q)
      PROVE  /\ rid'[r] = rid[r] /\ rpid'[r] = rpid[r] /\ child'[r] = child[r]
             /\ shared' = shared /\ (Live(r) => phase'[r] \in {"wait", "dead"})
  BY <1>3 DEF SupervisorDies
<1>4. ASSUME NEW q \in Runs, CtrlC(q) \/ ComponentEnds(q)
      PROVE  /\ rid'[r] = rid[r] /\ rpid'[r] = rpid[r] /\ child'[r] \in {child[r], "exited"}
             /\ shared' = shared /\ (phase'[r] = phase[r] \/ phase'[r] = "dead")
  BY <1>4 DEF CtrlC, ComponentEnds, Exit
<1>5. CASE OthersStep \/ RunsUntouched
  BY <1>5 DEF OthersStep, RunsUntouched, runVars
<1>6. QED
  BY <1>1, <1>2, <1>3, <1>4, <1>5, StepKinds

\* A stop command keeps every live component of its selection before it.
LEMMA StepAim == StopInv /\ [Next]_vars => AimAhead'
<1> SUFFICES ASSUME StopInv, [Next]_vars, NEW c \in Cmds, NEW r \in cmd'[c].aim
             PROVE  Aimed(c, r)'
  BY DEF AimAhead
<1>1. RunInv /\ SnapsWritten /\ TypeOK /\ PhaseFits /\ PidsHeld /\ LiveIsFindable
  BY DEF StopInv, RunInv
<1>2. TypeOK' /\ r \in Runs
  <2>1. TypeOK'
    BY <1>1, StepType
  <2>2. QED
    BY <2>1 DEF TypeOK, CmdStates
<1>3. cmd[c] \in CmdStates /\ cmd \in [Cmds -> CmdStates]
  BY <1>1 DEF TypeOK
<1>4. CASE StopType(c) \/ \E i \in Ids : StopId(c, i)
  <2>1. UNCHANGED <<phase, rid, rpid, child>>
    BY <1>4 DEF StopType, StopId, runVars
  <2>2. ASSUME NEW S \in SUBSET Ids, cmd'[c].pc = "round", cmd'[c].scope = S,
               cmd'[c].aim = Aim(S), cmd'[c].rounds > 0
        PROVE  Aimed(c, r)'
    <3>1. rid[r] \in S /\ Live(r) /\ phase[r] \in {"wait", "dead"}
      BY <2>2 DEF Aim
    <3>2. QED
      BY <2>1, <2>2, <3>1 DEF Aimed, Before, Live
  <2>3. CASE StopType(c)
    <3>1. Recorded \subseteq Ids /\ Recorded # {}
      BY <2>3 DEF Recorded, StopType
    <3>2. Cardinality(Recorded) \in Nat /\ Cardinality(Recorded) > 0
      BY <3>1, LifecycleAssumption, FS_Subset, FS_CardinalityType, FS_EmptySet
    <3>3. /\ cmd'[c].pc = "round" /\ cmd'[c].scope = Ids /\ cmd'[c].aim = Aim(Ids)
          /\ cmd'[c].rounds = Cardinality(Recorded)
      BY <1>3, <2>3, Begun DEF StopType
    <3>4. QED
      BY <2>2, <3>2, <3>3
  <2>4. ASSUME NEW i \in Ids, StopId(c, i) PROVE Aimed(c, r)'
    <3>1. /\ cmd'[c].pc = "round" /\ cmd'[c].scope = {i} /\ cmd'[c].aim = Aim({i})
          /\ cmd'[c].rounds > 0
      BY <1>3, <2>4, Begun DEF StopId
    <3>2. QED
      BY <2>2, <3>1
  <2>5. QED
    BY <1>4, <2>3, <2>4
<1>5. CASE r \in cmd[c].aim /\ cmd'[c].scope = cmd[c].scope
  <2>1. Aimed(c, r)
    BY <1>1, <1>5 DEF StopInv, AimAhead
  <2>2. /\ rid'[r] = rid[r] /\ rpid'[r] = rpid[r] /\ child'[r] # "none"
        /\ shared \subseteq shared'
        /\ Live(r)' => Live(r) /\ phase'[r] \in {"wait", "dead"}
    BY <1>1, <1>2, <2>1, AimedStays DEF Aimed
  <2>3. SUFFICES ASSUME Live(r)', Live(r), rid[r] \notin shared, rid'[r] \notin shared'
                 PROVE  Before(c, r)'
    BY <1>5, <2>1, <2>2 DEF Aimed
  <2>4. Before(c, r) /\ rid[r] \in Ids
    BY <1>1, <1>2, <2>1, <2>3 DEF Aimed, PhaseFits
  <2>5. os[rpid[r]] = r /\ rpid[r] \in Pids
    BY <1>1, <1>2, <2>3 DEF PidsHeld, PhaseFits, Live
  <2>6. CASE cmd'[c] = cmd[c]
    BY <2>2, <2>4, <2>6 DEF Before
  <2>7. CASE ReadStore(c)
    <3>1. /\ cmd'[c].pc = "pick" /\ cmd'[c].snap = store
          /\ cmd'[c].todo = cmd[c].scope \cap Recorded
      BY <1>3, <2>7 DEF ReadStore, CmdStates
    <3>2. store[rid[r]] = Entry(r, Running)
      BY <1>1, <1>2, <2>1, <2>3 DEF LiveIsFindable, Aimed
    <3>3. store[rid[r]] # None /\ store[rid[r]].pid = rpid[r]
      BY <1>2, <2>5, <3>2, EntryAssumption DEF Entry, Entries
    <3>4. QED
      BY <2>1, <2>2, <2>4, <3>1, <3>3 DEF Before, Aimed, Recorded
  <2>8. ASSUME NEW i \in Ids, Signal(c, i) PROVE Before(c, r)'
    <3>1. /\ cmd'[c].snap = cmd[c].snap /\ cmd'[c].todo = cmd[c].todo \ {i}
          /\ cmd'[c].target = i
          /\ cmd'[c].pc = IF os[cmd[c].snap[i].pid] = Free THEN "pick" ELSE "kill"
      BY <1>3, <2>8 DEF Signal, CmdStates
    <3>2. cmd[c].pc = "pick" /\ rid[r] \in cmd[c].todo /\ cmd[c].snap[rid[r]] # None
          /\ cmd[c].snap[rid[r]].pid = rpid[r]
      BY <2>4, <2>8 DEF Before, Signal
    <3>3. i = rid[r] => cmd'[c].pc = "kill"
      BY <1>2, <2>5, <3>1, <3>2, LifecycleAssumption
    <3>4. QED
      BY <2>2, <3>1, <3>2, <3>3 DEF Before
  <2>9. CASE Kill(c)
    <3>1. /\ cmd'[c].snap = cmd[c].snap /\ cmd'[c].todo = cmd[c].todo
          /\ cmd'[c].pc = "pick"
      BY <1>3, <2>9 DEF Kill, CmdStates
    <3>2. cmd[c].target # rid[r]
      <4>1. SUFFICES ASSUME cmd[c].target = rid[r] PROVE FALSE
        OBVIOUS
      <4>2. cmd[c].snap[cmd[c].target].pid = rpid[r]
        BY <2>4, <2>9, <4>1 DEF Before, Kill
      <4>3. Exit(r, SigkillLinux)
        BY <1>2, <2>3, <2>5, <2>9, <4>2, LifecycleAssumption DEF Kill
      <4>4. QED
        BY <1>1, <1>2, <2>3, <4>3 DEF Exit, Live, TypeOK
    <3>3. QED
      BY <2>2, <2>4, <2>9, <3>1, <3>2 DEF Before, Kill
  <2>10. CASE EndRound(c)
    BY <2>4, <2>10 DEF Before, EndRound
  <2>11. CASE StopReturns(c)
    BY <2>4, <2>11 DEF Before, StopReturns
  <2>12. CASE StopType(c) \/ \E i \in Ids : StopId(c, i)
    BY <1>4, <2>12, <2>2, <2>3 DEF Aimed
  <2>13. QED
    BY <1>1, <2>6, <2>7, <2>8, <2>9, <2>10, <2>11, <2>12, CmdSteps
<1>6. CASE cmd'[c].aim = {}
  BY <1>6
<1>7. StopReturns(c) => cmd'[c].aim = {}
  BY <1>3 DEF StopReturns, Idle
<1>8. CASE ReadStore(c)
  BY <1>3, <1>5, <1>8 DEF ReadStore, CmdStates
<1>9. CASE EndRound(c)
  BY <1>3, <1>5, <1>9 DEF EndRound, CmdStates
<1>10. CASE Kill(c)
  <2>1. cmd' = [cmd EXCEPT ![c].pc = "pick"]
    BY <1>10 DEF Kill
  <2>2. QED
    BY <1>3, <1>5, <2>1 DEF CmdStates
<1>11. ASSUME NEW i \in Ids, Signal(c, i) PROVE Aimed(c, r)'
  BY <1>3, <1>5, <1>11 DEF Signal, CmdStates
<1>12. QED
  BY <1>1, <1>4, <1>5, <1>6, <1>7, <1>8, <1>9, <1>10, <1>11, CmdSteps

LEMMA StepStop == StopInv /\ [Next]_vars => StopInv'
BY StepRun, StepSnaps, StepAim DEF StopInv

\* The invariant of every behaviour.
LEMMA StopInvariant == Spec => []StopInv
<1>1. QED
  BY InitInv, StepStop, PTL DEF Spec

-----------------------------------------------------------------------------
\* Type correctness of runs, pids, entries and stop commands.
THEOREM TypeCorrect == Spec => []TypeOK
<1>1. StopInv => TypeOK
  BY DEF StopInv, RunInv
<1>2. QED
  BY <1>1, StopInvariant, PTL

\* A final state in component_state.json is never that of a live process (on_exit).
THEOREM FinalTrue == Spec => []FinalStatusIsTrue
<1>1. StopInv => FinalStatusIsTrue
  BY FinalFollows DEF StopInv
<1>2. QED
  BY <1>1, StopInvariant, PTL

\* A live component that was reported is in the file under its pid, unless its id was started
\* twice at a time (on_start, and the supervisor's end without a word).
THEOREM Findable == Spec => []LiveIsFindable
<1>1. StopInv => LiveIsFindable
  BY DEF StopInv, RunInv
<1>2. QED
  BY <1>1, StopInvariant, PTL

\* A stop command that returns has ended all that it found running (Controller.stop).
THEOREM StopReaches == Spec => StopReachesUnshared
<1>1. ASSUME StopInv, NEW c \in Cmds, StopReturns(c), NEW r \in cmd[c].aim,
             rid[r] \notin shared
      PROVE  ~Live(r)
  <2>1. Aimed(c, r)
    BY <1>1 DEF StopInv, AimAhead
  <2>2. QED
    BY <1>1, <2>1 DEF Aimed, Before, StopReturns
<1>2. StopInv => [\A c \in Cmds :
          StopReturns(c) => \A r \in cmd[c].aim : rid[r] \notin shared => ~Live(r)]_vars
  BY <1>1
<1>3. QED
  BY <1>2, StopInvariant, PTL DEF StopReachesUnshared

\* A stop command ends a component beyond its selection only under a recycled pid (kill_by_pid).
THEOREM StopInScope == Spec => StopHitsScope
<1>1. ASSUME StopInv, NEW c \in Cmds, Kill(c) \/ \E i \in Ids : Signal(c, i),
             NEW r \in Runs, Live(r), ~Live(r)'
      PROVE  rid[r] \in cmd[c].scope \/ Inherits(r, c)
  <2>1. TypeOK /\ PhaseFits /\ PidsHeld /\ SnapWritten(c) /\ cmd[c] \in CmdStates
    BY <1>1 DEF StopInv, RunInv, SnapsWritten, TypeOK
  <2>2. PICK i \in cmd[c].scope : cmd[c].snap[i] # None /\ os[cmd[c].snap[i].pid] = r
    <3>1. CASE Kill(c)
      BY <1>1, <2>1, <3>1 DEF Kill, SnapWritten, TypeOK, Exit, Live
    <3>2. ASSUME NEW j \in Ids, Signal(c, j)
          PROVE  /\ j \in cmd[c].scope /\ cmd[c].snap[j] # None
                 /\ os[cmd[c].snap[j].pid] = r
      BY <1>1, <2>1, <3>2 DEF Signal, SnapWritten, TypeOK, Exit, Live
    <3>3. QED
      BY <1>1, <3>1, <3>2
  <2>3. /\ i \in Ids /\ cmd[c].snap[i] \in Entries /\ Written(cmd[c].snap[i], i)
    BY <2>1, <2>2 DEF CmdStates, SnapWritten
  <2>4. cmd[c].snap[i].pid = rpid[r]
    BY <2>1, <2>2, <2>3 DEF PidsHeld, Entries
  <2>5. CASE cmd[c].snap[i].run = r
    BY <2>2, <2>3, <2>5 DEF Written
  <2>6. CASE cmd[c].snap[i].run # r
    <3>1. child[cmd[c].snap[i].run] = "exited"
      BY <2>1, <2>2, <2>3, <2>6 DEF Written, Entries, PidsHeld, Live, TypeOK
    <3>2. QED
      BY <2>2, <2>4, <2>6, <3>1 DEF Inherits
  <2>7. QED
    BY <2>5, <2>6
<1>2. StopInv => [\A c \in Cmds : (Kill(c) \/ \E i \in Ids : Signal(c, i)) =>
          \A r \in Runs : (Live(r) /\ ~Live(r)') =>
              (rid[r] \in cmd[c].scope \/ Inherits(r, c))]_vars
  BY <1>1
<1>3. QED
  BY <1>2, StopInvariant, PTL DEF StopHitsScope
=============================================================================
