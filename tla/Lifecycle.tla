----------------------------- MODULE Lifecycle -----------------------------
(***************************************************************************)
(* Starting, supervising and stopping the instances of one component type: *)
(* spawn_inline, spawn_background and kill_by_pid of                       *)
(* electrumsv_sdk/utils.py, the stop path of controller.py and             *)
(* plugin_tools.py.  A run is one `start` command: a supervisor process    *)
(* that opens the component as a child, writes "Running", waits for the    *)
(* child and writes "Stopped" or "Failed".  Stop commands know a component *)
(* only by the pid in the store.  The store is taken to be the atomic map  *)
(* of StatusMap.  The operating system recycles the pids of reaped         *)
(* processes, also for programs that have nothing to do with the SDK.      *)
(***************************************************************************)
EXTENDS Integers, FiniteSets

CONSTANTS Ids,      \* component ids of the type
          Runs,     \* start commands; each is used once
          Pids,     \* the operating system's process ids
          Cmds,     \* processes that execute stop commands
          None, Free, Foreign

ASSUME LifecycleAssumption ==
    /\ Free # Foreign
    /\ {Free, Foreign} \cap Runs = {}
    /\ None \notin Ids \cup Runs \cup Pids
    /\ IsFiniteSet(Ids)

VARIABLES store,    \* component_state.json: the entry of each id
          os,       \* which process a pid denotes
          phase,    \* per run: where its supervisor is
          rid,      \* per run: component id
          inline,   \* per run: --inline or new terminal (else --background)
          rpid,     \* per run: process.pid
          child,    \* per run: the component process
          code,     \* per run: its return code
          shared,   \* history: ids that two live runs have had at a time
          cmd       \* per stop command: its progress

runVars == <<phase, rid, inline, rpid, child, code>>
vars == <<store, os, runVars, shared, cmd>>

Running == "Running"
Stopped == "Stopped"
Failed == "Failed"

SuccessCode == 0
SigintLinux == -2
SigkillLinux == -9
StoppedCodes == {SuccessCode, 130, 137, SigintLinux, SigkillLinux}
OwnCodes == {SuccessCode, 1}

Entries == [pid : Pids, state : {Running, Stopped, Failed}, run : Runs]
ASSUME EntryAssumption == None \notin Entries
Entry(r, s) == [pid |-> rpid[r], state |-> s, run |-> r]   \* `run` is not in the file

Idle == [pc |-> "idle", rounds |-> 0, scope |-> {}, todo |-> {},
         snap |-> [i \in Ids |-> None], target |-> None, aim |-> {}]

Init ==
    /\ store = [i \in Ids |-> None]
    /\ os = [n \in Pids |-> Free]
    /\ phase = [r \in Runs |-> "new"]
    /\ rid = [r \in Runs |-> None]
    /\ inline = [r \in Runs |-> FALSE]
    /\ rpid = [r \in Runs |-> None]
    /\ child = [r \in Runs |-> "none"]
    /\ code = [r \in Runs |-> SuccessCode]
    /\ shared = {}
    /\ cmd = [c \in Cmds |-> Idle]

Supervised(r) == phase[r] \in {"launch", "report", "wait", "exit"}
Live(r) == child[r] = "alive"
-----------------------------------------------------------------------------
(* A run *)

\* Nothing checks whether the id runs already.
Start(r, i, term) ==
    /\ phase[r] = "new"
    /\ phase' = [phase EXCEPT ![r] = "launch"]
    /\ rid' = [rid EXCEPT ![r] = i]
    /\ inline' = [inline EXCEPT ![r] = term]
    /\ shared' = IF \E q \in Runs : rid[q] = i /\ (Supervised(q) \/ Live(q))
                 THEN shared \cup {i} ELSE shared
    /\ UNCHANGED <<store, os, rpid, child, code, cmd>>

\* subprocess.Popen
Launch(r, n) ==
    /\ phase[r] = "launch"
    /\ os[n] = Free
    /\ os' = [os EXCEPT ![n] = r]
    /\ rpid' = [rpid EXCEPT ![r] = n]
    /\ child' = [child EXCEPT ![r] = "alive"]
    /\ phase' = [phase EXCEPT ![r] = "report"]
    /\ UNCHANGED <<store, rid, inline, code, shared, cmd>>

\* Mutant of LaunchFails: an entry is written although there is no process.
LaunchFailsReported(r) ==
    /\ phase[r] = "launch"
    /\ store' = [store EXCEPT ![rid[r]] = Entry(r, Failed)]
    /\ phase' = [phase EXCEPT ![r] = "done"]
    /\ UNCHANGED <<os, rid, inline, rpid, child, code, shared, cmd>>

\* Popen raises: the supervisor ends without an entry.
LaunchFails(r) ==
    /\ phase[r] = "launch"
    /\ phase' = [phase EXCEPT ![r] = "done"]
    /\ UNCHANGED <<store, os, rid, inline, rpid, child, code, shared, cmd>>

\* on_start
ReportRunning(r) ==
    /\ phase[r] = "report"
    /\ store' = [store EXCEPT ![rid[r]] = Entry(r, Running)]
    /\ phase' = [phase EXCEPT ![r] = "wait"]
    /\ UNCHANGED <<os, rid, inline, rpid, child, code, shared, cmd>>

\* Mutants of Reap: poll() instead of wait(); on_exit is not called.
ReapAtOnce(r) ==
    /\ phase[r] = "wait"
    /\ phase' = [phase EXCEPT ![r] = "exit"]
    /\ UNCHANGED <<store, os, rid, inline, rpid, child, code, shared, cmd>>

ReapSilently(r) ==
    /\ phase[r] = "wait"
    /\ child[r] = "exited"
    /\ os' = [os EXCEPT ![rpid[r]] = Free]
    /\ phase' = [phase EXCEPT ![r] = "done"]
    /\ UNCHANGED <<store, rid, inline, rpid, child, code, shared, cmd>>

\* process.wait() returns: the child is reaped and its pid free again.
Reap(r) ==
    /\ phase[r] = "wait"
    /\ child[r] = "exited"
    /\ os' = [os EXCEPT ![rpid[r]] = Free]
    /\ phase' = [phase EXCEPT ![r] = "exit"]
    /\ UNCHANGED <<store, rid, inline, rpid, child, code, shared, cmd>>

\* on_exit
ReportExit(r) ==
    /\ phase[r] = "exit"
    /\ store' = [store EXCEPT ![rid[r]] =
                   Entry(r, IF code[r] \in StoppedCodes THEN Stopped ELSE Failed)]
    /\ phase' = [phase EXCEPT ![r] = "done"]
    /\ UNCHANGED <<os, rid, inline, rpid, child, code, shared, cmd>>

\* The pids after the child of r ends: a zombie keeps its pid while its supervisor lives.
AfterExit(r) == IF Supervised(r) THEN os ELSE [os EXCEPT ![rpid[r]] = Free]

Exit(r, c) ==
    /\ child' = [child EXCEPT ![r] = "exited"]
    /\ code' = [code EXCEPT ![r] = c]
    /\ os' = AfterExit(r)

\* The component ends on its own account, or in its own time after a SIGINT.
ChildExits(r) ==
    /\ Live(r)
    /\ \E c \in OwnCodes : Exit(r, c)
    /\ UNCHANGED <<store, phase, rid, inline, rpid, shared, cmd>>

\* The user kills the component without the SDK.
UserKills(r) ==
    /\ Live(r)
    /\ \E c \in {SigintLinux, SigkillLinux} : Exit(r, c)
    /\ UNCHANGED <<store, phase, rid, inline, rpid, shared, cmd>>

\* Mutant of SupervisorDies: the supervisor writes "Stopped" on its way out.
SupervisorReports(r) ==
    /\ phase[r] = "wait"
    /\ phase' = [phase EXCEPT ![r] = "dead"]
    /\ store' = [store EXCEPT ![rid[r]] = Entry(r, Stopped)]
    /\ UNCHANGED <<os, rid, inline, rpid, child, code, shared, cmd>>

\* The supervisor dies: killed with its terminal, or KeyboardInterrupt -> sys.exit(1), which
\* skips on_exit.  A child that has ended already is reaped by the system, one that lives goes
\* on; "lost" when the run was never reported.
SupervisorDies(r) ==
    /\ Supervised(r)
    /\ phase' = [phase EXCEPT ![r] = IF phase[r] \in {"launch", "report"} THEN "lost" ELSE "dead"]
    /\ os' = IF child[r] = "exited" /\ phase[r] # "exit"
             THEN [os EXCEPT ![rpid[r]] = Free] ELSE os
    /\ UNCHANGED <<store, rid, inline, rpid, child, code, shared, cmd>>

\* Ctrl-C in the terminal of an inline run: supervisor and component both receive SIGINT
\* and end (SupervisorDies covers a component that ignores it).
CtrlC(r) ==
    /\ inline[r]
    /\ phase[r] = "wait"
    /\ Live(r)
    /\ phase' = [phase EXCEPT ![r] = "dead"]
    /\ child' = [child EXCEPT ![r] = "exited"]
    /\ code' = [code EXCEPT ![r] = SigintLinux]
    /\ os' = [os EXCEPT ![rpid[r]] = Free]
    /\ UNCHANGED <<store, rid, inline, rpid, shared, cmd>>

\* Other programs of the machine come and go.
ForeignStarts(n) ==
    /\ os[n] = Free
    /\ os' = [os EXCEPT ![n] = Foreign]
    /\ UNCHANGED <<store, runVars, shared, cmd>>

ForeignExits(n) ==
    /\ os[n] = Foreign
    /\ os' = [os EXCEPT ![n] = Free]
    /\ UNCHANGED <<store, runVars, shared, cmd>>
-----------------------------------------------------------------------------
(* A stop command *)

Recorded == {i \in Ids : store[i] # None}
Aim(S) == {r \in Runs : /\ rid[r] \in S /\ Live(r)
                        /\ phase[r] \in {"wait", "dead"}}

\* Controller.stop with a component type: one plugin.stop() for every entry of the type.
\* With --id: one plugin.stop().
StopType(c) ==
    /\ cmd[c].pc = "idle"
    /\ Recorded # {}
    /\ cmd' = [cmd EXCEPT ![c] = [Idle EXCEPT !.pc = "round", !.scope = Ids,
                                    !.rounds = Cardinality(Recorded), !.aim = Aim(Ids)]]
    /\ UNCHANGED <<store, os, runVars, shared>>

StopId(c, i) ==
    /\ cmd[c].pc = "idle"
    /\ cmd' = [cmd EXCEPT ![c] = [Idle EXCEPT !.pc = "round", !.scope = {i},
                                    !.rounds = 1, !.aim = Aim({i})]]
    /\ UNCHANGED <<store, os, runVars, shared>>

\* Mutant of ReadStore: the id of the command line is not looked at.
ReadStoreOfType(c) ==
    /\ cmd[c].pc = "round"
    /\ cmd[c].rounds > 0
    /\ cmd' = [cmd EXCEPT ![c].pc = "pick",
                          ![c].rounds = cmd[c].rounds - 1,
                          ![c].snap = store,
                          ![c].todo = Recorded]
    /\ UNCHANGED <<store, os, runVars, shared>>

\* call_for_component_id_or_type: read the store, then call kill_process on every entry
\* of the selection, whatever its state is.
ReadStore(c) ==
    /\ cmd[c].pc = "round"
    /\ cmd[c].rounds > 0
    /\ cmd' = [cmd EXCEPT ![c].pc = "pick",
                          ![c].rounds = cmd[c].rounds - 1,
                          ![c].snap = store,
                          ![c].todo = cmd[c].scope \cap Recorded]
    /\ UNCHANGED <<store, os, runVars, shared>>

\* Mutant of Signal: no SIGKILL after it.
SignalOnly(c, i) ==
    LET n == cmd[c].snap[i].pid IN
    /\ cmd[c].pc = "pick"
    /\ i \in cmd[c].todo
    /\ cmd' = [cmd EXCEPT ![c].todo = cmd[c].todo \ {i},
                          ![c].target = i]
    /\ \/ UNCHANGED <<os, child, code>>
       \/ os[n] \in Runs /\ Live(os[n]) /\ Exit(os[n], SigintLinux)
       \/ /\ os[n] = Foreign
          /\ os' = [os EXCEPT ![n] = Free]
          /\ UNCHANGED <<child, code>>
    /\ UNCHANGED <<store, phase, rid, inline, rpid, shared>>

\* kill_by_pid: nothing to do if the pid denotes no process, else SIGINT.
Signal(c, i) ==
    LET n == cmd[c].snap[i].pid IN
    /\ cmd[c].pc = "pick"
    /\ i \in cmd[c].todo
    /\ cmd' = [cmd EXCEPT ![c].todo = cmd[c].todo \ {i},
                          ![c].target = i,
                          ![c].pc = IF os[n] = Free THEN "pick" ELSE "kill"]
    /\ \/ UNCHANGED <<os, child, code>>
       \/ os[n] \in Runs /\ Live(os[n]) /\ Exit(os[n], SigintLinux)
       \/ /\ os[n] = Foreign
          /\ os' = [os EXCEPT ![n] = Free]
          /\ UNCHANGED <<child, code>>
    /\ UNCHANGED <<store, phase, rid, inline, rpid, shared>>

\* ... and SIGKILL if the pid still (or again) denotes a process.
Kill(c) ==
    LET n == cmd[c].snap[cmd[c].target].pid IN
    /\ cmd[c].pc = "kill"
    /\ cmd' = [cmd EXCEPT ![c].pc = "pick"]
    /\ CASE os[n] = Foreign ->
              os' = [os EXCEPT ![n] = Free] /\ UNCHANGED <<child, code>>
         [] os[n] \in Runs /\ Live(os[n]) -> Exit(os[n], SigkillLinux)
         [] OTHER -> UNCHANGED <<os, child, code>>
    /\ UNCHANGED <<store, phase, rid, inline, rpid, shared>>

EndRound(c) ==
    /\ cmd[c].pc = "pick"
    /\ cmd[c].todo = {}
    /\ cmd' = [cmd EXCEPT ![c].pc = "round"]
    /\ UNCHANGED <<store, os, runVars, shared>>

StopReturns(c) ==
    /\ cmd[c].pc = "round"
    /\ cmd[c].rounds = 0
    /\ cmd' = [cmd EXCEPT ![c] = Idle]
    /\ UNCHANGED <<store, os, runVars, shared>>
-----------------------------------------------------------------------------
Supervise(r) ==
    \/ \E n \in Pids : Launch(r, n)
    \/ LaunchFails(r) \/ ReportRunning(r) \/ Reap(r) \/ ReportExit(r)

Stopping(c) ==
    \/ ReadStore(c) \/ Kill(c) \/ EndRound(c) \/ StopReturns(c)
    \/ \E i \in Ids : Signal(c, i)

Next ==
    \/ \E r \in Runs :
         \/ \E i \in Ids, term \in BOOLEAN : Start(r, i, term)
         \/ Supervise(r)
         \/ ChildExits(r) \/ UserKills(r) \/ SupervisorDies(r) \/ CtrlC(r)
    \/ \E n \in Pids : ForeignStarts(n) \/ ForeignExits(n)
    \/ \E c \in Cmds :
         \/ StopType(c) \/ (\E i \in Ids : StopId(c, i))
         \/ Stopping(c)

\* Supervisors that are alive go on; components run as long as they like.
Fairness == \A r \in Runs : WF_vars(Supervise(r))

Spec == Init /\ [][Next]_vars
FairSpec == Spec /\ Fairness
-----------------------------------------------------------------------------
CmdStates == [pc : {"idle", "round", "pick", "kill"}, rounds : Nat,
              scope : SUBSET Ids, todo : SUBSET Ids, snap : [Ids -> Entries \cup {None}],
              target : Ids \cup {None}, aim : SUBSET Runs]

\* Every variable keeps its type.
TypeOK ==
    /\ store \in [Ids -> Entries \cup {None}]
    /\ os \in [Pids -> Runs \cup {Free, Foreign}]
    /\ phase \in [Runs -> {"new", "launch", "report", "wait", "exit", "done", "dead", "lost"}]
    /\ rid \in [Runs -> Ids \cup {None}]
    /\ inline \in [Runs -> BOOLEAN]
    /\ rpid \in [Runs -> Pids \cup {None}]
    /\ child \in [Runs -> {"none", "alive", "exited"}]
    /\ code \in [Runs -> Int]
    /\ shared \subseteq Ids
    /\ cmd \in [Cmds -> CmdStates]

\* "Stopped" and "Failed" are only written for a process that has ended: no entry hides a
\* live process of the run that wrote it.
FinalStatusIsTrue ==
    \A i \in Ids : (store[i] # None /\ store[i].state # Running)
                      => child[store[i].run] = "exited" /\ \A n \in Pids : os[n] # store[i].run

\* A component that has reported is found through the store as long as it lives, even when
\* its supervisor has died, unless its id was started while another run of it was alive.
LiveIsFindable ==
    \A r \in Runs :
      (Live(r) /\ phase[r] \in {"wait", "dead"} /\ rid[r] \notin shared)
         => /\ store[rid[r]] = Entry(r, Running)
            /\ os[store[rid[r]].pid] = r

\* When a stop command returns, every component of its selection that was running and
\* reported when the command began has ended, unless two runs shared the id: the store is read
\* after the command begins, and SIGKILL follows SIGINT.
StopReachesUnshared ==
    [][\A c \in Cmds :
         StopReturns(c) => \A r \in cmd[c].aim : rid[r] \notin shared => ~Live(r)]_vars

\* A "Running" entry of a process that has ended is corrected, unless its supervisor died.
StaleRunning(i, r) ==
    store[i] # None /\ store[i].run = r /\ store[i].state = Running /\ child[r] = "exited"
StaleIsCorrected ==
    \A i \in Ids, r \in Runs :
      StaleRunning(i, r) ~> (~StaleRunning(i, r) \/ phase[r] = "dead")

\* A stop command ends components of its selection only; beyond it nothing but a process that
\* has been given the pid of a component of the selection that has ended
\* (docs/commands/stop.rst: "stops only the component with unique identifier == ``node1``").
Inherits(r, c) ==
    \E i \in cmd[c].scope :
        LET e == cmd[c].snap[i] IN
        e # None /\ e.pid = rpid[r] /\ e.run # r /\ child[e.run] = "exited"
StopHitsScope ==
    [][\A c \in Cmds : (Kill(c) \/ \E i \in Ids : Signal(c, i)) =>
         \A r \in Runs : (Live(r) /\ ~Live(r)') => (rid[r] \in cmd[c].scope \/ Inherits(r, c))]_vars
=============================================================================
