------------------------------- MODULE Wallet -------------------------------
(***************************************************************************)
(* The wallets of the electrumsv plugin (electrumsv.py, local_tools.py):   *)
(* what start and reset look for, delete and create in the data directory  *)
(* of an instance, on which network, and with which seed; several commands *)
(* at a time, killed at any step, with ElectrumSV's own commands, whose    *)
(* outcome nobody reads.  Ids, ports and processes are in Instances and    *)
(* Lifecycle.                                                              *)
(***************************************************************************)
EXTENDS Naturals, FiniteSets

CONSTANTS Procs,        \* slots for commands that run at a time
          Ids, DefaultId,
          Lines,        \* the command lines that are entered
          Others,       \* wallet files beside worker1.sqlite
          Worker,       \* worker1.sqlite
          NoId,
          MaxCommands   \* bound: commands entered

ASSUME WalletAssumption ==
    /\ DefaultId \in Ids /\ NoId \notin Ids /\ Worker \notin Others
    /\ MaxCommands \in Nat

VARIABLES worker,    \* per id and network: its worker1.sqlite
          others,    \* per id: other wallets in its regtest/wallets
          known,     \* ids that have an entry in the component store
          jobs,      \* ElectrumSV commands spawned by a start, or left behind by a kill
          ask,       \* per slot: the command line
          step,      \* per slot: the place in the command
          id,        \* per slot: the instance it is at
          todo,      \* per slot: instances still to be reset
          list,      \* per slot: files still to be removed
          alone,     \* history, per slot: no other command ran meanwhile
          spoiled,   \* history: wallets whose creation did not come to its end
          entered

files == <<worker, others, spoiled>>
command == <<ask, step, id, todo, list, alone>>
vars == <<files, known, jobs, command, entered>>

Networks == {"regtest", "testnet"}
\* seed: that of the wallet's account, the deterministic one or a random one.
Absent == [file |-> "missing", accounts |-> 0, seed |-> "none"]
NewWallet == [file |-> "there", accounts |-> 0, seed |-> "none"]
Seeds == {"none", "given", "random"}
Wallets == {Absent} \cup [file : {"there"}, accounts : 0..2, seed : Seeds]

(* Command lines; offline is an ElectrumSV command after the component.    *)
\* given: --id is there; waits: --inline, so that the start waits for its process.
Starts == [kind : {"start"}, id : Ids, given : BOOLEAN, net : Networks, seed : BOOLEAN,
           offline : {"none", "create_wallet", "create_account"}, file : Others \cup {Worker},
           waits : BOOLEAN]
Resets == [kind : {"reset"}, id : Ids \cup {NoId}, given : BOOLEAN, net : Networks,
           seed : BOOLEAN, offline : {"none"}, file : {Worker}, waits : {FALSE}]
\* The network of a reset is that of the environment: it does not read the flags.
Requests == {r \in Starts : r.offline = "none" => r.file = Worker /\ ~r.waits}
            \cup {r \in Resets : r.given <=> r.id # NoId}
ASSUME LinesAssumption == Lines \subseteq Requests
NoRequest == [kind |-> "none"]

Ended == {"idle", "launched"}
Active == {p \in Procs : step[p] \notin Ended}
Busy == Active \cup {j.by : j \in jobs}
Jobs == [by : Procs, round : 1..2, id : Ids, net : Networks,
         offline : {"create_wallet", "create_account"}, file : Others \cup {Worker}]

Goto(p, s) == step' = [step EXCEPT ![p] = s]
Exists(i, n) == worker[i][n].file = "there"
There(p) == Exists(id[p], ask[p].net)
End(p, s) == /\ Goto(p, s) /\ ask' = [ask EXCEPT ![p] = NoRequest]
             /\ id' = [id EXCEPT ![p] = NoId] /\ todo' = [todo EXCEPT ![p] = {}]
             /\ list' = [list EXCEPT ![p] = {}] /\ alone' = [alone EXCEPT ![p] = FALSE]
To(p, s) == Goto(p, s) /\ UNCHANGED <<ask, id, todo, list, alone>>
Untouched == UNCHANGED <<files, known, jobs>>

\* An id without --id is the default, or a new one (--new).
Allocated(r) == ~r.given /\ r.id \in Ids \ {DefaultId} =>
    r.id \notin known /\ others[r.id] = {} /\ \A n \in Networks : worker[r.id][n] = Absent

-----------------------------------------------------------------------------
Init ==
    /\ worker = [i \in Ids |-> [n \in Networks |-> Absent]]
    /\ others = [i \in Ids |-> {}]
    /\ known = {} /\ jobs = {} /\ spoiled = {}
    /\ ask = [p \in Procs |-> NoRequest] /\ step = [p \in Procs |-> "idle"]
    /\ id = [p \in Procs |-> NoId] /\ todo = [p \in Procs |-> {}]
    /\ list = [p \in Procs |-> {}] /\ alone = [p \in Procs |-> FALSE]
    /\ entered = 0

\* start selects one instance, reset those that have an entry.
Enter(p, r) ==
    /\ p \notin Busy /\ entered < MaxCommands /\ Allocated(r)
    /\ entered' = entered + 1
    /\ ask' = [ask EXCEPT ![p] = r]
    /\ id' = [id EXCEPT ![p] = r.id]
    /\ todo' = [todo EXCEPT ![p] = IF r.kind = "start" THEN {}
                                   ELSE IF r.given THEN known \cap {r.id} ELSE known]
    /\ Goto(p, IF r.kind = "reset" THEN "next" ELSE IF r.offline = "none" THEN "look"
                                                                         ELSE "offline")
    /\ alone' = [q \in Procs |-> IF q = p THEN Busy = {} ELSE alone[q] /\ q \notin Busy]
    /\ UNCHANGED list
    /\ Untouched

(* start                                                                   *)
Job(p, n) == [by |-> p, round |-> n, id |-> id[p], net |-> ask[p].net,
              offline |-> ask[p].offline, file |-> ask[p].file]
Spawn(p, n) == jobs' = jobs \cup {Job(p, n)} /\ known' = known \cup {id[p]}

\* An offline command is spawned, and start goes on as without one.
Offline(p) ==
    /\ step[p] = "offline"
    /\ Spawn(p, 1)
    /\ To(p, IF ask[p].waits THEN "wait" ELSE "look")
    /\ UNCHANGED <<files, entered>>
Wait(p) ==
    /\ step[p] = "wait" /\ \A j \in jobs : j.by # p
    /\ To(p, "look")
    /\ Untouched /\ UNCHANGED entered

\* wallet_db_exists, on the start's own network; asked again by each branch.
\* Mutant of Look: a wallet without an account counts as missing.
LookForAccount(p) ==
    /\ step[p] = "look"
    /\ To(p, IF worker[id[p]][ask[p].net].accounts = 0 THEN "delete"
             ELSE IF ask[p].seed THEN "check" ELSE "launch")
    /\ Untouched /\ UNCHANGED entered
Look(p) ==
    /\ step[p] = "look"
    /\ To(p, IF ~There(p) THEN "again" ELSE IF ask[p].seed THEN "check" ELSE "launch")
    /\ Untouched /\ UNCHANGED entered
\* The seed for a wallet that exists is an error.
Check(p) ==
    /\ step[p] = "check"
    /\ IF There(p) THEN End(p, "idle") ELSE To(p, "launch")
    /\ Untouched /\ UNCHANGED entered
\* The seed with --id is a KeyError in set_deterministic_electrumsv_seed.
Again(p) ==
    /\ step[p] = "again"
    /\ IF ~There(p) /\ ask[p].seed /\ ask[p].given THEN End(p, "idle")
       ELSE To(p, IF There(p) THEN "launch" ELSE "delete")
    /\ Untouched /\ UNCHANGED entered

\* The daemon, or the offline command for the second time.
Launch(p) ==
    /\ step[p] = "launch"
    /\ IF ask[p].offline = "none"
       THEN End(p, "launched") /\ known' = known \cup {id[p]} /\ UNCHANGED jobs
       ELSE End(p, "idle") /\ Spawn(p, 2)
    /\ UNCHANGED <<files, entered>>

(* reset: one instance after another, whether it runs or not.              *)
NextInstance(p) ==
    /\ step[p] = "next"
    /\ IF todo[p] = {} THEN End(p, "idle")
       ELSE /\ \E i \in todo[p] : /\ id' = [id EXCEPT ![p] = i]
                                  /\ todo' = [todo EXCEPT ![p] = @ \ {i}]
            /\ Goto(p, "delete")
            /\ UNCHANGED <<ask, list, alone>>
    /\ Untouched /\ UNCHANGED entered

-----------------------------------------------------------------------------
(* delete_wallet: every file of regtest/wallets.                           *)
Listed(p) == others[id[p]] \cup (IF Exists(id[p], "regtest") THEN {Worker} ELSE {})
\* Mutant of Delete: nothing is deleted.
DeleteNothing(p) ==
    /\ step[p] = "delete"
    /\ To(p, "create")
    /\ Untouched /\ UNCHANGED entered
Delete(p) ==
    /\ step[p] = "delete"
    /\ list' = [list EXCEPT ![p] = Listed(p)]
    /\ Goto(p, "remove")
    /\ Untouched /\ UNCHANGED <<ask, id, todo, alone, entered>>

Remove(p, f) ==
    /\ step[p] = "remove" /\ f \in list[p] \cap Listed(p)
    /\ IF f = Worker
       THEN /\ worker' = [worker EXCEPT ![id[p]]["regtest"] = Absent]
            /\ spoiled' = spoiled \ {<<id[p], "regtest">>}
            /\ UNCHANGED others
       ELSE others' = [others EXCEPT ![id[p]] = @ \ {f}] /\ UNCHANGED <<worker, spoiled>>
    /\ list' = [list EXCEPT ![p] = @ \ {f}]
    /\ UNCHANGED <<known, jobs, ask, step, id, todo, alone, entered>>
\* Removed by another command before exists(), or between it and os.remove.
IsGone(p, f) ==
    /\ step[p] = "remove" /\ f \in list[p] \ Listed(p)
    /\ \/ End(p, "idle")
       \/ list' = [list EXCEPT ![p] = @ \ {f}] /\ UNCHANGED <<ask, step, id, todo, alone>>
    /\ Untouched /\ UNCHANGED entered
Removed(p) ==
    /\ step[p] = "remove" /\ list[p] = {}
    /\ To(p, "create")
    /\ Untouched /\ UNCHANGED entered

(* create_wallet of the plugin: ElectrumSV's create_wallet, which refuses  *)
(* a file that is there, and its create_account; their return codes are    *)
(* not read.                                                               *)
Place(p) == <<id[p], ask[p].net>>
\* Mutant of CreateWallet: no account is made.
CreateWalletOnly(p) ==
    /\ step[p] = "create"
    /\ \/ /\ ~There(p)
          /\ worker' = [worker EXCEPT ![id[p]][ask[p].net] = NewWallet]
          /\ spoiled' = spoiled \ {Place(p)}
       \/ There(p) /\ UNCHANGED <<worker, spoiled>>
    /\ To(p, IF ask[p].kind = "start" THEN "launch" ELSE "next")
    /\ UNCHANGED <<others, known, jobs, entered>>
CreateWallet(p) ==
    /\ step[p] = "create"
    /\ \/ /\ ~There(p)
          /\ worker' = [worker EXCEPT ![id[p]][ask[p].net] = NewWallet]
          /\ spoiled' = spoiled \ {Place(p)}
       \/ There(p) /\ UNCHANGED <<worker, spoiled>>
       \/ ~There(p) /\ spoiled' = spoiled \cup {Place(p)} /\ UNCHANGED worker
    /\ To(p, "account")
    /\ UNCHANGED <<others, known, jobs, entered>>

WithAccount(w, seed) == [file |-> w.file,
                         accounts |-> IF w.accounts < 2 THEN w.accounts + 1 ELSE w.accounts,
                         seed |-> IF w.accounts = 0 THEN seed ELSE w.seed]
\* Only start sets the seed: reset looks for an attribute that its input never has.
Seeded(p) == IF ask[p].kind = "start" /\ ask[p].seed THEN "given" ELSE "random"
\* Mutant of CreateAccount: the seed is not handed on.
CreateAccountUnseeded(p) ==
    /\ step[p] = "account"
    /\ \/ /\ There(p)
          /\ worker' = [worker EXCEPT ![id[p]][ask[p].net] = WithAccount(@, "random")]
          /\ UNCHANGED spoiled
       \/ spoiled' = spoiled \cup {Place(p)} /\ UNCHANGED worker
    /\ To(p, IF ask[p].kind = "start" THEN "launch" ELSE "next")
    /\ UNCHANGED <<others, known, jobs, entered>>
CreateAccount(p) ==
    /\ step[p] = "account"
    /\ \/ /\ There(p)
          /\ worker' = [worker EXCEPT ![id[p]][ask[p].net] = WithAccount(@, Seeded(p))]
          /\ UNCHANGED spoiled
       \/ spoiled' = spoiled \cup {Place(p)} /\ UNCHANGED worker
    /\ To(p, IF ask[p].kind = "start" THEN "launch" ELSE "next")
    /\ UNCHANGED <<others, known, jobs, entered>>

-----------------------------------------------------------------------------
(* The offline commands: at any time once they are spawned; they may fail. *)
JobEnds(j) ==
    /\ j \in jobs
    /\ jobs' = jobs \ {j}
    /\ \/ UNCHANGED files
       \/ /\ j.offline = "create_wallet" /\ j.file = Worker /\ ~Exists(j.id, j.net)
          /\ worker' = [worker EXCEPT ![j.id][j.net] = NewWallet]
          /\ spoiled' = spoiled \cup {<<j.id, j.net>>}
          /\ UNCHANGED others
       \/ /\ j.offline = "create_wallet" /\ j.file # Worker /\ j.net = "regtest"
          /\ others' = [others EXCEPT ![j.id] = @ \cup {j.file}]
          /\ UNCHANGED <<worker, spoiled>>
       \/ /\ j.offline = "create_account" /\ j.file = Worker /\ Exists(j.id, j.net)
          /\ worker' = [worker EXCEPT ![j.id][j.net] = WithAccount(@, "random")]
          /\ UNCHANGED <<others, spoiled>>
    /\ UNCHANGED <<known, command, entered>>

\* Ctrl-C, a kill, the end of the machine.  ElectrumSV's create_wallet, which the plugin waits
\* for, may go on without it.
Orphan(p) == [by |-> p, round |-> 1, id |-> id[p], net |-> ask[p].net,
              offline |-> "create_wallet", file |-> Worker]
Crash(p) ==
    /\ p \in Active
    /\ End(p, "idle")
    /\ UNCHANGED jobs \/ (step[p] = "create" /\ jobs' = jobs \cup {Orphan(p)})
    /\ spoiled' = IF step[p] = "account" THEN spoiled \cup {Place(p)} ELSE spoiled
    /\ UNCHANGED <<worker, others, known, entered>>

Advance(p) ==
    \/ Offline(p) \/ Wait(p) \/ Look(p) \/ Check(p) \/ Again(p) \/ Launch(p) \/ NextInstance(p)
    \/ Delete(p) \/ Removed(p) \/ CreateWallet(p) \/ CreateAccount(p)
    \/ \E f \in list[p] : Remove(p, f) \/ IsGone(p, f)
Next ==
    \/ \E p \in Procs : Advance(p) \/ Crash(p) \/ \E r \in Lines : Enter(p, r)
    \/ \E j \in jobs : JobEnds(j)

Spec == Init /\ [][Next]_vars

-----------------------------------------------------------------------------
Steps == Ended \cup {"offline", "wait", "look", "check", "again", "launch", "next", "delete",
                     "remove", "create", "account"}
TypeOK ==
    /\ worker \in [Ids -> [Networks -> Wallets]] /\ others \in [Ids -> SUBSET Others]
    /\ known \subseteq Ids /\ jobs \subseteq Jobs
    /\ ask \in [Procs -> Requests \cup {NoRequest}] /\ step \in [Procs -> Steps]
    /\ id \in [Procs -> Ids \cup {NoId}] /\ todo \in [Procs -> SUBSET Ids]
    /\ list \in [Procs -> SUBSET (Others \cup {Worker})]
    /\ alone \in [Procs -> BOOLEAN] /\ spoiled \subseteq Ids \X Networks
    /\ entered \in 0..MaxCommands

(* A worker1.sqlite without an account is one that a command is about to   *)
(* complete, or its creation failed, was killed, or was the user's.        *)
AccountlessIsSpoiled == \A i \in Ids, n \in Networks :
    Exists(i, n) /\ worker[i][n].accounts = 0
        => \/ <<i, n>> \in spoiled
           \/ \E p \in Procs : step[p] = "account" /\ Place(p) = <<i, n>>

TakesWorker(p) == /\ step[p] = "remove" /\ Worker \in list[p]
                  /\ Exists(id[p], "regtest")
                  /\ worker'[id[p]]["regtest"] = Absent

(* A start on regtest that runs alone removes no worker1.sqlite, not even  *)
(* one without an account, but that which its own offline create_wallet    *)
(* made after the start had found none, while it has no account yet.       *)
OwnWallet(p) == /\ ask[p].offline = "create_wallet" /\ ask[p].file = Worker
                /\ worker[id[p]]["regtest"].accounts = 0
StartSparesWorker == [][\A p \in Procs :
    ask[p].kind = "start" /\ TakesWorker(p)
        => ask[p].net = "testnet" \/ ~alone[p] \/ OwnWallet(p)]_vars

(* A daemon that is started by a command on its own finds a wallet with an *)
(* account, of the given seed if one was asked for, unless the creation of *)
(* the wallet went wrong at some time.                                     *)
LaunchedReady == [][\A p \in Procs :
    step[p] = "launch" /\ step'[p] = "launched" /\ alone[p] /\ Place(p) \notin spoiled
        => LET w == worker[id[p]][ask[p].net] IN
           /\ w.file = "there" /\ w.accounts > 0
           /\ ask[p].seed => w.seed = "given" /\ w.accounts = 1]_vars

(* When a reset on regtest is done with an instance on its own, the        *)
(* instance has a new worker1.sqlite with one account, of a random seed if *)
(* no other was asked for, unless the creation went wrong.                 *)
Renewed(p) == /\ ask[p].kind = "reset" /\ ask[p].net = "regtest" /\ alone[p]
              /\ step[p] = "account" /\ step'[p] = "next" /\ Place(p) \notin spoiled'
ResetRenews == [][\A p \in Procs :
    Renewed(p) => LET w == worker'[id[p]]["regtest"] IN
                  /\ w.file = "there" /\ w.accounts = 1
                  /\ ~ask[p].seed => w.seed = "random"]_vars

=============================================================================
