---------------------------- MODULE WalletProofs ----------------------------
(***************************************************************************)
(* Proofs of the safety properties of Wallet for any slots, ids, command   *)
(* lines and number of commands.  A command that runs alone (Solo) is the  *)
(* only one that changes anything (Undisturbed), so what its earlier steps *)
(* saw and did still holds (StartCourse, Made, ResetCourse, LaunchCourse); *)
(* with an ElectrumSV command of its own, what that has made (Sparing).    *)
(***************************************************************************)
EXTENDS Wallet, TLAPS

StartSteps == {"offline", "wait", "look", "check", "again", "launch"}
DeleteSteps == {"delete", "remove", "create", "account"}

\* What a command's place says of its command line and instance.
PlaceFits ==
    \A p \in Procs :
        /\ step[p] \notin Ended => ask[p] \in Requests
        /\ step[p] \in StartSteps => ask[p].kind = "start" /\ id[p] \in Ids
        /\ step[p] \in DeleteSteps => id[p] \in Ids
        /\ step[p] \in {"offline", "wait"} => ask[p].offline # "none"
        /\ step[p] = "next" => ask[p].kind = "reset"

\* A command that runs alone, without an ElectrumSV command of its own.
Solo(p) == step[p] \notin Ended /\ alone[p] /\ ask[p].offline = "none"

Undisturbed ==
    \A p \in Procs : (step[p] \notin Ended /\ alone[p]) =>
        /\ \A q \in Procs : q # p => step[q] \in Ended
        /\ \A j \in jobs : j.by = p
        /\ ask[p].offline = "none" => jobs = {}

\* What start found stays: the wallet is missing until it is created.
StartCourse(p) ==
    ask[p].kind = "start" =>
        /\ step[p] \in {"again", "delete", "remove", "create"} => ~There(p)
        /\ step[p] = "check" => There(p)
        /\ (step[p] = "remove" /\ ask[p].net = "regtest") => Worker \notin list[p]

\* A wallet that was created has no account yet.
Made(p) ==
    (/\ step[p] = "account" /\ Place(p) \notin spoiled
     /\ ask[p].kind = "start" \/ ask[p].net = "regtest")
        => worker[id[p]][ask[p].net] = NewWallet

\* A reset removes all that it found.
ResetCourse(p) ==
    (ask[p].kind = "reset" /\ ask[p].net = "regtest") =>
        /\ step[p] = "remove" => Listed(p) \subseteq list[p]
        /\ step[p] = "create" => Listed(p) = {}

\* The daemon is started on a wallet with an account.
LaunchCourse(p) ==
    (step[p] = "launch" /\ Place(p) \notin spoiled) =>
        LET w == worker[id[p]][ask[p].net] IN
        /\ w.file = "there" /\ w.accounts > 0
        /\ ask[p].seed => w.seed = "given" /\ w.accounts = 1

Course(p) == StartCourse(p) /\ Made(p) /\ ResetCourse(p) /\ LaunchCourse(p)
Courses == \A p \in Procs : Solo(p) => Course(p)

\* What a start on regtest that runs alone is about to delete is its own.
Bound(p) == ask[p].net = "regtest" /\ step[p] \in {"again", "delete", "remove"}
Spares(p) == Bound(p) /\ Exists(id[p], "regtest") => OwnWallet(p)
Sparing ==
    \A p \in Procs : (step[p] \notin Ended /\ alone[p] /\ ask[p].kind = "start") =>
        jobs \subseteq {Job(p, 1)} /\ Spares(p)

WalletInv ==
    TypeOK /\ PlaceFits /\ AccountlessIsSpoiled /\ Undisturbed /\ Courses /\ Sparing
-----------------------------------------------------------------------------
\* No command has been entered in an initial state.
LEMMA InitWallet == Init => WalletInv
<1> SUFFICES ASSUME Init PROVE WalletInv
  OBVIOUS
<1>1. TypeOK
  BY WalletAssumption DEF Init, TypeOK, Wallets, Steps, Ended
<1>2. PlaceFits /\ Undisturbed /\ Courses /\ Sparing
  BY DEF Init, PlaceFits, Undisturbed, Courses, Sparing, Solo, Ended, StartSteps, DeleteSteps
<1>3. AccountlessIsSpoiled
  BY DEF Init, AccountlessIsSpoiled, Exists, Absent
<1>4. QED
  BY <1>1, <1>2, <1>3 DEF WalletInv

\* The records of wallets.
LEMMA WalletTypes == Absent \in Wallets /\ NewWallet \in Wallets
BY DEF Wallets, Absent, NewWallet, Seeds

LEMMA WalletGrows ==
    ASSUME NEW w \in Wallets, w.file = "there", NEW seed \in Seeds
    PROVE  /\ WithAccount(w, seed) \in Wallets /\ WithAccount(w, seed).file = "there"
           /\ WithAccount(w, seed).accounts > 0
           /\ w.accounts = 0 => /\ WithAccount(w, seed).accounts = 1
                                /\ WithAccount(w, seed).seed = seed
<1>1. w \in [file : {"there"}, accounts : 0..2, seed : Seeds]
  BY DEF Wallets, Absent
<1>2. w.accounts \in 0..2 /\ w.seed \in Seeds
  BY <1>1
<1>3. QED
  BY <1>1, <1>2 DEF WithAccount, Wallets

\* What a command line can be.
LEMMA RequestTypes ==
    ASSUME NEW r \in Requests
    PROVE  /\ r.kind \in {"start", "reset"} /\ r.net \in Networks /\ r.seed \in BOOLEAN
           /\ r.kind = "start" => r.id \in Ids /\ r \in Starts
           /\ r.kind = "reset" => r.offline = "none"
           /\ r.given \in BOOLEAN /\ r.id \in Ids \cup {NoId}
           /\ r.file \in Others \cup {Worker}
           /\ r.offline \in {"none", "create_wallet", "create_account"}
BY DEF Requests, Starts, Resets
-----------------------------------------------------------------------------
\* One wallet is replaced.
LEMMA PutWallet ==
    ASSUME NEW W \in [Ids -> [Networks -> Wallets]], NEW i, NEW n, NEW w \in Wallets
    PROVE  [W EXCEPT ![i][n] = w] \in [Ids -> [Networks -> Wallets]]
<1>1. CASE i \in Ids
  <2>1. [W[i] EXCEPT ![n] = w] \in [Networks -> Wallets]
    BY <1>1
  <2>2. QED
    BY <2>1
<1>2. CASE i \notin Ids
  <2>1. [W EXCEPT ![i][n] = w] = W
    BY <1>2
  <2>2. QED
    BY <2>1
<1>3. QED
  BY <1>1, <1>2

LEMMA WalletPut ==
    ASSUME worker \in [Ids -> [Networks -> Wallets]], NEW i \in Ids, NEW n \in Networks, NEW w,
           worker' = [worker EXCEPT ![i][n] = w], NEW j \in Ids, NEW m \in Networks
    PROVE  worker'[j][m] = IF j = i /\ m = n THEN w ELSE worker[j][m]
OBVIOUS

\* Types: the files, and what the steps of a command leave behind.
LEMMA StepFiles ==
    ASSUME TypeOK, PlaceFits, [Next]_vars
    PROVE  /\ worker' \in [Ids -> [Networks -> Wallets]] /\ others' \in [Ids -> SUBSET Others]
           /\ spoiled' \subseteq Ids \X Networks
<1> USE DEF TypeOK
<1> DEFINE Typed == /\ worker' \in [Ids -> [Networks -> Wallets]]
                    /\ others' \in [Ids -> SUBSET Others] /\ spoiled' \subseteq Ids \X Networks
<1>1. CASE UNCHANGED files
  BY <1>1 DEF files
<1>2. \A p \in Procs : step[p] \in DeleteSteps => Place(p) \in Ids \X Networks
  BY RequestTypes DEF PlaceFits, Place, DeleteSteps, Ended
<1>3. ASSUME NEW p \in Procs, NEW f \in list[p], Remove(p, f) PROVE Typed
  <2>1. [worker EXCEPT ![id[p]]["regtest"] = Absent] \in [Ids -> [Networks -> Wallets]]
    BY WalletTypes, PutWallet
  <2>2. [others EXCEPT ![id[p]] = @ \ {f}] \in [Ids -> SUBSET Others]
    OBVIOUS
  <2>3. QED
    BY <1>3, <2>1, <2>2 DEF Remove
<1>4. ASSUME NEW p \in Procs, CreateWallet(p) PROVE Typed
  <2>1. Place(p) \in Ids \X Networks
    BY <1>2, <1>4 DEF CreateWallet, DeleteSteps
  <2>2. [worker EXCEPT ![id[p]][ask[p].net] = NewWallet] \in [Ids -> [Networks -> Wallets]]
    BY WalletTypes, PutWallet
  <2>3. QED
    BY <1>4, <2>1, <2>2 DEF CreateWallet
<1>5. ASSUME NEW p \in Procs, CreateAccount(p) PROVE Typed
  <2>1. Place(p) \in Ids \X Networks /\ id[p] \in Ids /\ ask[p].net \in Networks
    BY <1>2, <1>5 DEF CreateAccount, DeleteSteps, Place
  <2>2. There(p) => WithAccount(worker[id[p]][ask[p].net], Seeded(p)) \in Wallets
    BY <2>1, WalletGrows DEF There, Exists, Seeded, Seeds
  <2>3. There(p) => [worker EXCEPT ![id[p]][ask[p].net] = WithAccount(@, Seeded(p))]
                      \in [Ids -> [Networks -> Wallets]]
    BY <2>1, <2>2, PutWallet
  <2>4. QED
    BY <1>5, <2>1, <2>3 DEF CreateAccount
<1>6. ASSUME NEW p \in Procs, Crash(p) PROVE Typed
  BY <1>2, <1>6 DEF Crash, DeleteSteps
<1>7. ASSUME NEW j \in jobs, JobEnds(j) PROVE Typed
  <2>1. j.id \in Ids /\ j.net \in Networks /\ j.file \in Others \cup {Worker}
    BY DEF Jobs
  <2>2. Exists(j.id, j.net) => WithAccount(worker[j.id][j.net], "random") \in Wallets
    BY <2>1, WalletGrows DEF Exists, Seeds
  <2>3. /\ [worker EXCEPT ![j.id][j.net] = NewWallet] \in [Ids -> [Networks -> Wallets]]
        /\ Exists(j.id, j.net) => [worker EXCEPT ![j.id][j.net] = WithAccount(@, "random")]
                                    \in [Ids -> [Networks -> Wallets]]
    BY <2>2, WalletTypes, PutWallet
  <2>4. j.file # Worker => [others EXCEPT ![j.id] = @ \cup {j.file}] \in [Ids -> SUBSET Others]
    BY <2>1
  <2>5. spoiled \cup {<<j.id, j.net>>} \subseteq Ids \X Networks
    BY <2>1
  <2>6. CASE UNCHANGED files
    BY <1>1, <2>6
  <2>7. CASE j.offline = "create_wallet" /\ j.file = Worker /\ ~UNCHANGED files
    BY <1>7, <2>3, <2>5, <2>7 DEF JobEnds
  <2>8. CASE j.offline = "create_wallet" /\ j.file # Worker /\ ~UNCHANGED files
    BY <1>7, <2>4, <2>8 DEF JobEnds
  <2>9. CASE j.offline = "create_account" /\ ~UNCHANGED files
    BY <1>7, <2>3, <2>9 DEF JobEnds
  <2>10. QED
    BY <1>7, <2>6, <2>7, <2>8, <2>9 DEF JobEnds
<1>8. ASSUME NEW p \in Procs, NEW r \in Lines, Enter(p, r) PROVE UNCHANGED files
  BY <1>8 DEF Enter, Untouched
<1>9. ASSUME NEW p \in Procs,
             \/ Offline(p) \/ Wait(p) \/ Look(p) \/ Check(p) \/ Again(p) \/ Launch(p)
             \/ NextInstance(p) \/ Delete(p) \/ Removed(p) \/ \E f \in list[p] : IsGone(p, f)
      PROVE  UNCHANGED files
  BY <1>9 DEF Offline, Wait, Look, Check, Again, Launch, NextInstance, Delete, Removed, IsGone,
              Untouched
<1>10. UNCHANGED vars => UNCHANGED files
  BY DEF vars
<1>11. QED
  BY <1>1, <1>3, <1>4, <1>5, <1>6, <1>7, <1>8, <1>9, <1>10 DEF Next, Advance

\* Types of what is left, and the place of every command.
LEMMA StepTypes ==
    ASSUME TypeOK, PlaceFits, [Next]_vars
    PROVE  TypeOK' /\ PlaceFits'
<1> DEFINE Typed == /\ known' \subseteq Ids /\ jobs' \subseteq Jobs
                    /\ ask' \in [Procs -> Requests \cup {NoRequest}] /\ step' \in [Procs -> Steps]
                    /\ id' \in [Procs -> Ids \cup {NoId}] /\ todo' \in [Procs -> SUBSET Ids]
                    /\ list' \in [Procs -> SUBSET (Others \cup {Worker})]
                    /\ alone' \in [Procs -> BOOLEAN] /\ entered' \in 0..MaxCommands
<1> DEFINE Ok == Typed /\ PlaceFits'
<1> USE DEF TypeOK, PlaceFits, Ended, StartSteps, DeleteSteps
<1>1. ASSUME NEW p \in Procs, NEW r \in Lines, Enter(p, r) PROVE Ok
  <2>1. r \in Requests
    BY LinesAssumption
  <2>2. /\ UNCHANGED <<known, jobs, list>> /\ entered' \in 0..MaxCommands
        /\ ask' \in [Procs -> Requests \cup {NoRequest}] /\ id' \in [Procs -> Ids \cup {NoId}]
    BY <1>1, <2>1, RequestTypes, WalletAssumption DEF Enter, Untouched
  <2>3. step' \in [Procs -> Steps] /\ todo' \in [Procs -> SUBSET Ids]
    BY <1>1, <2>1, RequestTypes DEF Enter, Goto, Steps
  <2>4. alone' \in [Procs -> BOOLEAN]
    BY <1>1, Zenon DEF Enter
  <2>5. PlaceFits'
    BY <1>1, <2>1, RequestTypes DEF Enter, Goto, Untouched
  <2>6. QED
    BY <2>2, <2>3, <2>4, <2>5
<1>2. ASSUME NEW p \in Procs, NEW s \in Ended, End(p, s),
             UNCHANGED entered, known' \subseteq Ids, jobs' \subseteq Jobs
      PROVE  Ok
  <2>1. alone' \in [Procs -> BOOLEAN]
    BY <1>2 DEF End
  <2>2. QED
    BY <1>2, <2>1 DEF End, Goto, Steps
<1>3. ASSUME NEW p \in Procs, NEW s \in Steps \ Ended, To(p, s), step[p] \notin Ended,
             s \in StartSteps => ask[p].kind = "start" /\ id[p] \in Ids,
             s \in DeleteSteps => id[p] \in Ids,
             s \in {"offline", "wait"} => ask[p].offline # "none",
             s = "next" => ask[p].kind = "reset",
             UNCHANGED entered, known' \subseteq Ids, jobs' \subseteq Jobs
      PROVE  Ok
  BY <1>3 DEF To, Goto, Steps
<1>4. ASSUME NEW p \in Procs, Offline(p) PROVE Ok
  <2>1. ask[p] \in Starts /\ ask[p].offline # "none" /\ id[p] \in Ids
    BY <1>4, RequestTypes DEF Offline
  <2>2. Job(p, 1) \in Jobs
    BY <2>1 DEF Job, Jobs, Starts
  <2>3. known' \subseteq Ids /\ jobs' \subseteq Jobs
    BY <1>4, <2>1, <2>2 DEF Offline, Spawn
  <2>4. QED
    BY <1>3, <1>4, <2>1, <2>3 DEF Offline, Steps, Starts
<1>5. ASSUME NEW p \in Procs, Wait(p) \/ Look(p) \/ Check(p) \/ Again(p) PROVE Ok
  <2>1. ask[p] \in Requests /\ ask[p].kind = "start" /\ id[p] \in Ids
    BY <1>5 DEF Wait, Look, Check, Again
  <2>2. QED
    BY <1>2, <1>3, <1>5, <2>1 DEF Wait, Look, Check, Again, Untouched, Steps
<1>6. ASSUME NEW p \in Procs, Launch(p) PROVE Ok
  <2>1. ask[p] \in Starts /\ id[p] \in Ids
    BY <1>6, RequestTypes DEF Launch
  <2>2. ask[p].offline # "none" => Job(p, 2) \in Jobs
    BY <2>1 DEF Job, Jobs, Starts
  <2>3. known' \subseteq Ids /\ jobs' \subseteq Jobs
    BY <1>6, <2>1, <2>2 DEF Launch, Spawn
  <2>4. QED
    BY <1>2, <1>6, <2>3 DEF Launch
<1>7. ASSUME NEW p \in Procs, NextInstance(p) PROVE Ok
  <2>1. CASE todo[p] = {}
    BY <1>2, <1>7, <2>1 DEF NextInstance, Untouched
  <2>2. CASE todo[p] # {}
    <3>1. PICK i \in todo[p] : id' = [id EXCEPT ![p] = i] /\ todo' = [todo EXCEPT ![p] = @ \ {i}]
      BY <1>7, <2>2 DEF NextInstance
    <3>2. QED
      BY <1>7, <2>2, <3>1 DEF NextInstance, Goto, Untouched, Steps
  <2>3. QED
    BY <2>1, <2>2
<1>8. ASSUME NEW p \in Procs, Delete(p) PROVE Ok
  <2>1. Listed(p) \in SUBSET (Others \cup {Worker})
    BY <1>8 DEF Delete, Listed
  <2>2. QED
    BY <1>8, <2>1 DEF Delete, Goto, Untouched, Steps
<1>9. ASSUME NEW p \in Procs, NEW f \in list[p], Remove(p, f) \/ IsGone(p, f) PROVE Ok
  <2>1. CASE Remove(p, f)
    BY <2>1 DEF Remove
  <2>2. CASE IsGone(p, f)
    <3>1. CASE End(p, "idle")
      BY <1>2, <2>2, <3>1 DEF IsGone, Untouched
    <3>2. CASE ~End(p, "idle")
      BY <2>2, <3>2 DEF IsGone, Untouched
    <3>3. QED
      BY <3>1, <3>2
  <2>3. QED
    BY <1>9, <2>1, <2>2
<1>10. ASSUME NEW p \in Procs, Removed(p) \/ CreateWallet(p) \/ CreateAccount(p) PROVE Ok
  <2>1. ask[p].kind \in {"start", "reset"} /\ id[p] \in Ids
    BY <1>10, RequestTypes DEF Removed, CreateWallet, CreateAccount
  <2>2. QED
    BY <1>3, <1>10, <2>1 DEF Removed, CreateWallet, CreateAccount, Untouched, Steps
<1>11. ASSUME NEW p \in Procs, Crash(p) PROVE Ok
  <2>1. step[p] = "create" => Orphan(p) \in Jobs
    <3>1. SUFFICES ASSUME step[p] = "create" PROVE Orphan(p) \in Jobs
      OBVIOUS
    <3>2. id[p] \in Ids /\ ask[p].net \in Networks
      BY <3>1, RequestTypes
    <3>3. QED
      BY <3>2 DEF Jobs, Orphan
  <2>2. End(p, "idle") /\ UNCHANGED <<known, entered>>
    BY <1>11 DEF Crash
  <2>3. jobs' \subseteq Jobs
    BY <1>11, <2>1 DEF Crash
  <2>4. QED
    BY <1>2, <2>2, <2>3
<1>12. ASSUME NEW j \in jobs, JobEnds(j) PROVE Ok
  BY <1>12 DEF JobEnds, command
<1>13. ASSUME UNCHANGED vars PROVE Ok
  <2>1. UNCHANGED <<known, jobs, entered, ask, step, id, todo, list, alone>>
    BY <1>13 DEF vars, command
  <2>2. QED
    BY <2>1
<1>14. Ok
  BY <1>1, <1>4, <1>5, <1>6, <1>7, <1>8, <1>9, <1>10, <1>11, <1>12, <1>13 DEF Next, Advance
<1>15. QED
  BY <1>14, StepFiles

-----------------------------------------------------------------------------
\* How a wallet changes: it is removed, made anew, or given an account.
LEMMA StepWallets ==
    ASSUME TypeOK, PlaceFits, [Next]_vars, NEW i \in Ids, NEW n \in Networks,
           worker'[i][n] # worker[i][n]
    PROVE  \/ worker'[i][n] = Absent
           \/ /\ worker'[i][n] = NewWallet
              /\ \/ <<i, n>> \in spoiled'
                 \/ \E p \in Procs : step'[p] = "account" /\ Place(p)' = <<i, n>>
           \/ worker'[i][n].accounts > 0
<1> DEFINE Change == \/ worker'[i][n] = worker[i][n]
                     \/ worker'[i][n] = Absent
                     \/ /\ worker'[i][n] = NewWallet
                        /\ \/ <<i, n>> \in spoiled'
                           \/ \E p \in Procs : step'[p] = "account" /\ Place(p)' = <<i, n>>
                     \/ worker'[i][n].accounts > 0
<1> USE DEF TypeOK
<1>1. CASE UNCHANGED worker
  BY <1>1
<1>2. ASSUME NEW p \in Procs, NEW f \in list[p], Remove(p, f) PROVE Change
  <2>1. UNCHANGED worker \/ worker' = [worker EXCEPT ![id[p]]["regtest"] = Absent]
    BY <1>2 DEF Remove
  <2>2. id[p] \in Ids
    BY <1>2 DEF PlaceFits, Remove, DeleteSteps
  <2>3. worker'[i][n] \in {worker[i][n], Absent}
    BY <2>1, <2>2, WalletPut DEF Networks
  <2>4. QED
    BY <2>3
<1>3. ASSUME NEW p \in Procs, CreateWallet(p) \/ CreateAccount(p) PROVE Change
  <2>1. id[p] \in Ids /\ ask[p].net \in Networks
    BY <1>3, RequestTypes DEF PlaceFits, CreateWallet, CreateAccount, DeleteSteps, Ended
  <2>2. CASE CreateWallet(p)
    <3>1. step'[p] = "account" /\ Place(p)' = <<id[p], ask[p].net>>
      BY <2>2 DEF CreateWallet, To, Goto, Place
    <3>2. UNCHANGED worker \/ worker' = [worker EXCEPT ![id[p]][ask[p].net] = NewWallet]
      BY <2>2 DEF CreateWallet
    <3>3. \/ worker'[i][n] = worker[i][n]
          \/ i = id[p] /\ n = ask[p].net /\ worker'[i][n] = NewWallet
      BY <2>1, <3>2, WalletPut
    <3>4. QED
      BY <3>1, <3>3
  <2>3. CASE CreateAccount(p)
    <3>1. \/ UNCHANGED worker
          \/ There(p) /\ worker' = [worker EXCEPT ![id[p]][ask[p].net] = WithAccount(@, Seeded(p))]
      BY <2>3 DEF CreateAccount
    <3>2. There(p) => /\ WithAccount(worker[id[p]][ask[p].net], Seeded(p)) \in Wallets
                      /\ WithAccount(worker[id[p]][ask[p].net], Seeded(p)).accounts > 0
      BY <2>1, WalletGrows DEF There, Exists, Seeded, Seeds
    <3>3. \/ worker'[i][n] = worker[i][n]
          \/ /\ There(p)
             /\ worker'[i][n] = WithAccount(worker[id[p]][ask[p].net], Seeded(p))
      BY <2>1, <3>1, WalletPut
    <3>4. QED
      BY <3>2, <3>3
  <2>4. QED
    BY <1>3, <2>2, <2>3
<1>4. ASSUME NEW j \in jobs, JobEnds(j) PROVE Change
  <2>1. j.id \in Ids /\ j.net \in Networks
    BY DEF Jobs
  <2>2. \/ UNCHANGED worker
        \/ /\ worker' = [worker EXCEPT ![j.id][j.net] = NewWallet]
           /\ <<j.id, j.net>> \in spoiled'
        \/ /\ Exists(j.id, j.net)
           /\ worker' = [worker EXCEPT ![j.id][j.net] = WithAccount(@, "random")]
    BY <1>4 DEF JobEnds, files
  <2>3. Exists(j.id, j.net) => /\ WithAccount(worker[j.id][j.net], "random") \in Wallets
                               /\ WithAccount(worker[j.id][j.net], "random").accounts > 0
    BY <2>1, WalletGrows DEF Exists, Seeds
  <2>4. \/ worker'[i][n] = worker[i][n]
        \/ i = j.id /\ n = j.net /\ worker'[i][n] = NewWallet /\ <<j.id, j.net>> \in spoiled'
        \/ /\ Exists(j.id, j.net)
           /\ worker'[i][n] = WithAccount(worker[j.id][j.net], "random")
    BY <2>1, <2>2, WalletPut
  <2>5. QED
    BY <2>3, <2>4
<1>5. ASSUME NEW p \in Procs,
             \/ Offline(p) \/ Wait(p) \/ Look(p) \/ Check(p) \/ Again(p) \/ Launch(p)
             \/ NextInstance(p) \/ Delete(p) \/ Removed(p) \/ (\E f \in list[p] : IsGone(p, f))
             \/ Crash(p) \/ \E r \in Lines : Enter(p, r)
      PROVE  UNCHANGED worker
  BY <1>5 DEF Offline, Wait, Look, Check, Again, Launch, NextInstance, Delete, Removed, IsGone,
              Crash, Enter, Untouched, files
<1>6. UNCHANGED vars => UNCHANGED worker
  BY DEF vars, files
<1>7. QED
  BY <1>1, <1>2, <1>3, <1>4, <1>5, <1>6 DEF Next, Advance

\* A command changes its own place only.
LEMMA OthersStill ==
    ASSUME TypeOK, NEW p \in Procs, NEW q \in Procs, q # p, Advance(q) \/ Crash(q)
    PROVE  UNCHANGED <<step[p], id[p], ask[p], list[p], todo[p], alone[p]>>
<1> DEFINE Still == UNCHANGED <<step[p], id[p], ask[p], list[p], todo[p], alone[p]>>
<1> USE DEF TypeOK
<1>1. ASSUME NEW s, End(q, s) \/ To(q, s) PROVE Still
  BY <1>1 DEF End, To, Goto
<1>2. CASE \/ Offline(q) \/ Wait(q) \/ Look(q) \/ Check(q) \/ Again(q) \/ Launch(q)
  BY <1>1, <1>2 DEF Offline, Wait, Look, Check, Again, Launch
<1>3. CASE Removed(q) \/ CreateWallet(q) \/ CreateAccount(q) \/ Crash(q)
  BY <1>1, <1>3 DEF Removed, CreateWallet, CreateAccount, Crash
<1>4. CASE NextInstance(q) \/ Delete(q)
  BY <1>1, <1>4 DEF NextInstance, Delete, Goto
<1>5. ASSUME NEW f \in list[q], Remove(q, f) \/ IsGone(q, f) PROVE Still
  BY <1>1, <1>5 DEF Remove, IsGone
<1>6. QED
  BY <1>2, <1>3, <1>4, <1>5 DEF Advance

LEMMA OwnSteps ==
    ASSUME TypeOK, [Next]_vars, NEW p \in Procs, step[p] \notin Ended
    PROVE  \/ Advance(p) \/ Crash(p)
           \/ UNCHANGED <<step[p], id[p], ask[p], list[p], todo[p]>>
<1> DEFINE Still == UNCHANGED <<step[p], id[p], ask[p], list[p], todo[p]>>
<1> USE DEF TypeOK
<1>1. ASSUME NEW q \in Procs, q # p, Advance(q) \/ Crash(q) PROVE Still
  BY <1>1, OthersStill
<1>2. ASSUME NEW q \in Procs, NEW r \in Lines, Enter(q, r) PROVE Still
  <2>1. q # p
    BY <1>2 DEF Enter, Busy, Active
  <2>2. QED
    BY <1>2, <2>1 DEF Enter, Goto
<1>3. ASSUME NEW j \in jobs, JobEnds(j) PROVE Still
  BY <1>3 DEF JobEnds, command
<1>4. UNCHANGED vars => Still
  BY DEF vars, command
<1>5. QED
  BY <1>1, <1>2, <1>3, <1>4 DEF Next

\* A command leaves the place where it makes the account by making it or by spoiling the wallet.
LEMMA StepAccounts ==
    ASSUME TypeOK, PlaceFits, AccountlessIsSpoiled, [Next]_vars
    PROVE  AccountlessIsSpoiled'
<1> SUFFICES ASSUME NEW i \in Ids, NEW n \in Networks,
                    worker'[i][n].file = "there", worker'[i][n].accounts = 0
             PROVE  \/ <<i, n>> \in spoiled'
                    \/ \E p \in Procs : step'[p] = "account" /\ Place(p)' = <<i, n>>
  BY DEF AccountlessIsSpoiled, Exists
<1> DEFINE Explained == \/ <<i, n>> \in spoiled'
                        \/ \E p \in Procs : step'[p] = "account" /\ Place(p)' = <<i, n>>
<1> DEFINE Coming(p) == step[p] = "account" /\ Place(p) = <<i, n>>
<1>1. CASE worker'[i][n] # worker[i][n]
  BY <1>1, StepWallets DEF Absent
<1>2. CASE worker'[i][n] = worker[i][n]
  <2>1. <<i, n>> \in spoiled \/ \E p \in Procs : Coming(p)
    BY <1>2 DEF AccountlessIsSpoiled, Exists
  <2>2. ASSUME <<i, n>> \in spoiled, <<i, n>> \notin spoiled' PROVE Explained
    <3>1. ASSUME NEW p \in Procs, NEW f \in list[p], Remove(p, f) PROVE FALSE
      <4>1. f = Worker /\ i = id[p] /\ n = "regtest"
        BY <2>2, <3>1 DEF Remove
      <4>2. worker'[i][n] = Absent
        BY <3>1, <4>1, WalletPut DEF Remove, TypeOK
      <4>3. QED
        BY <4>2 DEF Absent
    <3>2. ASSUME NEW p \in Procs, CreateWallet(p) PROVE Explained
      <4>1. Place(p) = <<i, n>>
        BY <2>2, <3>2 DEF CreateWallet
      <4>2. step'[p] = "account" /\ Place(p)' = Place(p)
        BY <3>2 DEF CreateWallet, To, Goto, Place, TypeOK
      <4>3. QED
        BY <4>1, <4>2
    <3>3. ASSUME NEW p \in Procs, CreateAccount(p) \/ Crash(p) PROVE FALSE
      BY <2>2, <3>3 DEF CreateAccount, Crash
    <3>4. ASSUME NEW j \in jobs, JobEnds(j) PROVE FALSE
      BY <2>2, <3>4 DEF JobEnds, files
    <3>5. ASSUME NEW p \in Procs,
                 \/ Offline(p) \/ Wait(p) \/ Look(p) \/ Check(p) \/ Again(p) \/ Launch(p)
                 \/ NextInstance(p) \/ Delete(p) \/ Removed(p)
                 \/ (\E f \in list[p] : IsGone(p, f)) \/ \E r \in Lines : Enter(p, r)
          PROVE  FALSE
      BY <2>2, <3>5 DEF Offline, Wait, Look, Check, Again, Launch, NextInstance, Delete, Removed,
         IsGone, Enter, Untouched, files
    <3>6. ~UNCHANGED vars
      BY <2>2 DEF vars, files
    <3>7. QED
      BY <3>1, <3>2, <3>3, <3>4, <3>5, <3>6 DEF Next, Advance
  <2>3. ASSUME NEW p \in Procs, Coming(p) PROVE Explained
    <3>1. CASE CreateAccount(p)
      <4>1. CASE Place(p) \in spoiled'
        BY <2>3, <4>1
      <4>2. CASE Place(p) \notin spoiled'
        <5>1. i = id[p] /\ n = ask[p].net
          BY <2>3 DEF Place
        <5>2. There(p) /\ worker' = [worker EXCEPT ![i][n] = WithAccount(@, Seeded(p))]
          BY <3>1, <4>2, <5>1 DEF CreateAccount
        <5>3. worker'[i][n] = WithAccount(worker[i][n], Seeded(p)) /\ worker[i][n] \in Wallets
          BY <5>2, WalletPut DEF TypeOK
        <5>4. worker'[i][n].accounts > 0
          BY <5>1, <5>2, <5>3, WalletGrows DEF There, Exists, Seeded, Seeds
        <5>5. QED
          BY <5>4
      <4>3. QED
        BY <4>1, <4>2
    <3>2. CASE Crash(p)
      BY <2>3, <3>2 DEF Crash
    <3>3. CASE UNCHANGED <<step[p], id[p], ask[p]>>
      BY <2>3, <3>3 DEF Place
    <3>4. Advance(p) => CreateAccount(p)
      BY <2>3 DEF Advance, Offline, Wait, Look, Check, Again, Launch, NextInstance, Delete, Remove,
         IsGone, Removed, CreateWallet
    <3>5. QED
      BY <2>3, <3>1, <3>2, <3>3, <3>4, OwnSteps DEF Ended
  <2>4. QED
    BY <2>1, <2>2, <2>3
<1>3. QED
  BY <1>1, <1>2

-----------------------------------------------------------------------------
\* While a command runs alone only it and its ElectrumSV commands do anything.
LEMMA SoloSteps ==
    ASSUME TypeOK, Undisturbed, [Next]_vars, NEW p \in Procs, step'[p] \notin Ended, alone'[p]
    PROVE  \/ \E r \in Lines : Enter(p, r) /\ Busy = {}
           \/ step[p] \notin Ended /\ alone[p] /\ Advance(p)
           \/ /\ step[p] \notin Ended /\ alone[p] /\ UNCHANGED command
              /\ (UNCHANGED <<files, known, jobs>>) \/ \E j \in jobs : JobEnds(j)
<1> DEFINE Kinds == \/ \E r \in Lines : Enter(p, r) /\ Busy = {}
                    \/ step[p] \notin Ended /\ alone[p] /\ Advance(p)
                    \/ /\ step[p] \notin Ended /\ alone[p] /\ UNCHANGED command
                       /\ (UNCHANGED <<files, known, jobs>>) \/ \E j \in jobs : JobEnds(j)
<1> USE DEF TypeOK
<1>1. ASSUME NEW q \in Procs, NEW r \in Lines, Enter(q, r) PROVE Kinds
  <2>1. CASE q = p
    <3>1. alone'[p] = (Busy = {})
      BY <1>1, <2>1 DEF Enter
    <3>2. QED
      BY <1>1, <2>1, <3>1
  <2>2. CASE q # p
    <3>1. p \in Busy
      BY <1>1, <2>2 DEF Enter, Goto, Busy, Active
    <3>2. alone'[p] = (alone[p] /\ p \notin Busy)
      BY <1>1, <2>2 DEF Enter
    <3>3. QED
      BY <3>1, <3>2
  <2>3. QED
    BY <2>1, <2>2
<1>2. ASSUME NEW q \in Procs, q # p, Advance(q) \/ Crash(q) PROVE Kinds
  <2>1. step[q] \notin Ended
    BY <1>2 DEF Advance, Crash, Active, Offline, Wait, Look, Check, Again, Launch, NextInstance,
       Delete, Remove, IsGone, Removed, CreateWallet, CreateAccount, Ended
  <2>2. step'[p] = step[p] /\ alone'[p] = alone[p]
    BY <1>2, OthersStill
  <2>3. QED
    BY <1>2, <2>1, <2>2 DEF Undisturbed
<1>3. ASSUME Crash(p) PROVE FALSE
  BY <1>3 DEF Crash, End, Goto, Ended
<1>4. ASSUME Advance(p) PROVE step[p] \notin Ended /\ alone[p]
  <2>1. step[p] \notin Ended
    BY <1>4 DEF Advance, Offline, Wait, Look, Check, Again, Launch, NextInstance,
       Delete, Remove, IsGone, Removed, CreateWallet, CreateAccount, Ended
  <2>2. UNCHANGED alone \/ \E s \in Ended : End(p, s)
    BY <1>4 DEF Advance, Offline, Wait, Look, Check, Again, Launch, NextInstance,
       Delete, Remove, IsGone, Removed, CreateWallet, CreateAccount, Ended, To
  <2>3. UNCHANGED alone
    BY <2>2 DEF End, Goto
  <2>4. QED
    BY <2>1, <2>3
<1>5. ASSUME NEW j \in jobs, JobEnds(j) PROVE Kinds
  BY <1>5 DEF JobEnds, command
<1>6. CASE UNCHANGED vars
  BY <1>6 DEF vars, command
<1>7. QED
  BY <1>1, <1>2, <1>3, <1>4, <1>5, <1>6 DEF Next

LEMMA StepUndisturbed == TypeOK /\ PlaceFits /\ Undisturbed /\ [Next]_vars => Undisturbed'
<1> SUFFICES ASSUME TypeOK, PlaceFits, Undisturbed, [Next]_vars, NEW p \in Procs,
                    step'[p] \notin Ended, alone'[p]
             PROVE  /\ \A q \in Procs : q # p => step'[q] \in Ended
                    /\ \A j \in jobs' : j.by = p
                    /\ ask'[p].offline = "none" => jobs' = {}
  BY DEF Undisturbed
<1> DEFINE Calm == /\ \A q \in Procs : q # p => step'[q] \in Ended
                   /\ \A j \in jobs' : j.by = p
                   /\ ask'[p].offline = "none" => jobs' = {}
<1> USE DEF TypeOK
<1>1. ASSUME NEW r \in Lines, Enter(p, r), Busy = {} PROVE Calm
  <2>1. jobs = {} /\ \A q \in Procs : step[q] \in Ended
    <3>1. \A j \in jobs : j.by \in Busy
      BY DEF Busy
    <3>2. \A q \in Procs : step[q] \notin Ended => q \in Busy
      BY DEF Busy, Active
    <3>3. QED
      BY <1>1, <3>1, <3>2
  <2>2. UNCHANGED jobs /\ \A q \in Procs : q # p => step'[q] = step[q]
    BY <1>1 DEF Enter, Goto, Untouched
  <2>3. QED
    BY <2>1, <2>2
<1>2. ASSUME step[p] \notin Ended, alone[p], Advance(p) PROVE Calm
  <2>1. \A q \in Procs : q # p => step'[q] = step[q]
    BY <1>2, OthersStill
  <2>2. ask'[p] = ask[p]
    <3>1. UNCHANGED ask \/ \E s \in Ended : End(p, s)
      BY <1>2 DEF Advance, Offline, Wait, Look, Check, Again, Launch, NextInstance,
         Delete, Remove, IsGone, Removed, CreateWallet, CreateAccount, Ended, To
    <3>2. QED
      BY <3>1 DEF End, Goto
  <2>3. /\ \A j \in jobs' : j \in jobs \/ j.by = p
        /\ ask[p].offline = "none" => UNCHANGED jobs
    <3>1. CASE Offline(p)
      BY <3>1 DEF Offline, Spawn, Job, PlaceFits
    <3>2. CASE Launch(p)
      BY <3>2 DEF Launch, Spawn, Job
    <3>3. CASE ~Offline(p) /\ ~Launch(p)
      BY <1>2, <3>3 DEF Advance, Wait, Look, Check, Again, NextInstance, Delete, Remove, IsGone,
         Removed, CreateWallet, CreateAccount, Untouched
    <3>4. QED
      BY <3>1, <3>2, <3>3
  <2>4. QED
    BY <1>2, <2>1, <2>2, <2>3 DEF Undisturbed
<1>3. ASSUME step[p] \notin Ended, alone[p], UNCHANGED command, jobs' \subseteq jobs PROVE Calm
  BY <1>3 DEF command, Undisturbed
<1>4. \A j \in jobs : JobEnds(j) => jobs' \subseteq jobs
  BY DEF JobEnds
<1>5. QED
  BY <1>1, <1>2, <1>3, <1>4, SoloSteps

\* The steps of a start on its own, up to the deletion or the daemon.
LEMMA StartLooks ==
    ASSUME TypeOK, PlaceFits, AccountlessIsSpoiled, Undisturbed, NEW p \in Procs, Solo(p),
           Course(p), Look(p) \/ Check(p) \/ Again(p) \/ Launch(p), step'[p] \notin Ended
    PROVE  Course(p)'
<1> USE DEF TypeOK, Solo
<1>1. /\ UNCHANGED <<files, ask, id, list>> /\ ask[p].kind = "start"
      /\ id[p] \in Ids /\ ask[p].net \in Networks /\ step[p] \in {"look", "check", "again"}
  <2>1. \A s \in Ended : ~End(p, s)
    BY DEF End, Goto
  <2>2. QED
    BY <2>1, RequestTypes
       DEF Look, Check, Again, Launch, Ended, To, Untouched, PlaceFits, StartSteps
<1>2. There(p)' = There(p) /\ Place(p)' = Place(p)
  BY <1>1 DEF There, Exists, Place, files
<1>3. CASE Look(p)
  <2>1. step'[p] = IF ~There(p) THEN "again" ELSE IF ask[p].seed THEN "check" ELSE "launch"
    BY <1>3 DEF Look, To, Goto
  <2>2. There(p) /\ Place(p) \notin spoiled => worker[id[p]][ask[p].net].accounts > 0
    <3>1. \A q \in Procs : step[q] # "account"
      BY <1>3 DEF Undisturbed, Look, Ended
    <3>2. There(p) /\ Place(p) \notin spoiled => worker[id[p]][ask[p].net].accounts # 0
      BY <1>1, <3>1 DEF AccountlessIsSpoiled, There, Place
    <3>3. worker[id[p]][ask[p].net].accounts \in Nat
      BY <1>1 DEF Wallets, Absent
    <3>4. QED
      BY <3>2, <3>3
  <2>3. StartCourse(p)' /\ ResetCourse(p)' /\ Made(p)'
    BY <1>1, <1>2, <2>1 DEF StartCourse, ResetCourse, Made
  <2>4. LaunchCourse(p)'
    BY <1>1, <1>2, <2>1, <2>2 DEF LaunchCourse, files, There, Exists
  <2>5. QED
    BY <2>3, <2>4 DEF Course
<1>4. CASE Check(p)
  <2>1. There(p)
    BY <1>1, <1>4 DEF Course, StartCourse, Check
  <2>2. QED
    BY <1>4, <2>1 DEF Check, End, Goto, Ended
<1>5. CASE Again(p)
  <2>1. ~There(p)
    BY <1>1, <1>5 DEF Course, StartCourse, Again
  <2>2. step'[p] = "delete"
    BY <1>5, <2>1 DEF Again, End, To, Goto, Ended
  <2>3. QED
    BY <1>1, <1>2, <2>1, <2>2 DEF Course, StartCourse, ResetCourse, Made, LaunchCourse
<1>6. CASE Launch(p)
  BY <1>6 DEF Launch, End, Goto, Ended
<1>7. QED
  BY <1>3, <1>4, <1>5, <1>6

\* The steps of a start or reset on its own, from the deletion to the account.
LEMMA Renews ==
    ASSUME TypeOK, PlaceFits, Undisturbed, NEW p \in Procs, Solo(p), Course(p),
           \/ Delete(p) \/ Removed(p) \/ CreateWallet(p) \/ CreateAccount(p)
           \/ \E f \in list[p] : Remove(p, f) \/ IsGone(p, f),
           step'[p] \notin Ended
    PROVE  Course(p)'
<1> USE DEF TypeOK, Solo
<1>1. /\ UNCHANGED <<ask, id>> /\ ask[p] \in Requests /\ ask[p].kind \in {"start", "reset"}
      /\ id[p] \in Ids /\ ask[p].net \in Networks /\ step[p] \in DeleteSteps
  <2>1. \A s \in Ended : ~End(p, s)
    BY DEF End, Goto
  <2>2. QED
    BY <2>1, RequestTypes DEF Delete, Removed, CreateWallet, CreateAccount, Remove, IsGone, Ended,
       To, PlaceFits, DeleteSteps
<1>2. Place(p)' = Place(p)
  BY <1>1 DEF Place
<1>3. CASE Delete(p)
  <2>1. step'[p] = "remove" /\ list'[p] = Listed(p) /\ UNCHANGED files
    BY <1>3 DEF Delete, Goto, Untouched
  <2>2. Listed(p)' = Listed(p) /\ There(p)' = There(p)
    BY <1>1, <2>1 DEF Listed, There, Exists, files
  <2>3. ask[p].kind = "start" => ~There(p)
    BY <1>3 DEF Course, StartCourse, Delete
  <2>4. StartCourse(p)'
    BY <1>1, <2>1, <2>2, <2>3, WalletAssumption DEF StartCourse, Listed, There
  <2>5. ResetCourse(p)' /\ Made(p)' /\ LaunchCourse(p)'
    BY <1>1, <2>1, <2>2 DEF ResetCourse, Made, LaunchCourse
  <2>6. QED
    BY <2>4, <2>5 DEF Course
<1>4. ASSUME NEW f \in list[p], Remove(p, f) \/ IsGone(p, f) PROVE Course(p)'
  <2>1. step'[p] = "remove" /\ step[p] = "remove" /\ list'[p] = list[p] \ {f}
    BY <1>4 DEF Remove, IsGone, End, Goto, Ended
  <2>2. /\ There(p)' => There(p)
        /\ Listed(p)' \subseteq Listed(p) \ {f}
    <3>1. CASE IsGone(p, f)
      BY <1>1, <3>1 DEF IsGone, Untouched, files, There, Exists, Listed
    <3>2. CASE Remove(p, f) /\ f = Worker
      <4>1. worker' = [worker EXCEPT ![id[p]]["regtest"] = Absent] /\ UNCHANGED others
        BY <3>2 DEF Remove
      <4>2. worker'[id[p]]["regtest"] = Absent
        BY <1>1, <4>1, WalletPut DEF Networks
      <4>3. There(p)' => There(p)
        BY <1>1, <4>1, <4>2, WalletPut DEF There, Exists, Absent, Networks
      <4>4. ~Exists(id[p], "regtest")'
        BY <1>1, <4>2 DEF Exists, Absent
      <4>5. Listed(p)' = others[id[p]]
        BY <1>1, <4>1, <4>4 DEF Listed
      <4>6. Worker \notin others[id[p]]
        BY <1>1, WalletAssumption
      <4>7. QED
        BY <3>2, <4>3, <4>5, <4>6 DEF Listed
    <3>3. CASE Remove(p, f) /\ f # Worker
      <4>1. others' = [others EXCEPT ![id[p]] = @ \ {f}] /\ UNCHANGED worker
        BY <3>3 DEF Remove
      <4>2. others'[id[p]] = others[id[p]] \ {f}
        BY <1>1, <4>1
      <4>3. Exists(id[p], "regtest")' = Exists(id[p], "regtest")
        BY <1>1, <4>1 DEF Exists
      <4>4. QED
        BY <1>1, <3>3, <4>1, <4>2, <4>3 DEF Listed, There, Exists
    <3>4. QED
      BY <1>4, <3>1, <3>2, <3>3
  <2>3. StartCourse(p)' /\ ResetCourse(p)'
    BY <1>1, <2>1, <2>2 DEF Course, StartCourse, ResetCourse
  <2>4. Made(p)' /\ LaunchCourse(p)'
    BY <2>1 DEF Made, LaunchCourse
  <2>5. QED
    BY <2>3, <2>4 DEF Course
<1>5. CASE Removed(p)
  <2>1. step'[p] = "create" /\ step[p] = "remove" /\ list[p] = {} /\ UNCHANGED files
    BY <1>5 DEF Removed, To, Goto, Untouched
  <2>2. There(p)' = There(p) /\ Listed(p)' = Listed(p)
    BY <1>1, <2>1 DEF There, Exists, Listed, files
  <2>3. StartCourse(p)' /\ ResetCourse(p)'
    BY <1>1, <2>1, <2>2 DEF Course, StartCourse, ResetCourse
  <2>4. Made(p)' /\ LaunchCourse(p)'
    BY <2>1 DEF Made, LaunchCourse
  <2>5. QED
    BY <2>3, <2>4 DEF Course
<1>6. CASE CreateWallet(p)
  <2>1. step'[p] = "account" /\ step[p] = "create" /\ UNCHANGED others
    BY <1>6 DEF CreateWallet, To, Goto
  <2>2. (ask[p].kind = "start" \/ ask[p].net = "regtest") => ~There(p)
    BY <1>1, <2>1 DEF Course, StartCourse, ResetCourse, Listed, There
  <2>3. \/ There(p)
        \/ worker'[id[p]][ask[p].net] = NewWallet
        \/ Place(p) \in spoiled'
    <3>1. \/ There(p)
          \/ worker' = [worker EXCEPT ![id[p]][ask[p].net] = NewWallet]
          \/ Place(p) \in spoiled'
      BY <1>6 DEF CreateWallet
    <3>2. QED
      BY <1>1, <3>1, WalletPut
  <2>4. Made(p)'
    BY <1>1, <1>2, <2>2, <2>3 DEF Made
  <2>5. StartCourse(p)' /\ ResetCourse(p)' /\ LaunchCourse(p)'
    BY <1>1, <2>1 DEF Course, StartCourse, ResetCourse, LaunchCourse, Listed
  <2>6. QED
    BY <2>4, <2>5 DEF Course
<1>7. CASE CreateAccount(p)
  <2>1. step'[p] = (IF ask[p].kind = "start" THEN "launch" ELSE "next") /\ step[p] = "account"
    BY <1>7 DEF CreateAccount, To, Goto
  <2>2. StartCourse(p)' /\ ResetCourse(p)' /\ Made(p)'
    BY <1>1, <2>1 DEF StartCourse, ResetCourse, Made
  <2>3. LaunchCourse(p)'
    <3>1. SUFFICES ASSUME ask[p].kind = "start", Place(p) \notin spoiled'
                   PROVE  LET w == worker'[id[p]][ask[p].net] IN
                          /\ w.file = "there" /\ w.accounts > 0
                          /\ ask[p].seed => w.seed = "given" /\ w.accounts = 1
      BY <1>1, <1>2, <2>1 DEF LaunchCourse
    <3>2. There(p) /\ Place(p) \notin spoiled
          /\ worker' = [worker EXCEPT ![id[p]][ask[p].net] = WithAccount(@, Seeded(p))]
      BY <1>7, <3>1 DEF CreateAccount
    <3>3. worker[id[p]][ask[p].net] = NewWallet
      BY <2>1, <3>1, <3>2 DEF Course, Made
    <3>4. worker'[id[p]][ask[p].net] = WithAccount(NewWallet, Seeded(p))
      BY <1>1, <3>2, <3>3, WalletPut
    <3>5. NewWallet.file = "there" /\ NewWallet.accounts = 0 /\ Seeded(p) \in Seeds
          /\ (ask[p].seed => Seeded(p) = "given")
      BY <3>1 DEF NewWallet, Seeded, Seeds
    <3>6. QED
      BY <3>4, <3>5, WalletTypes, WalletGrows
  <2>4. QED
    BY <2>2, <2>3 DEF Course
<1>8. QED
  BY <1>3, <1>4, <1>5, <1>6, <1>7

LEMMA StepCourses == WalletInv /\ [Next]_vars => Courses'
<1> SUFFICES ASSUME WalletInv, [Next]_vars, NEW p \in Procs, Solo(p)' PROVE Course(p)'
  BY DEF Courses
<1>1. TypeOK /\ PlaceFits /\ AccountlessIsSpoiled /\ Undisturbed /\ Courses
  BY DEF WalletInv
<1>2. step'[p] \notin Ended /\ alone'[p] /\ ask'[p].offline = "none"
  BY DEF Solo
<1>3. ASSUME NEW r \in Lines, Enter(p, r), Busy = {} PROVE Course(p)'
  <2>1. step'[p] \in {"next", "look", "offline"}
    BY <1>1, <1>3 DEF Enter, Goto, TypeOK
  <2>2. QED
    BY <2>1 DEF Course, StartCourse, Made, ResetCourse, LaunchCourse
<1>4. ASSUME step[p] \notin Ended, alone[p], Advance(p) PROVE Course(p)'
  <2>1. UNCHANGED ask \/ \E s \in Ended : End(p, s)
    BY <1>4 DEF Advance, Offline, Wait, Look, Check, Again, Launch, NextInstance,
       Delete, Remove, IsGone, Removed, CreateWallet, CreateAccount, Ended, To
  <2>2. ask'[p] = ask[p]
    BY <1>1, <1>2, <2>1 DEF End, Goto, TypeOK
  <2>3. Solo(p) /\ Course(p)
    BY <1>1, <1>2, <1>4, <2>2 DEF Solo, Courses
  <2>4. CASE Offline(p) \/ Wait(p)
    BY <1>1, <1>2, <2>2, <2>4 DEF Offline, Wait, PlaceFits
  <2>5. CASE NextInstance(p)
    <3>1. step'[p] = "delete" /\ ask[p].kind = "reset"
      BY <1>1, <1>2, <2>5 DEF NextInstance, End, Goto, TypeOK, PlaceFits, Ended
    <3>2. QED
      BY <2>2, <3>1 DEF Course, StartCourse, Made, ResetCourse, LaunchCourse
  <2>6. QED
    BY <1>1, <1>2, <1>4, <2>3, <2>4, <2>5, StartLooks, Renews DEF Advance
<1>5. ASSUME step[p] \notin Ended, alone[p], UNCHANGED command, UNCHANGED files
      PROVE  Course(p)'
  <2>1. Course(p)
    BY <1>1, <1>2, <1>5 DEF Courses, Solo, command
  <2>2. QED
    BY <1>5, <2>1 DEF command, files, Course, StartCourse, Made, ResetCourse, LaunchCourse, There,
       Exists, Listed, Place
<1>6. ASSUME step[p] \notin Ended, alone[p], UNCHANGED command, NEW j \in jobs PROVE FALSE
  BY <1>1, <1>2, <1>6 DEF Undisturbed, command
<1>7. QED
  BY <1>1, <1>2, <1>3, <1>4, <1>5, <1>6, SoloSteps

\* A start that runs alone finds, on the way to its deletions, only what its own job has made.
LEMMA StepSparing == WalletInv /\ [Next]_vars => Sparing'
<1> SUFFICES ASSUME WalletInv, [Next]_vars, NEW p \in Procs, step'[p] \notin Ended, alone'[p],
                    ask'[p].kind = "start"
             PROVE  jobs' \subseteq {Job(p, 1)'} /\ Spares(p)'
  BY DEF Sparing
<1>1. TypeOK /\ PlaceFits /\ Undisturbed /\ Sparing
  BY DEF WalletInv
<1>2. ASSUME NEW r \in Lines, Enter(p, r), Busy = {}
      PROVE  jobs' \subseteq {Job(p, 1)'} /\ Spares(p)'
  <2>1. jobs' = {}
    BY <1>2 DEF Enter, Untouched, Busy
  <2>2. step'[p] \notin {"again", "delete", "remove"}
    BY <1>1, <1>2 DEF Enter, Goto, TypeOK
  <2>3. QED
    BY <2>1, <2>2 DEF Spares, Bound
<1>3. ASSUME step[p] \notin Ended, alone[p], Advance(p)
      PROVE  jobs' \subseteq {Job(p, 1)'} /\ Spares(p)'
  <2>1. UNCHANGED ask \/ \E s \in Ended : End(p, s)
    BY <1>3 DEF Advance, Offline, Wait, Look, Check, Again, Launch, NextInstance,
       Delete, Remove, IsGone, Removed, CreateWallet, CreateAccount, Ended, To
  <2>2. ~\E s \in Ended : End(p, s)
    BY <1>1 DEF End, Goto, TypeOK
  <2>3. UNCHANGED ask /\ ask[p].kind = "start" /\ ~NextInstance(p) /\ ~Launch(p)
    BY <1>1, <2>1, <2>2 DEF NextInstance, Launch, PlaceFits, Ended
  <2>4. UNCHANGED id
    BY <1>3, <2>2, <2>3 DEF Advance, Offline, Wait, Look, Check, Again, Delete, Remove, IsGone,
       Removed, CreateWallet, CreateAccount, Ended, To
  <2>5. jobs \subseteq {Job(p, 1)} /\ Spares(p) /\ Job(p, 1)' = Job(p, 1)
    BY <1>1, <1>3, <2>3, <2>4 DEF Sparing, Job
  <2>6. jobs' \subseteq {Job(p, 1)}
    <3>1. jobs' \subseteq jobs \cup {Job(p, 1)}
      BY <1>3, <2>3 DEF Advance, Offline, Spawn, Wait, Look, Check, Again, Delete, Remove, IsGone,
         Removed, CreateWallet, CreateAccount, Untouched
    <3>2. QED
      BY <2>5, <3>1
  <2>7. Spares(p)'
    <3>1. SUFFICES ASSUME Bound(p)', Exists(id[p], "regtest")'
                   PROVE  OwnWallet(p)'
      BY DEF Spares
    <3>2. step'[p] \in {"again", "delete", "remove"} /\ ask[p].net = "regtest"
      BY <2>3, <3>1 DEF Bound
    <3>3. CASE \E f \in list[p] : Remove(p, f)
      <4>1. PICK f \in list[p] : Remove(p, f)
        BY <3>3
      <4>2. step[p] = "remove" /\ id[p] \in Ids
        BY <1>1, <4>1 DEF Remove, PlaceFits, DeleteSteps
      <4>3. f # Worker
        <5>1. SUFFICES ASSUME f = Worker PROVE FALSE
          OBVIOUS
        <5>2. worker' = [worker EXCEPT ![id[p]]["regtest"] = Absent]
          BY <4>1, <5>1 DEF Remove
        <5>3. worker'[id[p]]["regtest"] = Absent
          BY <1>1, <4>2, <5>2, WalletPut DEF TypeOK, Networks
        <5>4. QED
          BY <2>4, <3>1, <5>3 DEF Exists, Absent
      <4>4. UNCHANGED worker
        BY <4>1, <4>3 DEF Remove
      <4>5. QED
        BY <2>3, <2>4, <2>5, <3>1, <3>2, <4>2, <4>4 DEF Spares, Bound, Exists, OwnWallet
    <3>4. CASE ~\E f \in list[p] : Remove(p, f)
      <4>1. \/ Look(p) \/ Again(p) \/ Delete(p) \/ \E f \in list[p] : IsGone(p, f)
        BY <1>1, <1>3, <2>3, <3>2, <3>4 DEF Advance, Offline, Wait, Check, Removed, CreateWallet,
           CreateAccount, To, Goto, TypeOK, End
      <4>2. UNCHANGED worker
        BY <4>1 DEF Look, Again, Delete, IsGone, Untouched, files
      <4>3. Exists(id[p], "regtest")
        BY <2>4, <3>1, <4>2 DEF Exists
      <4>4. step[p] \in {"again", "delete", "remove"}
        BY <1>1, <3>2, <4>1, <4>3 DEF Look, Again, Delete, IsGone, To, Goto, TypeOK, There
      <4>5. QED
        BY <2>3, <2>4, <2>5, <3>2, <4>2, <4>3, <4>4 DEF Spares, Bound, Exists, OwnWallet
    <3>5. QED
      BY <3>3, <3>4
  <2>8. QED
    BY <2>5, <2>6, <2>7
<1>4. ASSUME step[p] \notin Ended, alone[p], UNCHANGED command
      PROVE  /\ Job(p, 1)' = Job(p, 1) /\ jobs \subseteq {Job(p, 1)} /\ Spares(p)
             /\ UNCHANGED <<step, ask, id>> /\ ask[p].kind = "start"
  BY <1>1, <1>4 DEF command, Job, Sparing
<1>5. ASSUME step[p] \notin Ended, alone[p], UNCHANGED command, UNCHANGED <<files, known, jobs>>
      PROVE  jobs' \subseteq {Job(p, 1)'} /\ Spares(p)'
  BY <1>4, <1>5 DEF files, Spares, Bound, Exists, OwnWallet
<1>6. ASSUME step[p] \notin Ended, alone[p], UNCHANGED command, NEW j \in jobs, JobEnds(j)
      PROVE  jobs' \subseteq {Job(p, 1)'} /\ Spares(p)'
  <2>1. j = Job(p, 1) /\ jobs' \subseteq {Job(p, 1)'}
    BY <1>4, <1>6 DEF JobEnds
  <2>2. j.id = id[p] /\ j.net = ask[p].net /\ j.offline = ask[p].offline /\ j.file = ask[p].file
    BY <2>1 DEF Job
  <2>3. id[p] \in Ids
    BY <1>1, <2>2 DEF TypeOK, Jobs
  <2>4. SUFFICES ASSUME Bound(p), Exists(id[p], "regtest")' PROVE OwnWallet(p)'
    BY <1>4, <1>6, <2>1 DEF Spares, Bound
  <2>5. CASE UNCHANGED worker
    BY <1>4, <1>6, <2>4, <2>5 DEF Spares, Exists, OwnWallet
  <2>6. CASE /\ j.offline = "create_wallet" /\ j.file = Worker
             /\ worker' = [worker EXCEPT ![j.id][j.net] = NewWallet]
    <3>1. worker'[id[p]]["regtest"] = NewWallet
      BY <1>1, <2>2, <2>3, <2>4, <2>6, WalletPut DEF Bound, TypeOK, Networks
    <3>2. ask' = ask /\ id' = id
      BY <1>4, <1>6
    <3>3. worker'[id'[p]]["regtest"].accounts = 0
      BY <3>1, <3>2 DEF NewWallet
    <3>4. QED
      BY <2>2, <2>6, <3>2, <3>3 DEF OwnWallet
  <2>7. CASE j.offline = "create_account" /\ Exists(j.id, j.net)
    BY <1>4, <1>6, <2>2, <2>4, <2>7 DEF Spares, Bound, OwnWallet
  <2>8. QED
    BY <1>6, <2>5, <2>6, <2>7 DEF JobEnds, files
<1>7. QED
  BY <1>1, <1>2, <1>3, <1>5, <1>6, SoloSteps

LEMMA StepWallet == WalletInv /\ [Next]_vars => WalletInv'
BY StepTypes, StepAccounts, StepUndisturbed, StepCourses, StepSparing DEF WalletInv

LEMMA WalletInvariant == Spec => []WalletInv
<1>1. QED
  BY InitWallet, StepWallet, PTL DEF Spec
-----------------------------------------------------------------------------
\* Type correctness of the wallets, the commands and ElectrumSV's own commands.
THEOREM TypeCorrect == Spec => []TypeOK
<1>1. WalletInv => TypeOK
  BY DEF WalletInv
<1>2. QED
  BY <1>1, WalletInvariant, PTL

\* A worker1.sqlite without an account is in the making or spoiled (LocalTools.create_wallet).
THEOREM AccountlessSpoiled == Spec => []AccountlessIsSpoiled
<1>1. WalletInv => AccountlessIsSpoiled
  BY DEF WalletInv
<1>2. QED
  BY <1>1, WalletInvariant, PTL

\* A start on regtest that runs alone deletes no worker1.sqlite but the one without an account
\* that its own offline create_wallet has just made (Plugin.start, delete_wallet).
THEOREM StartSpares == Spec => StartSparesWorker
<1>1. ASSUME WalletInv, NEW p \in Procs, ask[p].kind = "start", TakesWorker(p)
      PROVE  ask[p].net = "testnet" \/ ~alone[p] \/ OwnWallet(p)
  <2>1. step[p] = "remove" /\ Exists(id[p], "regtest")
    BY <1>1 DEF TakesWorker
  <2>2. ask[p].net \in Networks
    BY <1>1, <2>1, RequestTypes DEF WalletInv, PlaceFits, Ended
  <2>3. QED
    BY <1>1, <2>1, <2>2 DEF WalletInv, Sparing, Spares, Bound, Ended, Networks
<1>2. WalletInv /\ [Next]_vars => [\A p \in Procs :
          ask[p].kind = "start" /\ TakesWorker(p)
            => ask[p].net = "testnet" \/ ~alone[p] \/ OwnWallet(p)]_vars
  BY <1>1
<1>3. QED
  BY <1>2, WalletInvariant, PTL DEF StartSparesWorker, Spec

\* A daemon that is started by a command on its own finds its wallet (Plugin.start).
THEOREM Ready == Spec => LaunchedReady
<1>1. ASSUME WalletInv, [Next]_vars, NEW p \in Procs, step[p] = "launch",
             step'[p] = "launched", alone[p], Place(p) \notin spoiled
      PROVE  LET w == worker[id[p]][ask[p].net] IN
             /\ w.file = "there" /\ w.accounts > 0
             /\ ask[p].seed => w.seed = "given" /\ w.accounts = 1
  <2>1. TypeOK /\ (Solo(p) => Course(p))
    BY <1>1 DEF WalletInv, Courses
  <2>2. ask[p].offline = "none"
    <3>1. Launch(p)
      <4>1. Advance(p)
        BY <1>1, <2>1, OwnSteps DEF Ended, Crash, End, Goto, TypeOK
      <4>2. QED
        BY <1>1, <4>1 DEF Advance, Offline, Wait, Look, Check, Again, NextInstance, Delete, Remove,
           IsGone, Removed, CreateWallet, CreateAccount
    <3>2. QED
      BY <1>1, <2>1, <3>1 DEF Launch, End, Goto, TypeOK
  <2>3. QED
    BY <1>1, <2>1, <2>2 DEF Solo, Ended, Course, LaunchCourse
<1>2. WalletInv /\ [Next]_vars => [\A p \in Procs :
          step[p] = "launch" /\ step'[p] = "launched" /\ alone[p] /\ Place(p) \notin spoiled
            => LET w == worker[id[p]][ask[p].net] IN
               /\ w.file = "there" /\ w.accounts > 0
               /\ ask[p].seed => w.seed = "given" /\ w.accounts = 1]_vars
  BY <1>1
<1>3. QED
  BY <1>2, WalletInvariant, PTL DEF LaunchedReady, Spec

\* A reset on its own leaves a new worker1.sqlite with one account (Plugin.reset).
THEOREM Renewal == Spec => ResetRenews
<1>1. ASSUME WalletInv, [Next]_vars, NEW p \in Procs, Renewed(p)
      PROVE  LET w == worker'[id[p]]["regtest"] IN
             /\ w.file = "there" /\ w.accounts = 1
             /\ ~ask[p].seed => w.seed = "random"
  <2>1. TypeOK /\ PlaceFits /\ (Solo(p) => Course(p))
    BY <1>1 DEF WalletInv, Courses
  <2>2. ask[p] \in Requests /\ ask[p].kind = "reset" /\ ask[p].net = "regtest" /\ id[p] \in Ids
        /\ step[p] = "account" /\ step'[p] = "next" /\ alone[p] /\ Place(p) \notin spoiled'
    BY <1>1, <2>1 DEF Renewed, PlaceFits, Ended, DeleteSteps
  <2>3. Course(p)
    BY <2>1, <2>2, RequestTypes DEF Solo, Ended
  <2>4. CreateAccount(p)
    <3>1. Advance(p)
      BY <1>1, <2>1, <2>2, OwnSteps DEF Ended, Crash, End, Goto, TypeOK
    <3>2. QED
      BY <2>2, <3>1 DEF Advance, Offline, Wait, Look, Check, Again, Launch, NextInstance, Delete,
         Remove, IsGone, Removed, CreateWallet
  <2>5. There(p) /\ Place(p) \notin spoiled /\ Seeded(p) = "random"
        /\ worker' = [worker EXCEPT ![id[p]][ask[p].net] = WithAccount(@, Seeded(p))]
    BY <2>2, <2>4 DEF CreateAccount, Seeded
  <2>6. worker[id[p]]["regtest"] = NewWallet
    BY <2>2, <2>3, <2>5 DEF Course, Made
  <2>7. worker'[id[p]]["regtest"] = WithAccount(NewWallet, "random")
    BY <2>1, <2>2, <2>5, <2>6, WalletPut DEF TypeOK, Networks
  <2>8. WithAccount(NewWallet, "random") = [file |-> "there", accounts |-> 1, seed |-> "random"]
    BY DEF WithAccount, NewWallet
  <2>9. QED
    BY <2>6, <2>7, <2>8
<1>2. WalletInv /\ [Next]_vars => [\A p \in Procs :
          Renewed(p) => LET w == worker'[id[p]]["regtest"] IN
                        /\ w.file = "there" /\ w.accounts = 1
                        /\ ~ask[p].seed => w.seed = "random"]_vars
  BY <1>1
<1>3. QED
  BY <1>2, WalletInvariant, PTL DEF ResetRenews, Spec
=============================================================================
