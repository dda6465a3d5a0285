------------------------- MODULE MerchantApiProofs -------------------------
(***************************************************************************)
(* Proofs of the safety properties of MerchantApi for any number of        *)
(* commands.  One initdb runs at a time (OneInitdb), since it marks its    *)
(* directory by filling it; what is known at each step of                  *)
(* download_and_init_postgres as long as nothing has gone wrong in it is   *)
(* Stage; what a command may rely on that runs alone is Solitude.          *)
(***************************************************************************)
EXTENDS MerchantApi, TLAPS

\* A running initdb is the only one.
OneInitdb ==
    \A c \in Cmds : At(c, "initing") =>
        data = "partial" /\ \A d \in Cmds : At(d, "initing") => d = c

TypeInv == TypeOK /\ OneInitdb

DataWhole == data \in {"none", "full"}

\* What a command that is alone in download_and_init_postgres finds.
Stage(c) ==
    /\ At(c, "check") => extracted \in {"none", "full"} /\ DataWhole
    /\ pc[c] \in {"download", "write", "extract", "open"} => extracted = "none" /\ DataWhole
    /\ At(c, "write") => archive = "partial"
    /\ pc[c] \in {"extract", "open"} => archive \in {"full", "junk"}
    /\ At(c, "extracting") => extracted = "partial" /\ archive = "full" /\ DataWhole
    /\ pc[c] \in {"remove", "checkinit"} => extracted = "full" /\ DataWhole
    /\ At(c, "mkdata") => extracted = "full" /\ data = "none"
    /\ At(c, "initdb") => extracted = "full" /\ data = "empty"
    /\ At(c, "initing") => extracted = "full" /\ data = "partial"

SetupAlone == \A c, d \in Cmds : InSetup(c) /\ InSetup(d) => c = d
SetupStages == \A c \in Cmds : InSetup(c) => Stage(c)
MarkInv == TypeOK /\ (~spoiled => SetupAlone /\ SetupStages) /\ MarkersTrue

\* The steps each kind of command comes through.
Routes ==
    \A c \in Cmds :
      /\ kind[c] = "stop" =>
           pc[c] \in Setup \cup {"idle", "kill", "stopcheck", "stopcheck2", "pgstop"}
      /\ kind[c] = "start" => pc[c] # "drop"
      /\ kind[c] = "reset" => pc[c] \notin {"run", "addnode"}

\* A command that runs alone: no other is under way, and reset has ended the merchant API.
Solitude ==
    \A c \in Cmds : (alone[c] /\ ~At(c, "idle")) =>
      /\ \A d \in Cmds \ {c} : At(d, "idle")
      /\ (kind[c] = "reset" /\ pc[c] \notin Setup \cup {"kill"}) => ~api
SoloInv == TypeOK /\ Routes /\ Solitude
-----------------------------------------------------------------------------
\* Nothing is there and no command runs in an initial state.
LEMMA InitAll == Init => TypeInv /\ MarkInv /\ SoloInv
<1>1. SUFFICES ASSUME Init PROVE TypeInv /\ MarkInv /\ SoloInv
  OBVIOUS
<1>2. TypeOK
  BY <1>1 DEF Init, TypeOK, Pcs, Kinds, At
<1>3. \A c \in Cmds : pc[c] = "idle" /\ ~InSetup(c)
  BY <1>1 DEF Init, InSetup, Setup
<1>4. OneInitdb /\ SetupAlone /\ SetupStages /\ MarkersTrue
  BY <1>1, <1>3 DEF Init, OneInitdb, SetupAlone, SetupStages, MarkersTrue, At
<1>5. Routes /\ Solitude
  BY <1>3 DEF Routes, Solitude, At
<1>6. QED
  BY <1>2, <1>4, <1>5 DEF TypeInv, MarkInv, SoloInv

\* What follows download_and_init_postgres leaves its directories alone and stays outside it.
LEMMA LaterSteps ==
  ASSUME TypeOK, NEW c \in Cmds, ZipStep(c) \/ DbStep(c) \/ RunStep(c)
  PROVE  /\ UNCHANGED <<archive, extracted, data, kind, alone, spoiled>>
         /\ ~InSetup(c)
         /\ \E w \in Pcs \ Setup : pc' = [pc EXCEPT ![c] = w]
<1>1. CASE ZipStep(c)
  BY <1>1 DEF ZipStep, CheckZip, GetZip, GetZipFails, WriteZip, UnzipRaises, Unzip, UnzipEnds,
              RemoveZip, Go, Goto, At, InSetup, Setup, Pcs, files, server
<1>2. CASE DbStep(c)
  BY <1>2 DEF DbStep, CheckRunning, StartPostgres, PgCtlMissing, Prepare, Drop, CheckDb, CreateDb,
              DbFails, Go, Goto, At, InSetup, Setup, Pcs, files, server
<1>3. CASE RunStep(c)
  BY <1>3 DEF RunStep, StartReturns, Spawn, AddNode, AddNodeGivesUp, Kill, StopCheck,
              StopCheckAgain, StopPostgres, AfterStop, Go, Goto, At, InSetup, Setup, Pcs,
              files, server
<1>4. QED
  BY <1>1, <1>2, <1>3

\* download_and_init_postgres leaves the rest alone.
LEMMA SetupSteps ==
  ASSUME TypeOK, NEW c \in Cmds, SetupStep(c)
  PROVE  /\ UNCHANGED <<zip, exe, server, kind, alone>>
         /\ InSetup(c)
         /\ spoiled => spoiled'
         /\ \E w \in Setup \cup {"idle", Body(c)} : pc' = [pc EXCEPT ![c] = w]
<1>1. CASE CheckExtract(c) \/ Download(c) \/ DownloadFails(c) \/ Extract(c) \/ Open(c)
  BY <1>1 DEF CheckExtract, Download, DownloadFails, Extract, Open, Go, Goto, At, InSetup,
              Setup, files, server
<1>2. CASE Write(c)
  <2>1. spoiled => spoiled'
    BY <1>2, Zenon DEF Write
  <2>2. QED
    BY <1>2, <2>1 DEF Write, Goto, At, InSetup, Setup, server
<1>3. CASE ExtractRaises(c) \/ ExtractEnds(c) \/ Remove(c) \/ RemoveRaises(c)
  BY <1>3 DEF ExtractRaises, ExtractEnds, Remove, RemoveRaises, Go, Goto, At, InSetup, Setup,
              files, server
<1>4. CASE CheckInit(c) \/ MakeData(c) \/ Initdb(c) \/ InitdbMissing(c) \/ InitdbEnds(c)
             \/ InitdbFails(c)
  BY <1>4 DEF CheckInit, MakeData, Initdb, InitdbMissing, InitdbEnds, InitdbFails, Go, Goto, At,
              InSetup, Setup, files, server
<1>5. QED
  BY <1>1, <1>2, <1>3, <1>4 DEF SetupStep

\* What each step before initdb does to the directories.
LEMMA ExtractSteps ==
  ASSUME TypeOK, NEW c \in Cmds,
         \/ CheckExtract(c) \/ Download(c) \/ DownloadFails(c) \/ Write(c) \/ Extract(c) \/ Open(c)
         \/ ExtractRaises(c) \/ ExtractEnds(c) \/ Remove(c) \/ RemoveRaises(c)
  PROVE  /\ data' = data
         /\ archive' \in {"none", "partial", "full", "junk"}
         /\ extracted' \in {"none", "partial", "full"}
         /\ extracted # "none" => extracted' # "none"
         /\ spoiled' \in BOOLEAN
         /\ pc'[c] = "extracting" => extracted' # "none"
         /\ pc'[c] # "initing"
<1>1. CASE Write(c)
  BY <1>1 DEF Write, Goto, At, TypeOK
<1>2. CASE CheckExtract(c) \/ Download(c) \/ DownloadFails(c) \/ Extract(c) \/ Open(c)
  BY <1>2 DEF CheckExtract, Download, DownloadFails, Extract, Open, Go, Goto, At, files, TypeOK
<1>3. CASE ExtractRaises(c) \/ ExtractEnds(c) \/ Remove(c) \/ RemoveRaises(c)
  BY <1>3 DEF ExtractRaises, ExtractEnds, Remove, RemoveRaises, Go, Goto, At, files, TypeOK
<1>4. QED
  BY <1>1, <1>2, <1>3

\* What each step of initdb does to the cluster.
LEMMA InitSteps ==
  ASSUME TypeInv, NEW c \in Cmds,
         \/ CheckInit(c) \/ MakeData(c) \/ Initdb(c) \/ InitdbMissing(c) \/ InitdbEnds(c)
         \/ InitdbFails(c)
  PROVE  /\ UNCHANGED <<archive, extracted>>
         /\ data' \in {"none", "empty", "partial", "full"}
         /\ data = "full" => data' = "full"
         /\ spoiled' \in BOOLEAN
         /\ pc'[c] # "extracting"
         /\ pc'[c] = "initing" => data = "empty" /\ data' = "partial"
         /\ data = "partial" => data' = "partial" \/ At(c, "initing")
<1>1. CASE CheckInit(c) \/ MakeData(c)
  BY <1>1 DEF CheckInit, MakeData, Go, Goto, At, files, TypeOK, TypeInv, Body
<1>2. CASE Initdb(c) \/ InitdbMissing(c)
  BY <1>2 DEF Initdb, InitdbMissing, Go, Goto, At, files, TypeOK, TypeInv, Body
<1>3. CASE InitdbEnds(c) \/ InitdbFails(c)
  BY <1>3 DEF InitdbEnds, InitdbFails, Go, Goto, At, files, TypeOK, TypeInv, OneInitdb, Body
<1>4. QED
  BY <1>1, <1>2, <1>3

\* Every step keeps the types, and a second initdb does not begin while one runs.
LEMMA StepType == TypeInv /\ [Next]_vars => TypeInv'
<1>1. SUFFICES ASSUME TypeInv, [Next]_vars PROVE TypeInv'
  OBVIOUS
<1>2. ASSUME NEW c \in Cmds, NEW k \in Kinds, Begin(c, k) PROVE TypeInv'
  <2>1. spoiled' \in BOOLEAN /\ alone' \in [Cmds -> BOOLEAN]
    BY <1>1, <1>2 DEF Begin, TypeInv, TypeOK
  <2>2. pc' = [pc EXCEPT ![c] = "check"] /\ kind' = [kind EXCEPT ![c] = k]
    BY <1>2 DEF Begin
  <2>3. UNCHANGED <<archive, extracted, data, zip, exe, running, role, db, api>>
    BY <1>2 DEF Begin, files, server
  <2>4. TypeOK'
    BY <1>1, <1>2, <2>1, <2>2, <2>3 DEF TypeInv, TypeOK, At, Pcs, Setup
  <2>5. OneInitdb'
    BY <1>1, <2>2, <2>3 DEF TypeInv, TypeOK, OneInitdb, At
  <2>6. QED
    BY <2>4, <2>5 DEF TypeInv
<1>3. ASSUME NEW c \in Cmds, SetupStep(c) PROVE TypeInv'
  <2>1. PICK w \in Setup \cup {"idle", Body(c)} : pc' = [pc EXCEPT ![c] = w]
    BY <1>1, <1>3, SetupSteps DEF TypeInv
  <2>2. w \in Pcs
    BY <2>1 DEF Pcs, Setup, Body
  <2>3. UNCHANGED <<zip, exe, server, kind, alone>>
    BY <1>1, <1>3, SetupSteps DEF TypeInv
  <2>4. CASE \/ CheckExtract(c) \/ Download(c) \/ DownloadFails(c) \/ Write(c) \/ Extract(c)
             \/ Open(c) \/ ExtractRaises(c) \/ ExtractEnds(c) \/ Remove(c) \/ RemoveRaises(c)
    BY <1>1, <2>1, <2>2, <2>3, <2>4, ExtractSteps DEF TypeInv, TypeOK, OneInitdb, At, server
  <2>5. CASE \/ CheckInit(c) \/ MakeData(c) \/ Initdb(c) \/ InitdbMissing(c) \/ InitdbEnds(c)
             \/ InitdbFails(c)
    <3>1. TypeOK'
      BY <1>1, <2>1, <2>2, <2>3, <2>5, InitSteps DEF TypeInv, TypeOK, At, server
    <3>2. OneInitdb'
      BY <1>1, <2>1, <2>2, <2>5, InitSteps DEF TypeInv, TypeOK, OneInitdb, At
    <3>3. QED
      BY <3>1, <3>2 DEF TypeInv
  <2>6. QED
    BY <1>3, <2>4, <2>5 DEF SetupStep
<1>4. ASSUME NEW c \in Cmds, ZipStep(c) \/ DbStep(c) \/ RunStep(c) PROVE TypeInv'
  <2>1. PICK w \in Pcs \ Setup : pc' = [pc EXCEPT ![c] = w]
    BY <1>1, <1>4, LaterSteps DEF TypeInv
  <2>2. UNCHANGED <<archive, extracted, data, kind, alone, spoiled>>
    BY <1>1, <1>4, LaterSteps DEF TypeInv
  <2>3. /\ zip' \in {"none", "partial", "full", "junk"} /\ exe' \in {"none", "partial", "full"}
        /\ running' \in BOOLEAN /\ role' \in BOOLEAN /\ db' \in BOOLEAN /\ api' \in BOOLEAN
        /\ running' \/ role' \/ db' => data = "full"
    <3>1. CASE ZipStep(c)
      <4>1. UNCHANGED <<running, role, db, api>>
        BY <3>1 DEF ZipStep, CheckZip, GetZip, GetZipFails, WriteZip, UnzipRaises, Unzip,
                    UnzipEnds, RemoveZip, server
      <4>2. zip' \in {"none", "partial", "full", "junk"} /\ exe' \in {"none", "partial", "full"}
        BY <1>1, <3>1 DEF ZipStep, CheckZip, GetZip, GetZipFails, WriteZip, UnzipRaises, Unzip,
                          UnzipEnds, RemoveZip, TypeInv, TypeOK, files
      <4>3. QED
        BY <1>1, <4>1, <4>2 DEF TypeInv, TypeOK
    <3>2. CASE DbStep(c)
      <4>1. CASE StartPostgres(c)
        <5>1. running' \in BOOLEAN /\ (running' => running \/ data = "full")
          BY <4>1, Zenon DEF StartPostgres
        <5>2. QED
          BY <1>1, <4>1, <5>1 DEF StartPostgres, TypeInv, TypeOK, files
      <4>2. CASE Prepare(c)
        <5>1. role' \in BOOLEAN /\ (role' => role \/ running)
          BY <4>2, Zenon DEF Prepare
        <5>2. QED
          BY <1>1, <4>2, <5>1 DEF Prepare, TypeInv, TypeOK, files
      <4>3. CASE CheckRunning(c) \/ PgCtlMissing(c) \/ CheckDb(c) \/ DbFails(c)
        BY <1>1, <4>3 DEF CheckRunning, PgCtlMissing, CheckDb, DbFails, TypeInv, TypeOK, files, server
      <4>4. CASE Drop(c) \/ CreateDb(c)
        BY <1>1, <4>4 DEF Drop, CreateDb, Reachable, TypeInv, TypeOK, files
      <4>5. QED
        BY <3>2, <4>1, <4>2, <4>3, <4>4 DEF DbStep
    <3>3. CASE RunStep(c)
      <4>1. CASE Spawn(c) \/ Kill(c)
        <5>1. api' \in BOOLEAN
          BY <4>1, Zenon DEF Spawn, Kill
        <5>2. UNCHANGED <<zip, exe, running, role, db>>
          BY <4>1 DEF Spawn, Kill, files
        <5>3. QED
          BY <1>1, <5>1, <5>2 DEF TypeInv, TypeOK
      <4>2. CASE StopPostgres(c)
        BY <1>1, <4>2 DEF StopPostgres, TypeInv, TypeOK, files
      <4>3. CASE StartReturns(c) \/ AddNode(c) \/ AddNodeGivesUp(c) \/ StopCheck(c) \/ StopCheckAgain(c)
        BY <1>1, <4>3 DEF StartReturns, AddNode, AddNodeGivesUp, StopCheck, StopCheckAgain,
                          TypeInv, TypeOK, files, server
      <4>4. QED
        BY <3>3, <4>1, <4>2, <4>3 DEF RunStep
    <3>4. QED
      BY <1>4, <3>1, <3>2, <3>3
  <2>4. QED
    BY <1>1, <2>1, <2>2, <2>3 DEF TypeInv, TypeOK, OneInitdb, At, Setup
<1>5. ASSUME NEW c \in Cmds, Crash(c) PROVE TypeInv'
  <2>1. spoiled' \in BOOLEAN
    BY <1>1, <1>5 DEF Crash, TypeInv, TypeOK
  <2>2. QED
    BY <1>1, <1>5, <2>1 DEF Crash, Goto, TypeInv, TypeOK, OneInitdb, At, Pcs, files, server
<1>6. CASE ServerEnds
  <2>1. \/ running' = FALSE /\ api' = api
        \/ api' = FALSE /\ running' = running
    BY <1>6 DEF ServerEnds
  <2>2. running' \in BOOLEAN /\ api' \in BOOLEAN /\ (running' => running)
    <3>1. running \in BOOLEAN /\ api \in BOOLEAN
      BY <1>1 DEF TypeInv, TypeOK
    <3>2. CASE running' = FALSE /\ api' = api
      BY <3>1, <3>2
    <3>3. CASE api' = FALSE /\ running' = running
      BY <3>1, <3>3
    <3>4. QED
      BY <2>1, <3>2, <3>3
  <2>3. UNCHANGED <<archive, extracted, data, zip, exe, role, db, pc, kind, alone, spoiled>>
    BY <1>6 DEF ServerEnds, files, locals
  <2>4. TypeOK'
    BY <1>1, <2>2, <2>3 DEF TypeInv, TypeOK, At
  <2>5. OneInitdb'
    BY <1>1, <2>3 DEF TypeInv, OneInitdb, At
  <2>6. QED
    BY <2>4, <2>5 DEF TypeInv
<1>7. CASE UNCHANGED vars
  BY <1>1, <1>7 DEF TypeInv, TypeOK, OneInitdb, At, vars, files, server, locals
<1>8. QED
  BY <1>1, <1>2, <1>3, <1>4, <1>5, <1>6, <1>7 DEF Next, Step

\* Every reachable state is well typed, and what the server, the database and an extraction
\* under way imply holds.
THEOREM TypeCorrect == Spec => []TypeOK
<1>1. Init => TypeInv
  BY InitAll
<1>2. TypeInv /\ [Next]_vars => TypeInv'
  BY StepType
<1>3. TypeInv => TypeOK
  BY DEF TypeInv
<1>4. QED
  BY <1>1, <1>2, <1>3, PTL DEF Spec

\* A finished cluster is never harmed.
THEOREM ClusterKept == Spec => ClusterSurvives
<1>1. ASSUME TypeInv, [Next]_vars, data = "full" PROVE data' = "full"
  <2>1. ASSUME NEW c \in Cmds, SetupStep(c) PROVE data' = "full"
    BY <1>1, <2>1, ExtractSteps, InitSteps DEF SetupStep, TypeInv
  <2>2. ASSUME NEW c \in Cmds, ZipStep(c) \/ DbStep(c) \/ RunStep(c) PROVE data' = "full"
    BY <1>1, <2>2, LaterSteps DEF TypeInv
  <2>3. CASE UNCHANGED files
    BY <1>1, <2>3 DEF files
  <2>4. QED
    BY <1>1, <2>1, <2>2, <2>3 DEF Next, Step, Begin, Crash, ServerEnds, vars
<1>2. TypeInv /\ [Next]_vars => [data = "full" => data' = "full"]_vars
  BY <1>1
<1>3. Init => TypeInv
  BY InitAll
<1>4. TypeInv /\ [Next]_vars => TypeInv'
  BY StepType
<1>5. QED
  BY <1>2, <1>3, <1>4, PTL DEF Spec, ClusterSurvives
-----------------------------------------------------------------------------
(* The markers *)

\* As long as nothing goes wrong, a command that is alone in download_and_init_postgres goes
\* from stage to stage and leaves whole directories behind.
LEMMA StageStep ==
  ASSUME TypeOK, NEW c \in Cmds, SetupStep(c), Stage(c), ~spoiled'
  PROVE  /\ InSetup(c)' => Stage(c)'
         /\ ~InSetup(c)' => extracted' \in {"none", "full"} /\ DataWhole'
<1>1. CASE CheckExtract(c) \/ Download(c) \/ DownloadFails(c)
  BY <1>1 DEF CheckExtract, Download, DownloadFails, Go, Goto, At, Stage, InSetup, Setup, DataWhole,
              files, TypeOK
<1>2. CASE Write(c)
  <2>1. archive' # "partial"
    BY <1>2, Zenon DEF Write
  <2>2. archive' \in {"full", "junk"}
    BY <1>2, <2>1 DEF Write, Stage, At
  <2>3. QED
    BY <1>2, <2>2 DEF Write, Goto, At, Stage, InSetup, Setup, DataWhole, TypeOK
<1>3. CASE Extract(c) \/ Open(c) \/ ExtractRaises(c)
  BY <1>3 DEF Extract, Open, ExtractRaises, Go, Goto, At, Stage, InSetup, Setup, DataWhole, files,
              TypeOK
<1>4. CASE ExtractEnds(c) \/ Remove(c) \/ RemoveRaises(c)
  BY <1>4 DEF ExtractEnds, Remove, RemoveRaises, Go, Goto, At, Stage, InSetup, Setup, DataWhole,
              files, TypeOK
<1>5. CASE CheckInit(c) \/ MakeData(c)
  BY <1>5 DEF CheckInit, MakeData, Body, Go, Goto, At, Stage, InSetup, Setup, DataWhole, files,
              TypeOK
<1>6. CASE Initdb(c) \/ InitdbMissing(c) \/ InitdbEnds(c)
  BY <1>6 DEF Initdb, InitdbMissing, InitdbEnds, Body, Go, Goto, At, Stage, InSetup, Setup,
              DataWhole, files, TypeOK
<1>7. CASE InitdbFails(c)
  BY <1>7 DEF InitdbFails
<1>8. QED
  BY <1>1, <1>2, <1>3, <1>4, <1>5, <1>6, <1>7 DEF SetupStep

\* Every step keeps what is known of the stages and of the markers.
LEMMA StepMark == MarkInv /\ TypeOK' /\ [Next]_vars => MarkInv'
<1>1. SUFFICES ASSUME MarkInv, TypeOK', [Next]_vars, ~spoiled'
               PROVE  SetupAlone' /\ SetupStages' /\ MarkersTrue'
  BY DEF MarkInv, MarkersTrue
<1>2. ASSUME NEW c \in Cmds, NEW k \in Kinds, Begin(c, k)
      PROVE  SetupAlone' /\ SetupStages' /\ MarkersTrue'
  <2>1. ~spoiled /\ \A d \in Cmds \ {c} : ~InSetup(d)
    BY <1>1, <1>2, Zenon DEF Begin
  <2>2. ~InSetup(c)
    BY <1>2 DEF Begin, At, InSetup, Setup
  <2>3. extracted \in {"none", "full"} /\ DataWhole
    BY <1>1, <2>1, <2>2 DEF MarkInv, MarkersTrue, DataWhole
  <2>4. pc' = [pc EXCEPT ![c] = "check"] /\ UNCHANGED <<archive, extracted, data>>
    BY <1>2 DEF Begin, files
  <2>5. \A d \in Cmds : InSetup(d)' <=> d = c
    BY <1>1, <2>1, <2>4 DEF MarkInv, TypeOK, InSetup, Setup
  <2>6. Stage(c)'
    BY <1>1, <2>3, <2>4 DEF MarkInv, TypeOK, Stage, At, DataWhole
  <2>7. QED
    BY <2>5, <2>6 DEF SetupAlone, SetupStages, MarkersTrue
<1>3. ASSUME NEW c \in Cmds, SetupStep(c) PROVE SetupAlone' /\ SetupStages' /\ MarkersTrue'
  <2>1. ~spoiled /\ InSetup(c)
    BY <1>1, <1>3, SetupSteps DEF MarkInv
  <2>2. Stage(c) /\ \A d \in Cmds \ {c} : ~InSetup(d)
    BY <1>1, <2>1 DEF MarkInv, SetupAlone, SetupStages
  <2>3. /\ InSetup(c)' => Stage(c)'
        /\ ~InSetup(c)' => extracted' \in {"none", "full"} /\ DataWhole'
    BY <1>1, <1>3, <2>2, StageStep DEF MarkInv
  <2>4. PICK w \in Setup \cup {"idle", Body(c)} : pc' = [pc EXCEPT ![c] = w]
    BY <1>1, <1>3, SetupSteps DEF MarkInv
  <2>5. \A d \in Cmds \ {c} : ~InSetup(d)'
    BY <1>1, <2>2, <2>4 DEF MarkInv, TypeOK, InSetup
  <2>6. QED
    BY <2>3, <2>5 DEF SetupAlone, SetupStages, MarkersTrue, DataWhole
<1>4. ASSUME NEW c \in Cmds, ZipStep(c) \/ DbStep(c) \/ RunStep(c)
      PROVE  SetupAlone' /\ SetupStages' /\ MarkersTrue'
  <2>1. UNCHANGED <<archive, extracted, data, spoiled>> /\ ~InSetup(c)
    BY <1>1, <1>4, LaterSteps DEF MarkInv
  <2>2. PICK w \in Pcs \ Setup : pc' = [pc EXCEPT ![c] = w]
    BY <1>1, <1>4, LaterSteps DEF MarkInv
  <2>3. \A d \in Cmds : pc'[d] = pc[d] \/ (~InSetup(d) /\ ~InSetup(d)')
    BY <1>1, <2>1, <2>2 DEF MarkInv, TypeOK, InSetup
  <2>4. QED
    BY <1>1, <2>1, <2>3 DEF MarkInv, SetupAlone, SetupStages, MarkersTrue, InSetup, Stage, At,
                            DataWhole
<1>5. ASSUME NEW c \in Cmds, Crash(c) PROVE SetupAlone' /\ SetupStages' /\ MarkersTrue'
  <2>1. ~spoiled /\ ~InSetup(c)
    BY <1>1, <1>5, Zenon DEF Crash
  <2>2. pc' = [pc EXCEPT ![c] = "idle"] /\ UNCHANGED <<archive, extracted, data>>
    BY <1>5 DEF Crash, Goto, files
  <2>3. \A d \in Cmds : pc'[d] = pc[d] \/ (~InSetup(d) /\ ~InSetup(d)')
    BY <1>1, <2>1, <2>2 DEF MarkInv, TypeOK, InSetup, Setup
  <2>4. QED
    BY <1>1, <2>1, <2>2, <2>3 DEF MarkInv, SetupAlone, SetupStages, MarkersTrue, InSetup, Stage, At,
                                  DataWhole
<1>6. CASE ServerEnds \/ UNCHANGED vars
  <2>1. UNCHANGED <<archive, extracted, data, pc, spoiled>>
    BY <1>6 DEF ServerEnds, vars, files, locals
  <2>2. QED
    BY <1>1, <2>1 DEF MarkInv, SetupAlone, SetupStages, MarkersTrue, InSetup, Stage, At, DataWhole
<1>7. QED
  BY <1>1, <1>2, <1>3, <1>4, <1>5, <1>6 DEF Next, Step

\* Between commands the markers tell the truth, as long as nothing has gone wrong in
\* download_and_init_postgres.
THEOREM MarkersHold == Spec => []MarkersTrue
<1>1. Init => TypeInv /\ MarkInv
  BY InitAll
<1>2. TypeInv /\ MarkInv /\ [Next]_vars => TypeInv' /\ MarkInv'
  BY StepType, StepMark DEF TypeInv
<1>3. MarkInv => MarkersTrue
  BY DEF MarkInv
<1>4. QED
  BY <1>1, <1>2, <1>3, PTL DEF Spec

\* What is broken half way stays so.
THEOREM NothingRepairs == Spec => BrokenStays
<1>1. ASSUME TypeOK, [Next]_vars
      PROVE  (BrokenTree => BrokenTree') /\ (BrokenCluster => BrokenCluster')
               /\ (BrokenZip => BrokenZip')
  <2>1. ASSUME NEW c \in Cmds, SetupStep(c), BrokenTree PROVE BrokenTree'
    <3>1. CASE CheckExtract(c) \/ Download(c) \/ DownloadFails(c) \/ Write(c) \/ Extract(c) \/ Open(c)
      BY <1>1, <2>1, <3>1 DEF CheckExtract, Download, DownloadFails, Write, Extract, Open, Go, Goto,
                              At, BrokenTree, files, TypeOK
    <3>2. CASE ExtractRaises(c) \/ ExtractEnds(c) \/ Remove(c) \/ RemoveRaises(c)
      BY <1>1, <2>1, <3>2 DEF ExtractRaises, ExtractEnds, Remove, RemoveRaises, Go, Goto, At,
                              BrokenTree, files, TypeOK
    <3>3. CASE CheckInit(c) \/ MakeData(c) \/ Initdb(c) \/ InitdbMissing(c) \/ InitdbEnds(c)
                 \/ InitdbFails(c)
      BY <1>1, <2>1, <3>3 DEF CheckInit, MakeData, Initdb, InitdbMissing, InitdbEnds, InitdbFails,
                              Body, Go, Goto, At, BrokenTree, files, TypeOK
    <3>4. QED
      BY <2>1, <3>1, <3>2, <3>3 DEF SetupStep
  <2>2. ASSUME NEW c \in Cmds, SetupStep(c), BrokenCluster PROVE BrokenCluster'
    <3>1. CASE CheckExtract(c) \/ Download(c) \/ DownloadFails(c) \/ Write(c) \/ Extract(c) \/ Open(c)
      BY <1>1, <2>2, <3>1 DEF CheckExtract, Download, DownloadFails, Write, Extract, Open, Go, Goto,
                              At, BrokenCluster, files, TypeOK
    <3>2. CASE ExtractRaises(c) \/ ExtractEnds(c) \/ Remove(c) \/ RemoveRaises(c)
      BY <1>1, <2>2, <3>2 DEF ExtractRaises, ExtractEnds, Remove, RemoveRaises, Go, Goto, At,
                              BrokenCluster, files, TypeOK
    <3>3. CASE CheckInit(c) \/ MakeData(c) \/ Initdb(c) \/ InitdbMissing(c) \/ InitdbEnds(c)
                 \/ InitdbFails(c)
      BY <1>1, <2>2, <3>3 DEF CheckInit, MakeData, Initdb, InitdbMissing, InitdbEnds, InitdbFails,
                              Body, Go, Goto, At, BrokenCluster, files, TypeOK
    <3>4. QED
      BY <2>2, <3>1, <3>2, <3>3 DEF SetupStep
  <2>3. ASSUME NEW c \in Cmds, SetupStep(c), BrokenZip PROVE BrokenZip'
    <3>1. PICK w \in Setup \cup {"idle", Body(c)} : pc' = [pc EXCEPT ![c] = w]
      BY <1>1, <2>3, SetupSteps
    <3>2. UNCHANGED <<zip, exe>>
      BY <1>1, <2>3, SetupSteps
    <3>3. w \notin {"zipget", "zipwrite", "unzipping", "zipremove"}
      BY <3>1 DEF Setup, Body
    <3>4. QED
      BY <1>1, <2>3, <3>1, <3>2, <3>3 DEF BrokenZip, TypeOK
  <2>4. ASSUME NEW c \in Cmds, ZipStep(c) \/ DbStep(c) \/ RunStep(c)
        PROVE  (BrokenTree => BrokenTree') /\ (BrokenCluster => BrokenCluster')
    <3>1. PICK w \in Pcs \ Setup : pc' = [pc EXCEPT ![c] = w]
      BY <1>1, <2>4, LaterSteps
    <3>2. UNCHANGED <<extracted, data>>
      BY <1>1, <2>4, LaterSteps
    <3>3. QED
      BY <1>1, <3>1, <3>2 DEF BrokenTree, BrokenCluster, TypeOK, Setup
  <2>5. ASSUME NEW c \in Cmds, ZipStep(c) \/ DbStep(c) \/ RunStep(c), BrokenZip PROVE BrokenZip'
    <3>1. CASE ZipStep(c)
      BY <1>1, <2>5, <3>1 DEF ZipStep, CheckZip, GetZip, GetZipFails, WriteZip, UnzipRaises, Unzip,
                              UnzipEnds, RemoveZip, Go, Goto, At, BrokenZip, files, TypeOK
    <3>2. CASE DbStep(c)
      BY <1>1, <2>5, <3>2 DEF DbStep, CheckRunning, StartPostgres, PgCtlMissing, Prepare, Drop,
                              CheckDb, CreateDb, DbFails, Go, Goto, At, BrokenZip, files, TypeOK
    <3>3. CASE RunStep(c)
      BY <1>1, <2>5, <3>3 DEF RunStep, StartReturns, Spawn, AddNode, AddNodeGivesUp, Kill, StopCheck,
                              StopCheckAgain, StopPostgres, AfterStop, Go, Goto, At, BrokenZip,
                              files, TypeOK
    <3>4. QED
      BY <2>5, <3>1, <3>2, <3>3
  <2>6. ASSUME NEW c \in Cmds, NEW w \in {"check", "idle"}, pc' = [pc EXCEPT ![c] = w], UNCHANGED files
        PROVE  (BrokenTree => BrokenTree') /\ (BrokenCluster => BrokenCluster')
                 /\ (BrokenZip => BrokenZip')
    BY <1>1, <2>6 DEF BrokenTree, BrokenCluster, BrokenZip, files, TypeOK
  <2>7. CASE ServerEnds \/ UNCHANGED vars
    BY <2>7 DEF ServerEnds, BrokenTree, BrokenCluster, BrokenZip, vars, files, locals
  <2>8. QED
    BY <1>1, <2>1, <2>2, <2>3, <2>4, <2>5, <2>6, <2>7 DEF Next, Step, Begin, Crash, Goto
<1>2. Init => TypeInv
  BY InitAll
<1>3. TypeInv /\ [Next]_vars => TypeInv'
  BY StepType
<1>4. TypeInv /\ [Next]_vars =>
        [/\ BrokenTree => BrokenTree'
         /\ BrokenCluster => BrokenCluster'
         /\ BrokenZip => BrokenZip']_vars
  BY <1>1 DEF TypeInv
<1>5. QED
  BY <1>2, <1>3, <1>4, PTL DEF Spec, BrokenStays
-----------------------------------------------------------------------------
(* A command that runs alone *)

\* Every command keeps to its route.
LEMMA StepRoute == TypeOK /\ Routes /\ [Next]_vars => Routes'
<1>1. SUFFICES ASSUME TypeOK, Routes, [Next]_vars PROVE Routes'
  OBVIOUS
<1>2. ASSUME NEW c \in Cmds, NEW k \in Kinds, Begin(c, k) PROVE Routes'
  <2>1. pc' = [pc EXCEPT ![c] = "check"] /\ kind' = [kind EXCEPT ![c] = k]
    BY <1>2 DEF Begin
  <2>2. QED
    BY <1>1, <2>1 DEF Routes, TypeOK, Setup
<1>3. ASSUME NEW c \in Cmds, SetupStep(c) PROVE Routes'
  <2>1. PICK w \in Setup \cup {"idle", Body(c)} : pc' = [pc EXCEPT ![c] = w]
    BY <1>1, <1>3, SetupSteps
  <2>2. kind' = kind
    BY <1>1, <1>3, SetupSteps
  <2>3. QED
    BY <1>1, <2>1, <2>2 DEF Routes, TypeOK, Setup, Body, Kinds
<1>4. ASSUME NEW c \in Cmds, ZipStep(c) \/ DbStep(c) \/ RunStep(c) PROVE Routes'
  <2>1. kind' = kind
    BY <1>1, <1>4, LaterSteps
  <2>2. CASE ZipStep(c)
    BY <1>1, <2>1, <2>2 DEF ZipStep, CheckZip, GetZip, GetZipFails, WriteZip, UnzipRaises, Unzip,
                            UnzipEnds, RemoveZip, Go, Goto, At, Routes, TypeOK, Setup
  <2>3. CASE DbStep(c)
    BY <1>1, <2>1, <2>3 DEF DbStep, CheckRunning, StartPostgres, PgCtlMissing, Prepare, Drop, CheckDb,
                            CreateDb, DbFails, Go, Goto, At, Routes, TypeOK, Setup
  <2>4. CASE RunStep(c)
    BY <1>1, <2>1, <2>4 DEF RunStep, StartReturns, Spawn, AddNode, AddNodeGivesUp, Kill, StopCheck,
                            StopCheckAgain, StopPostgres, AfterStop, Go, Goto, At, Routes, TypeOK,
                            Setup
  <2>5. QED
    BY <1>4, <2>2, <2>3, <2>4
<1>5. ASSUME NEW c \in Cmds, Crash(c) PROVE Routes'
  BY <1>1, <1>5 DEF Crash, Goto, Routes, TypeOK, Setup
<1>6. CASE ServerEnds \/ UNCHANGED vars
  BY <1>1, <1>6 DEF ServerEnds, Routes, vars, locals
<1>7. QED
  BY <1>1, <1>2, <1>3, <1>4, <1>5, <1>6 DEF Next, Step

\* What a command that runs alone leaves to itself.
LEMMA StepSolitude == SoloInv /\ TypeOK' /\ [Next]_vars => Solitude'
<1>1. SUFFICES ASSUME SoloInv, TypeOK', [Next]_vars PROVE Solitude'
  OBVIOUS
<1>2. ASSUME NEW c \in Cmds, NEW k \in Kinds, Begin(c, k) PROVE Solitude'
  <2>1. pc' = [pc EXCEPT ![c] = "check"] /\ UNCHANGED api
    BY <1>2 DEF Begin, server
  <2>2. \A d \in Cmds : alone'[d] => (d = c \/ At(d, "idle")) /\ \A e \in Cmds \ {c} : d = c => At(e, "idle")
    BY <1>1, <1>2, Zenon DEF Begin, SoloInv, TypeOK
  <2>3. QED
    BY <1>1, <2>1, <2>2 DEF Solitude, SoloInv, TypeOK, At, Setup
<1>3. ASSUME NEW c \in Cmds, NEW w \in Pcs, ~At(c, "idle"), pc' = [pc EXCEPT ![c] = w],
             UNCHANGED <<kind, alone>>,
             alone[c] /\ w # "idle" =>
               ((kind[c] = "reset" /\ w \notin Setup \cup {"kill"}) => ~api')
      PROVE  Solitude'
  <2>1. SUFFICES ASSUME NEW d \in Cmds, alone[d], pc'[d] # "idle"
                 PROVE  /\ \A e \in Cmds \ {d} : pc'[e] = "idle"
                        /\ (kind[d] = "reset" /\ pc'[d] \notin Setup \cup {"kill"}) => ~api'
    BY <1>3 DEF Solitude, At
  <2>2. CASE d = c
    BY <1>1, <1>3, <2>1, <2>2 DEF Solitude, SoloInv, TypeOK, At
  <2>3. CASE d # c
    BY <1>1, <1>3, <2>1, <2>3 DEF Solitude, SoloInv, TypeOK, At
  <2>4. QED
    BY <2>2, <2>3
<1>4. ASSUME NEW c \in Cmds, SetupStep(c) PROVE Solitude'
  <2>1. PICK w \in Setup \cup {"idle", Body(c)} : pc' = [pc EXCEPT ![c] = w]
    BY <1>1, <1>4, SetupSteps DEF SoloInv
  <2>2. UNCHANGED <<kind, alone, running, api>> /\ ~At(c, "idle")
    BY <1>1, <1>4, SetupSteps DEF SoloInv, server, InSetup, Setup, At
  <2>3. /\ w \in Pcs
        /\ kind[c] = "reset" => w \in Setup \cup {"idle", "kill"}
    BY <2>1 DEF Body, Pcs, Setup
  <2>4. QED
    BY <1>3, <2>1, <2>2, <2>3
<1>5. ASSUME NEW c \in Cmds, ZipStep(c) \/ DbStep(c) \/ RunStep(c) PROVE Solitude'
  <2>1. PICK w \in Pcs \ Setup : pc' = [pc EXCEPT ![c] = w]
    BY <1>1, <1>5, LaterSteps DEF SoloInv
  <2>2. UNCHANGED <<kind, alone>>
    BY <1>1, <1>5, LaterSteps DEF SoloInv
  <2>3. ~At(c, "idle")
    BY <1>5 DEF ZipStep, CheckZip, GetZip, GetZipFails, WriteZip, UnzipRaises, Unzip, UnzipEnds,
                RemoveZip, DbStep, CheckRunning, StartPostgres, PgCtlMissing, Prepare, Drop, CheckDb,
                CreateDb, DbFails, RunStep, StartReturns, Spawn, AddNode, AddNodeGivesUp, Kill,
                StopCheck, StopCheckAgain, StopPostgres, At
  <2>4. ASSUME alone[c], kind[c] = "reset", w \notin Setup \cup {"idle", "kill"} PROVE ~api'
    <3>1. CASE Kill(c)
      BY <3>1 DEF Kill
    <3>2. CASE Spawn(c)
      BY <1>1, <2>4, <3>2 DEF Spawn, SoloInv, Routes, At
    <3>3. CASE ~Kill(c) /\ ~Spawn(c)
      <4>1. api' = api /\ ~InSetup(c) /\ ~At(c, "kill")
        BY <1>1, <1>5, <3>3, LaterSteps DEF ZipStep, CheckZip, GetZip, GetZipFails, WriteZip,
           UnzipRaises, Unzip, UnzipEnds, RemoveZip, DbStep, CheckRunning, StartPostgres,
           PgCtlMissing, Prepare, Drop, CheckDb, CreateDb, DbFails, RunStep, StartReturns, AddNode,
           AddNodeGivesUp, StopCheck, StopCheckAgain, StopPostgres, server, SoloInv, At
      <4>2. QED
        BY <1>1, <2>3, <2>4, <4>1 DEF SoloInv, Solitude, InSetup, At
    <3>4. QED
      BY <3>1, <3>2, <3>3
  <2>5. QED
    BY <1>3, <2>1, <2>2, <2>3, <2>4
<1>6. ASSUME NEW c \in Cmds, Crash(c) PROVE Solitude'
  BY <1>3, <1>6 DEF Crash, Goto, Pcs
<1>7. CASE ServerEnds
  <2>1. UNCHANGED <<pc, kind, alone>>
    BY <1>7 DEF ServerEnds, locals
  <2>2. CASE running' = FALSE /\ api' = api
    BY <1>1, <2>1, <2>2 DEF SoloInv, Solitude, At
  <2>3. CASE api' = FALSE /\ running' = running
    BY <1>1, <2>1, <2>3 DEF SoloInv, Solitude, At
  <2>4. QED
    BY <1>7, <2>2, <2>3 DEF ServerEnds
<1>8. CASE UNCHANGED vars
  BY <1>1, <1>8 DEF SoloInv, Solitude, At, vars, server, locals
<1>9. QED
  BY <1>1, <1>2, <1>4, <1>5, <1>6, <1>7, <1>8 DEF Next, Step

\* SoloInv holds in every reachable state.
LEMMA Solo == Spec => [](TypeInv /\ SoloInv)
<1>1. Init => TypeInv /\ SoloInv
  BY InitAll
<1>2. TypeInv /\ SoloInv /\ [Next]_vars => TypeInv' /\ SoloInv'
  BY StepType, StepRoute, StepSolitude DEF TypeInv, SoloInv
<1>3. QED
  BY <1>1, <1>2, PTL DEF Spec

\* The database is dropped under a running merchant API only by install or by a race.
THEOREM DropSpares == Spec => DropSparesApi
<1>1. SoloInv => \A c \in Cmds : (Drop(c) /\ api) => (kind[c] = "install" \/ ~alone[c])
  BY DEF SoloInv, TypeOK, Routes, Solitude, Drop, At, Kinds, Setup
<1>2. SoloInv /\ [Next]_vars =>
        [\A c \in Cmds : (Drop(c) /\ api) => (kind[c] = "install" \/ ~alone[c])]_vars
  BY <1>1
<1>3. QED
  BY <1>2, Solo, PTL DEF Spec, DropSparesApi
=============================================================================
