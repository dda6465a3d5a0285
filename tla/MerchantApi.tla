---------------------------- MODULE MerchantApi ----------------------------
(***************************************************************************)
(* The merchant API and its embedded Postgres in portable mode             *)
(* (builtin_components/merchant_api, _common/utils.py, _postgres): what    *)
(* concurrent install, start, stop and reset commands download, extract,   *)
(* initialise, run and drop.  A directory that exists stands for a step    *)
(* that is finished.  pg_ctl, initdb and the file system are external.     *)
(***************************************************************************)
EXTENDS Naturals

CONSTANTS Cmds   \* processes that execute commands on the merchant API

Kinds == {"install", "start", "stop", "reset"}

VARIABLES archive,   \* DOWNLOAD_PATH
          extracted, \* EXTRACTION_PATH
          data,      \* PG_DATA
          zip,       \* download_path of the merchant API
          exe,       \* its output_path
          running,   \* the Postgres server
          role,      \* the role mapimaster
          db,        \* the database merchant_gateway
          api,       \* the merchant API process
          pc,        \* per command: where it is
          kind,      \* per command
          alone,     \* history, per command: no other has run at the same time
          spoiled    \* history: two commands were in download_and_init_postgres at a time, one
                     \* died there, its download was cut short, or initdb failed

files == <<archive, extracted, data, zip, exe>>
server == <<running, role, db, api>>
locals == <<pc, kind, alone, spoiled>>
vars == <<files, server, locals>>

Init ==
    /\ archive = "none" /\ extracted = "none" /\ data = "none"
    /\ zip = "none" /\ exe = "none"
    /\ running = FALSE /\ role = FALSE /\ db = FALSE /\ api = FALSE
    /\ pc = [c \in Cmds |-> "idle"]
    /\ kind = [c \in Cmds |-> "stop"]
    /\ alone = [c \in Cmds |-> TRUE]
    /\ spoiled = FALSE

\* A command is in download_and_init_postgres.
Setup == {"check", "download", "write", "extract", "open", "extracting", "remove",
          "checkinit", "mkdata", "initdb", "initing"}
InSetup(c) == pc[c] \in Setup

At(c, where) == pc[c] = where
Goto(c, where) ==
    /\ pc' = [pc EXCEPT ![c] = where]
    /\ UNCHANGED <<kind, alone>>
Go(c, where) == Goto(c, where) /\ UNCHANGED spoiled

\* Plugin.__init__ of the command that is executed.
Begin(c, k) ==
    /\ At(c, "idle")
    /\ pc' = [pc EXCEPT ![c] = "check"]
    /\ kind' = [kind EXCEPT ![c] = k]
    /\ alone' = [d \in Cmds |->
                   IF d = c THEN \A e \in Cmds \ {c} : At(e, "idle")
                   ELSE alone[d] /\ At(d, "idle")]
    /\ spoiled' = (spoiled \/ \E d \in Cmds \ {c} : InSetup(d))
    /\ UNCHANGED <<files, server>>
-----------------------------------------------------------------------------
(* download_and_extract *)

CheckExtract(c) ==
    /\ At(c, "check")
    /\ Go(c, IF extracted # "none" THEN "checkinit" ELSE "download")
    /\ UNCHANGED <<files, server>>

\* requests.get has no timeout; when it answers, open(DOWNLOAD_PATH, "wb") empties the file.
Download(c) ==
    /\ At(c, "download")
    /\ archive' = "partial"
    /\ Go(c, "write")
    /\ UNCHANGED <<extracted, data, zip, exe, server>>

DownloadFails(c) ==
    /\ At(c, "download")
    /\ Go(c, "idle")
    /\ UNCHANGED <<files, server>>

\* The answer may be an error page or be cut short: verify_hash compares digests of different
\* case and rejects nothing.  If another command has removed the file meanwhile, nothing is
\* there after the write.
Write(c) ==
    /\ At(c, "write")
    /\ archive' \in IF archive = "none" THEN {"none"} ELSE {"full", "junk", "partial"}
    /\ Goto(c, "extract")
    /\ spoiled' = (spoiled \/ archive' = "partial")
    /\ UNCHANGED <<extracted, data, zip, exe, server>>

Extract(c) ==
    /\ At(c, "extract")
    /\ Go(c, IF extracted = "none" THEN "open" ELSE "remove")
    /\ UNCHANGED <<files, server>>

\* tarfile.open and the first members; another command may have removed the archive or be
\* writing it again.
Open(c) ==
    /\ At(c, "open")
    /\ archive \in {"partial", "full"}
    /\ extracted' = "partial"
    /\ Go(c, "extracting")
    /\ UNCHANGED <<archive, data, zip, exe, server>>

\* The archive cannot be opened, or it ends early: `finally` removes it and the command raises.
ExtractRaises(c) ==
    /\ \/ At(c, "open") /\ archive # "full"
       \/ At(c, "extracting") /\ archive = "partial"
    /\ archive' = "none"
    /\ Go(c, "idle")
    /\ UNCHANGED <<extracted, data, zip, exe, server>>

\* All members are there; an archive that ends early is noticed (ExtractRaises).
ExtractEnds(c) ==
    /\ At(c, "extracting")
    /\ archive # "partial"
    /\ extracted' = "full"
    /\ Go(c, "remove")
    /\ UNCHANGED <<archive, data, zip, exe, server>>

Remove(c) ==
    /\ At(c, "remove")
    /\ archive # "none"
    /\ archive' = "none"
    /\ Go(c, "checkinit")
    /\ UNCHANGED <<extracted, data, zip, exe, server>>

RemoveRaises(c) ==
    /\ At(c, "remove")
    /\ archive = "none"
    /\ Go(c, "idle")
    /\ UNCHANGED <<files, server>>
-----------------------------------------------------------------------------
(* initdb *)

\* Mutant of Body: reset does not call stop first.
BodyUnstopped(c) == IF kind[c] = "stop" THEN "kill" ELSE "zip"

\* What follows __init__.
Body(c) == IF kind[c] \in {"install", "start"} THEN "zip" ELSE "kill"

CheckInit(c) ==
    /\ At(c, "checkinit")
    /\ Go(c, IF data # "none" THEN Body(c) ELSE "mkdata")
    /\ UNCHANGED <<files, server>>

\* Mutant of MakeData: the directory is made afresh.
MakeDataAfresh(c) ==
    /\ At(c, "mkdata")
    /\ data' = "empty"
    /\ Go(c, "initdb")
    /\ UNCHANGED <<archive, extracted, zip, exe, server>>

\* os.makedirs(PG_DATA, exist_ok=True)
MakeData(c) ==
    /\ At(c, "mkdata")
    /\ data' = IF data = "none" THEN "empty" ELSE data
    /\ Go(c, "initdb")
    /\ UNCHANGED <<archive, extracted, zip, exe, server>>

\* Mutant of Initdb: nobody waits for the process.
InitdbUnawaited(c) ==
    /\ At(c, "initdb")
    /\ data' = IF data = "empty" THEN "partial" ELSE data
    /\ Go(c, Body(c))
    /\ UNCHANGED <<archive, extracted, zip, exe, server>>

\* initdb refuses a directory that is not empty; nobody reads its return code.
Initdb(c) ==
    /\ At(c, "initdb")
    /\ extracted # "none"
    /\ data' = IF data = "empty" THEN "partial" ELSE data
    /\ Go(c, IF data = "empty" THEN "initing" ELSE Body(c))
    /\ UNCHANGED <<archive, extracted, zip, exe, server>>

\* The binary is not there yet: Popen raises, and the directory stays.
InitdbMissing(c) ==
    /\ At(c, "initdb")
    /\ extracted # "full"
    /\ Go(c, "idle")
    /\ UNCHANGED <<files, server>>

InitdbEnds(c) ==
    /\ At(c, "initing")
    /\ data' = "full"
    /\ Go(c, Body(c))
    /\ UNCHANGED <<archive, extracted, zip, exe, server>>

\* initdb fails and empties the directory; the command goes on.
InitdbFails(c) ==
    /\ At(c, "initing")
    /\ data' = "empty"
    /\ Goto(c, Body(c))
    /\ spoiled' = TRUE
    /\ UNCHANGED <<archive, extracted, zip, exe, server>>
-----------------------------------------------------------------------------
(* download_and_install: the merchant API *)

CheckZip(c) ==
    /\ At(c, "zip")
    /\ Go(c, IF zip = "none" THEN "zipget" ELSE "unzip")
    /\ UNCHANGED <<files, server>>

GetZip(c) ==
    /\ At(c, "zipget")
    /\ zip' = "partial"
    /\ Go(c, "zipwrite")
    /\ UNCHANGED <<archive, extracted, data, exe, server>>

\* requests.get raises.
GetZipFails(c) ==
    /\ At(c, "zipget")
    /\ Go(c, "idle")
    /\ UNCHANGED <<files, server>>

WriteZip(c) ==
    /\ At(c, "zipwrite")
    /\ zip' \in IF zip = "none" THEN {"none"} ELSE {"full", "junk"}
    /\ Go(c, "unzip")
    /\ UNCHANGED <<archive, extracted, data, exe, server>>

\* BadZipFile, or another command has removed the archive: it stays as it is.
UnzipRaises(c) ==
    /\ \/ At(c, "unzip") /\ exe = "none" /\ zip # "full"
       \/ At(c, "unzipping") /\ zip = "partial"
    /\ Go(c, "idle")
    /\ UNCHANGED <<files, server>>

Unzip(c) ==
    /\ At(c, "unzip")
    /\ exe # "none" \/ zip = "full"
    /\ exe' = IF exe = "none" THEN "partial" ELSE exe
    /\ Go(c, IF exe = "none" THEN "unzipping" ELSE "zipremove")
    /\ UNCHANGED <<archive, extracted, data, zip, server>>

UnzipEnds(c) ==
    /\ At(c, "unzipping")
    /\ exe' = "full"
    /\ Go(c, "zipremove")
    /\ UNCHANGED <<archive, extracted, data, zip, server>>

\* if download_path.exists(): os.remove
RemoveZip(c) ==
    /\ At(c, "zipremove")
    /\ zip' = "none"
    /\ Go(c, "pgcheck")
    /\ UNCHANGED <<archive, extracted, data, exe, server>>
-----------------------------------------------------------------------------
(* start_postgres and the database *)

CheckRunning(c) ==
    /\ At(c, "pgcheck")
    /\ Go(c, IF running THEN "prepare" ELSE "pgstart")
    /\ UNCHANGED <<files, server>>

\* pg_ctl -w start: without a cluster it fails, and nobody reads its return code.
StartPostgres(c) ==
    /\ At(c, "pgstart")
    /\ extracted # "none"
    /\ running' = (running \/ data = "full")
    /\ Go(c, "prepare")
    /\ UNCHANGED <<files, role, db, api>>

PgCtlMissing(c) ==
    /\ At(c, "pgstart")
    /\ extracted # "full"
    /\ Go(c, "idle")
    /\ UNCHANGED <<files, server>>

\* mapi_db_config.check_postgres_db creates mapimaster, and swallows every exception.
Prepare(c) ==
    /\ At(c, "prepare")
    /\ role' = (role \/ running)
    /\ Go(c, IF kind[c] = "start" THEN "db" ELSE "drop")
    /\ UNCHANGED <<files, running, db, api>>

Reachable == running /\ role

\* drop_db_on_install
Drop(c) ==
    /\ At(c, "drop")
    /\ Reachable
    /\ db' = FALSE
    /\ Go(c, "db")
    /\ UNCHANGED <<files, running, role, api>>

\* check_db_config: SELECT ... pg_database, then CREATE DATABASE.
CheckDb(c) ==
    /\ At(c, "db")
    /\ Reachable
    /\ Go(c, IF ~db THEN "create" ELSE IF kind[c] = "start" THEN "run" ELSE "idle")
    /\ UNCHANGED <<files, server>>

CreateDb(c) ==
    /\ At(c, "create")
    /\ Reachable
    /\ ~db
    /\ db' = TRUE
    /\ Go(c, IF kind[c] = "start" THEN "run" ELSE "idle")
    /\ UNCHANGED <<files, running, role, api>>

\* No connection, or another command was faster with CREATE DATABASE: sys.exit(1).
DbFails(c) ==
    /\ pc[c] \in {"drop", "db", "create"}
    /\ ~Reachable \/ (At(c, "create") /\ db)
    /\ Go(c, "idle")
    /\ UNCHANGED <<files, server>>
-----------------------------------------------------------------------------
(* The rest of start, stop and reset *)

\* No executable, no node, or no Postgres: an error is logged and start returns.
StartReturns(c) ==
    /\ At(c, "run")
    /\ Go(c, "idle")
    /\ UNCHANGED <<files, server>>

Spawn(c) ==
    /\ At(c, "run")
    /\ exe # "none" /\ Reachable
    /\ api' = TRUE
    /\ Go(c, "addnode")
    /\ UNCHANGED <<files, running, role, db>>

AddNode(c) ==
    /\ At(c, "addnode")
    /\ api
    /\ Go(c, "idle")
    /\ UNCHANGED <<files, server>>

\* After max_wait_time the thread raises; start, which joins it, does not.
AddNodeGivesUp(c) ==
    /\ At(c, "addnode")
    /\ Go(c, "idle")
    /\ UNCHANGED <<files, server>>

Kill(c) ==
    /\ At(c, "kill")
    /\ api' = FALSE
    /\ Go(c, "stopcheck")
    /\ UNCHANGED <<files, running, role, db>>

\* stop has seen it; stop_postgres asks again and goes on only if it is not running.
AfterStop(c) == IF kind[c] = "reset" THEN "zip" ELSE "idle"

StopCheck(c) ==
    /\ At(c, "stopcheck")
    /\ Go(c, IF running THEN "stopcheck2" ELSE AfterStop(c))
    /\ UNCHANGED <<files, server>>

\* if not asyncio.run(_postgres.check_running()): _postgres.stop()
StopCheckAgain(c) ==
    /\ At(c, "stopcheck2")
    /\ Go(c, IF ~running THEN "pgstop" ELSE AfterStop(c))
    /\ UNCHANGED <<files, server>>

StopPostgres(c) ==
    /\ At(c, "pgstop")
    /\ running' = FALSE
    /\ Go(c, AfterStop(c))
    /\ UNCHANGED <<files, role, db, api>>

\* The command is killed, with the programs it waits for.
Crash(c) ==
    /\ ~At(c, "idle")
    /\ Goto(c, "idle")
    /\ spoiled' = (spoiled \/ InSetup(c))
    /\ UNCHANGED <<files, server>>

\* The Postgres server or the merchant API ends on its own account.
ServerEnds ==
    /\ \/ running' = FALSE /\ UNCHANGED api
       \/ api' = FALSE /\ UNCHANGED running
    /\ UNCHANGED <<files, role, db, locals>>
-----------------------------------------------------------------------------
SetupStep(c) ==
    \/ CheckExtract(c) \/ Download(c) \/ DownloadFails(c) \/ Write(c) \/ Extract(c) \/ Open(c)
    \/ ExtractRaises(c) \/ ExtractEnds(c) \/ Remove(c) \/ RemoveRaises(c)
    \/ CheckInit(c) \/ MakeData(c) \/ Initdb(c) \/ InitdbMissing(c) \/ InitdbEnds(c)
    \/ InitdbFails(c)
ZipStep(c) ==
    \/ CheckZip(c) \/ GetZip(c) \/ GetZipFails(c) \/ WriteZip(c) \/ UnzipRaises(c) \/ Unzip(c)
    \/ UnzipEnds(c) \/ RemoveZip(c)
DbStep(c) ==
    \/ CheckRunning(c) \/ StartPostgres(c) \/ PgCtlMissing(c) \/ Prepare(c) \/ Drop(c)
    \/ CheckDb(c) \/ CreateDb(c) \/ DbFails(c)
RunStep(c) ==
    \/ StartReturns(c) \/ Spawn(c) \/ AddNode(c) \/ AddNodeGivesUp(c) \/ Kill(c) \/ StopCheck(c)
    \/ StopCheckAgain(c) \/ StopPostgres(c)
Step(c) == SetupStep(c) \/ ZipStep(c) \/ DbStep(c) \/ RunStep(c)

Next ==
    \/ \E c \in Cmds : (\E k \in Kinds : Begin(c, k)) \/ Step(c) \/ Crash(c)
    \/ ServerEnds

Spec == Init /\ [][Next]_vars
-----------------------------------------------------------------------------
(* Properties *)

Pcs == Setup \cup {"idle", "zip", "zipget", "zipwrite", "unzip", "unzipping", "zipremove",
                   "pgcheck", "pgstart", "prepare", "drop", "db", "create", "run", "addnode",
                   "kill", "stopcheck", "stopcheck2", "pgstop"}

\* Types, and what the server, the database and an extraction under way imply.
TypeOK ==
    /\ archive \in {"none", "partial", "full", "junk"}
    /\ extracted \in {"none", "partial", "full"}
    /\ data \in {"none", "empty", "partial", "full"}
    /\ zip \in {"none", "partial", "full", "junk"}
    /\ exe \in {"none", "partial", "full"}
    /\ running \in BOOLEAN /\ role \in BOOLEAN /\ db \in BOOLEAN /\ api \in BOOLEAN
    /\ pc \in [Cmds -> Pcs]
    /\ kind \in [Cmds -> Kinds]
    /\ alone \in [Cmds -> BOOLEAN]
    /\ spoiled \in BOOLEAN
    /\ running \/ role \/ db => data = "full"
    /\ \A c \in Cmds : At(c, "extracting") => extracted # "none"

\* The directories that stand for a finished extraction and a finished initdb
\* (check_extract_done, check_initdb_done) tell the truth between commands, also after a
\* download that was no archive, unless two commands were there at a time, one died there,
\* its download was cut short, or initdb failed.
MarkersTrue ==
    (~spoiled /\ \A c \in Cmds : ~InSetup(c)) =>
        extracted \in {"none", "full"} /\ data \in {"none", "full"}

BrokenTree == extracted = "partial" /\ \A c \in Cmds : pc[c] \notin {"open", "extracting"}
BrokenCluster ==
    /\ data \in {"empty", "partial"}
    /\ \A c \in Cmds : pc[c] \notin {"mkdata", "initdb", "initing"}
BrokenZip ==
    /\ zip \in {"partial", "junk"} /\ exe = "none"
    /\ \A c \in Cmds : pc[c] \notin {"zipget", "zipwrite", "unzipping", "zipremove"}

\* What is broken half way is not repaired by any command: the half extracted tree and the
\* unfinished cluster count as done, the download of the merchant API as downloaded.
BrokenStays ==
    [][/\ BrokenTree => BrokenTree'
       /\ BrokenCluster => BrokenCluster'
       /\ BrokenZip => BrokenZip']_vars

\* A cluster that is finished stays so whatever commands do at the same time: also one that has
\* found no PG_DATA before it was made goes on with makedirs and initdb, which spare it.
ClusterSurvives == [][data = "full" => data' = "full"]_vars

\* The database is dropped under a running merchant API only by install, which does not stop
\* it, or when commands run at the same time.
DropSparesApi ==
    [][\A c \in Cmds : (Drop(c) /\ api) => (kind[c] = "install" \/ ~alone[c])]_vars

\* What merchant_api.stop is for ("if asyncio.run(_postgres.check_running()): stop_postgres()",
\* and "stopping postgres port" in stop_postgres): when a stop that ran alone has gone through,
\* Postgres is down.  The code does not do this: stop_postgres asks the wrong way round.
StopEndsPostgres ==
    [][\A c \in Cmds :
         (/\ StopCheck(c) \/ StopCheckAgain(c) \/ StopPostgres(c)
          /\ kind[c] = "stop" /\ alone[c] /\ pc'[c] = "idle") => ~running']_vars
=============================================================================
