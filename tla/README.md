# Verification of the ElectrumSV SDK

TLA+ models of the parts of `electrumsv-sdk` and `electrumsv-server` that several
processes, threads or requests work on at a time, TLC configurations that check them
on small instances, and TLAPS proofs for every value of the constants. Paths below are
relative to the repository; `sdk/` stands for `src/electrumsv_sdk/`, `server/` for
`src/electrumsv-server/electrumsv_server/`.

## 1. The system

`electrumsv-sdk start|stop|reset|node|status|install|config` is a command that runs once
and exits. There is no daemon: whatever commands need to know of each other goes through
files in the SDK's home directory, through the operating system's process table and
through the ports the components listen on.

| Component | State it keeps | Operations | Talks to |
|---|---|---|---|
| Component store, `sdk/components.py` | `component_state.json` and its lock file | `get_status`, `update_status_file`, creation in `__init__` | every command, every supervisor, the status monitor |
| Process lifecycle, `sdk/utils.py` 111-430, `sdk/controller.py`, `sdk/plugin_tools.py`, `sdk/scripts/` | the pid and state in the store; the process table | `spawn_inline`, `spawn_background`, `spawn_new_terminal`, `on_start`, `on_exit`, `stop`, `kill_by_pid` | the store, the operating system |
| Instance allocation, `sdk/plugin_tools.py` 77-175 | data directories, recorded ports | `get_component_datadir`, `get_component_port`, `port_is_in_use` | the file system, the processes that bind the ports |
| Node plugin, `sdk/builtin_components/node/` | the node's directory, the recorded rpc port | start, stop and reset by RPC | allocation, lifecycle |
| Status monitor, `sdk/builtin_components/status_monitor/server_app.py` | `previous_state`, a queue, the set of websockets | polling thread, push thread, websocket handlers with heartbeat | the store (reads), browsers |
| Invoice server, `server/` | an SQL database, the script counter, the connected pages | create, cancel and pay an invoice, tell the pages | merchant API, reference server, browsers |
| Merchant API with embedded Postgres, `sdk/builtin_components/merchant_api`, `_postgres`, `_common` | archives, the extracted tree, the cluster, the database | install, start, stop, reset | lifecycle, Postgres, the node |
| Wallet plugin, `sdk/builtin_components/electrumsv/` | wallet files per network in the data directory | start, offline commands, reset | allocation, ElectrumSV's own commands |
| Other plugins: electrumx, header, indexer, DPP proxy, explorer | installed files, databases, recorded ports | install, start, stop, reset | allocation, lifecycle, RPC |
| Configuration and first run, `sdk/config.py`, `sdk/app_state.py` | `config.json` in the default home; `encrypted.env` in the home that is set | read, write, first-run detection, the hand-over of the environment to a new terminal | every command |
| Command line, `sdk/argparsing.py`, `sdk/commands.py` | none | split the arguments among the parsers, check them; build them from a library call | controller |
| Web page, `src/electrumsv-server/wwwroot/index.html` | the form, the open invoice, fetches, a websocket | create, show and cancel an invoice, hear of its payment | the invoice server |
| Node RPC and block files, `sdk/utils.py` 436-533 | exported block files | RPC, export, import | the node |

What is hard about each, and what makes it correct:

- **Store.** Read-modify-write by many processes; the write is outside the lock; a process
  may be killed in it. Correct: no update is lost, a reader sees a state that existed,
  the file stays JSON, every call ends.
- **Lifecycle.** Supervisors, components, stop commands, Ctrl-C and the system's reuse of
  pids. Correct: an entry never hides a live process, a live component is reachable by
  `stop`, `stop` ends what it selected and nothing else, `stop` returns.
- **Allocation.** Test-then-act on directories and ports by commands that start at the same
  time. Correct: instances do not share an id or a port.
- **Status monitor.** Two threads and an event loop share state without locks, and poll a
  file that other processes rewrite. Correct: changes are noticed and pushed, the
  set of connections is that of the handlers, heartbeats drop only those who are gone.
- **Invoice server.** Handlers of one event loop interleave at each await; servers may
  refuse, fail or answer late; restarts. Correct: a paid invoice is backed by an accepted
  transaction, its payment is final, pages are told of durable facts only.
- **Postgres and merchant API.** Directories as markers of finished steps, an inverted test in
  `stop_postgres`, a thread whose failure nobody sees, commands that run at a time. Correct: a
  marker tells the truth, a finished cluster stays, the database is not dropped under its user.
- **Configuration.** A file that every command reads several times and some truncate and rewrite;
  an empty one counts as the first run, which wipes the node's data; one `encrypted.env` per home for
  all terminals. Correct: a command works in one home, the home that was set stays set,
  data is wiped on a first run only, a terminal gets the environment of its own start.
- **Command line.** A scan of its own before argparse, in which the place of an option decides
  whether it counts. Correct: a vector means what `docs/commands/start.rst` says, and
  the vectors built by the library mean what the call asked for.
- **Wallet plugin.** A wallet is looked for, deleted, created and given its account in steps,
  for two networks in one directory, with return codes nobody reads. Correct: `start` loses no
  wallet, a daemon finds one that it can use, `reset` leaves a new one.
- **Web page.** Answers in any order, lost notices, a page that is reused for the next invoice.
  Correct: what is shown is the invoice that was opened, once, and a paid one as paid.

`PROJECT.json` lists the hazards of this code at their lines, with the properties that
cover each, or why none does yet.

## 2. Modules

| Module | Models | Extends or composes |
|---|---|---|
| `StatusMap` | the promise of the store: an atomic map whose calls may fail without effect, until it is withdrawn | |
| `ComponentStore` | the store, step by step | implements `StatusMap` through `INSTANCE ... WITH` |
| `Lifecycle` | runs of components, supervisors, stop commands | takes the store as an atomic map |
| `Instances` | ids, directories, ports, stop by RPC | takes the store as an atomic map |
| `StatusMonitor` | the monitor, with the writers of the store around it | takes an update of the store as two steps |
| `InvoiceBook` | the promise of the server: a book of invoices, each with outputs of its own and paid in one step | |
| `InvoiceServer` | the invoice server | implements `InvoiceBook` through `INSTANCE ... WITH` |
| `MerchantApi` | install, start, stop and reset of the merchant API and its Postgres | takes spawn and kill of the process as one step each |
| `CommandLine` | the scan of the arguments, argparse's verdict, the library's vectors: pure operators | |
| `Home` | `config.json`, the first run, `encrypted.env` of several commands | extends `CommandLine`, whose result decides each command's course |
| `Wallet` | the wallets of the electrumsv plugin | takes allocation of ids as given |
| `InvoicePage` | the page, with the invoice server reduced to the states of invoices | |
| `StateFileProofs` | theorems on `ComponentStore` and `StatusMonitor`, who share the state file | both modules and `TLAPS` |
| other `*Proofs` | theorems on `Lifecycle`, `InvoiceServer`, `Instances`, `MerchantApi`, `Home`, `Wallet`, `InvoicePage` | the module and `TLAPS` |
| `MC*` | model values, definitions of constants, symmetry sets | the module and `TLC` |

Every model keeps the order in which the code tests, writes and returns; a step is what
nothing else can come between. Names are those of the source where TLA+ allows it;
`PROJECT.json` maps each definition to its lines. Definitions marked "Mutant of X" are no
part of a model: each is X with a plausible bug, there to show that a property can fail.
Variables marked "history" are not in the code; no guard of a code action reads them.

### ComponentStore

State: `file` (existence, length and what the text parses to), `lock`, and per process
the place in its call (`pc`), the call (`op`), the document it is about to write (`buf`)
and the outcome (`result`). `Open` and `Create` are `__init__` (the test and the creation
are two steps), `Acquire` and `LockTimeout` the `FileLock`, `ReadForQuery`,
`ReadForUpdate` and `ReadFails` the read under the lock, `Truncate` and `Flush` the write
outside it, `Crash` a kill at any point. Text is abstracted to its length and meaning:
two writers that are both past `open("w")` write from offset 0, so a shorter document over
a longer one leaves `Garbage` (`Overlay`).

The code does not keep its promise unconditionally. `degraded` marks the first
moment at which a call overlaps the window of an update, or a process dies with the
file truncated. Up to that moment the store implements `StatusMap`; `Content`, the
refinement mapping, is the file, or the buffer of the process that has truncated it. The
atomic effect of an update is its truncation, its acknowledgement is the flush.

### Lifecycle

State: the store's entries, what each pid denotes (`os`), per start command the phase of
its supervisor, its id, pid, component process and return code, and per stop command its
progress. One action per step of `spawn_inline` and `spawn_background`: `Start`,
`Launch`/`LaunchFails` (Popen), `ReportRunning` (`on_start`), `Reap` (`process.wait`),
`ReportExit` (`on_exit`); `SupervisorDies` and `CtrlC` are its deaths; `StopType`,
`StopId`, `ReadStore`, `Signal` (SIGINT), `Kill` (SIGKILL after the grace period),
`EndRound`, `StopReturns` are `Controller.stop`, `call_for_component_id_or_type` and
`kill_by_pid`. Pids are reused as soon as a process is reaped, by the SDK or by a program
that has nothing to do with it (`Foreign`). `shared` is the history of ids under which two
runs were alive at a time, which nothing in the code prevents.

### Instances

State: the existing directories, per start command its place, flags, candidate id and
port, the recorded ports, who listens on each port. `StartNew`, `StartId` and `StartNewId`
are the flags; `Count`, `CountEnds` and `MakeDir` are `get_component_datadir`; `TakePort`,
`NextPort` and `DefaultPortInUse` are `get_component_port`; `Spawn` writes the entry,
`Boot` and `BootFails` are the binding of the port by the process, `RpcStop` is stop and
reset of the node by the recorded port. `FixedPort` is the case of a plugin whose port comes
from the environment, which for the node is always; `NetstatSeen` is whether
`port_is_in_use` can parse `netstat` (its lines are split at `\r\n`).

### StatusMonitor

State: the file and what each writer is about to write to it; `previous_state`, the queue and
the two threads; the set of websockets, the place of each handler, the shared
`pong_event`. `MakeQueue` is the rest of the constructor after the polling thread has been
started; `Scan` and `UpdaterDies` are one round of `update_status_thread`, `Take` and `Emit`
one of `push_notifications_thread`; `Connect`, `Snapshot`, `Ping`, `CheckPong`, `NoPong`
and their failures are the handler and its heartbeat; `Pong` and `Leave` the client.
Entries carry a time stamp with the file's resolution of one second and a sequence number
that the code does not have.
Its names say whose they are (`MonitorSpec`, `MonitorTypeOK`), so that one module can extend both it and the
store.

### InvoiceServer

State: the invoices (state, `tx_hash`, outputs), the script counter, the handlers of
`submit_invoice_payment` with the await they are in, the pages, the transactions the
merchant API has accepted. One step runs from one await to the next: `SubmitFirst` (and
the refusals beside it) reads and checks the invoice; `KeyArrives` and `ChannelArrives`,
`BroadcastAccepted`, `BroadcastRejected`, `AnswerLost` and `CallFails` are the answers of the
servers; `Settle` is the unconditional UPDATE; `NotifyOne`, `NotifyRaises`, `Acknowledge`
are the loop over the pages, during which pages come and go. `Restart` keeps the database
only. The merchant API and the reference server are external: they answer, refuse or fail.

`InvoiceBook` is what a payee may rely on, without handlers, awaits, pages or scripts: an invoice is
opened with outputs that no other has, closed, contested while it is unpaid, and paid in one step by an
accepted transaction that has every output of it. What it lets happen is what the code does: a closed
invoice may still be paid, a contested one may change its payment, and after a restart, which starts
the scripts anew, outputs may be shared.

### MerchantApi

Portable mode (`SDK_PORTABLE_MODE=1`), components started in the background, one instance of
the merchant API. State: the archive, the extracted tree and the cluster of Postgres, the
archive and the executable of the merchant API, each absent, begun, finished or (a download)
not what it should be; whether the server runs, the role and the database exist, the merchant API
runs; per command its place. Every command begins with `Plugin.__init__`: `CheckExtract`,
`Download`, `Write`, `Extract`, `Open`, `ExtractEnds`, `Remove` and what each may raise,
`CheckInit`, `MakeData`, `Initdb` and its end or failure. `CheckZip` to `RemoveZip` are
`download_and_install`, `CheckRunning` and `StartPostgres` `start_postgres`, `Prepare`, `Drop`,
`CheckDb`, `CreateDb` the database scripts, `Spawn`, `AddNode`, `AddNodeGivesUp` the end of
`start`, `Kill` to `StopPostgres` `stop`; `Body` and `AfterStop` are the order in which the four
commands go through these. `Crash` kills a command at any point, `ServerEnds` ends a server.
`pg_ctl`, `initdb` and `tar` are modelled by their effect: `initdb` refuses a directory that is
not empty and clears it when it fails, `pg_ctl` starts a finished cluster only. Return codes are
not read, as in the code. `alone` and `spoiled` are histories.

### CommandLine and Home

`CommandLine` has the code's pass over `sys.argv` (`Scan`, a recursive function that applies `ScanArg`
to one argument after another), what argparse accepts (`Accepts`), the resulting `CLIInputs` (`Inputs`), and the vectors that
`commands.py` builds (`LibraryArgv`). An argument is a record of form, name and value; the components
and the flags their plugins add are constants. `Means` says independently, by quantifiers
over positions, what the documentation promises; `ParsesAsDocumented` and `LibraryRoundTrip`
compare the two over the constants `Vectors` and `Requests`: a finite choice of them for TLC, any
vectors and calls in the proofs. The only thing assumed of plugins is what argparse enforces: a
flag that a plugin adds is not already an option of that command.

`Home` is every command as the sequence of points at which it constructs `Config` (`After`: the
parser's component store, `config`'s update, `AppState`, the controller, the first-run test, the
plugin, the spawned terminal), each of which reads `config.json` anew. `Look` and its variants are
`read_config_json`; `MakeDir`, `Create`, `Fill` its creation of the file; `Open` and `Flush` the
truncating write; `FirstRun` the test of `handle_first_ever_run`. Texts are records of kind, home
and length: two writers that are both past `open("w")` overlay each other as in the store.
`WriteEnv`, `SealEnv`, `ReadEnv`, `RemoveEnv` are the environment file: plain, encrypted over
itself at offset 0, decrypted with the key of one start, removed. Initial states are a machine where
the SDK was never used, one with the `portable` setting of an old release, and one with a
home that was set. `disturbed` (two were at `config.json` at a time), `cutOff` (a write of it was
killed), `alone`, `touched`, `homes` and `configured` are histories.

### Wallet

State: per id and network the `worker1.sqlite` (missing or there, its accounts, the seed of the
first), other wallet files of the regtest directory, the ids in the component store, the offline commands under way,
and per command its place. `Look`, `Check`, `Again` are the three calls of
`wallet_db_exists` in `Plugin.start`; `Delete`, `Remove`, `IsGone`, `Removed` are
`delete_wallet`, file by file; `CreateWallet` and `CreateAccount` are ElectrumSV's commands, each of
which may fail without anybody noticing; `Offline`, `Wait`, `JobEnds` are an offline command
(`create_wallet` or `create_account` after the component), which `start` spawns and does not wait for
unless it is inline, and spawns once more at its end. `NextInstance` is the loop of `reset`.
`Crash` kills a command at any step; ElectrumSV's `create_wallet`, for which it waited, may go on
without it (`Orphan`). `alone` and `spoiled` are histories.

### InvoicePage

State: the server's invoices and its loops over the pages that are under way (`notices`), the
websocket and what was sent on it (`inbox`), the fetches in progress with
their answers, the visible page, the form, the data and items of the payment page. One action per event
handler of the page (`AddInvoice` to `CancelInvoice`, `Created`, `Displayed`, `Cancelled`,
`InvoicePaid`, `SocketCloses`, `Reconnect`), per step of the server (`ServeCreate`, `ServeDisplay`,
`ServeCancel`; `Pay` is the UPDATE, `Notify` and `NotifyEnds` are the loop after it, which reaches this
page or ends before it), and `CallFails` for a fetch that fails, which no handler catches. The server
notifies under the id as the payer spelled it (with or without dashes), and the page
compares that with the one in its data. Display requests are numbered and what came between
(`overlap`, `crossed`, `repaint`, `failure`) is recorded, as histories.

## 3. Runs

| Run | Question | Instance |
|---|---|---|
| `store` | Does the file follow the updates, is the store the atomic map until a call overlaps an update, does every call end? | 2 processes, 2 ids, one value per entry |
| `life_safety` | Do final states tell the truth, are live components findable, does `stop` reach what it selected, and end nothing else but processes that inherited a pid of it? | 2 ids, 2 runs, 2 pids, 1 stop command, foreign processes |
| `life_live` | Is a stale "Running" corrected unless its supervisor died? | 1 id, 2 runs, 1 pid, 1 stop command |
| `invoice` | Are paid invoices backed by accepted transactions, is a payment final unless two raced, is the server the atomic book, are open pages told before the payer is, is every payment answered? | 1 invoice of 1 output, 2 handlers, 3 transactions, one of which does not match, 2 pages |
| `merchant` | What do the marker directories promise, is a finished cluster safe, when is the database taken from under the merchant API? | 2 commands of any kind, one after another without end |
| `monitor` | Are changes pushed and noticed, are answering clients kept and gone ones removed? | 1 id, 2 writers, 2 updates, 2 clients, 2 seconds |
| `instances` | Do instances share an id or a port only by a race? | 3 start commands, 3 ids, 4 ports |
| `home` | Does the home that was set stay set, is a command in one home, when is the node wiped, when is a terminal's environment lost, and does every command line mean what is documented? | 2 commands at a time, 3 in all, 1 of them killed, 2 homes; all vectors of 3 arguments after the command, 10 kinds of argument |
| `page` | Does the page show the invoice that was opened, its items once, and a payment? | 2 invoices, 1 of them older than the page, 2 fetches at a time, 3 openings |
| `wallet` | Which wallets are deleted, what does a daemon find, what does a reset leave? | 2 commands at a time, 4 in all, of 8 command lines; 2 ids, 2 networks |
| `instances_node_stop` | Does `stop --id=node2` stop node2? No: all nodes are given one port. | 2 start commands |
| `stop_postgres` | Does a stop of the merchant API that runs alone take Postgres down? No: `stop_postgres` asks the wrong way round. | 1 command after another |

The last two show a disagreement between the code and a line of the repository,
quoted in `PROJECT.json` under "findings". Types are proved for every component and are part
of two runs, `life_safety` and `monitor`, whose states are the most intricate.

**Bounds.** Every race found here is between two actors: two processes in the store, two
handlers of an invoice, two starts of an id, a writer and a reader. Two of each kind give
every order of them. A third start command lets an allocation race with two that are at
different stages, which the counting loop needs. Two ids are what it takes to hit the wrong
one. `MaxUpdates` = 2 and `MaxTime` = 1 give equal, rising and falling stamps. One pid makes
its reuse certain, two allow reuse while another run is alive. `MaxScripts` bounds the
scripts derived in one life of the server; a restart begins again at 0. The handlers of two invoices meet
in the scripts and outputs only; for any number of invoices there are the theorems. Two commands at a
time and a third after them make the second meet what a first has left behind, and
a fourth, for the wallets, has a reset between two starts. Three openings let an answer be
overtaken by the next but one. The properties proved in section 4 hold for every value of these.

**Fairness.** Stated in four modules, always weak: a process that is alive goes on with what it is
doing, which is the next step of a call of the store (`EveryCallEnds`), of a supervisor
(`StaleIsCorrected`), of a handler of an event loop (`EveryPaymentAnswered`), of the monitor's
threads and heartbeats (`StampIsNoticed`, `GoneIsRemoved`). The code bounds every wait these
depend on: 5 s for the lock, the 5 minute total timeout of aiohttp, `WAIT_FOR` seconds for
a pong. No fairness is assumed of users, of clients, of the clock, of commands, of writers of the
file, of components, which may run for ever, and supervisors may die at any step.
`Scan` is weakly fair: the file is not empty or garbage for ever unless its
writer died. No strong fairness is used: the lock may be taken by others again and
again, and `LockTimeout` is what ends the wait.

Deadlock is checked in the runs of the store, the lifecycle, the invoice server and the merchant
API. In `Instances`, `StatusMonitor`, `Home`, `Wallet` and `InvoicePage` start commands, clients,
updates, command lines or openings are used up and the system may come to rest.

## 4. Proofs

TLAPS proves the following for every value of the constants that satisfies the named
assumptions of each module.

- **StateFileProofs**, of `ComponentStore`: `TypeCorrect`, `HistoryKept`, `GarbageOnlyFromOverlap`,
  `CorruptionStays` and `Refinement`, for any number of processes. The inductive
  invariant adds to the types: a process reads only while it holds the lock (`LockInv`),
  text of length 0 means no entry (`FileInv`), and, until degraded, there is one process
  at most in the window of an update, and its buffer is the last updates with its own entry
  set (`WindowInv`). `WindowInv` is what the history property lacks to be inductive: it
  says what the file will be, not only what it is. The refinement is proved action by action:
  truncation to `Update`, flush to `Acknowledge`, the end of a query to `Query`, a timeout or
  a crash to `Fail`, the first overlap to `Anything`, the rest to stuttering.
- **StateFileProofs**, of `StatusMonitor`: `MonitorTypes`, `NothingSkipped`, `ListedServed`,
  `AnsweringIsKept`, for any number of writers, ids and clients. `PollInv` carries the types of what
  the polling thread reads; `QueueInv` those of what it has queued, which are finite sets of
  notifications laid out by `SetToSeq`: a choice among bijections, and finiteness is why there is
  one. `ConnInv` adds that the shared event is set once a client has answered, which is why
  no heartbeat drops one that does.
- **InvoiceServerProofs.** `TypeCorrect`, `Backed`, `Told`, `PaymentFinal`, `OutputOnce`,
  `AckAnnounced`, for any number of invoices, handlers, transactions and pages. `HandlerInv` carries what was
  checked across the awaits: the handler's invoice exists and its transaction pays its outputs,
  of which there are some,
  which no other handler can change. `RaceInv` says that an unraced invoice has one
  handler, and no payment until that one settles. `ScriptInv` says that scripts in use
  are below the counter, in one life of the server. `SentInv` follows the pages that were open at the
  UPDATE through the loop that tells them: each has been told, is still ahead, or has failed the
  handler, so that who is acknowledged knows of all. `Refinement`: the server implements `InvoiceBook`.
  `BookOpen` needs `ScriptInv` (new outputs are nobody's), `BookPay` needs `HandlerInv` (the check still
  holds at the UPDATE) and `RaceInv` (an invoice that is not contested is still unpaid).
- **InstancesProofs.** `TypeCorrect`, `NewUniqueUnlessRaced`, and `PortClashNeedsRace` for a
  plugin without a port from its environment where `netstat` can be read, for any number
  of start commands. `Overlap` says that any two commands that allocate at a time are recorded
  as a race; `Doubled` and `Contended` are the states between the test and the act, at the
  directory and at the port; `DirsKept` makes the test meaningful: a directory once made stays.
- **MerchantApiProofs.** `TypeCorrect`, `ClusterKept`, `MarkersHold`, `NothingRepairs`,
  `DropSpares`, for any number of commands. `OneInitdb`
  (a running `initdb` has marked its directory by filling it, so there is no second) carries the
  types and `ClusterSurvives`. `Stage` says for each step of `download_and_init_postgres` what
  a command finds that is alone there and to whom nothing has happened; `MarkersTrue` alone is
  not inductive, since it is silent about commands under way. `Solitude` and `Routes` say
  what a command that runs alone has done before it drops the database. `BrokenStays` needs the types only: no step of any command leaves such a state.

- **LifecycleProofs.** `TypeCorrect`, `FinalTrue`, `Findable`, `StopReaches`, `StopInScope`, for
  any number of ids, runs, pids and stop commands. `PidsHeld` is the heart: a pid denotes a run from
  the start of its component to its reaping, so that an entry of a run that is not reaped
  cannot be taken for anything else. `PhaseFits` ties the place of a supervisor to its
  component, `StoreWritten` and `SnapsWritten` say that what is in the store, and what a
  stop command has read, was written for a run and stays true of it, `SharedSeen` that two
  busy runs of an id are known as shared. For `StopReaches`, `AimAhead` says that a live component of
  the selection is still before the command: in a round to come, or about to be signalled
  or killed under its own pid.
- **WalletProofs.** `TypeCorrect`, `AccountlessSpoiled`, `StartSpares`, `Ready`, `Renewal`, for
  any slots, ids, command lines and number of commands. `Undisturbed` says that a command that has
  been alone since it was entered is the only active one, with no offline command under way; so what
  it saw still holds, and `Courses` says what that is at each step of a start (`StartCourse`, `Made`,
  `LaunchCourse`) and of a reset (`ResetCourse`). `Sparing` is the same for a start with an offline
  command, which is not the only one that acts: between its look and its deletions its own
  `create_wallet` may make a wallet, and nothing but that is there to be deleted.
- **InvoicePageProofs.** `TypeCorrect`, `Shown`, `ItemsOnce`, `PaidShown`, for any invoices,
  fetches and number of openings. `Numbered` gives each display request a number of its own;
  `LastAsked` follows the last one to its end (under way, shown, crossed or lost); `ItemsFit`
  counts the items while nothing came between; `PaidKnown` says for every paid invoice that is not missed
  that the server's loop is under way, a notice is on its way or no outdated answer is, and the page, if it has that invoice, shows it
  paid. Every step is shown to be calm or to start, answer, show or lose one display request
  (`StepCases`), so that each of these has five cases only.
- **HomeProofs.** `TypeCorrect`, `Kept`, `ResetByEmptied`, `StaysHome`, `LostByClash`, for any number of commands, command lines and homes, and any lengths of their names.
  `PlaceInv` says which steps a place has; every step is shown to move one command to a step that
  fits (`StepMoves`). `WriteInv` is what `HomeKept` lacks: until an access is disturbed there is one
  writer, the file is where that writer left it, and the text it is about to write (`Held`) names
  the home that will be set; `HomeKept` itself is silent while a write is under way. `AloneInv` says
  that a command which has been alone is the only active one and that what it has found so far is
  where the file leads now, in the middle of its own writes too (`Course`); so it survives
  the rewrite of the old portable setting and the creation of the file. `EnvInv` gives every start
  that nobody has touched the `encrypted.env` it wrote.
- **HomeProofs**, of `CommandLine`: `MeansAsDocumented` and `CallsRoundTrip`, for vectors of any length,
  any components, any flags added by plugins and any arguments of a call. The scan is a
  recursive function, and the induction over its length is done with the least number principle
  (`LeastNumber`, from the library's theorem that `<` on the naturals is well-founded; `UpTo`,
  `Greatest`). `Passed` is what is kept from argument to argument: the options so far are those that
  stand before the component, in their order (`Picks`), and the rest is what stands after it. From
  it follows that the last option of a name in the scan's list is the last one in the vector
  (`ValueAtLast`), and so what the vector means (`VectorMeaning`). For a library call, `Layout` says
  where the parts of a concatenation stand and `LibraryParts` what `LibraryArgv` puts into
  each, so that the call is read off `VectorMeaning`.

Some theorems have no run of their own beside them, since what they say is assumed by
others and seldom interesting on an instance: the types, except in `Lifecycle` and
for the monitor, and `GarbageOnlyFromOverlap`, `CorruptionStays`, `Told`, `OutputOnce`, `NothingRepairs`, `ListedServed`.

Only model-checked: what needs fairness (`EveryCallEnds`, `StaleIsCorrected`,
`EveryPaymentAnswered`, `StampIsNoticed`, `GoneIsRemoved`), since TLAPS has no proof rules for
`ENABLED` that could be used here. Every safety invariant and every action property of a
passing run is a theorem. Induction over data needed care: the library's induction theorems take
an operator as a parameter, which the provers cannot instantiate, while the theorem
that every non-empty set of naturals has a least element does not.

## 5. What the models show of the code

Beside the findings, seen while modelling and visible in the models, and stated as the
exceptions of the properties that hold:

- The store is called "multiprocess safe" (`sdk/components.py:133`), but `__init__` creates the
  file outside the lock (143), emptying what another process wrote meanwhile, and an update releases
  the lock after its read (196) and writes outside it (200-202): updates are lost (`degraded`).
- An invoice that is being paid twice at a time takes both payments: `application.py` reads `tx_hash`,
  awaits three times and updates the row unconditionally (447), though a second payment in
  sequence is refused as "Invoice already paid with different payment" (456).
- The push thread of the monitor calls `asyncio.get_running_loop()` in a thread without a loop
  (`server_app.py:126`), which raises at the first notification with a client connected, where the
  docstring (114) promises to notify all.

- A reader between truncation and flush takes the file for an empty one (`degraded`).
- An entry stays "Running" for ever when the supervisor dies before the component
  (`StaleIsCorrected`, exception "dead"), also by Ctrl-C of an inline run.
- A component killed by the user with SIGINT or SIGKILL is recorded as "Stopped".
- Entries in a final state keep their pid and `stop` signals it whatever it denotes by now, although
  `sdk/plugin_tools.py:72` speaks of running components (`StopHitsScope`, exception `Inherits`).
- When an id is started twice, the first run is no longer reachable by `stop` (`shared`).
- A component that cannot be launched leaves no entry at all; `sdk/components.py:6` lists immediate failure
  among what the store is there to tell.
- Two `--new` starts may share a directory and two starts a port, if they allocate at a time.
- Elsewhere than on Windows `port_is_in_use` sees no port at all.
- A second update in one second is not noticed by the monitor; a failed read or a change
  before the queue exists ends its polling thread; one client's pong answers for all.
- A page whose first send failed stays in the set of websockets.
- A payer who repeats the settling transaction gets an exception, since
  `peer_channel_json` is unassigned on that path (`SubmitAgain`).
- A restart between broadcast and UPDATE leaves an accepted payment unrecorded.
- After a restart the same scripts are derived again (`restarted`).
- A page that fails during the notification ends it for all others (`NotifyRaises`).
- The hash of the Postgres archive is compared in the wrong case, so that any download passes.
- A failed `initdb`, a cut-short download or a kill leaves a directory that counts as finished; only
  deleting it by hand helps (`BrokenStays`). A bad download of the merchant API blocks it
  likewise, since only a successful extraction removes it.
- `stop_postgres` acts only if Postgres does not run: `stop` leaves it running (run `stop_postgres`), and
  may end it when another command starts it at that moment.
- `install` drops the database of a merchant API that runs (`DropSparesApi`, exception "install").
- The thread that registers the node raises where nobody looks: `start` ends as if it had succeeded.

- `config.json` is truncated before it is written: a command that reads it then works in the default home
  (`OneHome`), writes its own view back (`HomeKept`), or takes the moment for the first run and
  wipes the node's data (`ResetNeedsEmptied`).
- No overlap is needed for that: `config` killed between `open("w")` and the close (`sdk/config.py:226`)
  leaves an empty file, and the next command, entirely alone, takes it for the first run and wipes
  the node's data (`ResetNeedsEmptied`, exception `cutOff`). The same kill loses the home that was set.
- A `config.json` that is not JSON, and a directory without the file, which a first run leaves that
  is killed between the two (`sdk/config.py:218-219`), make every later command raise; nothing mends them.
- Two new terminals of one home share `encrypted.env`: the second start overwrites what the first
  terminal has yet to read, and the terminal ends with an exception (`LostOnlyByClash`).
- Options after the component are ignored without a word: `stop node --id=node2` stops every node.
- `start electrumsv create_wallet` spawns its offline command, does not wait for it, finds no wallet and
  deletes the `worker1.sqlite` that the offline command has made meanwhile, though nothing else runs
  (`StartSparesWorker`, exception `OwnWallet`).
- The first `start --testnet` of an instance finds no testnet wallet and deletes all of its *regtest* wallets
  (`StartSparesWorker`, exception "testnet"); `delete_wallet` removes every file of the
  directory, where the note in `docs/commands/reset.rst:43` speaks of `worker1.sqlite` only; so does
  `reset`, of which `ResetRenews` therefore demands neither.
- `reset` uses the network of the environment: on testnet it deletes the regtest files and adds a
  second account to the old testnet wallet (`ResetRenews` is about regtest).
- `reset --deterministic-seed` has no effect, since `hasattr` looks at an object that never has the
  attribute (`electrumsv.py:166`), though the option (35-36), the error text at 125-127 and `azure-pipelines.yml:323` rely on it:
  the seed is random (`ResetRenews` speaks of a reset without the option only);
  `start --id=X --deterministic-seed` raises a KeyError (`sdk/utils.py:543`) when the wallet
  is missing; `start` without any component, meant to start all, builds inputs without flags
  (`Controller.start`) and raises a KeyError at the first plugin that reads a network flag.
- An offline command runs twice. A wallet that was left without an account is never repaired by
  `start` (`AccountlessIsSpoiled`).
- The page's inputs are disabled by the first submission and never enabled again (`index.html:616`),
  though "Add invoice" (461-464) and `reset` (542-569) offer the form for the next invoice: that needs
  a reload. Its button is unguarded, so that one form may create several invoices.
- A page is not told of a payment when the send to another page fails first: the loop ends for all
  that are still to come (`application.py:138-142`; `PaidIsShown`, exception `missed`).
- The notice of a payment paints the items a second time (`ItemsShownOnce`), is compared
  with the dashed id although it carries the payer's spelling, and may be undone by an older answer
  (`PaidIsShown`).

## 6. Not modelled

- Pure I/O and presentation: the installers, contrib scripts, logging, static pages, listing and
  export of invoices, environment variables of the plugins, the search for plugins and their import,
  the check of reserved ports, `validate_cli_args.py`, which only refuses.
- `electrumx`: its start is that of `Instances` and `Lifecycle`; `stop` is one call, to rpc port 8000
  whatever the instance, and `reset` one deletion of the data directory, of a running server too. Neither
  has steps between which something could happen.
- The other plugins (header client, indexer, DPP proxy, reference server, explorer) differ
  in commands and environment variables; their lifecycle is that of `Lifecycle`.
- RPC and block files (`sdk/utils.py` 436-533): sequential calls of one process.
- `status_monitor/example_client`: its answers are `Pong`.
- Of Postgres, the mode without `SDK_PORTABLE_MODE`, and `_postgres.reset`, which no command calls.
- Of the configuration, `SDK_PORTABLE_MODE=1`, which searches directories upwards; Windows'
  refusal to remove an open file; the first of the two `Config()` of `run_inline.py` and one more
  read by the library's wrappers. Of the command line, `--help`, `--version`, argparse's
  abbreviations and `--opt value` in two words.
- Coarser than the code: `encrypted.env` is one file per home in `Home` and one per home and component in
  the code (`sdk/utils.py:393`), so starts of different components clash in the model only; the
  later reads of the configuration by the `node` command and of `print_json` are left out
  (`After`); `Lifecycle`'s `Kill` ends one process where `kill_process` walks its tree
  (`sdk/utils.py:117-194`); a killed command's `create_account`, unlike its `create_wallet`, ends with it in
  `Wallet` (`local_tools.py:187`).
- Refusals that change nothing: `get_status` with both a type and an id, a ValueError after the
  read (`sdk/components.py:162-164`), and the 415, 406 and 400 answers to a payment before the invoice is
  read (`application.py`).
- Of the wallet plugin, fetching the source and its packages.
- Of the page, the table of invoices and the list of recent ones, the countdown, the QR code.
- The JavaScript under `src/electrumsv-server/wwwroot/lib` (jQuery, Bootstrap, qrcode.js) is other
  projects' code, vendored; `wwwroot/js/bip270.js` is two data classes that nothing on the page uses.
  The program's own code is Python and the script inside `index.html`, and that is what is modelled.

## 7. Order of work

The store was modelled first, since every other component depends on it, with its abstract
specification; then the lifecycle and allocation, the invoice server and the monitor, the merchant
API, and last the files around the commands: configuration, command line, wallets, and the page.
Each was proved about once its run passed. What could follow:

1. A composition of `Lifecycle` with the steps of `ComponentStore`, so that a torn or lost
   entry meets the stop path. The states of both together are beyond an instance of two of each.
2. A composition of `InvoicePage` with `InvoiceServer`; the page's server is a reduction of it now.
3. Export and import of blocks with failing calls, if they are ever run concurrently.
