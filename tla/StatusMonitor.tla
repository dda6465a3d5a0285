--------------------------- MODULE StatusMonitor ---------------------------
(***************************************************************************)
(* The status monitor, builtin_components/status_monitor/server_app.py:    *)
(* a thread polls component_state.json and queues the entries whose        *)
(* last_updated has changed, a second thread takes them from the queue for *)
(* the connected websockets, and one handler per websocket sends the state *)
(* and then pings its client.  Other SDK processes rewrite the file        *)
(* meanwhile (ComponentStore): here an update reads and truncates in one   *)
(* step and writes in a second one.  No name of this module is one of      *)
(* ComponentStore, so that a module can extend both.                       *)
(***************************************************************************)
EXTENDS Integers, SequencesExt

CONSTANTS Keys,       \* component ids
          Writers,    \* processes that update component_state.json
          Clients,    \* websocket connections
          None,       \* no entry, no update
          Empty,      \* the file is empty
          NotJson,    \* the file is not JSON
          MaxTime,    \* bound: last second of the clock
          MaxUpdates  \* bound: updates of the file

ASSUME StatusMonitorAssumption ==
    /\ MaxTime \in Nat /\ MaxUpdates \in Nat
    /\ IsFiniteSet(Keys)
    /\ Empty # NotJson

VARIABLES now,        \* seconds: the resolution of last_updated
          updates,    \* updates so far
          stateFile,  \* component_state.json
          writer,     \* per writer: the document it is about to write
          previous,   \* previous_state
          notified,   \* history: last entry pushed (or known at the start) per id
          queueMade,  \* push_notification_queue exists
          queue,      \* its entries
          updater,    \* update_status_thread
          pusher,     \* push_notifications_thread
          websockets, \* the set of connections
          conn,       \* per connection: where its handler is
          gone,       \* connections whose client has left
          pongEvent,  \* pong_event, one for all connections
          answered    \* per connection: the client has answered the last ping

fileVars == <<now, updates, stateFile, writer>>
threadVars == <<previous, notified, queueMade, queue, updater, pusher>>
clientVars == <<websockets, conn, gone, pongEvent, answered>>
monitorVars == <<fileVars, threadVars, clientVars>>

Entries == [seq : 0..MaxUpdates, stamp : 0..MaxTime]   \* seq: which update
StateDocs == [Keys -> Entries \cup {None}]
NoEntries == [i \in Keys |-> None]
\* What a reader of the file gets, if it is not garbage.
Read == IF stateFile = Empty THEN NoEntries ELSE stateFile

MonitorInit ==
    /\ now = 0
    /\ updates = 0
    /\ stateFile \in {[i \in Keys |-> IF i \in S THEN [seq |-> 0, stamp |-> 0] ELSE None] :
                    S \in SUBSET Keys \ {{}}} \cup {Empty}
    /\ writer = [w \in Writers |-> None]
    /\ previous = Read
    /\ notified = previous
    /\ queueMade = FALSE
    /\ queue = <<>>
    /\ updater = "alive"
    /\ pusher = "new"
    /\ websockets = {}
    /\ conn = [c \in Clients |-> "new"]
    /\ gone = {}
    /\ pongEvent = FALSE
    /\ answered = [c \in Clients |-> TRUE]
-----------------------------------------------------------------------------
(* The other processes *)

Tick ==
    /\ now < MaxTime
    /\ now' = now + 1
    /\ UNCHANGED <<updates, stateFile, writer, threadVars, clientVars>>

BeginWrite(w, i) ==
    /\ writer[w] = None
    /\ updates < MaxUpdates
    /\ stateFile # NotJson
    /\ updates' = updates + 1
    /\ writer' = [writer EXCEPT ![w] =
                    [Read EXCEPT ![i] = [seq |-> updates + 1, stamp |-> now]]]
    /\ stateFile' = Empty
    /\ UNCHANGED <<now, threadVars, clientVars>>

\* Two writers that are in the file at a time may leave garbage.
EndWrite(w) ==
    /\ writer[w] # None
    /\ \/ stateFile' = writer[w]
       \/ /\ \E v \in Writers \ {w} : writer[v] # None
          /\ stateFile' = NotJson
    /\ writer' = [writer EXCEPT ![w] = None]
    /\ UNCHANGED <<now, updates, threadVars, clientVars>>

WriterDies(w) ==
    /\ writer[w] # None
    /\ writer' = [writer EXCEPT ![w] = None]
    /\ UNCHANGED <<now, updates, stateFile, threadVars, clientVars>>
-----------------------------------------------------------------------------
(* The two threads *)

\* The constructor starts the polling thread before it makes the queue.
MakeQueue ==
    /\ ~queueMade
    /\ queueMade' = TRUE
    /\ pusher' = "waiting"
    /\ UNCHANGED <<fileVars, previous, notified, queue, updater, clientVars>>

Changed == {i \in Keys : /\ Read[i] # None
                         /\ \/ previous[i] = None
                            \/ previous[i].stamp # Read[i].stamp}

Push(S) ==
    /\ queue' = queue \o SetToSeq({<<i, Read[i].seq>> : i \in S})
    /\ notified' = [i \in Keys |-> IF i \in S THEN Read[i] ELSE notified[i]]
    /\ previous' = Read
    /\ UNCHANGED <<fileVars, queueMade, updater, pusher, clientVars>>

Polls ==
    /\ updater = "alive"
    /\ stateFile \notin {Empty, NotJson}

\* Mutant of Scan: a later last_updated instead of another one.
ScanLater ==
    /\ Polls
    /\ Push({i \in Keys : /\ Read[i] # None
                          /\ \/ previous[i] = None
                             \/ previous[i].stamp < Read[i].stamp})

\* Mutant of Scan: the branch for a new id forgets to push.
ScanKnown ==
    /\ Polls
    /\ Push({i \in Changed : previous[i] # None})

\* Mutant of Scan: the thread does not wait for the queue.
ScanUnqueued == Polls /\ Push(Changed)

\* An empty file is skipped: previous_state stays.
Scan ==
    /\ Polls
    /\ queueMade \/ Changed = {}
    /\ Push(Changed)

\* Timeout of the lock, JSONDecodeError, or no queue yet: the thread ends.
UpdaterDies ==
    /\ updater = "alive"
    /\ updater' = "dead"
    /\ UNCHANGED <<fileVars, previous, notified, queueMade, queue, pusher, clientVars>>

Take ==
    /\ pusher = "waiting"
    /\ queue # <<>>
    /\ queue' = Tail(queue)
    /\ pusher' = IF websockets = {} THEN "waiting" ELSE "pushing"
    /\ UNCHANGED <<fileVars, previous, notified, queueMade, updater, clientVars>>

\* asyncio.get_running_loop() raises in a thread without a loop; if the last connection
\* has been removed since Take, the loop over the connections is empty.
Emit ==
    /\ pusher = "pushing"
    /\ pusher' = IF websockets = {} THEN "waiting" ELSE "dead"
    /\ UNCHANGED <<fileVars, previous, notified, queueMade, queue, updater, clientVars>>
-----------------------------------------------------------------------------
(* The connections *)

Connect(c) ==
    /\ queueMade
    /\ conn[c] = "new"
    /\ conn' = [conn EXCEPT ![c] = "listed"]
    /\ websockets' = websockets \cup {c}
    /\ UNCHANGED <<fileVars, threadVars, gone, pongEvent, answered>>

Snapshot(c) ==
    /\ conn[c] = "listed"
    /\ stateFile # NotJson
    /\ c \notin gone
    /\ conn' = [conn EXCEPT ![c] = "idle"]
    /\ UNCHANGED <<fileVars, threadVars, websockets, gone, pongEvent, answered>>

\* The lock, the file or the client fails: nothing removes the connection from the set.
SnapshotFails(c) ==
    /\ conn[c] = "listed"
    /\ conn' = [conn EXCEPT ![c] = "failed"]
    /\ UNCHANGED <<fileVars, threadVars, websockets, gone, pongEvent, answered>>

\* Mutant of Ping: each heartbeat clears the event it is going to wait for.
PingClears(c) ==
    /\ conn[c] = "idle"
    /\ c \notin gone
    /\ conn' = [conn EXCEPT ![c] = "pinged"]
    /\ answered' = [answered EXCEPT ![c] = FALSE]
    /\ pongEvent' = FALSE
    /\ UNCHANGED <<fileVars, threadVars, websockets, gone>>

Ping(c) ==
    /\ conn[c] = "idle"
    /\ c \notin gone
    /\ conn' = [conn EXCEPT ![c] = "pinged"]
    /\ answered' = [answered EXCEPT ![c] = FALSE]
    /\ UNCHANGED <<fileVars, threadVars, websockets, gone, pongEvent>>

\* The handler drops the connection: remove_websockets, then ConnectionResetError.
Drop(c) ==
    /\ websockets' = websockets \ {c}
    /\ conn' = [conn EXCEPT ![c] = "closed"]
    /\ UNCHANGED <<fileVars, threadVars, gone, pongEvent, answered>>

\* Mutant of PingFails: send_str on a closed connection is ignored.
PingIgnored(c) ==
    /\ conn[c] = "idle"
    /\ c \in gone
    /\ conn' = [conn EXCEPT ![c] = "pinged"]
    /\ UNCHANGED <<fileVars, threadVars, websockets, gone, pongEvent, answered>>

PingFails(c) ==
    /\ conn[c] = "idle"
    /\ c \in gone
    /\ Drop(c)

\* After WAIT_FOR seconds.
CheckPong(c) ==
    /\ conn[c] = "pinged"
    /\ pongEvent
    /\ conn' = [conn EXCEPT ![c] = "idle"]
    /\ UNCHANGED <<fileVars, threadVars, websockets, gone, pongEvent, answered>>

NoPong(c) ==
    /\ conn[c] = "pinged"
    /\ ~pongEvent
    /\ Drop(c)

\* A message of the client: 'pong', at any time after the ping.
Pong(c) ==
    /\ conn[c] \in {"idle", "pinged"}
    /\ c \notin gone
    /\ ~answered[c]
    /\ pongEvent' = TRUE
    /\ answered' = [answered EXCEPT ![c] = TRUE]
    /\ UNCHANGED <<fileVars, threadVars, websockets, conn, gone>>

\* The client sends 'close' or its connection breaks.
Leave(c) ==
    /\ conn[c] \in {"listed", "idle", "pinged"}
    /\ c \notin gone
    /\ gone' = gone \cup {c}
    /\ UNCHANGED <<fileVars, threadVars, websockets, conn, pongEvent, answered>>
-----------------------------------------------------------------------------
FileSteps ==
    \/ Tick
    \/ \E w \in Writers :
          EndWrite(w) \/ WriterDies(w) \/ \E i \in Keys : BeginWrite(w, i)
Threads == MakeQueue \/ Scan \/ UpdaterDies \/ Take \/ Emit
Serve(c) == Snapshot(c) \/ SnapshotFails(c) \/ Ping(c) \/ PingFails(c) \/ CheckPong(c) \/ NoPong(c)
Client(c) == Connect(c) \/ Pong(c) \/ Leave(c)

MonitorNext == FileSteps \/ Threads \/ \E c \in Clients : Serve(c) \/ Client(c)

MonitorSpec == MonitorInit /\ [][MonitorNext]_monitorVars

\* The threads and the event loop run; other processes and clients need not.
FairMonitorSpec ==
    /\ MonitorSpec
    /\ WF_monitorVars(MakeQueue) /\ WF_monitorVars(Scan)
    /\ WF_monitorVars(Take) /\ WF_monitorVars(Emit)
    /\ \A c \in Clients : WF_monitorVars(Serve(c))
-----------------------------------------------------------------------------
(* Properties *)

\* Types, and what the states of the two threads and of a handler imply.
MonitorTypeOK ==
    /\ now \in 0..MaxTime /\ updates \in 0..MaxUpdates
    /\ stateFile \in StateDocs \cup {Empty, NotJson}
    /\ writer \in [Writers -> StateDocs \cup {None}]
    /\ previous \in StateDocs /\ notified \in StateDocs
    /\ queue \in Seq(Keys \X (0..MaxUpdates))
    /\ queueMade \in BOOLEAN /\ pongEvent \in BOOLEAN
    /\ updater \in {"alive", "dead"}
    /\ pusher \in {"new", "waiting", "pushing", "dead"}
    /\ queueMade <=> pusher # "new"
    /\ queue # <<>> => queueMade
    /\ websockets \subseteq Clients /\ gone \subseteq Clients
    /\ conn \in [Clients -> {"new", "listed", "idle", "pinged", "failed", "closed"}]
    /\ answered \in [Clients -> BOOLEAN]

\* Whatever the processes write between two polls, in whatever order their stamps reach the
\* file, the last entry pushed of an id has the last_updated of the state the polling thread
\* compares with next (update_status_thread): no change of a stamp is skipped.
PreviousIsNotified ==
    \A i \in Keys : previous[i] # None =>
        notified[i] # None /\ notified[i].stamp = previous[i].stamp

\* The set of websockets holds the connections being served and those whose first send
\* failed; no handler removes a connection twice (KeyError in remove_websockets).
ListedIsServed ==
    \A c \in Clients : c \in websockets <=> conn[c] \in {"listed", "idle", "pinged", "failed"}

\* A connected client that answers its pings is never dropped, whatever the heartbeats of
\* the other clients do with the event they share (manual_heartbeat).
AnsweringStays ==
    [][\A c \in Clients : conn[c] = "pinged" /\ answered[c] => conn'[c] # "closed"]_monitorVars

Holds(i, s) == stateFile \in StateDocs /\ stateFile[i] # None /\ stateFile[i].stamp = s
Notified(i, s) == notified[i] # None /\ notified[i].stamp = s

\* A stamp that stays in the file is noticed as long as the polling thread lives.
StampIsNoticed ==
    \A i \in Keys : \A s \in 0..MaxTime :
        Holds(i, s) ~> (updater = "dead" \/ ~Holds(i, s) \/ Notified(i, s))

\* The heartbeat removes a client that has left, also one that left between two pings.
GoneIsRemoved ==
    \A c \in Clients : (c \in gone /\ conn[c] \in {"idle", "pinged"}) ~> c \notin websockets
=============================================================================
