----------------------------- MODULE Instances -----------------------------
(***************************************************************************)
(* Several instances of one component type: how concurrent start commands  *)
(* allocate a data directory, an id and a port (plugin_tools.py), bind the *)
(* port, and how stop and reset reach an instance by the rpc port in its   *)
(* entry (builtin_components/node/node.py).  Id n stands for               *)
(* "<component_name>n", port k for DEFAULT_PORT + 10 * k.  component_state *)
(* .json is taken to be the atomic map of StatusMap.                       *)
(***************************************************************************)
EXTENDS Integers, FiniteSets

CONSTANTS Starts,        \* start commands; each is used once
          MaxId,         \* bound: ids and ports
          FixedPort,     \* the plugin has a port from its environment (node: always)
          NetstatSeen,   \* port_is_in_use can parse netstat (Windows)
          None

Ids == 1..MaxId
Ports == 0..MaxId
Default == 1

ASSUME InstancesAssumption ==
    /\ MaxId \in Nat \ {0}
    /\ FixedPort \in BOOLEAN /\ NetstatSeen \in BOOLEAN
    /\ None \notin Starts /\ None \notin 0..MaxId
    /\ Cardinality(Starts) <= MaxId   \* there is always a free id and a free port

VARIABLES dirs,     \* ids whose data directory exists
          pc,       \* per start command: where it is
          isNew,    \* per start command: --new without --id
          id,       \* per start command: candidate, then allocated id
          port,     \* per start command: candidate, then allocated port
          entry,    \* component_state.json: the rpcport of each id
          listen,   \* which start command's process listens on a port
          raced,    \* history: pairs of start commands that allocated at a time
          victims   \* history: <<i, s>>: a stop of id i ended the process of s

vars == <<dirs, pc, isNew, id, port, entry, listen, raced, victims>>

Allocating == {s \in Starts : pc[s] \in {"count", "mkdir", "port", "spawn", "boot"}}

Init ==
    /\ dirs = {}
    /\ pc = [s \in Starts |-> "new"]
    /\ isNew = [s \in Starts |-> FALSE]
    /\ id = [s \in Starts |-> None]
    /\ port = [s \in Starts |-> None]
    /\ entry = [i \in Ids |-> None]
    /\ listen = [p \in Ports |-> None]
    /\ raced = {}
    /\ victims = {}

Go(s, where) == pc' = [pc EXCEPT ![s] = where]
-----------------------------------------------------------------------------
(* get_component_datadir *)

Begins(s, new, i) ==
    /\ pc[s] = "new"
    /\ isNew' = [isNew EXCEPT ![s] = new]
    /\ id' = [id EXCEPT ![s] = i]
    /\ raced' = raced \cup {{s, t} : t \in Allocating}
    /\ UNCHANGED <<dirs, port, entry, listen, victims>>

\* --new: count from 1.
StartNew(s) == Begins(s, TRUE, Default) /\ Go(s, "count")

\* --id, or neither flag: the default id.
StartId(s, i) == Begins(s, FALSE, i) /\ Go(s, "mkdir")

\* --new --id: sys.exit(1) if the directory exists.
StartNewId(s, i) ==
    /\ Begins(s, FALSE, i)
    /\ Go(s, IF i \in dirs THEN "exited" ELSE "mkdir")

Count(s) ==
    /\ pc[s] = "count"
    /\ id[s] \in dirs
    /\ id[s] < MaxId
    /\ id' = [id EXCEPT ![s] = @ + 1]
    /\ UNCHANGED <<dirs, pc, isNew, port, entry, listen, raced, victims>>

\* Mutant of CountEnds: the loop ends at a directory that exists.
CountEndsEarly(s) ==
    /\ pc[s] = "count"
    /\ Go(s, "mkdir")
    /\ UNCHANGED <<dirs, isNew, id, port, entry, listen, raced, victims>>

CountEnds(s) ==
    /\ pc[s] = "count"
    /\ id[s] \notin dirs
    /\ Go(s, "mkdir")
    /\ UNCHANGED <<dirs, isNew, id, port, entry, listen, raced, victims>>

\* os.makedirs(exist_ok=True): the directory may have come since the check.
MakeDir(s) ==
    /\ pc[s] = "mkdir"
    /\ dirs' = dirs \cup {id[s]}
    /\ port' = [port EXCEPT ![s] = IF FixedPort \/ id[s] = Default THEN 0 ELSE 1]
    /\ Go(s, IF FixedPort THEN "spawn" ELSE "port")
    /\ UNCHANGED <<isNew, id, entry, listen, raced, victims>>
-----------------------------------------------------------------------------
(* get_component_port *)

\* port_is_in_use: where netstat's lines are split at '\r\n' only, no port is.
InUse(p) == NetstatSeen /\ listen[p] # None

\* Mutant of TakePort: only the default id asks whether the port is in use.
TakeAnyPort(s) ==
    /\ pc[s] = "port"
    /\ id[s] = Default => ~InUse(port[s])
    /\ Go(s, "spawn")
    /\ UNCHANGED <<dirs, isNew, id, port, entry, listen, raced, victims>>

TakePort(s) ==
    /\ pc[s] = "port"
    /\ ~InUse(port[s])
    /\ Go(s, "spawn")
    /\ UNCHANGED <<dirs, isNew, id, port, entry, listen, raced, victims>>

\* assert not port_is_in_use(default_component_port)
DefaultPortInUse(s) ==
    /\ pc[s] = "port"
    /\ InUse(port[s])
    /\ id[s] = Default
    /\ Go(s, "exited")
    /\ UNCHANGED <<dirs, isNew, id, port, entry, listen, raced, victims>>

NextPort(s) ==
    /\ pc[s] = "port"
    /\ InUse(port[s])
    /\ id[s] # Default
    /\ port[s] < MaxId
    /\ port' = [port EXCEPT ![s] = @ + 1]
    /\ UNCHANGED <<dirs, pc, isNew, id, entry, listen, raced, victims>>
-----------------------------------------------------------------------------
(* spawn_process and the process *)

Spawn(s) ==
    /\ pc[s] = "spawn"
    /\ entry' = [entry EXCEPT ![id[s]] = port[s]]
    /\ Go(s, "boot")
    /\ UNCHANGED <<dirs, isNew, id, port, listen, raced, victims>>

\* The process holds its data directory and its port while it runs.
DirInUse(s) == \E t \in Starts \ {s} : pc[t] = "up" /\ id[t] = id[s]

Boot(s) ==
    /\ pc[s] = "boot"
    /\ listen[port[s]] = None
    /\ ~DirInUse(s)
    /\ listen' = [listen EXCEPT ![port[s]] = s]
    /\ Go(s, "up")
    /\ UNCHANGED <<dirs, isNew, id, port, entry, raced, victims>>

BootFails(s) ==
    /\ pc[s] = "boot"
    /\ listen[port[s]] # None \/ DirInUse(s)
    /\ Go(s, "failed")
    /\ UNCHANGED <<dirs, isNew, id, port, entry, listen, raced, victims>>

Ends(s) ==
    /\ pc[s] = "up"
    /\ listen' = [listen EXCEPT ![port[s]] = None]
    /\ Go(s, "down")
    /\ UNCHANGED <<dirs, isNew, id, port, entry, raced, victims>>

\* stop_node and reset_node of the entry of id i, whatever its state: the process that
\* listens on the rpcport of the entry shuts down.
RpcStop(i) ==
    /\ entry[i] # None
    /\ LET s == listen[entry[i]] IN
        /\ s # None
        /\ listen' = [listen EXCEPT ![entry[i]] = None]
        /\ Go(s, "down")
        /\ victims' = victims \cup {<<i, s>>}
    /\ UNCHANGED <<dirs, isNew, id, port, entry, raced>>
-----------------------------------------------------------------------------
Begin(s) == StartNew(s) \/ \E i \in Ids : StartId(s, i) \/ StartNewId(s, i)
Allocate(s) ==
    \/ Count(s) \/ CountEnds(s) \/ MakeDir(s)
    \/ TakePort(s) \/ DefaultPortInUse(s) \/ NextPort(s)
Run(s) == Spawn(s) \/ Boot(s) \/ BootFails(s)

Next ==
    \/ \E s \in Starts : Begin(s) \/ Allocate(s) \/ Run(s) \/ Ends(s)
    \/ \E i \in Ids : RpcStop(i)

Spec == Init /\ [][Next]_vars

-----------------------------------------------------------------------------
(* Properties *)

\* Types, who listens, and what has been allocated when.
TypeOK ==
    /\ dirs \subseteq Ids
    /\ pc \in [Starts -> {"new", "count", "mkdir", "port", "spawn", "boot",
                          "up", "failed", "down", "exited"}]
    /\ isNew \in [Starts -> BOOLEAN]
    /\ id \in [Starts -> Ids \cup {None}] /\ port \in [Starts -> Ports \cup {None}]
    /\ entry \in [Ids -> Ports \cup {None}]
    /\ listen \in [Ports -> Starts \cup {None}]
    /\ raced \subseteq SUBSET Starts
    /\ victims \subseteq Ids \X Starts
    /\ \A s \in Starts : pc[s] # "new" => id[s] \in Ids
    /\ \A s \in Starts : pc[s] \in {"port", "spawn", "boot", "up"} =>
            port[s] \in Ports /\ id[s] \in dirs
    /\ \A p \in Ports : listen[p] # None => pc[listen[p]] = "up" /\ port[listen[p]] = p
    /\ \A s \in Starts : pc[s] = "up" => listen[port[s]] = s

Placed(s) == pc[s] \in {"port", "spawn", "boot", "up", "failed", "down"}

\* A start with --new gets the directory of no other start, unless the two allocated at a
\* time (get_component_datadir).
NewIsUniqueUnlessRaced ==
    \A s, t \in Starts :
        (isNew[s] /\ isNew[t] /\ s # t /\ Placed(s) /\ Placed(t) /\ id[s] = id[t])
            => {s, t} \in raced

\* Where netstat can be read, a process that finds its port taken lost it to a start command
\* that was allocating at the time (get_component_port).
ClashNeedsRace ==
    \A s \in Starts :
        (pc[s] = "boot" /\ listen[port[s]] # None) => {s, listen[port[s]]} \in raced

\* docs/commands/stop.rst:15 "stops only the component with unique identifier == node1".
StopHitsItsId == \A v \in victims : id[v[2]] = v[1]
=============================================================================
