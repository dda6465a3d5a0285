----------------------------- MODULE CommandLine -----------------------------
(***************************************************************************)
(* How a command line becomes a command: the scan of sys.argv that comes   *)
(* before argparse, argparse's verdict on the options, the CLIInputs       *)
(* object (argparsing.py), and the command lines that the library          *)
(* functions build (commands.py).  An argument is a record: "plain" (node),*)
(* "long" (--new, --id=a) or "short" (-x); Missing is the value of an      *)
(* option that is given none, Empty that of "--id=".                       *)
(***************************************************************************)
EXTENDS Naturals, Sequences

CONSTANTS Components,   \* component_map: the types of the plugins found
          Extensions,   \* per namespace, per component: flags its plugin adds
          Missing, Empty, Set,
          Arguments,    \* what a command line can hold
          Vectors,      \* command lines whose meaning is asked
          Requests      \* library calls whose meaning is asked

Namespaces == {"install", "start", "stop", "reset", "node", "status", "config"}
TakesComponent == {"install", "start", "stop", "reset", "status"}

(* The options of each namespace's parser, with a value and without.       *)
Valued == [ns \in Namespaces |->
    CASE ns \in {"install", "start", "reset"} -> {"id", "repo", "branch"}
      [] ns \in {"stop", "status", "node"} -> {"id"}
      [] ns = "config" -> {"sdk-home-dir"}]
Flags == [ns \in Namespaces |->
    CASE ns = "start" -> {"new", "gui", "background", "inline", "new-terminal"}
      [] ns = "install" -> {"background"}
      [] OTHER -> {}]

ASSUME CommandLineAssumption ==
    /\ DOMAIN Extensions = Namespaces
    /\ \A ns \in Namespaces : DOMAIN Extensions[ns] = Components
    /\ \A ns \in Namespaces, c \in Components :      \* argparse refuses a second one
         Extensions[ns][c] \cap Valued[ns] = {}
    /\ Empty \notin Components \cup {Missing, Set}
    /\ Vectors \subseteq Seq(Arguments)

\* The parameters of the library functions, by their annotations and defaults.
ASSUME RequestAssumption == \A r \in Requests :
    /\ r.call \in {"install", "start", "stop", "reset"}
    /\ r.component \in Components \cup {Empty} /\ r.id # Missing /\ r.seed \in BOOLEAN
    /\ r.call # "stop" => r.repo # Missing /\ r.branch # Missing
    /\ r.call \in {"install", "start"} => r.component # Empty
    /\ r.call = "start" => {r.new, r.gui} \subseteq BOOLEAN /\ r.args \in Seq(Arguments)

Plain(name) == [form |-> "plain", name |-> name, value |-> Missing]
Flag(name) == [form |-> "long", name |-> name, value |-> Missing]
Opt(name, value) == [form |-> "long", name |-> name, value |-> value]

AddedFlags(ns, component) ==
    IF ns \in {"install", "start", "reset", "stop"} /\ component \in Components
    THEN Extensions[ns][component] ELSE {}

-----------------------------------------------------------------------------
(* manual_argparsing: one pass over the arguments after the namespace.     *)
ScanStart(ns) == [ns |-> ns, component |-> Empty, exited |-> FALSE,
                  options |-> <<>>, rest |-> <<>>]

\* node and config: every argument belongs to the namespace's own parser.
ScanOwn(s, a) == [s EXCEPT !.options = Append(@, a)]

\* install, start, stop, reset, status: options, then the component.
ScanBefore(s, a) ==
    CASE a.form = "long"  -> [s EXCEPT !.options = Append(@, a)]
      [] a.form = "plain" -> IF a.name \in Components
                             THEN [s EXCEPT !.component = a.name]
                             ELSE [s EXCEPT !.exited = TRUE]
      [] OTHER            -> s

\* Mutant of ScanAfter: options count after the component too.
ScanAfterOptions(s, a) ==
    IF s.ns \in {"install", "start"} THEN [s EXCEPT !.rest = Append(@, a)]
    ELSE IF a.form = "long" THEN [s EXCEPT !.options = Append(@, a)] ELSE s
\* After the component: kept by install and start, dropped by the others.
ScanAfter(s, a) == IF s.ns \in {"install", "start"}
                   THEN [s EXCEPT !.rest = Append(@, a)] ELSE s

ScanArg(s, a) ==
    IF s.exited THEN s
    ELSE IF s.ns \notin TakesComponent THEN ScanOwn(s, a)
    ELSE IF s.component = Empty THEN ScanBefore(s, a)
    ELSE ScanAfter(s, a)

Scan(argv) ==
    LET scan[n \in 1..Len(argv)] == IF n = 1 THEN ScanStart(argv[1].name)
                                    ELSE ScanArg(scan[n - 1], argv[n])
    IN scan[Len(argv)]

(* argparse's verdict on the arguments fed to the namespace's parser.      *)
WellFormed(ns, component, a) ==
    \/ a.name \in Valued[ns] /\ a.value # Missing
    \/ a.name \in Flags[ns] \cup AddedFlags(ns, component) /\ a.value = Missing
Accepts(ns, component, options) == \A i \in DOMAIN options :
    options[i].form = "long" /\ WellFormed(ns, component, options[i])

\* The value of an option: the last one given, else the default.
Value(options, name) ==
    LET I == {i \in DOMAIN options : options[i].form = "long" /\ options[i].name = name}
        last == options[CHOOSE i \in I : \A j \in I : j <= i].value
    IN IF I = {} THEN Empty ELSE IF last = Missing THEN Set ELSE last

(* generate_cli_inputs.  A command line that is refused runs nothing.      *)
Refused == [ns |-> "none"]
Parsed(s, name) == IF name \in Valued[s.ns] THEN Value(s.options, name) ELSE Empty
Inputs(s) ==
    [ns |-> s.ns, component |-> s.component,
     id |-> Parsed(s, "id"), home |-> Parsed(s, "sdk-home-dir"),
     repo |-> Parsed(s, "repo"), branch |-> Parsed(s, "branch"),
     flags |-> {f \in Flags[s.ns] \cup AddedFlags(s.ns, s.component) :
                    Value(s.options, f) = Set},
     args |-> IF s.ns = "start" THEN s.rest ELSE <<>>]
NodeInputs(s) == [ns |-> "node", args |-> s.options]

ParseArgs(argv) ==
    IF argv = <<>> \/ argv[1].form # "plain" \/ argv[1].name \notin Namespaces
    THEN Refused
    ELSE LET s == Scan(argv) IN
         IF s.ns = "node" THEN NodeInputs(s)
         ELSE IF s.exited \/ ~Accepts(s.ns, s.component, s.options) THEN Refused
         ELSE Inputs(s)

\* controller.node: options anywhere among the arguments, the rest goes to the RPC.
NodeRequest(inputs) ==
    LET options == SelectSeq(inputs.args, LAMBDA a : a.form = "long")
        rpc == SelectSeq(inputs.args, LAMBDA a : a.form # "long")
    IN IF rpc = <<>> \/ ~Accepts("node", Empty, options) THEN Refused
       ELSE [id |-> IF Value(options, "id") = Empty THEN "node1" ELSE Value(options, "id"),
             method |-> Head(rpc), args |-> Tail(rpc)]

\* plugin_tools.spawn_process: where the component of a start runs.
SpawnMode(inputs) ==
    IF "background" \in inputs.flags THEN "background"
    ELSE IF "inline" \in inputs.flags THEN "inline"
    ELSE "new-terminal"

-----------------------------------------------------------------------------
(* commands.py: the argument vector a library call builds.  A request has  *)
(* the call's arguments; Empty is one that is not given.                   *)
When(condition, arg) == IF condition THEN <<arg>> ELSE <<>>
Given(value, arg) == When(value # Empty, arg)

ValidNetwork(r) ==
    \/ r.network = Empty
    \/ r.component \in {"node", "electrumsv"} /\ r.network \in {"regtest", "testnet"}

RepoArgs(r) == Given(r.repo, Opt("repo", r.repo)) \o Given(r.branch, Opt("branch", r.branch))
IdArg(r) == Given(r.id, Opt("id", r.id))
StartFlags(r) == When(r.new, Flag("new")) \o When(r.gui, Flag("gui"))
                   \o Given(r.mode, Flag(r.mode))
NetworkFlag(r) == Given(r.network, Flag(r.network))
SeedFlag(r) == When(r.seed, Flag("deterministic-seed"))
ComponentArg(r) == Given(r.component, Plain(r.component))

\* Mutant of LibraryArgv: the id comes after the component.
LibraryArgvIdLast(r) == <<Plain(r.call)>> \o
    CASE r.call = "install" -> RepoArgs(r) \o ComponentArg(r) \o IdArg(r)
      [] r.call = "start" -> RepoArgs(r) \o StartFlags(r) \o NetworkFlag(r) \o SeedFlag(r)
                               \o ComponentArg(r) \o IdArg(r) \o r.args
      [] r.call = "stop" -> ComponentArg(r) \o IdArg(r)
      [] r.call = "reset" -> RepoArgs(r) \o SeedFlag(r) \o ComponentArg(r) \o IdArg(r)
LibraryArgv(r) == <<Plain(r.call)>> \o
    CASE r.call = "install" -> RepoArgs(r) \o IdArg(r) \o ComponentArg(r)
      [] r.call = "start" -> RepoArgs(r) \o StartFlags(r) \o IdArg(r)
                               \o NetworkFlag(r) \o SeedFlag(r) \o ComponentArg(r) \o r.args
      [] r.call = "stop" -> IdArg(r) \o ComponentArg(r)
      [] r.call = "reset" -> RepoArgs(r) \o IdArg(r) \o SeedFlag(r) \o ComponentArg(r)

-----------------------------------------------------------------------------
(* What the documentation says a command line means, without a scan.       *)
ComponentAt(argv) == LET I == {i \in 2..Len(argv) : argv[i].form = "plain"}
                     IN IF I = {} THEN Len(argv) + 1 ELSE CHOOSE i \in I : \A j \in I : i <= j
OptionsAt(argv) == {i \in 2..(ComponentAt(argv) - 1) : argv[i].form = "long"}
LastGiven(argv, name) ==
    LET I == {i \in OptionsAt(argv) : argv[i].name = name}
    IN IF I = {} THEN Empty ELSE argv[CHOOSE i \in I : \A j \in I : j <= i].value

Means(argv, inputs) ==
    LET c == ComponentAt(argv)
        component == IF c > Len(argv) THEN Empty ELSE argv[c].name
        unknown == c <= Len(argv) /\ argv[c].name \notin Components
        declared == \A i \in OptionsAt(argv) : WellFormed(argv[1].name, component, argv[i])
    IN IF unknown \/ ~declared
       THEN inputs = Refused
       ELSE /\ inputs.ns = argv[1].name
            /\ inputs.component = component
            /\ \A name \in Valued[argv[1].name] : inputs[name] = LastGiven(argv, name)
            /\ inputs.flags = {argv[i].name : i \in OptionsAt(argv)} \ Valued[argv[1].name]
            /\ inputs.args = IF inputs.ns = "start" THEN SubSeq(argv, c + 1, Len(argv)) ELSE <<>>

(* start.rst NOTE2: options count when they come before the component, in  *)
(* any order, the last of a kind if it is repeated; what follows the       *)
(* component goes to the component by start, and is ignored by install,    *)
(* stop, reset and status: `stop node --id=node2` stops every node.        *)
ParsesAsDocumented ==
    \A argv \in Vectors : argv # <<>> /\ argv[1] \in {Plain(ns) : ns \in TakesComponent}
                            => Means(argv, ParseArgs(argv))

(* A library call does what its arguments say: the vector it builds is     *)
(* parsed back to the request, or refused when the plugin of the component *)
(* lacks a flag that is asked for; never run with another meaning.         *)
RequestFlags(r) ==
    (IF r.call = "start" THEN {f \in {"new", "gui"} : r[f]} \cup ({r.mode} \ {Empty}) ELSE {})
    \cup (IF r.call \in {"start", "reset"} /\ r.seed THEN {"deterministic-seed"} ELSE {})
    \cup (IF r.call = "start" THEN {r.network} \ {Empty} ELSE {})
RoundTrips(r) ==
    LET inputs == ParseArgs(LibraryArgv(r)) IN
    IF RequestFlags(r) \subseteq Flags[r.call] \cup AddedFlags(r.call, r.component)
    THEN /\ inputs.ns = r.call /\ inputs.component = r.component /\ inputs.id = r.id
         /\ r.call # "stop" => inputs.repo = r.repo /\ inputs.branch = r.branch
         /\ inputs.flags = RequestFlags(r)
         /\ r.call = "start" => inputs.args = r.args
    ELSE inputs = Refused
LibraryRoundTrip ==
    \A r \in Requests : (r.call = "start" => ValidNetwork(r)) => RoundTrips(r)
=============================================================================
