------------------------------- MODULE MCHome -------------------------------
\* Instance of Home and CommandLine for TLC.
EXTENDS Home, TLC

CONSTANTS p1, p2, Away

MCExtensions == [ns \in Namespaces |-> [c \in Components |->
    CASE ns = "start" /\ c = "electrumsv" -> {"regtest", "testnet", "deterministic-seed"}
      [] ns = "start" /\ c = "node" -> {"regtest", "testnet"}
      [] ns = "reset" /\ c = "electrumsv" -> {"deterministic-seed"}
      [] OTHER -> {}]]
MCLength == [h \in Homes \cup {Portable} |-> IF h = Away THEN 1 ELSE 2]

\* What is entered in the behaviours.
MCLines == {
    <<Plain("config"), Opt("sdk-home-dir", Away)>>,
    <<Plain("config")>>,
    <<Plain("start"), Plain("node")>>,
    <<Plain("stop"), Plain("nod")>>}

\* What the parser is checked on: every vector of up to three of these.
Following == {Plain("node"), Plain("electrumsv"), Plain("nod"), Opt("id", "a"), Opt("id", Empty),
              Flag("id"), Flag("new"), Opt("new", "a"), Flag("deterministic-seed"),
              [form |-> "short", name |-> "x", value |-> Missing]}
MCArguments == Following \cup {Plain(ns) : ns \in Namespaces}
MCVectors == {<<Plain(ns)>> \o rest : ns \in TakesComponent,
                                        rest \in UNION {[1..n -> Following] : n \in 0..3}}
MCRequests ==
    [call : {"install"}, component : Components, id : {Empty, "a"}, repo : {Empty, "r"},
     branch : {Empty, "b"}, seed : {FALSE}]
    \cup [call : {"start"}, component : Components, id : {Empty, "a"}, repo : {Empty, "r"},
          branch : {Empty}, new : BOOLEAN, gui : BOOLEAN, seed : BOOLEAN,
          mode : {Empty, "inline", "background", "new-terminal", "window"},
          network : {Empty, "testnet", "mainnet"}, args : {<<>>, <<Flag("id"), Plain("node")>>}]
    \cup [call : {"stop"}, component : Components \cup {Empty}, id : {Empty, "a"}, seed : {FALSE}]
    \cup [call : {"reset"}, component : Components \cup {Empty}, id : {Empty, "a"},
          repo : {Empty, "r"}, branch : {Empty}, seed : BOOLEAN]
=============================================================================
