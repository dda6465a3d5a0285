-------------------------------- MODULE Home --------------------------------
(***************************************************************************)
(* The files that commands share before any component exists: config.json, *)
(* which says where the SDK's home directory is (config.py, app_state.py), *)
(* and the encrypted.env through which a start hands the environment to    *)
(* the terminal it opens (utils.py, run_inline.py).  Several commands run  *)
(* at a time; each constructs Config at several points and reads the file  *)
(* anew at each.                                                           *)
(***************************************************************************)
EXTENDS CommandLine, FiniteSets

CONSTANTS Procs,        \* slots for commands that run at a time
          Lines,        \* the command lines that are entered
          Homes,        \* home directories
          DefaultHome,  \* the one that also holds config.json
          Length,       \* the length of a home directory's name in config.json
          NoHome, Portable,
          MaxCommands,  \* bound: commands entered
          MaxCrashes    \* bound: commands that are killed

ASSUME HomeAssumption ==
    /\ DefaultHome \in Homes /\ NoHome \notin Homes /\ Portable \notin Homes \cup {NoHome}
    /\ Length \in [Homes \cup {Portable} -> Nat \ {0}]
    /\ MaxCommands \in Nat /\ MaxCrashes \in Nat
    /\ Procs \cap {"absent", "blank", "mixed"} = {}
    /\ \A argv \in Lines : ParseArgs(argv).ns = "config" =>
                            ParseArgs(argv).home \in Homes \cup {Empty}

VARIABLES config,      \* the text of config.json
          hasDir,      \* its directory exists
          env,         \* per home: whose environment encrypted.env holds (in the code one
                       \* file per home and component: coarser where components differ)
          point,       \* per slot: the place in the command
          step,        \* per slot: the step of that place
          input,       \* per slot: the parsed command line
          text,        \* per slot: the text to be written to config.json
          home,        \* per slot: SDK_HOME_DIR by the last Config
          outHome,     \* per slot: where its start wrote encrypted.env
          detached,    \* slots whose open encrypted.env has been removed
          homes,       \* history, per slot: homes it has worked in
          alone,       \* history, per slot: no other command ran meanwhile
          touched,     \* history: slots whose encrypted.env another start touched
          disturbed,   \* history: an access of config.json during another's write of it
          configured,  \* history: the home set by the last `config` command
          wiped,       \* history: electrumsv_node.reset() was called
          entered, crashes,
          cutOff       \* history: a command was killed in its write of config.json

files == <<config, hasDir, env>>
locals == <<point, step, input, text, home, outHome, detached>>
history == <<homes, alone, touched, disturbed, configured, wiped>>
vars == <<files, locals, history, entered, crashes, cutOff>>

-----------------------------------------------------------------------------
(* Texts of config.json; every one the code writes has is_first_run = False. *)
(* size orders their lengths.                                                *)
NotThere == [kind |-> "absent", home |-> NoHome, size |-> 0]
Blank == [kind |-> "blank", home |-> NoHome, size |-> 0]
Compact == [kind |-> "doc", home |-> NoHome, size |-> 1]
Indented == [kind |-> "doc", home |-> NoHome, size |-> 2]
WithHome(h) == [kind |-> "doc", home |-> h, size |-> 2 + Length[h]]
Docs == {Compact, Indented} \cup {WithHome(h) : h \in Homes \cup {Portable}}
NotJson(n) == [kind |-> "garbage", home |-> NoHome, size |-> n]
Mangled == {NotJson(d.size) : d \in Docs}
Texts == {NotThere, Blank} \cup Docs \cup Mangled

HomeOf(t) == IF t.home \in Homes THEN t.home ELSE DefaultHome

\* A text is written at offset 0 over what is there by then.
Overlay(new, old) == IF old.size > new.size THEN NotJson(old.size) ELSE new

Active == {p \in Procs : point[p] \notin {"idle", "done", "failed", "lost", "killed"}}
\* Slots between a look at config.json and the end of the write it leads to.
Writing == {p \in Procs : step[p] \in {"mkdir", "create", "fill", "open", "flush"}}
HasOpen == {p \in Procs : step[p] \in {"fill", "flush"}}
\* Slots whose start has an encrypted.env that its terminal still needs.
Sealed == {p \in Procs : point[p] \in {"env", "inline", "unseal"} /\ step[p] # "env"}

(* The points at which a command reads config.json, in their order.        *)
HasPlugin(i) == i.ns \in {"install", "start", "stop", "reset"}
OpensTerminal(i) == i.ns = "start" /\ SpawnMode(i) = "new-terminal"
After(at, i) ==
    CASE at = "argparse" -> IF i = Refused THEN "done"
                            ELSE IF i.ns = "config" THEN "update" ELSE "app"
      [] at = "update" -> "app"
      [] at = "app" -> "control"
      [] at = "control" -> "first"
      [] at = "first" -> IF HasPlugin(i) THEN "plugin" ELSE "done"
      [] at = "plugin" -> IF OpensTerminal(i) THEN "terminal" ELSE "done"
      [] at = "terminal" -> "env"
      [] at = "inline" -> "unseal"
FirstStep(at) == CASE at \in {"env", "unseal", "done"} -> at [] OTHER -> "look"

Goto(p, at) == point' = [point EXCEPT ![p] = at] /\ step' = [step EXCEPT ![p] = FirstStep(at)]
Stay(p, s) == step' = [step EXCEPT ![p] = s] /\ UNCHANGED point
End(p, how) == point' = [point EXCEPT ![p] = how] /\ step' = [step EXCEPT ![p] = "done"]
WriteNext(p, t) == Stay(p, "open") /\ text' = [text EXCEPT ![p] = t]

\* An access of config.json is disturbed when others have it open for writing;
\* the beginning of a write also when others are anywhere in theirs.
Disturb(p) == disturbed' = \/ disturbed
                           \/ HasOpen \ {p} # {}
                           \/ step'[p] \in {"mkdir", "open"} /\ Writing \ {p} # {}

-----------------------------------------------------------------------------
Init ==
    /\ \/ config = NotThere /\ hasDir = FALSE          \* never used
       \/ config = WithHome(Portable) /\ hasDir = TRUE \* used by a release before 0.0.38
       \/ config \in {WithHome(h) : h \in Homes} /\ hasDir = TRUE
    /\ env = [h \in Homes |-> "absent"]
    /\ point = [p \in Procs |-> "idle"] /\ step = [p \in Procs |-> "done"]
    /\ input = [p \in Procs |-> Refused]
    /\ text = [p \in Procs |-> Blank]
    /\ home = [p \in Procs |-> DefaultHome] /\ outHome = [p \in Procs |-> DefaultHome]
    /\ detached = {} /\ homes = [p \in Procs |-> {}] /\ alone = [p \in Procs |-> FALSE]
    /\ touched = {} /\ disturbed = FALSE /\ configured = HomeOf(config) /\ wiped = FALSE
    /\ entered = 0 /\ crashes = 0 /\ cutOff = FALSE

\* A command line is entered: ArgParser() constructs a ComponentStore.
Enter(p, argv) ==
    /\ p \notin Active /\ entered < MaxCommands
    /\ entered' = entered + 1
    /\ Goto(p, "argparse")
    /\ input' = [input EXCEPT ![p] = ParseArgs(argv)]
    /\ homes' = [homes EXCEPT ![p] = {}]
    /\ alone' = [q \in Procs |-> IF q = p THEN Active = {} ELSE alone[q] /\ q \notin Active]
    /\ touched' = touched \ {p} /\ detached' = detached \ {p}
    /\ home' = [home EXCEPT ![p] = DefaultHome] /\ outHome' = [outHome EXCEPT ![p] = DefaultHome]
    /\ UNCHANGED <<files, text, disturbed, configured, wiped, crashes, cutOff>>

(* What each caller of read_config_json does with the dict it returns.     *)
\* Mutant of UsesHome: plugins work in the default home.
UsesHomePluginDefault(p, h) ==
    LET used == IF point[p] = "plugin" THEN DefaultHome ELSE h IN
    /\ home' = [home EXCEPT ![p] = used]
    /\ homes' = [homes EXCEPT ![p] = @ \cup {used}]
UsesHome(p, h) ==
    /\ home' = [home EXCEPT ![p] = h]
    /\ homes' = [homes EXCEPT ![p] = @ \cup {h}]
\* Mutant of Updated: the file is built afresh.
UpdatedAfresh(p, t) ==
    IF input[p].home # Empty THEN WithHome(input[p].home) ELSE Compact
Updated(p, t) == IF input[p].home # Empty THEN WithHome(input[p].home)
                 ELSE IF t.home = NoHome THEN Compact ELSE t
UseDict(p, t) ==
    CASE point[p] = "update" ->                          \* update_config_file
            WriteNext(p, Updated(p, t)) /\ UNCHANGED <<home, homes>>
      [] point[p] # "update" /\ t.home = Portable ->     \* get_dynamic_datadir, old value
            WriteNext(p, WithHome(DefaultHome)) /\ UsesHome(p, DefaultHome)
      [] OTHER ->
            Goto(p, After(point[p], input[p])) /\ UsesHome(p, HomeOf(t)) /\ UNCHANGED text

\* read_config_json, when the file exists.
Look(p) ==
    /\ step[p] = "look" /\ point[p] # "first" /\ config.kind \in {"blank", "doc"}
    /\ UseDict(p, config)
    /\ Disturb(p)
    /\ UNCHANGED <<files, input, outHome, detached, alone, touched, configured, wiped,
                   entered, crashes, cutOff>>

\* json.loads raises, here and in handle_first_ever_run.
LookFails(p) ==
    /\ step[p] = "look" /\ config.kind = "garbage"
    /\ End(p, "failed")
    /\ Disturb(p)
    /\ UNCHANGED <<files, input, text, home, outHome, detached, homes, alone, touched, configured,
                   wiped, entered, crashes, cutOff>>

\* The file does not exist: its directory is made, without exist_ok.
LookMissing(p) ==
    /\ step[p] = "look" /\ config.kind = "absent"
    /\ Stay(p, "mkdir")
    /\ Disturb(p)
    /\ UNCHANGED <<files, input, text, home, outHome, detached, homes, alone, touched, configured,
                   wiped, entered, crashes, cutOff>>

MakeDir(p) ==
    /\ step[p] = "mkdir"
    /\ IF hasDir THEN End(p, "failed") /\ UNCHANGED hasDir
                 ELSE Stay(p, "create") /\ hasDir' = TRUE
    /\ UNCHANGED <<config, env, input, text, home, outHome, detached, history,
                   entered, crashes, cutOff>>

\* open(.., "w") truncates; the text is in the file when it is closed.
Create(p) ==
    /\ step[p] = "create"
    /\ config' = Blank
    /\ Stay(p, "fill")
    /\ UNCHANGED <<hasDir, env, input, text, home, outHome, detached, history,
                   entered, crashes, cutOff>>
Fill(p) ==
    /\ step[p] = "fill"
    /\ config' = Overlay(Indented, config)
    /\ UseDict(p, Blank)                                \* it returns {}
    /\ Disturb(p)
    /\ UNCHANGED <<hasDir, env, input, outHome, detached, alone, touched, configured, wiped,
                   entered, crashes, cutOff>>

\* write_to_config_json, and the write of handle_first_ever_run.
Open(p) ==
    /\ step[p] = "open"
    /\ config' = Blank
    /\ Stay(p, "flush")
    /\ UNCHANGED <<hasDir, env, input, text, home, outHome, detached, history,
                   entered, crashes, cutOff>>
Flush(p) ==
    /\ step[p] = "flush"
    /\ config' = Overlay(text[p], config)
    /\ Goto(p, After(point[p], input[p]))
    /\ text' = [text EXCEPT ![p] = Blank]
    /\ configured' = IF point[p] = "update" /\ input[p].home # Empty THEN input[p].home
                                                                     ELSE configured
    /\ wiped' = (wiped \/ point[p] = "first")           \* electrumsv_node.reset()
    /\ UNCHANGED <<hasDir, env, input, home, outHome, detached, homes, alone, touched, disturbed,
                   entered, crashes, cutOff>>

\* handle_first_ever_run: only an empty file lacks is_first_run.
\* Mutant of FirstRun: a run is the first as long as no home has been set.
FirstRunWithoutHome(p) ==
    /\ step[p] = "look" /\ point[p] = "first" /\ config.kind \in {"blank", "doc"}
    /\ IF config.home = NoHome THEN WriteNext(p, Indented)
       ELSE Goto(p, After("first", input[p])) /\ UNCHANGED text
    /\ Disturb(p)
    /\ UNCHANGED <<files, input, home, outHome, detached, homes, alone, touched, configured, wiped,
                   entered, crashes, cutOff>>
FirstRun(p) ==
    /\ step[p] = "look" /\ point[p] = "first" /\ config.kind \in {"blank", "doc"}
    /\ IF config = Blank THEN WriteNext(p, Indented)
       ELSE Goto(p, After("first", input[p])) /\ UNCHANGED text
    /\ Disturb(p)
    /\ UNCHANGED <<files, input, home, outHome, detached, homes, alone, touched, configured, wiped,
                   entered, crashes, cutOff>>

-----------------------------------------------------------------------------
(* spawn_new_terminal and run_inline.py.                                   *)
Others(p, h) == {q \in Sealed \ {p} : outHome[q] = h}

\* Mutant of WriteEnv: the terminal opens before the file is closed.
WriteEnvUnflushed(p) ==
    /\ step[p] = "env"
    /\ env' = [env EXCEPT ![home[p]] = "blank"]
    /\ outHome' = [outHome EXCEPT ![p] = home[p]]
    /\ detached' = detached \ {p}
    /\ touched' = touched \cup Others(p, home[p])
    /\ Goto(p, "inline")
    /\ UNCHANGED <<config, hasDir, input, text, home, homes, alone, disturbed, configured, wiped,
                   entered, crashes, cutOff>>
WriteEnv(p) ==
    /\ step[p] = "env"
    /\ env' = [env EXCEPT ![home[p]] = "blank"]
    /\ outHome' = [outHome EXCEPT ![p] = home[p]]
    /\ detached' = detached \ {p}
    /\ touched' = touched \cup Others(p, home[p])
    /\ Stay(p, "seal")
    /\ UNCHANGED <<config, hasDir, input, text, home, homes, alone, disturbed, configured, wiped,
                   entered, crashes, cutOff>>

\* Two texts of about one length, each written at offset 0; then the terminal opens.
SealEnv(p) ==
    LET h == outHome[p] IN
    /\ step[p] = "seal"
    /\ IF p \in detached THEN UNCHANGED <<env, touched>>
       ELSE /\ \E left \in IF env[h] = "blank" THEN {p} ELSE {p, "mixed"} :
                   env' = [env EXCEPT ![h] = left]
            /\ touched' = touched \cup Others(p, h)
    /\ Goto(p, "inline")
    /\ UNCHANGED <<config, hasDir, input, text, home, outHome, detached, homes, alone, disturbed,
                   configured, wiped, entered, crashes, cutOff>>

\* The key fits the text this start has written and no other.
ReadEnv(p) ==
    /\ step[p] = "unseal"
    /\ IF env[home[p]] = p THEN Stay(p, "remove") ELSE End(p, "lost")
    /\ UNCHANGED <<files, input, text, home, outHome, detached, history, entered, crashes, cutOff>>

RemoveEnv(p) ==
    LET h == home[p] IN
    /\ step[p] = "remove" /\ env[h] # "absent"
    /\ env' = [env EXCEPT ![h] = "absent"]
    /\ detached' = detached \cup {q \in Procs \ {p} : step[q] = "seal" /\ outHome[q] = h}
    /\ touched' = touched \cup Others(p, h)
    /\ End(p, "done")                                   \* spawn_inline
    /\ UNCHANGED <<config, hasDir, input, text, home, outHome, homes, alone, disturbed,
                   configured, wiped, entered, crashes, cutOff>>

\* Removed by another terminal before exists(), or between it and os.remove.
EnvIsGone(p) ==
    /\ step[p] = "remove" /\ env[home[p]] = "absent"
    /\ End(p, "done") \/ End(p, "lost")
    /\ UNCHANGED <<files, input, text, home, outHome, detached, history, entered, crashes, cutOff>>

\* The command or its terminal is killed; a text not yet flushed is gone, and what was opened
\* for it stays empty.
Crash(p) ==
    /\ p \in Active /\ crashes < MaxCrashes
    /\ crashes' = crashes + 1
    /\ End(p, "killed")
    /\ cutOff' = (cutOff \/ step[p] \in {"create", "fill", "flush"})
    /\ UNCHANGED <<files, input, text, home, outHome, detached, history, entered>>

Step(p) ==
    \/ Look(p) \/ LookFails(p) \/ LookMissing(p) \/ MakeDir(p) \/ Create(p) \/ Fill(p)
    \/ Open(p) \/ Flush(p) \/ FirstRun(p)
    \/ WriteEnv(p) \/ SealEnv(p) \/ ReadEnv(p) \/ RemoveEnv(p) \/ EnvIsGone(p)

Next == \E p \in Procs : (\E argv \in Lines : Enter(p, argv)) \/ Step(p) \/ Crash(p)

Spec == Init /\ [][Next]_vars

-----------------------------------------------------------------------------
TypeOK ==
    /\ config \in Texts /\ hasDir \in BOOLEAN
    /\ env \in [Homes -> {"absent", "blank", "mixed"} \cup Procs]
    /\ point \in [Procs -> {"idle", "argparse", "update", "app", "control", "first", "plugin",
                            "terminal", "env", "inline", "unseal", "done", "failed", "lost",
                            "killed"}]
    /\ step \in [Procs -> {"look", "mkdir", "create", "fill", "open", "flush", "env", "seal",
                           "unseal", "remove", "done"}]
    /\ input \in [Procs -> {ParseArgs(argv) : argv \in Lines} \cup {Refused}]
    /\ text \in [Procs -> Texts] /\ home \in [Procs -> Homes] /\ outHome \in [Procs -> Homes]
    /\ detached \subseteq Procs /\ touched \subseteq Procs
    /\ homes \in [Procs -> SUBSET Homes] /\ alone \in [Procs -> BOOLEAN]
    /\ disturbed \in BOOLEAN /\ configured \in Homes /\ wiped \in BOOLEAN
    /\ entered \in 0..MaxCommands /\ crashes \in 0..MaxCrashes /\ cutOff \in BOOLEAN

Broken == config.kind = "garbage" \/ (config = NotThere /\ hasDir)

(* config.json says what the last `config` command set, and can be read,   *)
(* as long as no access met a write under way and no write was cut off.    *)
HomeKept ==
    ~disturbed /\ ~cutOff /\ Writing = {} => ~Broken /\ HomeOf(config) = configured

(* "The first ever run" wipes the node's data only after config.json was   *)
(* found or left empty: a command read it while another one had truncated  *)
(* it, or a command was killed between its open(.., "w") and the close.    *)
(* After such a kill the next command wipes the node although it runs      *)
(* entirely alone.  Without either no command does, not even the first.    *)
ResetNeedsEmptied == wiped => disturbed \/ cutOff

(* A command finds its component store, its data directories and its       *)
(* environment in one home, unless other commands ran at the time or it is *)
(* the one that moves the home.                                            *)
OneHome == \A p \in Procs :
    alone[p] /\ input[p] # Refused /\ input[p].ns # "config" => Cardinality(homes[p]) <= 1

(* A start whose terminal has opened is lost only when another start used  *)
(* the encrypted.env of that home at the time, or when the home was moved  *)
(* between the command's last look and the terminal's.                     *)
LostOnlyByClash == \A p \in Procs :
    point[p] = "lost" => p \in touched \/ outHome[p] # home[p]

(* Every one of the vectors means what the documentation says; the parser  *)
(* keeps no state, so once, at the start, is enough.                       *)
DocumentedMeaning == entered = 0 => ParsesAsDocumented

(* Every one of the library calls is parsed back to what was asked for.    *)
LibraryCalls == entered = 0 => LibraryRoundTrip

=============================================================================
