----------------------------- MODULE HomeProofs -----------------------------
(***************************************************************************)
(* Theorems about Home, for any number of commands, command lines and home *)
(* directories: what an undisturbed config.json says, what a command that  *)
(* runs alone finds, and whose environment a start reads.                  *)
(***************************************************************************)
EXTENDS Home, FiniteSetTheorems, SequenceTheorems, TLAPS

\* The places of a command at which it reads config.json.
Readers == {"argparse", "update", "app", "control", "first", "plugin", "terminal", "inline"}
Ended == {"idle", "done", "failed", "lost", "killed"}
Commands == {ParseArgs(argv) : argv \in Lines} \cup {Refused}

\* What the steps of a place are, and that only `config` updates.
PlaceInv == \A p \in Procs :
    /\ point[p] \in Readers <=> step[p] \in {"look", "mkdir", "create", "fill", "open", "flush"}
    /\ point[p] = "env" <=> step[p] \in {"env", "seal"}
    /\ point[p] = "unseal" <=> step[p] \in {"unseal", "remove"}
    /\ point[p] = "update" => input[p].ns = "config"

\* Who writes config.json has made its directory or found the file.
DirInv == ~hasDir =>
    /\ config = NotThere
    /\ \A p \in Procs : step[p] \notin {"create", "fill", "open", "flush"}

\* config.json between two writes that were not disturbed.
Settled ==
    /\ \/ config = NotThere /\ ~hasDir
       \/ config \in Docs /\ hasDir
    /\ HomeOf(config) = configured

\* The home that config.json will name when p has written.
Aim(p) == IF point[p] = "update" /\ input[p].home # Empty THEN input[p].home ELSE configured

\* What a writer of config.json has found and is about to write.
Held(p) ==
    /\ step[p] = "mkdir" => config = NotThere
    /\ step[p] = "create" => config = NotThere /\ hasDir /\ configured = DefaultHome
    /\ step[p] = "fill" => config = Blank /\ configured = DefaultHome
    /\ step[p] = "flush" => config = Blank
    /\ step[p] \in {"open", "flush"} =>
         point[p] # "first" /\ text[p] \in Docs /\ HomeOf(text[p]) = Aim(p)

\* Until an access is disturbed or a write cut off there is one writer, config.json is where
\* that writer has left it, and what it is about to write agrees with what it has read.
InTurn ==
    /\ ~wiped
    /\ \A p, q \in Writing : p = q
    /\ (\A p \in Procs : step[p] \notin {"create", "fill", "flush"}) => Settled
    /\ \A p \in Procs : Held(p)
WriteInv == ~disturbed /\ ~cutOff => InTurn

\* A command that has been alone is the only active one, and what it has found so far is where
\* config.json leads now, also while the command writes that file itself.
Course(p) ==
    /\ homes[p] \subseteq {HomeOf(config)}
    /\ step[p] \in {"mkdir", "create"} => config = NotThere
    /\ step[p] \in {"fill", "flush"} => config = Blank
    /\ step[p] \in {"open", "flush"} =>
         HomeOf(config) = DefaultHome /\ HomeOf(text[p]) = DefaultHome
Alone(p) ==
    /\ p \in Active => Active = {p}
    /\ input[p].ns # "config" => \E h \in Homes : homes[p] \subseteq {h}
    /\ p \in Active /\ input[p].ns # "config" => Course(p)
AloneInv == \A p \in Procs : alone[p] => Alone(p)

\* A start that no other has touched owns the encrypted.env it has written, and is lost only
\* when it looks for it elsewhere.
Owns(p) ==
    /\ p \in Sealed /\ p \notin touched =>
         env[outHome[p]] = IF step[p] = "seal" THEN "blank" ELSE p
    /\ p \in detached /\ step[p] = "seal" => p \in touched
    /\ point[p] = "lost" => p \in touched \/ outHome[p] # home[p]
EnvInv == \A p \in Procs : Owns(p)
-----------------------------------------------------------------------------
(* Texts of config.json. *)

\* A text that is not JSON is as long as a document.
LEMMA DocShape ==
    ASSUME NEW d \in Docs
    PROVE  /\ d.kind = "doc" /\ d.size \in Nat \ {0}
           /\ d = [kind |-> "doc", home |-> d.home, size |-> d.size]
           /\ d.home \in Homes \cup {Portable, NoHome}
<1>1. CASE d \in {Compact, Indented}
  BY <1>1 DEF Compact, Indented
<1>2. ASSUME NEW h \in Homes \cup {Portable}, d = WithHome(h)
      PROVE  /\ d.kind = "doc" /\ d.size \in Nat \ {0}
             /\ d = [kind |-> "doc", home |-> d.home, size |-> d.size]
             /\ d.home \in Homes \cup {Portable, NoHome}
  <2>1. Length[h] \in Nat
    BY HomeAssumption
  <2>2. QED
    BY <1>2, <2>1 DEF WithHome
<1>3. QED
  BY <1>1, <1>2 DEF Docs

\* The kind of a text says what it is.
LEMMA TextShape ==
    ASSUME NEW t \in Texts
    PROVE  /\ t.kind \in {"absent", "blank", "doc", "garbage"}
           /\ t.kind = "absent" <=> t = NotThere
           /\ t.kind = "blank" <=> t = Blank
           /\ t.kind = "doc" <=> t \in Docs
           /\ t.size \in Nat
<1>1. CASE t \in {NotThere, Blank}
  BY <1>1, DocShape DEF NotThere, Blank
<1>2. CASE t \in Docs
  BY <1>2, DocShape DEF NotThere, Blank
<1>3. ASSUME NEW d \in Docs, t = NotJson(d.size)
      PROVE  /\ t.kind \in {"absent", "blank", "doc", "garbage"}
             /\ t.kind = "absent" <=> t = NotThere
             /\ t.kind = "blank" <=> t = Blank
             /\ t.kind = "doc" <=> t \in Docs
             /\ t.size \in Nat
  BY <1>3, DocShape DEF NotThere, Blank, NotJson
<1>4. QED
  BY <1>1, <1>2, <1>3 DEF Texts, Mangled

\* The texts the code names are texts, and documents when they have one.
LEMMA TextNames ==
    /\ Blank \in Texts /\ NotThere \in Texts /\ Docs \subseteq Texts
    /\ Compact \in Docs /\ Indented \in Docs
    /\ \A h \in Homes \cup {Portable} : WithHome(h) \in Docs
BY DEF Texts, Docs

\* The home a text names is a home; one that names none names the default.
LEMMA HomeOfText ==
    /\ \A t : HomeOf(t) \in Homes
    /\ \A h \in Homes : HomeOf(WithHome(h)) = h
    /\ HomeOf(Blank) = DefaultHome /\ HomeOf(NotThere) = DefaultHome
    /\ HomeOf(Compact) = DefaultHome /\ HomeOf(Indented) = DefaultHome
    /\ \A t : t.home \in {NoHome, Portable} => HomeOf(t) = DefaultHome
BY HomeAssumption DEF HomeOf, WithHome, Blank, NotThere, Compact, Indented

\* A document written over an empty file is the file; over another text it is still a text.
LEMMA OverlayText ==
    ASSUME NEW t \in Texts, NEW old \in Texts
    PROVE  Overlay(t, old) \in Texts /\ Overlay(t, Blank) = t
<1>1. t.size \in Nat /\ old.size \in Nat
  BY TextShape
<1>2. Overlay(t, Blank) = t
  BY <1>1 DEF Overlay, Blank
<1>3. ASSUME old.size > t.size PROVE NotJson(old.size) \in Texts
  <2>1. old \in Docs \cup Mangled
    BY <1>1, <1>3 DEF Texts, NotThere, Blank
  <2>2. CASE old \in Docs
    BY <2>2 DEF Texts, Mangled
  <2>3. CASE old \in Mangled
    BY <2>3 DEF Texts, Mangled, NotJson
  <2>4. QED
    BY <2>1, <2>2, <2>3
<1>4. QED
  BY <1>2, <1>3 DEF Overlay
-----------------------------------------------------------------------------
(* The places of a command. *)

Points == Readers \cup {"env", "unseal"} \cup Ended
Writes == {"mkdir", "create", "fill", "open", "flush"}
Steps == {"look", "env", "seal", "unseal", "remove", "done"} \cup Writes

\* The steps that a place has.
Fits(at, s) ==
    /\ at \in Readers <=> s \in {"look"} \cup Writes
    /\ at = "env" <=> s \in {"env", "seal"}
    /\ at = "unseal" <=> s \in {"unseal", "remove"}

\* Where a command goes from a place at which it has read config.json.
LEMMA AfterPlace ==
    ASSUME NEW at \in Readers, NEW i
    PROVE  /\ After(at, i) \in Points \ {"argparse", "inline", "idle", "failed", "lost", "killed"}
           /\ After(at, i) = "update" => i.ns = "config"
           /\ After(at, i) = "unseal" <=> at = "inline"
           /\ After(at, i) = "update" => at = "argparse"
BY DEF Readers, Ended, Points, After

\* The first step of a place fits it, and is not a write.
LEMMA FirstFits ==
    ASSUME NEW at \in Points, at \notin Ended \ {"done"}
    PROVE  /\ FirstStep(at) \in Steps /\ Fits(at, FirstStep(at))
           /\ FirstStep(at) \notin {"seal", "remove"} \cup Writes
           /\ FirstStep(at) = "done" <=> at = "done"
           /\ FirstStep(at) = "env" <=> at = "env"
           /\ FirstStep(at) = "unseal" <=> at = "unseal"
BY DEF Points, Readers, Ended, Steps, Writes, Fits, FirstStep

\* What `config` writes for a text, and what get_dynamic_datadir writes for an old value.
Chosen(p, t) == IF point[p] = "update" THEN Updated(p, t) ELSE WithHome(DefaultHome)

\* A caller of read_config_json either goes on in the home it has read, or has a text to write.
LEMMA UseDictCases ==
    ASSUME NEW p \in Procs, NEW t, UseDict(p, t)
    PROVE  \/ /\ point[p] # "update"
              /\ Goto(p, After(point[p], input[p]))
              /\ home' = [home EXCEPT ![p] = HomeOf(t)]
              /\ homes' = [homes EXCEPT ![p] = @ \cup {HomeOf(t)}]
              /\ UNCHANGED text
           \/ /\ point[p] = "update"
              /\ WriteNext(p, Chosen(p, t))
              /\ UNCHANGED <<home, homes>>
           \/ /\ point[p] # "update" /\ t.home = Portable
              /\ WriteNext(p, Chosen(p, t))
              /\ home' = [home EXCEPT ![p] = DefaultHome]
              /\ homes' = [homes EXCEPT ![p] = @ \cup {DefaultHome}]
<1>1. CASE point[p] = "update"
  BY <1>1 DEF UseDict, Chosen
<1>2. CASE point[p] # "update" /\ t.home = Portable
  BY <1>2 DEF UseDict, UsesHome, Chosen
<1>3. CASE point[p] # "update" /\ t.home # Portable
  BY <1>3 DEF UseDict, UsesHome
<1>4. QED
  BY <1>1, <1>2, <1>3

\* The input of a command is one of those entered; `config` names a home of the model.
LEMMA InputShape ==
    ASSUME TypeOK, NEW p \in Procs
    PROVE  input[p].ns = "config" => input[p].home \in Homes \cup {Empty}
<1>1. \A i \in Commands : i.ns = "config" => i.home \in Homes \cup {Empty}
  BY HomeAssumption DEF Commands, Refused
<1>2. input[p] \in Commands
  BY DEF TypeOK, Commands
<1>3. QED
  BY <1>1, <1>2

\* What a command is going to write is a document that names the home it has set, and if it
\* has set none, the home it has read.
LEMMA ChosenText ==
    ASSUME TypeOK, PlaceInv, NEW p \in Procs, NEW t \in Docs \cup {Blank},
           point[p] = "update" \/ t.home = Portable
    PROVE  /\ Chosen(p, t) \in Docs
           /\ HomeOf(Chosen(p, t)) = IF point[p] = "update" /\ input[p].home # Empty
                                     THEN input[p].home ELSE HomeOf(t)
<1>1. CASE point[p] = "update" /\ input[p].home # Empty
  <2>1. input[p].home \in Homes
    BY <1>1, InputShape DEF PlaceInv
  <2>2. QED
    BY <1>1, <2>1, TextNames, HomeOfText DEF Chosen, Updated
<1>2. CASE point[p] = "update" /\ input[p].home = Empty
  <2>1. Blank.home = NoHome
    BY DEF Blank
  <2>2. QED
    BY <1>2, <2>1, TextNames, HomeOfText DEF Chosen, Updated
<1>3. CASE point[p] # "update"
  BY <1>3, TextNames, HomeOfText, HomeAssumption DEF Chosen
<1>4. QED
  BY <1>1, <1>2, <1>3
-----------------------------------------------------------------------------
(* Steps from place to place. *)

\* One command moves, to a step that fits its place.
Moved(p) == \E at \in Points, s \in Steps :
    /\ Fits(at, s)
    /\ at = "update" => input[p].ns = "config"
    /\ point' = [point EXCEPT ![p] = at]
    /\ step' = [step EXCEPT ![p] = s]

\* The types of the place of a command.
LEMMA PlaceTypes ==
    ASSUME TypeOK, PlaceInv, NEW p \in Procs
    PROVE  /\ point \in [Procs -> Points] /\ step \in [Procs -> Steps]
           /\ point[p] \in Points /\ step[p] \in Steps /\ Fits(point[p], step[p])
           /\ point[p] = "update" => input[p].ns = "config"
BY DEF TypeOK, PlaceInv, Points, Readers, Ended, Steps, Writes, Fits

LEMMA GotoMoves ==
    ASSUME TypeOK, PlaceInv, NEW p \in Procs, point[p] \in Readers,
           Goto(p, After(point[p], input[p]))
    PROVE  Moved(p)
<1> DEFINE at == After(point[p], input[p])
<1>1. at \in Points /\ at \notin Ended \ {"done"} /\ (at = "update" => input[p].ns = "config")
  BY AfterPlace DEF Ended
<1>2. FirstStep(at) \in Steps /\ Fits(at, FirstStep(at))
  BY <1>1, FirstFits
<1>3. point' = [point EXCEPT ![p] = at] /\ step' = [step EXCEPT ![p] = FirstStep(at)]
  BY DEF Goto
<1> HIDE DEF at
<1>4. QED
  BY <1>1, <1>2, <1>3 DEF Moved

LEMMA StayMoves ==
    ASSUME TypeOK, PlaceInv, NEW p \in Procs, NEW s \in Steps, Fits(point[p], s), Stay(p, s)
    PROVE  Moved(p)
<1>1. point[p] \in Points /\ (point[p] = "update" => input[p].ns = "config")
  BY PlaceTypes
<1>2. point' = [point EXCEPT ![p] = point[p]]
  BY PlaceTypes DEF Stay
<1>3. QED
  BY <1>1, <1>2 DEF Stay, Moved

LEMMA EndMoves ==
    ASSUME NEW p \in Procs, NEW how \in Ended, End(p, how)
    PROVE  Moved(p)
<1>1. how \in Points /\ how # "update" /\ "done" \in Steps /\ Fits(how, "done")
  BY DEF Ended, Points, Steps, Writes, Fits, Readers
<1>2. QED
  BY <1>1 DEF End, Moved

\* A step at which config.json is read or written is one of a reader.
LEMMA AtReader ==
    ASSUME PlaceInv, NEW p \in Procs, step[p] \in {"look"} \cup Writes
    PROVE  point[p] \in Readers
BY DEF PlaceInv, Writes

LEMMA WriteFits ==
    ASSUME NEW at \in Readers, NEW s \in {"look"} \cup Writes
    PROVE  s \in Steps /\ Fits(at, s)
BY DEF Readers, Writes, Steps, Fits

\* Using the dict that was read moves the command.
LEMMA UseDictMoves ==
    ASSUME TypeOK, PlaceInv, NEW p \in Procs, NEW t, point[p] \in Readers, UseDict(p, t)
    PROVE  Moved(p)
<1>1. CASE Goto(p, After(point[p], input[p]))
  BY <1>1, GotoMoves
<1>2. CASE WriteNext(p, Chosen(p, t))
  <2>1. Stay(p, "open") /\ "open" \in {"look"} \cup Writes
    BY <1>2 DEF WriteNext, Writes
  <2>2. QED
    BY <2>1, WriteFits, StayMoves
<1>3. QED
  BY <1>1, <1>2, UseDictCases

\* Every step of a command moves it.
LEMMA StepMoves ==
    ASSUME TypeOK, PlaceInv, NEW p \in Procs, Step(p)
    PROVE  Moved(p)
<1>1. CASE Look(p) \/ Fill(p)
  <2>1. point[p] \in Readers
    BY <1>1, AtReader DEF Look, Fill, Writes
  <2>2. QED
    BY <1>1, <2>1, UseDictMoves DEF Look, Fill
<1>2. CASE FirstRun(p)
  <2>1. point[p] \in Readers /\ point[p] = "first"
    BY <1>2, AtReader DEF FirstRun
  <2>2. CASE WriteNext(p, Indented)
    <3>1. Stay(p, "open") /\ "open" \in {"look"} \cup Writes
      BY <2>2 DEF WriteNext, Writes
    <3>2. QED
      BY <2>1, <3>1, WriteFits, StayMoves
  <2>3. CASE Goto(p, After("first", input[p]))
    BY <2>1, <2>3, GotoMoves
  <2>4. QED
    BY <1>2, <2>2, <2>3 DEF FirstRun
<1>3. ASSUME NEW s \in Writes, Stay(p, s), step[p] \in {"look"} \cup Writes PROVE Moved(p)
  BY <1>3, AtReader, WriteFits, StayMoves
<1>4. CASE LookMissing(p)
  BY <1>3, <1>4 DEF LookMissing, Writes
<1>5. CASE Create(p)
  BY <1>3, <1>5 DEF Create, Writes
<1>6. CASE Open(p)
  BY <1>3, <1>6 DEF Open, Writes
<1>7. CASE MakeDir(p)
  <2>1. CASE End(p, "failed")
    BY <2>1, EndMoves DEF Ended
  <2>2. CASE Stay(p, "create")
    BY <1>3, <1>7, <2>2 DEF MakeDir, Writes
  <2>3. QED
    BY <1>7, <2>1, <2>2 DEF MakeDir
<1>8. CASE LookFails(p)
  BY <1>8, EndMoves DEF LookFails, Ended
<1>9. CASE Flush(p)
  BY <1>9, AtReader, GotoMoves DEF Flush, Writes
<1>10. CASE WriteEnv(p)
  <2>1. point[p] = "env" /\ Stay(p, "seal")
    BY <1>10 DEF WriteEnv, PlaceInv
  <2>2. "seal" \in Steps /\ Fits("env", "seal")
    BY DEF Steps, Fits, Readers, Writes
  <2>3. QED
    BY <2>1, <2>2, StayMoves
<1>11. CASE SealEnv(p)
  <2>1. Goto(p, "inline")
    BY <1>11 DEF SealEnv
  <2>2. "inline" \in Points /\ "look" \in Steps /\ Fits("inline", "look")
    BY DEF Points, Readers, Steps, Writes, Fits
  <2>3. QED
    BY <2>1, <2>2 DEF Goto, FirstStep, Moved
<1>12. CASE ReadEnv(p)
  <2>1. point[p] = "unseal"
    BY <1>12 DEF ReadEnv, PlaceInv
  <2>2. "remove" \in Steps /\ Fits("unseal", "remove")
    BY DEF Steps, Fits, Readers, Writes
  <2>3. CASE Stay(p, "remove")
    BY <2>1, <2>2, <2>3, StayMoves
  <2>4. CASE End(p, "lost")
    BY <2>4, EndMoves DEF Ended
  <2>5. QED
    BY <1>12, <2>3, <2>4 DEF ReadEnv
<1>13. CASE RemoveEnv(p) \/ EnvIsGone(p)
  BY <1>13, EndMoves DEF RemoveEnv, EnvIsGone, Ended
<1>14. QED
  BY <1>1, <1>2, <1>4, <1>5, <1>6, <1>7, <1>8, <1>9, <1>10, <1>11, <1>12, <1>13 DEF Step
-----------------------------------------------------------------------------
(* Types. *)

\* The types of what a step of a command may change, its place apart.
FileTypes == config \in Texts /\ hasDir \in BOOLEAN /\ text \in [Procs -> Texts]
HomeTypes == home \in [Procs -> Homes] /\ homes \in [Procs -> SUBSET Homes]
EnvTypes ==
    /\ env \in [Homes -> {"absent", "blank", "mixed"} \cup Procs]
    /\ outHome \in [Procs -> Homes]
    /\ detached \subseteq Procs /\ touched \subseteq Procs
HistoryTypes == disturbed \in BOOLEAN /\ configured \in Homes /\ wiped \in BOOLEAN
PlacesTyped == point \in [Procs -> Points] /\ step \in [Procs -> Steps]
CommandTypes == input \in [Procs -> Commands] /\ alone \in [Procs -> BOOLEAN]
CountTypes == entered \in 0..MaxCommands /\ crashes \in 0..MaxCrashes /\ cutOff \in BOOLEAN

LEMMA TypeParts ==
    TypeOK <=> /\ FileTypes /\ HomeTypes /\ EnvTypes /\ HistoryTypes
               /\ PlacesTyped /\ CommandTypes /\ CountTypes
<1>1. /\ Points = {"idle", "argparse", "update", "app", "control", "first", "plugin",
                   "terminal", "env", "inline", "unseal", "done", "failed", "lost", "killed"}
      /\ Steps = {"look", "mkdir", "create", "fill", "open", "flush", "env", "seal",
                  "unseal", "remove", "done"}
  BY DEF Points, Readers, Ended, Steps, Writes
<1>2. QED
  BY <1>1, Zenon DEF TypeOK, FileTypes, HomeTypes, EnvTypes, HistoryTypes, PlacesTyped,
                     CommandTypes, CountTypes, Commands

\* A command that moves has a step that fits its place; the others stay where they are.
LEMMA MovedPlaces ==
    ASSUME PlacesTyped, PlaceInv, NEW p \in Procs, Moved(p), UNCHANGED input
    PROVE  PlacesTyped' /\ PlaceInv'
<1>1. PICK at \in Points, s \in Steps :
        /\ Fits(at, s)
        /\ at = "update" => input[p].ns = "config"
        /\ point' = [point EXCEPT ![p] = at]
        /\ step' = [step EXCEPT ![p] = s]
  BY DEF Moved
<1>2. PlacesTyped'
  BY <1>1 DEF PlacesTyped
<1>3. ASSUME NEW q \in Procs
      PROVE  /\ Fits(point'[q], step'[q])
             /\ point'[q] = "update" => input'[q].ns = "config"
  BY <1>1, <1>3 DEF PlacesTyped, PlaceInv, Fits, Writes
<1>4. PlaceInv'
  BY <1>3 DEF PlaceInv, Fits, Writes
<1>5. QED
  BY <1>2, <1>4

\* What is read is used in a home, and what is to be written is a text.
LEMMA UseDictTypes ==
    ASSUME TypeOK, PlaceInv, NEW p \in Procs, NEW t \in Docs \cup {Blank}, UseDict(p, t)
    PROVE  HomeTypes' /\ text' \in [Procs -> Texts]
<1>1. HomeTypes /\ text \in [Procs -> Texts]
  BY TypeParts DEF FileTypes
<1>2. HomeOf(t) \in Homes /\ DefaultHome \in Homes
  BY HomeOfText, HomeAssumption
<1>3. point[p] = "update" \/ t.home = Portable => Chosen(p, t) \in Texts
  BY ChosenText, TextNames
<1>4. HomeTypes'
  <2>1. ASSUME NEW h \in Homes, home' = [home EXCEPT ![p] = h],
               homes' = [homes EXCEPT ![p] = @ \cup {h}]
        PROVE  HomeTypes'
    BY <1>1, <2>1 DEF HomeTypes
  <2>2. ASSUME UNCHANGED <<home, homes>> PROVE HomeTypes'
    BY <1>1, <2>2 DEF HomeTypes
  <2>3. QED
    BY <1>2, <2>1, <2>2, UseDictCases
<1>5. text' \in [Procs -> Texts]
  <2>1. ASSUME WriteNext(p, Chosen(p, t)), Chosen(p, t) \in Texts PROVE text' \in [Procs -> Texts]
    BY <1>1, <2>1 DEF WriteNext
  <2>2. QED
    BY <1>1, <1>3, <2>1, UseDictCases
<1>6. QED
  BY <1>4, <1>5

\* Every step of a command keeps the types of the files and of its text.
LEMMA StepFiles ==
    ASSUME TypeOK, PlaceInv, NEW p \in Procs, Step(p)
    PROVE  FileTypes'
<1>1. config \in Texts /\ hasDir \in BOOLEAN /\ text \in [Procs -> Texts]
  BY TypeParts DEF FileTypes
<1>2. Blank \in Texts /\ Indented \in Texts
  BY TextNames
<1>3. CASE Look(p)
  <2>1. config \in Docs \cup {Blank}
    BY <1>1, <1>3, TextShape DEF Look
  <2>2. QED
    BY <1>1, <1>3, <2>1, UseDictTypes DEF Look, FileTypes, files
<1>4. CASE Fill(p)
  <2>1. config' \in Texts
    BY <1>1, <1>2, <1>4, OverlayText DEF Fill
  <2>2. QED
    BY <1>1, <1>4, <2>1, UseDictTypes DEF Fill, FileTypes
<1>5. CASE FirstRun(p)
  BY <1>1, <1>2, <1>5 DEF FirstRun, WriteNext, FileTypes, files
<1>6. CASE Flush(p)
  <2>1. config' \in Texts
    BY <1>1, <1>6, OverlayText DEF Flush
  <2>2. QED
    BY <1>1, <1>2, <1>6, <2>1 DEF Flush, FileTypes
<1>7. CASE MakeDir(p)
  BY <1>1, <1>7 DEF MakeDir, FileTypes
<1>8. CASE Create(p) \/ Open(p)
  BY <1>1, <1>2, <1>8 DEF Create, Open, FileTypes
<1>9. CASE LookFails(p) \/ LookMissing(p) \/ ReadEnv(p) \/ EnvIsGone(p)
  BY <1>1, <1>9 DEF LookFails, LookMissing, ReadEnv, EnvIsGone, FileTypes, files
<1>10. CASE WriteEnv(p) \/ SealEnv(p) \/ RemoveEnv(p)
  BY <1>1, <1>10 DEF WriteEnv, SealEnv, RemoveEnv, FileTypes
<1>11. QED
  BY <1>3, <1>4, <1>5, <1>6, <1>7, <1>8, <1>9, <1>10 DEF Step

\* ... the types of its homes and of the history ...
LEMMA StepHomes ==
    ASSUME TypeOK, PlaceInv, NEW p \in Procs, Step(p)
    PROVE  HomeTypes' /\ HistoryTypes'
<1>1. HomeTypes /\ HistoryTypes /\ config \in Texts
  BY TypeParts DEF FileTypes
<1>2. CASE Look(p)
  <2>1. config \in Docs \cup {Blank}
    BY <1>1, <1>2, TextShape DEF Look
  <2>2. HomeTypes'
    BY <1>2, <2>1, UseDictTypes DEF Look
  <2>3. QED
    BY <1>1, <1>2, <2>2 DEF Look, HistoryTypes, Disturb
<1>3. CASE Fill(p)
  <2>1. HomeTypes'
    BY <1>3, UseDictTypes DEF Fill
  <2>2. QED
    BY <1>1, <1>3, <2>1 DEF Fill, HistoryTypes, Disturb
<1>4. CASE Flush(p)
  <2>1. configured' \in Homes
    <3>1. CASE point[p] = "update" /\ input[p].home # Empty
      <4>1. input[p].home \in Homes
        BY <3>1, InputShape DEF PlaceInv
      <4>2. QED
        BY <1>4, <3>1, <4>1 DEF Flush
    <3>2. CASE ~(point[p] = "update" /\ input[p].home # Empty)
      BY <1>1, <1>4, <3>2 DEF Flush, HistoryTypes
    <3>3. QED
      BY <3>1, <3>2
  <2>2. QED
    BY <1>1, <1>4, <2>1 DEF Flush, HomeTypes, HistoryTypes
<1>5. CASE LookFails(p) \/ LookMissing(p) \/ FirstRun(p)
  BY <1>1, <1>5 DEF LookFails, LookMissing, FirstRun, Disturb, HomeTypes, HistoryTypes
<1>6. CASE MakeDir(p) \/ Create(p) \/ Open(p) \/ ReadEnv(p) \/ EnvIsGone(p)
  BY <1>1, <1>6 DEF MakeDir, Create, Open, ReadEnv, EnvIsGone, HomeTypes, HistoryTypes, history
<1>7. CASE WriteEnv(p) \/ SealEnv(p) \/ RemoveEnv(p)
  BY <1>1, <1>7 DEF WriteEnv, SealEnv, RemoveEnv, HomeTypes, HistoryTypes
<1>8. QED
  BY <1>2, <1>3, <1>4, <1>5, <1>6, <1>7 DEF Step

\* ... and those of the environments.
LEMMA StepEnv ==
    ASSUME TypeOK, NEW p \in Procs, Step(p)
    PROVE  EnvTypes'
<1>1. EnvTypes /\ home[p] \in Homes
  BY TypeParts DEF HomeTypes
<1>2. \A h : Others(p, h) \subseteq Procs
  BY DEF Others, Sealed
<1>3. CASE WriteEnv(p)
  BY <1>1, <1>2, <1>3 DEF WriteEnv, EnvTypes
<1>4. CASE SealEnv(p)
  <2>1. outHome[p] \in Homes
    BY <1>1 DEF EnvTypes
  <2>2. CASE p \in detached
    BY <1>1, <1>4, <2>2 DEF SealEnv, EnvTypes
  <2>3. CASE p \notin detached
    <3>1. PICK left \in {p, "mixed"} : env' = [env EXCEPT ![outHome[p]] = left]
      BY <1>4, <2>3 DEF SealEnv
    <3>2. touched' = touched \cup Others(p, outHome[p]) /\ UNCHANGED <<outHome, detached>>
      BY <1>4, <2>3 DEF SealEnv
    <3>3. QED
      BY <1>1, <1>2, <2>1, <3>1, <3>2 DEF EnvTypes
  <2>4. QED
    BY <2>2, <2>3
<1>5. CASE RemoveEnv(p)
  BY <1>1, <1>2, <1>5 DEF RemoveEnv, EnvTypes
<1>6. CASE Look(p) \/ LookFails(p) \/ LookMissing(p) \/ FirstRun(p) \/ ReadEnv(p) \/ EnvIsGone(p)
  BY <1>1, <1>6 DEF Look, LookFails, LookMissing, FirstRun, ReadEnv, EnvIsGone, EnvTypes, files,
                    history
<1>7. CASE MakeDir(p) \/ Create(p) \/ Fill(p) \/ Open(p) \/ Flush(p)
  BY <1>1, <1>7 DEF MakeDir, Create, Fill, Open, Flush, EnvTypes, history
<1>8. QED
  BY <1>3, <1>4, <1>5, <1>6, <1>7 DEF Step

\* A step of a command leaves what was entered, and who is alone, as it is.
LEMMA StepKeeps ==
    ASSUME NEW p \in Procs, Step(p)
    PROVE  UNCHANGED <<input, alone, entered, crashes, cutOff>>
<1>1. CASE Look(p) \/ LookFails(p) \/ LookMissing(p) \/ FirstRun(p) \/ Fill(p) \/ Flush(p)
  BY <1>1 DEF Look, LookFails, LookMissing, FirstRun, Fill, Flush
<1>2. CASE MakeDir(p) \/ Create(p) \/ Open(p) \/ ReadEnv(p) \/ EnvIsGone(p)
  BY <1>2 DEF MakeDir, Create, Open, ReadEnv, EnvIsGone, history
<1>3. CASE WriteEnv(p) \/ SealEnv(p) \/ RemoveEnv(p)
  BY <1>3 DEF WriteEnv, SealEnv, RemoveEnv
<1>4. QED
  BY <1>1, <1>2, <1>3 DEF Step

\* The types and the places, for every step.
TypeInv == TypeOK /\ PlaceInv

LEMMA StepType == ASSUME TypeInv, NEW p \in Procs, Step(p) PROVE TypeInv'
<1>1. UNCHANGED <<input, alone, entered, crashes, cutOff>>
  BY StepKeeps
<1>2. Moved(p) /\ PlacesTyped /\ CommandTypes /\ CountTypes
  BY StepMoves, TypeParts DEF TypeInv
<1>3. PlacesTyped' /\ PlaceInv'
  BY <1>1, <1>2, MovedPlaces DEF TypeInv
<1>4. CommandTypes' /\ CountTypes'
  BY <1>1, <1>2 DEF CommandTypes, CountTypes
<1>5. FileTypes' /\ HomeTypes' /\ HistoryTypes' /\ EnvTypes'
  BY StepFiles, StepHomes, StepEnv DEF TypeInv
<1>6. TypeOK'
  BY <1>3, <1>4, <1>5, TypeParts, PTL
<1>7. QED
  BY <1>3, <1>6 DEF TypeInv

LEMMA EnterType ==
    ASSUME TypeInv, NEW p \in Procs, NEW argv \in Lines, Enter(p, argv)
    PROVE  TypeInv'
<1>1. /\ FileTypes /\ HomeTypes /\ EnvTypes /\ HistoryTypes
      /\ PlacesTyped /\ CommandTypes /\ CountTypes
  BY TypeParts DEF TypeInv
<1>2. /\ point' = [point EXCEPT ![p] = "argparse"] /\ step' = [step EXCEPT ![p] = "look"]
      /\ input' = [input EXCEPT ![p] = ParseArgs(argv)]
  BY DEF Enter, Goto, FirstStep
<1>3. PlacesTyped'
  BY <1>1, <1>2 DEF PlacesTyped, Points, Readers, Steps
<1>4. PlaceInv'
  BY <1>1, <1>2 DEF TypeInv, PlaceInv, PlacesTyped, CommandTypes, Readers, Writes
<1>5. CommandTypes'
  <2>1. input' \in [Procs -> Commands]
    BY <1>1, <1>2 DEF CommandTypes, Commands
  <2>2. alone' = [q \in Procs |-> IF q = p THEN Active = {} ELSE alone[q] /\ q \notin Active]
    BY DEF Enter
  <2>3. \A q \in Procs :
          (IF q = p THEN Active = {} ELSE alone[q] /\ q \notin Active) \in BOOLEAN
    OBVIOUS
  <2>4. alone' \in [Procs -> BOOLEAN]
    BY <2>2, <2>3, Zenon
  <2>5. QED
    BY <2>1, <2>4 DEF CommandTypes
<1>6. CountTypes'
  BY <1>1, HomeAssumption DEF CountTypes, Enter
<1>7. FileTypes' /\ HistoryTypes'
  BY <1>1 DEF Enter, FileTypes, HistoryTypes, files
<1>8. HomeTypes' /\ EnvTypes'
  BY <1>1, HomeAssumption DEF Enter, HomeTypes, EnvTypes, files
<1>9. TypeOK'
  BY <1>3, <1>5, <1>6, <1>7, <1>8, TypeParts, PTL
<1>10. QED
  BY <1>4, <1>9 DEF TypeInv

LEMMA CrashType == ASSUME TypeInv, NEW p \in Procs, Crash(p) PROVE TypeInv'
<1>1. /\ FileTypes /\ HomeTypes /\ EnvTypes /\ HistoryTypes
      /\ PlacesTyped /\ CommandTypes /\ CountTypes
  BY TypeParts DEF TypeInv
<1>2. Moved(p) /\ UNCHANGED input
  BY EndMoves DEF Crash, Ended
<1>3. PlacesTyped' /\ PlaceInv'
  BY <1>1, <1>2, MovedPlaces DEF TypeInv
<1>4. FileTypes' /\ HomeTypes' /\ EnvTypes' /\ CommandTypes'
  BY <1>1 DEF Crash, FileTypes, HomeTypes, EnvTypes, CommandTypes, files, history
<1>5. HistoryTypes' /\ CountTypes'
  <2>1. cutOff' \in BOOLEAN
    BY Zenon DEF Crash
  <2>2. QED
    BY <1>1, <2>1, HomeAssumption DEF Crash, HistoryTypes, CountTypes, history
<1>6. TypeOK'
  BY <1>3, <1>4, <1>5, TypeParts, PTL
<1>7. QED
  BY <1>3, <1>6 DEF TypeInv

LEMMA InitType == Init => TypeInv
<1>1. SUFFICES ASSUME Init PROVE TypeInv
  OBVIOUS
<1>2. config \in Texts /\ hasDir \in BOOLEAN
  BY <1>1, TextNames DEF Init
<1>3. FileTypes
  BY <1>1, <1>2, TextNames DEF Init, FileTypes
<1>4. HomeTypes /\ EnvTypes /\ HistoryTypes
  BY <1>1, HomeOfText, HomeAssumption DEF Init, HomeTypes, EnvTypes, HistoryTypes
<1>5. PlacesTyped /\ CountTypes
  <2>1. PlacesTyped
    BY <1>1 DEF Init, PlacesTyped, Points, Ended, Steps
  <2>2. entered \in 0..MaxCommands /\ crashes \in 0..MaxCrashes
    BY <1>1, HomeAssumption DEF Init
  <2>3. cutOff \in BOOLEAN
    BY <1>1, Zenon DEF Init
  <2>4. QED
    BY <2>1, <2>2, <2>3 DEF CountTypes
<1>6. CommandTypes
  BY <1>1 DEF Init, CommandTypes, Commands
<1>7. PlaceInv
  BY <1>1 DEF Init, PlaceInv, Readers, Ended
<1>8. QED
  BY <1>3, <1>4, <1>5, <1>6, <1>7, TypeParts DEF TypeInv

LEMMA TypeStep == TypeInv /\ [Next]_vars => TypeInv'
<1>1. SUFFICES ASSUME TypeInv, [Next]_vars PROVE TypeInv'
  OBVIOUS
<1>2. CASE UNCHANGED vars
  BY <1>1, <1>2 DEF TypeInv, TypeOK, PlaceInv, vars, files, locals, history
<1>3. CASE Next
  BY <1>1, <1>3, StepType, EnterType, CrashType DEF Next
<1>4. QED
  BY <1>1, <1>2, <1>3

LEMMA Typed == Spec => []TypeInv
BY InitType, TypeStep, PTL DEF Spec

\* For any commands, command lines and homes: the types, of what is parsed, read and written.
THEOREM TypeCorrect == Spec => []TypeOK
<1>1. TypeInv => TypeOK
  BY DEF TypeInv
<1>2. QED
  BY <1>1, Typed, PTL
-----------------------------------------------------------------------------
(* The directory of config.json. *)

\* What a step with the environments does to the other variables: nothing, but for the place.
EnvStep(p) == WriteEnv(p) \/ SealEnv(p) \/ ReadEnv(p) \/ RemoveEnv(p) \/ EnvIsGone(p)

LEMMA EnvStepQuiet ==
    ASSUME TypeInv, NEW p \in Procs, EnvStep(p)
    PROVE  /\ UNCHANGED <<config, hasDir, text, home, homes, disturbed, configured, wiped>>
           /\ step[p] \notin {"look"} \cup Writes /\ step'[p] \notin Writes
           /\ \A q \in Procs \ {p} : step'[q] = step[q] /\ point'[q] = point[q]
<1>1. PlacesTyped
  BY TypeParts DEF TypeInv
<1>2. CASE WriteEnv(p) \/ RemoveEnv(p)
  BY <1>1, <1>2 DEF WriteEnv, RemoveEnv, Stay, End, PlacesTyped, Writes
<1>3. CASE SealEnv(p)
  BY <1>1, <1>3 DEF SealEnv, Goto, FirstStep, PlacesTyped, Writes
<1>4. CASE ReadEnv(p) \/ EnvIsGone(p)
  BY <1>1, <1>4 DEF ReadEnv, EnvIsGone, Stay, End, PlacesTyped, Writes, files, history
<1>5. QED
  BY <1>2, <1>3, <1>4 DEF EnvStep

\* The step of another command stays when one moves.
LEMMA OthersStay ==
    ASSUME TypeInv, NEW p \in Procs, Step(p) \/ Crash(p)
    PROVE  /\ \A q \in Procs \ {p} : step'[q] = step[q] /\ point'[q] = point[q]
           /\ Moved(p) /\ UNCHANGED input
<1>1. PlacesTyped
  BY TypeParts DEF TypeInv
<1>2. Moved(p)
  BY StepMoves, EndMoves DEF TypeInv, Crash, Ended
<1>3. UNCHANGED input
  BY StepKeeps DEF Crash
<1>4. QED
  BY <1>1, <1>2, <1>3 DEF Moved, PlacesTyped

\* A step of one command, as far as the directory of config.json goes.
LEMMA DirStep ==
    ASSUME TypeInv, DirInv, NEW p \in Procs, Step(p)
    PROVE  DirInv'
<1>1. SUFFICES ASSUME ~hasDir' PROVE DirInv'
  BY DEF DirInv
<1>2. CASE EnvStep(p)
  BY <1>2, EnvStepQuiet DEF DirInv, Writes
<1>3. CASE ~EnvStep(p)
  <2>1. CASE MakeDir(p) /\ hasDir
    BY <1>1, <2>1 DEF MakeDir
  <2>2. CASE MakeDir(p) /\ ~hasDir
    BY <1>1, <2>2 DEF MakeDir
  <2>3. ~MakeDir(p) => UNCHANGED hasDir
    BY <1>3 DEF EnvStep, Step, Look, LookFails, LookMissing, Create, Fill, Open, Flush, FirstRun,
                files
  <2>4. CASE ~MakeDir(p)
    <3>1. ~hasDir /\ config = NotThere /\ config.kind = "absent"
      BY <1>1, <2>3, <2>4 DEF DirInv, NotThere
    <3>2. step[p] \notin {"create", "fill", "open", "flush"}
      BY <3>1 DEF DirInv
    <3>3. LookMissing(p)
      BY <1>3, <2>4, <3>1, <3>2 DEF EnvStep, Step, Look, LookFails, Create, Fill, Open, Flush,
                                    FirstRun
    <3>4. config' = config /\ step'[p] = "mkdir"
      BY <3>3, TypeParts DEF LookMissing, Stay, TypeInv, PlacesTyped, files
    <3>5. QED
      BY <3>1, <3>4, OthersStay DEF DirInv
  <2>5. QED
    BY <2>1, <2>2, <2>4
<1>4. QED
  BY <1>2, <1>3

LEMMA DirNext == TypeInv /\ DirInv /\ [Next]_vars => DirInv'
<1>1. SUFFICES ASSUME TypeInv, DirInv, [Next]_vars PROVE DirInv'
  OBVIOUS
<1>2. ASSUME NEW p \in Procs, NEW argv \in Lines, Enter(p, argv) PROVE DirInv'
  <2>1. \A q \in Procs : step'[q] = IF q = p THEN "look" ELSE step[q]
    BY <1>1, <1>2, TypeParts DEF Enter, Goto, FirstStep, TypeInv, PlacesTyped
  <2>2. QED
    BY <1>1, <1>2, <2>1 DEF Enter, DirInv, files
<1>3. ASSUME NEW p \in Procs, Crash(p) PROVE DirInv'
  <2>1. \A q \in Procs : step'[q] = IF q = p THEN "done" ELSE step[q]
    BY <1>1, <1>3, TypeParts DEF Crash, End, TypeInv, PlacesTyped
  <2>2. QED
    BY <1>1, <1>3, <2>1 DEF Crash, DirInv, files
<1>4. CASE UNCHANGED vars
  BY <1>1, <1>4 DEF DirInv, vars, files, locals
<1>5. QED
  BY <1>1, <1>2, <1>3, <1>4, DirStep DEF Next

LEMMA DirKept == Spec => []DirInv
<1>1. Init => DirInv
  BY DEF Init, DirInv
<1>2. QED
  BY <1>1, Typed, DirNext, PTL DEF Spec
-----------------------------------------------------------------------------
(* What config.json says while no access of it is disturbed and no write cut off. *)

\* Once disturbed, always disturbed.
LEMMA Disturbance ==
    ASSUME NEW p \in Procs, Step(p), ~disturbed'
    PROVE  ~disturbed
<1>1. CASE Look(p) \/ LookFails(p) \/ LookMissing(p) \/ Fill(p) \/ FirstRun(p)
  BY <1>1 DEF Look, LookFails, LookMissing, Fill, FirstRun, Disturb
<1>2. CASE MakeDir(p) \/ Create(p) \/ Open(p) \/ Flush(p) \/ ReadEnv(p) \/ EnvIsGone(p)
  BY <1>2 DEF MakeDir, Create, Open, Flush, ReadEnv, EnvIsGone, history
<1>3. CASE WriteEnv(p) \/ SealEnv(p) \/ RemoveEnv(p)
  BY <1>3 DEF WriteEnv, SealEnv, RemoveEnv
<1>4. QED
  BY <1>1, <1>2, <1>3 DEF Step

\* What is left when p has stepped from no write, or before the write, to none.
LEMMA Retreat ==
    ASSUME TypeInv, InTurn, NEW p \in Procs,
           UNCHANGED <<config, hasDir, configured, wiped>>,
           \A q \in Procs \ {p} : /\ step'[q] = step[q] /\ point'[q] = point[q]
                                  /\ text'[q] = text[q] /\ input'[q] = input[q],
           step[p] \notin {"create", "fill", "flush"}, step'[p] \notin Writes
    PROVE  InTurn'
<1>1. \A q \in Procs : q \in Writing' => q \in Writing /\ q # p
  BY DEF Writing, Writes
<1>2. (\A q \in Procs : step'[q] \notin {"create", "fill", "flush"}) => Settled'
  <2>1. (\A q \in Procs : step'[q] \notin {"create", "fill", "flush"}) =>
          (\A q \in Procs : step[q] \notin {"create", "fill", "flush"})
    OBVIOUS
  <2>2. Settled => Settled'
    BY DEF Settled, HomeOf
  <2>3. QED
    BY <2>1, <2>2 DEF InTurn
<1>3. ASSUME NEW q \in Procs PROVE Held(q)'
  <2>1. CASE q = p
    BY <2>1 DEF Held, Writes
  <2>2. CASE q # p
    <3>1. Held(q) /\ HomeOf(text[q])' = HomeOf(text[q]) /\ Aim(q)' = Aim(q)
      BY <2>2 DEF InTurn, HomeOf, Aim
    <3>2. QED
      BY <2>2, <3>1 DEF Held
  <2>3. QED
    BY <2>1, <2>2
<1>4. \A q, r \in Writing' : q = r
  BY <1>1 DEF InTurn, Writing
<1>5. QED
  BY <1>2, <1>3, <1>4 DEF InTurn

\* What is left when p has stepped and nobody else is writing.
LEMMA OneWriter ==
    ASSUME NEW p \in Procs, Held(p)', ~wiped',
           \A q \in Procs \ {p} : step'[q] \notin Writes,
           step'[p] \notin {"create", "fill", "flush"} => Settled'
    PROVE  InTurn'
<1>1. Writing' \subseteq {p}
  BY DEF Writing, Writes
<1>2. \A q \in Procs \ {p} : Held(q)'
  BY DEF Held, Writes
<1>3. QED
  BY <1>1, <1>2 DEF InTurn

\* A look that is not disturbed finds a document, and the home that is set.
LEMMA FoundInTurn ==
    ASSUME TypeInv, InTurn, NEW p \in Procs, step[p] = "look", HasOpen \ {p} = {},
           config.kind \in {"blank", "doc"}
    PROVE  /\ config \in Docs /\ config # Blank /\ hasDir /\ HomeOf(config) = configured
           /\ \A q \in Procs : step[q] \notin {"create", "fill", "flush"}
<1>1. config \in Docs \cup {Blank} /\ config # NotThere
  BY TypeParts, TextShape DEF TypeInv, FileTypes, NotThere
<1>2. \A q \in Procs : step[q] \notin {"create", "fill", "flush"}
  BY <1>1 DEF HasOpen, InTurn, Held
<1>3. Settled
  BY <1>2 DEF InTurn
<1>4. Blank \notin Docs
  BY DocShape DEF Blank
<1>5. QED
  BY <1>1, <1>2, <1>3, <1>4 DEF Settled

\* A step to the next place at which config.json is read is not a write.
LEMMA GotoStep ==
    ASSUME TypeInv, NEW p \in Procs, point[p] \in Readers,
           Goto(p, After(point[p], input[p]))
    PROVE  step'[p] \notin Writes
<1> DEFINE at == After(point[p], input[p])
<1>1. at \in Points /\ at \notin Ended \ {"done"}
  BY AfterPlace DEF Ended
<1>2. FirstStep(at) \notin Writes
  BY <1>1, FirstFits
<1>3. step' = [step EXCEPT ![p] = FirstStep(at)] /\ PlacesTyped
  BY TypeParts DEF Goto, TypeInv
<1> HIDE DEF at
<1>4. QED
  BY <1>2, <1>3 DEF PlacesTyped

\* The text that is chosen after an undisturbed look, or after the file was made.
LEMMA ChosenInTurn ==
    ASSUME TypeInv, NEW p \in Procs, NEW t \in Docs \cup {Blank}, HomeOf(t) = configured,
           point[p] = "update" \/ t.home = Portable, point[p] # "first",
           WriteNext(p, Chosen(p, t)), UNCHANGED <<input, configured>>
    PROVE  step'[p] = "open" /\ Held(p)'
<1>1. /\ Chosen(p, t) \in Docs
      /\ HomeOf(Chosen(p, t)) = IF point[p] = "update" /\ input[p].home # Empty
                                THEN input[p].home ELSE HomeOf(t)
  BY ChosenText DEF TypeInv
<1>2. step'[p] = "open" /\ point' = point /\ text'[p] = Chosen(p, t)
  BY TypeParts DEF TypeInv, PlacesTyped, FileTypes, WriteNext, Stay
<1>3. HomeOf(text[p])' = HomeOf(Chosen(p, t))
  BY <1>2 DEF HomeOf
<1>4. QED
  BY <1>1, <1>2, <1>3 DEF Held, Aim

LEMMA LookInTurn ==
    ASSUME TypeInv, InTurn, NEW p \in Procs, Look(p), ~disturbed'
    PROVE  InTurn'
<1>1. /\ config \in Docs /\ config # Blank /\ hasDir /\ HomeOf(config) = configured
      /\ \A q \in Procs : step[q] \notin {"create", "fill", "flush"}
  BY FoundInTurn DEF Look, Disturb
<1>2. /\ UseDict(p, config) /\ point[p] # "first" /\ step[p] = "look"
      /\ UNCHANGED <<config, hasDir, input, configured, wiped>>
  BY DEF Look, files
<1>3. point[p] \in Readers
  BY <1>2, AtReader DEF TypeInv
<1>4. \A q \in Procs \ {p} : step'[q] = step[q] /\ point'[q] = point[q]
  BY OthersStay DEF Step
<1>5. CASE Goto(p, After(point[p], input[p])) /\ UNCHANGED text
  BY <1>2, <1>3, <1>4, <1>5, GotoStep, Retreat
<1>6. CASE (point[p] = "update" \/ config.home = Portable) /\ WriteNext(p, Chosen(p, config))
  <2>1. step'[p] = "open" /\ Held(p)'
    BY <1>1, <1>2, <1>6, ChosenInTurn
  <2>2. \A q \in Procs \ {p} : step'[q] \notin Writes
    BY <1>4, <2>1 DEF Look, Disturb, Writing, Writes
  <2>3. ~wiped' /\ Settled'
    BY <1>1, <1>2 DEF InTurn, Settled, HomeOf
  <2>4. QED
    BY <2>1, <2>2, <2>3, OneWriter
<1>7. QED
  BY <1>2, <1>5, <1>6, UseDictCases

LEMMA FillInTurn ==
    ASSUME TypeInv, DirInv, InTurn, NEW p \in Procs, Fill(p), ~disturbed'
    PROVE  InTurn'
<1>1. step[p] = "fill" /\ config = Blank /\ hasDir /\ configured = DefaultHome
  BY DEF Fill, InTurn, Held, DirInv
<1>2. /\ UseDict(p, Blank) /\ config' = Indented
      /\ UNCHANGED <<hasDir, input, configured, wiped>>
  BY <1>1, OverlayText, TextNames DEF Fill
<1>3. ~wiped' /\ Settled'
  BY <1>1, <1>2, TextNames, HomeOfText DEF InTurn, Settled, HomeOf
<1>4. point[p] \in Readers
  BY <1>1, AtReader DEF TypeInv, Writes
<1>5. \A q \in Procs \ {p} : step'[q] = step[q]
  BY OthersStay DEF Step
<1>6. \A q \in Procs \ {p} : step'[q] \notin Writes
  BY <1>1, <1>5 DEF InTurn, Writing, Writes
<1>7. CASE Goto(p, After(point[p], input[p]))
  <2>1. step'[p] \notin Writes
    BY <1>4, <1>7, GotoStep
  <2>2. QED
    BY <1>3, <1>6, <2>1, OneWriter DEF Held, Writes
<1>8. CASE point[p] = "update" /\ WriteNext(p, Chosen(p, Blank))
  <2>1. HomeOf(Blank) = configured
    BY <1>1, HomeOfText
  <2>2. Held(p)'
    BY <1>2, <1>8, <2>1, ChosenInTurn
  <2>3. QED
    BY <1>3, <1>6, <2>2, OneWriter
<1>9. Blank.home # Portable
  BY HomeAssumption DEF Blank
<1>10. QED
  BY <1>2, <1>7, <1>8, <1>9, UseDictCases

LEMMA FlushInTurn ==
    ASSUME TypeInv, DirInv, InTurn, NEW p \in Procs, Flush(p)
    PROVE  InTurn'
<1>1. /\ step[p] = "flush" /\ config = Blank /\ hasDir
      /\ point[p] # "first" /\ text[p] \in Docs /\ HomeOf(text[p]) = Aim(p)
  BY DEF Flush, InTurn, Held, DirInv
<1>2. config' = text[p]
  BY <1>1, OverlayText, TextNames DEF Flush
<1>3. UNCHANGED hasDir /\ configured' = Aim(p) /\ ~wiped'
  BY <1>1 DEF Flush, Aim, InTurn
<1>4. Settled'
  BY <1>1, <1>2, <1>3 DEF Settled, HomeOf
<1>5. point[p] \in Readers
  BY <1>1, AtReader DEF TypeInv, Writes
<1>6. \A q \in Procs \ {p} : step'[q] \notin Writes
  BY <1>1, OthersStay DEF Step, InTurn, Writing, Writes
<1>7. step'[p] \notin Writes
  BY <1>5, GotoStep DEF Flush
<1>8. QED
  BY <1>3, <1>4, <1>6, <1>7, OneWriter DEF Held, Writes

\* Making the directory and the file, and opening the file.
LEMMA WriteBegins ==
    ASSUME TypeInv, DirInv, InTurn, NEW p \in Procs, ~disturbed',
           LookMissing(p) \/ MakeDir(p) \/ Create(p) \/ Open(p)
    PROVE  InTurn'
<1>1. PlacesTyped /\ config \in Texts
  BY TypeParts DEF TypeInv, FileTypes
<1>2. \A q \in Procs \ {p} : step'[q] = step[q] /\ point'[q] = point[q]
  BY OthersStay DEF Step
<1>3. CASE LookMissing(p)
  <2>1. config = NotThere /\ UNCHANGED <<config, hasDir, configured, wiped>>
    BY <1>1, <1>3, TextShape DEF LookMissing, files
  <2>2. step'[p] = "mkdir" /\ step[p] = "look"
    BY <1>1, <1>3 DEF LookMissing, Stay, PlacesTyped
  <2>3. \A q \in Procs \ {p} : step'[q] \notin Writes
    BY <1>2, <1>3, <2>2 DEF LookMissing, Disturb, Writing, Writes
  <2>4. Settled
    BY <1>2, <2>2, <2>3 DEF InTurn, Writes
  <2>5. ~wiped' /\ Settled' /\ Held(p)'
    BY <2>1, <2>2, <2>4 DEF InTurn, Settled, HomeOf, Held
  <2>6. QED
    BY <2>3, <2>5, OneWriter
<1>4. CASE ~LookMissing(p)
  <2>1. step[p] \in Writes /\ UNCHANGED <<text, input, configured, wiped>>
    BY <1>4 DEF MakeDir, Create, Open, Writes, history
  <2>2. \A q \in Procs \ {p} : step[q] \notin Writes /\ step'[q] \notin Writes
    BY <1>2, <2>1 DEF InTurn, Writing, Writes
  <2>3. ~wiped'
    BY <2>1 DEF InTurn
  <2>4. CASE MakeDir(p) /\ hasDir
    <3>1. step'[p] = "done" /\ step[p] = "mkdir" /\ UNCHANGED <<config, hasDir>>
      BY <1>1, <2>4 DEF MakeDir, End, PlacesTyped
    <3>2. QED
      BY <1>2, <2>1, <3>1, Retreat DEF Writes
  <2>5. CASE MakeDir(p) /\ ~hasDir
    <3>1. step'[p] = "create" /\ step[p] = "mkdir" /\ hasDir' /\ config' = config
      BY <1>1, <2>5 DEF MakeDir, Stay, PlacesTyped
    <3>2. config = NotThere /\ Settled
      BY <2>2, <2>5, <3>1 DEF DirInv, InTurn, Writes
    <3>3. configured = DefaultHome
      BY <3>2, HomeOfText DEF Settled
    <3>4. Held(p)'
      BY <2>1, <3>1, <3>2, <3>3 DEF Held
    <3>5. QED
      BY <2>2, <2>3, <3>1, <3>4, OneWriter
  <2>6. CASE Create(p)
    <3>1. step'[p] = "fill" /\ config' = Blank /\ configured' = DefaultHome
      BY <1>1, <2>1, <2>6 DEF Create, Stay, PlacesTyped, InTurn, Held
    <3>2. QED
      BY <2>2, <2>3, <3>1, OneWriter DEF Held
  <2>7. CASE Open(p)
    <3>1. step[p] = "open" /\ step'[p] = "flush" /\ config' = Blank /\ point' = point
      BY <1>1, <2>7 DEF Open, Stay, PlacesTyped
    <3>2. point[p] # "first" /\ text[p] \in Docs /\ HomeOf(text[p]) = Aim(p)
      BY <3>1 DEF InTurn, Held
    <3>3. HomeOf(text[p])' = HomeOf(text[p]) /\ Aim(p)' = Aim(p)
      BY <2>1, <3>1 DEF HomeOf, Aim
    <3>4. Held(p)'
      BY <2>1, <3>1, <3>2, <3>3 DEF Held
    <3>5. QED
      BY <2>2, <2>3, <3>1, <3>4, OneWriter
  <2>8. QED
    BY <1>4, <2>4, <2>5, <2>6, <2>7
<1>5. QED
  BY <1>3, <1>4

LEMMA WriteStep ==
    ASSUME TypeInv, DirInv, WriteInv, NEW p \in Procs, Step(p)
    PROVE  WriteInv'
<1>1. SUFFICES ASSUME ~disturbed', ~cutOff' PROVE InTurn'
  BY DEF WriteInv
<1>2. InTurn
  BY <1>1, Disturbance, StepKeeps DEF WriteInv
<1>3. PlacesTyped
  BY TypeParts DEF TypeInv
<1>4. /\ \A q \in Procs \ {p} : step'[q] = step[q] /\ point'[q] = point[q]
      /\ UNCHANGED input
  BY OthersStay
<1>5. CASE EnvStep(p)
  BY <1>2, <1>4, <1>5, EnvStepQuiet, Retreat DEF Writes
<1>6. CASE LookFails(p)
  <2>1. /\ step[p] = "look" /\ step'[p] = "done"
        /\ UNCHANGED <<config, hasDir, text, configured, wiped>>
    BY <1>3, <1>6 DEF LookFails, End, PlacesTyped, files
  <2>2. QED
    BY <1>2, <1>4, <2>1, Retreat DEF Writes
<1>7. CASE FirstRun(p)
  <2>1. /\ step[p] = "look" /\ point[p] = "first" /\ point[p] \in Readers
        /\ UNCHANGED <<config, hasDir, configured, wiped>>
    BY <1>7, AtReader DEF FirstRun, TypeInv, files
  <2>2. config # Blank
    BY <1>1, <1>2, <1>7, FoundInTurn DEF FirstRun, Disturb
  <2>3. Goto(p, After(point[p], input[p])) /\ UNCHANGED text
    BY <1>7, <2>1, <2>2 DEF FirstRun
  <2>4. QED
    BY <1>2, <1>4, <2>1, <2>3, GotoStep, Retreat
<1>8. QED
  BY <1>1, <1>2, <1>5, <1>6, <1>7, LookInTurn, FillInTurn, FlushInTurn, WriteBegins
     DEF Step, EnvStep

LEMMA WriteNextInv == TypeInv /\ DirInv /\ WriteInv /\ [Next]_vars => WriteInv'
<1>1. SUFFICES ASSUME TypeInv, DirInv, WriteInv, [Next]_vars PROVE WriteInv'
  OBVIOUS
<1>2. PlacesTyped /\ CommandTypes
  BY <1>1, TypeParts DEF TypeInv
<1>3. ASSUME NEW p \in Procs, NEW argv \in Lines, Enter(p, argv) PROVE WriteInv'
  <2>1. SUFFICES ASSUME ~disturbed', ~cutOff' PROVE InTurn'
    BY DEF WriteInv
  <2>2. InTurn /\ UNCHANGED <<config, hasDir, configured, wiped, text>>
    BY <1>1, <1>3, <2>1 DEF WriteInv, Enter, files
  <2>3. step'[p] = "look" /\ step[p] \notin Writes
    BY <1>1, <1>2, <1>3 DEF Enter, Goto, FirstStep, PlacesTyped, Active, TypeInv, PlaceInv,
                            Readers, Writes
  <2>4. \A q \in Procs \ {p} :
          step'[q] = step[q] /\ point'[q] = point[q] /\ input'[q] = input[q]
    BY <1>2, <1>3 DEF Enter, Goto, PlacesTyped, CommandTypes
  <2>5. QED
    BY <1>1, <2>2, <2>3, <2>4, Retreat DEF Writes
<1>4. ASSUME NEW p \in Procs, Crash(p) PROVE WriteInv'
  <2>1. SUFFICES ASSUME ~disturbed', ~cutOff' PROVE InTurn'
    BY DEF WriteInv
  <2>2. /\ InTurn /\ step[p] \notin {"create", "fill", "flush"}
        /\ UNCHANGED <<config, hasDir, configured, wiped, text, input>>
    BY <1>1, <1>4, <2>1 DEF WriteInv, Crash, files, history
  <2>3. step'[p] = "done"
    BY <1>2, <1>4 DEF Crash, End, PlacesTyped
  <2>4. QED
    BY <1>1, <1>4, <2>2, <2>3, OthersStay, Retreat DEF Writes
<1>5. CASE UNCHANGED vars
  BY <1>1, <1>5 DEF WriteInv, InTurn, Writing, Settled, Held, Aim, HomeOf, vars, files, locals,
                    history
<1>6. QED
  BY <1>1, <1>3, <1>4, <1>5, WriteStep DEF Next

LEMMA WriteKept == Spec => []WriteInv
<1>1. Init => WriteInv
  <2>1. SUFFICES ASSUME Init PROVE InTurn
    BY DEF WriteInv
  <2>2. Settled
    BY <2>1, TextNames, HomeAssumption DEF Init, Settled
  <2>3. Writing = {} /\ ~wiped
    BY <2>1 DEF Init, Writing
  <2>4. \A p \in Procs : Held(p)
    BY <2>1 DEF Init, Held
  <2>5. QED
    BY <2>2, <2>3, <2>4 DEF InTurn
<1>2. QED
  BY <1>1, Typed, DirKept, WriteNextInv, PTL DEF Spec

\* As long as no access of config.json met a write under way and no write was cut off, the file
\* can be read and names the home that the last `config` command has set (read_config_json,
\* write_to_config_json, update_config_file), however many commands have run by then.
THEOREM Kept == Spec => []HomeKept
<1>1. WriteInv => HomeKept
  <2>1. SUFFICES ASSUME InTurn, Writing = {}
                 PROVE  ~Broken /\ HomeOf(config) = configured
    BY DEF WriteInv, HomeKept
  <2>2. \A p \in Procs : step[p] \notin {"create", "fill", "flush"}
    BY <2>1 DEF Writing
  <2>3. Settled
    BY <2>1, <2>2 DEF InTurn
  <2>4. ~Broken
    BY <2>3, DocShape DEF Settled, Broken, NotThere
  <2>5. QED
    BY <2>3, <2>4 DEF Settled
<1>2. QED
  BY <1>1, WriteKept, PTL

\* The first run wipes the node's data (electrumsv_node.reset) only after a command met
\* another's write of config.json or was killed in its own: no sequence of commands that keep
\* out of each other's way and are left to finish, the first ever run included, does it.
THEOREM ResetByEmptied == Spec => []ResetNeedsEmptied
<1>1. WriteInv => ResetNeedsEmptied
  BY DEF WriteInv, InTurn, ResetNeedsEmptied
<1>2. QED
  BY <1>1, WriteKept, PTL
-----------------------------------------------------------------------------
(* What a command finds that runs alone. *)

\* A step of p changes no other command's homes, and forgets no touch of an environment.
LEMMA StepLocal ==
    ASSUME TypeInv, NEW p \in Procs, Step(p)
    PROVE  /\ \A q \in Procs \ {p} : /\ home'[q] = home[q] /\ outHome'[q] = outHome[q]
                                     /\ homes'[q] = homes[q]
           /\ touched \subseteq touched'
<1>1. HomeTypes /\ EnvTypes
  BY TypeParts DEF TypeInv
<1>2. CASE Look(p) \/ Fill(p)
  <2>1. UNCHANGED <<outHome, touched>> /\ \E t : UseDict(p, t)
    BY <1>2 DEF Look, Fill
  <2>2. \A q \in Procs \ {p} : home'[q] = home[q] /\ homes'[q] = homes[q]
    BY <1>1, <2>1, UseDictCases DEF HomeTypes
  <2>3. QED
    BY <2>1, <2>2
<1>3. CASE LookFails(p) \/ LookMissing(p) \/ FirstRun(p) \/ Flush(p)
  BY <1>3 DEF LookFails, LookMissing, FirstRun, Flush
<1>4. CASE MakeDir(p) \/ Create(p) \/ Open(p) \/ ReadEnv(p) \/ EnvIsGone(p)
  BY <1>4 DEF MakeDir, Create, Open, ReadEnv, EnvIsGone, history
<1>5. CASE WriteEnv(p) \/ SealEnv(p) \/ RemoveEnv(p)
  BY <1>1, <1>5 DEF WriteEnv, SealEnv, RemoveEnv, EnvTypes
<1>6. QED
  BY <1>2, <1>3, <1>4, <1>5 DEF Step

\* Only an active command steps.
LEMMA StepActive == ASSUME TypeInv, NEW p \in Procs, Step(p) PROVE p \in Active
<1>1. step[p] # "done" /\ step[p] \in Steps
  BY TypeParts DEF TypeInv, PlacesTyped, Step, Look, LookFails, LookMissing, MakeDir, Create, Fill,
     Open, Flush, FirstRun, WriteEnv, SealEnv, ReadEnv, RemoveEnv, EnvIsGone
<1>2. QED
  BY <1>1 DEF TypeInv, PlaceInv, Steps, Writes, Readers, Active

\* A command that is not `config` and has found one home so far goes on finding it.
LEMMA CourseStep ==
    ASSUME TypeInv, NEW p \in Procs, Step(p), input[p].ns # "config", Course(p)
    PROVE  Course(p)'
<1>1. PlacesTyped /\ FileTypes /\ HomeTypes /\ point[p] # "update"
  BY TypeParts DEF TypeInv, PlaceInv
<1>2. CASE EnvStep(p)
  BY <1>2, EnvStepQuiet DEF Course, HomeOf, Writes
<1>3. CASE Look(p)
  <2>1. point[p] \in Readers /\ UseDict(p, config) /\ UNCHANGED config
    BY <1>3, AtReader DEF Look, TypeInv, files
  <2>2. HomeOf(config)' = HomeOf(config)
    BY <2>1 DEF HomeOf
  <2>3. CASE /\ Goto(p, After(point[p], input[p]))
             /\ homes' = [homes EXCEPT ![p] = @ \cup {HomeOf(config)}]
    <3>1. step'[p] \notin Writes
      BY <2>1, <2>3, GotoStep
    <3>2. QED
      BY <1>1, <2>2, <2>3, <3>1 DEF Course, HomeTypes, Writes
  <2>4. CASE /\ config.home = Portable /\ WriteNext(p, Chosen(p, config))
             /\ homes' = [homes EXCEPT ![p] = @ \cup {DefaultHome}]
    <3>1. HomeOf(config) = DefaultHome /\ HomeOf(Chosen(p, config)) = DefaultHome
      BY <1>1, <2>4, HomeOfText, HomeAssumption DEF Chosen
    <3>2. step'[p] = "open" /\ text'[p] = Chosen(p, config)
      BY <1>1, <2>4 DEF WriteNext, Stay, PlacesTyped, FileTypes
    <3>3. HomeOf(text[p])' = DefaultHome
      BY <3>1, <3>2 DEF HomeOf
    <3>4. homes'[p] \subseteq {DefaultHome}
      BY <1>1, <2>4, <3>1 DEF HomeTypes, Course
    <3>5. QED
      BY <2>2, <3>1, <3>2, <3>3, <3>4 DEF Course
  <2>5. QED
    BY <1>1, <2>1, <2>3, <2>4, UseDictCases
<1>4. CASE Fill(p)
  <2>1. step[p] = "fill" /\ point[p] \in Readers /\ UseDict(p, Blank) /\ config = Blank
    BY <1>4, AtReader DEF Fill, TypeInv, Course, Writes
  <2>2. config' = Indented
    BY <1>4, <2>1, OverlayText, TextNames DEF Fill
  <2>3. HomeOf(config) = DefaultHome /\ HomeOf(config)' = DefaultHome
    BY <2>1, <2>2, HomeOfText DEF HomeOf
  <2>4. Blank.home # Portable /\ HomeOf(Blank) = DefaultHome
    BY HomeAssumption, HomeOfText DEF Blank
  <2>5. /\ Goto(p, After(point[p], input[p]))
        /\ homes' = [homes EXCEPT ![p] = @ \cup {DefaultHome}]
    BY <1>1, <2>1, <2>4, UseDictCases
  <2>6. step'[p] \notin Writes
    BY <2>1, <2>5, GotoStep
  <2>7. QED
    BY <1>1, <2>3, <2>5, <2>6 DEF Course, HomeTypes, Writes
<1>5. CASE FirstRun(p)
  <2>1. point[p] \in Readers /\ point[p] = "first" /\ UNCHANGED <<config, homes>>
    BY <1>5, AtReader DEF FirstRun, TypeInv, files
  <2>2. HomeOf(config)' = HomeOf(config)
    BY <2>1 DEF HomeOf
  <2>3. CASE Goto(p, After(point[p], input[p]))
    BY <2>1, <2>2, <2>3, GotoStep DEF Course, Writes
  <2>4. CASE config = Blank /\ WriteNext(p, Indented)
    <3>1. step'[p] = "open" /\ text'[p] = Indented
      BY <1>1, <2>4 DEF WriteNext, Stay, PlacesTyped, FileTypes
    <3>2. HomeOf(text[p])' = DefaultHome /\ HomeOf(config) = DefaultHome
      BY <2>4, <3>1, HomeOfText DEF HomeOf
    <3>3. QED
      BY <2>1, <2>2, <3>1, <3>2 DEF Course
  <2>5. QED
    BY <1>5, <2>1, <2>3, <2>4 DEF FirstRun
<1>6. CASE Flush(p)
  <2>1. step[p] = "flush" /\ point[p] \in Readers /\ config = Blank /\ UNCHANGED homes
    BY <1>6, AtReader DEF Flush, TypeInv, Course, Writes
  <2>2. HomeOf(config) = DefaultHome /\ HomeOf(text[p]) = DefaultHome
    BY <2>1 DEF Course
  <2>3. config' = text[p]
    BY <1>1, <1>6, <2>1, OverlayText DEF Flush, FileTypes
  <2>4. HomeOf(config)' = DefaultHome
    BY <2>2, <2>3 DEF HomeOf
  <2>5. step'[p] \notin Writes
    BY <1>6, <2>1, GotoStep DEF Flush
  <2>6. QED
    BY <2>1, <2>2, <2>4, <2>5 DEF Course, Writes
<1>7. CASE LookFails(p) \/ LookMissing(p) \/ MakeDir(p)
  <2>1. UNCHANGED <<config, homes>>
    BY <1>7 DEF LookFails, LookMissing, MakeDir, files, history
  <2>2. /\ step'[p] \in {"done", "mkdir", "create"}
        /\ step'[p] \in {"mkdir", "create"} => config = NotThere
    BY <1>1, <1>7, TextShape DEF LookFails, LookMissing, MakeDir, Stay, End, PlacesTyped,
                                 FileTypes, Course
  <2>3. QED
    BY <2>1, <2>2 DEF Course, HomeOf
<1>8. CASE Create(p) \/ Open(p)
  <2>1. UNCHANGED <<homes, text>> /\ config' = Blank
    BY <1>8 DEF Create, Open, history
  <2>2. HomeOf(config) = DefaultHome /\ HomeOf(config)' = DefaultHome
    BY <1>8, <2>1, HomeOfText DEF Create, Open, Course, HomeOf
  <2>3. /\ step'[p] \in {"fill", "flush"}
        /\ step'[p] = "flush" => HomeOf(text[p]) = DefaultHome
    BY <1>1, <1>8 DEF Create, Open, Stay, PlacesTyped, Course
  <2>4. HomeOf(text[p])' = HomeOf(text[p])
    BY <2>1 DEF HomeOf
  <2>5. QED
    BY <2>1, <2>2, <2>3, <2>4 DEF Course
<1>9. QED
  BY <1>2, <1>3, <1>4, <1>5, <1>6, <1>7, <1>8 DEF Step, EnvStep

LEMMA AloneStep ==
    ASSUME TypeInv, AloneInv, NEW p \in Procs, Step(p)
    PROVE  AloneInv'
<1>1. UNCHANGED <<alone, input>> /\ p \in Active
  BY StepKeeps, StepActive
<1>2. \A q \in Procs \ {p} : step'[q] = step[q] /\ point'[q] = point[q]
  BY OthersStay
<1>3. ASSUME NEW q \in Procs \ {p}, alone[q] PROVE Alone(q)'
  <2>1. q \notin Active
    BY <1>1, <1>3 DEF AloneInv, Alone
  <2>2. q \notin Active'
    BY <1>2, <2>1 DEF Active
  <2>3. homes'[q] = homes[q]
    BY StepLocal
  <2>4. QED
    BY <1>1, <1>3, <2>2, <2>3 DEF AloneInv, Alone
<1>4. ASSUME alone[p] PROVE Alone(p)'
  <2>1. Active = {p}
    BY <1>1, <1>4 DEF AloneInv, Alone
  <2>2. p \in Active' => Active' = {p}
    BY <1>2, <2>1 DEF Active
  <2>3. input[p].ns # "config" => Course(p)'
    BY <1>1, <1>4, CourseStep DEF AloneInv, Alone
  <2>4. HomeOf(config)' \in Homes
    BY HomeAssumption DEF HomeOf
  <2>5. QED
    BY <1>1, <2>2, <2>3, <2>4 DEF Alone, Course
<1>5. \A q \in Procs : alone'[q] => alone[q]
  BY <1>1
<1>6. QED
  BY <1>3, <1>4, <1>5 DEF AloneInv, Alone

LEMMA AloneEnter ==
    ASSUME TypeInv, AloneInv, NEW p \in Procs, NEW argv \in Lines, Enter(p, argv)
    PROVE  AloneInv'
<1>1. PlacesTyped /\ HomeTypes /\ CommandTypes
  BY TypeParts DEF TypeInv
<1>2. alone' = [q \in Procs |-> IF q = p THEN Active = {} ELSE alone[q] /\ q \notin Active]
  BY DEF Enter
<1>3. /\ alone'[p] => Active = {}
      /\ \A q \in Procs \ {p} : alone'[q] => alone[q] /\ q \notin Active
  BY <1>2, Zenon
<1>4. /\ point'[p] = "argparse" /\ step'[p] = "look" /\ homes'[p] = {}
      /\ \A q \in Procs \ {p} : /\ point'[q] = point[q] /\ homes'[q] = homes[q]
                                /\ input'[q] = input[q]
  BY <1>1 DEF Enter, Goto, FirstStep, PlacesTyped, HomeTypes, CommandTypes
<1>5. ASSUME NEW q \in Procs \ {p}, alone'[q] PROVE Alone(q)'
  <2>1. alone[q] /\ q \notin Active'
    BY <1>3, <1>4, <1>5 DEF Active
  <2>2. QED
    BY <1>4, <2>1 DEF AloneInv, Alone
<1>6. ASSUME alone'[p] PROVE Alone(p)'
  <2>1. Active' = {p}
    BY <1>3, <1>4, <1>6 DEF Active
  <2>2. Course(p)'
    BY <1>4 DEF Course
  <2>3. QED
    BY <1>4, <2>1, <2>2, HomeAssumption DEF Alone
<1>7. QED
  BY <1>5, <1>6 DEF AloneInv, Alone

LEMMA AloneNext == TypeInv /\ AloneInv /\ [Next]_vars => AloneInv'
<1>1. SUFFICES ASSUME TypeInv, AloneInv, [Next]_vars PROVE AloneInv'
  OBVIOUS
<1>2. ASSUME NEW p \in Procs, Crash(p) PROVE AloneInv'
  <2>1. UNCHANGED <<alone, input, homes>> /\ p \in Active
    BY <1>2 DEF Crash, history
  <2>2. p \notin Active' /\ \A q \in Procs \ {p} : point'[q] = point[q]
    BY <1>1, <1>2, TypeParts DEF TypeInv, PlacesTyped, Crash, End, Active
  <2>3. ASSUME NEW q \in Procs, alone[q] PROVE Alone(q)'
    <3>1. q \notin Active'
      BY <1>1, <2>1, <2>2, <2>3 DEF AloneInv, Alone, Active
    <3>2. QED
      BY <1>1, <2>1, <2>3, <3>1 DEF AloneInv, Alone
  <2>4. \A q \in Procs : alone'[q] => alone[q]
    BY <2>1
  <2>5. QED
    BY <2>3, <2>4 DEF AloneInv, Alone
<1>3. CASE UNCHANGED vars
  BY <1>1, <1>3 DEF AloneInv, Alone, Active, Course, HomeOf, vars, files, locals, history
<1>4. QED
  BY <1>1, <1>2, <1>3, AloneStep, AloneEnter DEF Next

\* A command that is not `config` and has run alone has found its component store, its data
\* directories and its environment in one home, however often it has constructed Config, and
\* even when it has rewritten config.json in between (read_config_json, get_dynamic_datadir,
\* handle_first_ever_run).
THEOREM StaysHome == Spec => []OneHome
<1>1. AloneInv => OneHome
  <2>1. SUFFICES ASSUME AloneInv, NEW p \in Procs, alone[p], input[p].ns # "config"
                 PROVE  Cardinality(homes[p]) <= 1
    BY DEF OneHome
  <2>2. PICK h \in Homes : homes[p] \subseteq {h}
    BY <2>1 DEF AloneInv, Alone
  <2>3. homes[p] = {} \/ homes[p] = {h}
    BY <2>2
  <2>4. Cardinality({}) = 0
    BY FS_EmptySet, Zenon
  <2>5. Cardinality({h}) = 1
    BY FS_Singleton, Zenon
  <2>6. QED
    BY <2>3, <2>4, <2>5
<1>2. Init => AloneInv
  <2>1. Init => \A p \in Procs : ~alone[p]
    BY Zenon DEF Init
  <2>2. QED
    BY <2>1 DEF AloneInv
<1>3. QED
  BY <1>1, <1>2, Typed, AloneNext, PTL DEF Spec
-----------------------------------------------------------------------------
(* Whose environment a start's terminal reads. *)

\* The slots that own an environment, and the history of it, leave out the other files.
EnvVars == <<env, outHome, detached, touched>>

\* A step of a reader of config.json neither changes an encrypted.env nor begins to need one.
LEMMA ReaderEnv ==
    ASSUME TypeInv, NEW p \in Procs, Step(p), ~EnvStep(p)
    PROVE  /\ UNCHANGED EnvVars
           /\ point'[p] # "lost" /\ step'[p] # "seal" /\ step[p] # "seal"
           /\ p \in Sealed' => p \in Sealed
<1>1. PlacesTyped /\ step[p] \in {"look"} \cup Writes /\ UNCHANGED EnvVars
  BY TypeParts DEF TypeInv, Step, EnvStep, EnvVars, Look, LookFails, LookMissing, MakeDir,
     Create, Fill, Open, Flush, FirstRun, Writes, files, history
<1>2. point[p] \in Readers
  BY <1>1, AtReader DEF TypeInv
<1>3. CASE Goto(p, After(point[p], input[p]))
  <2> DEFINE at == After(point[p], input[p])
  <2>1. at \in Points \ {"inline", "idle", "failed", "lost", "killed"}
    BY <1>2, AfterPlace
  <2>2. at = "unseal" <=> point[p] = "inline"
    BY <1>2, AfterPlace
  <2>3. FirstStep(at) # "seal" /\ (FirstStep(at) = "env" <=> at = "env")
    BY <2>1, FirstFits DEF Ended
  <2>4. point'[p] = at /\ step'[p] = FirstStep(at)
    BY <1>1, <1>3 DEF Goto, PlacesTyped
  <2> HIDE DEF at
  <2>5. QED
    BY <1>1, <2>1, <2>2, <2>3, <2>4 DEF Sealed, Writes
<1>4. ASSUME NEW s \in Writes, Stay(p, s)
      PROVE  /\ point'[p] # "lost" /\ step'[p] # "seal" /\ step[p] # "seal"
             /\ p \in Sealed' => p \in Sealed
  BY <1>1, <1>2, <1>4 DEF Stay, PlacesTyped, Sealed, Writes, Readers
<1>5. CASE End(p, "failed")
  BY <1>1, <1>5 DEF End, PlacesTyped, Sealed, Writes
<1>6. CASE Goto(p, After(point[p], input[p])) \/ (\E s \in Writes : Stay(p, s)) \/ End(p, "failed")
  BY <1>1, <1>3, <1>4, <1>5, <1>6
<1>7. CASE Look(p) \/ Fill(p)
  BY <1>6, <1>7, UseDictCases DEF Look, Fill, WriteNext, Writes
<1>8. CASE LookFails(p) \/ LookMissing(p) \/ MakeDir(p) \/ Create(p) \/ Open(p) \/ Flush(p)
  BY <1>6, <1>8 DEF LookFails, LookMissing, MakeDir, Create, Open, Flush, Writes
<1>9. CASE FirstRun(p)
  BY <1>6, <1>9 DEF FirstRun, WriteNext, Writes
<1>10. QED
  BY <1>7, <1>8, <1>9 DEF Step, EnvStep

\* A step of p that leaves the environments of the homes it does not touch leaves the others
\* what they own.
LEMMA OthersOwn ==
    ASSUME TypeInv, NEW p \in Procs, Step(p), NEW q \in Procs \ {p}, Owns(q),
           q \in Sealed /\ q \notin touched' => env'[outHome[q]] = env[outHome[q]],
           q \in detached' /\ step[q] = "seal" => q \in detached \/ q \in touched'
    PROVE  Owns(q)'
<1>1. /\ step'[q] = step[q] /\ point'[q] = point[q]
      /\ outHome'[q] = outHome[q] /\ home'[q] = home[q] /\ touched \subseteq touched'
  BY OthersStay, StepLocal
<1>2. q \in Sealed' <=> q \in Sealed
  BY <1>1 DEF Sealed
<1>3. QED
  BY <1>1, <1>2 DEF Owns

LEMMA OwnStep ==
    ASSUME TypeInv, NEW p \in Procs, Step(p), \A q \in Procs : Owns(q)
    PROVE  \A q \in Procs : Owns(q)'
<1>1. PlacesTyped /\ EnvTypes /\ HomeTypes
  BY TypeParts DEF TypeInv
<1>2. /\ point[p] = "env" <=> step[p] \in {"env", "seal"}
      /\ point[p] = "unseal" <=> step[p] \in {"unseal", "remove"}
  BY DEF TypeInv, PlaceInv
<1>3. CASE ~EnvStep(p)
  <2>1. Owns(p)'
    BY <1>3, ReaderEnv DEF Owns, EnvVars
  <2>2. \A q \in Procs \ {p} : Owns(q)'
    BY <1>3, ReaderEnv, OthersOwn DEF EnvVars
  <2>3. QED
    BY <2>1, <2>2
<1>4. CASE WriteEnv(p)
  <2>1. home[p] \in Homes
    BY <1>1 DEF HomeTypes
  <2>2. /\ point'[p] = "env" /\ step'[p] = "seal" /\ p \notin detached'
        /\ outHome'[p] = home[p] /\ env'[home[p]] = "blank"
    BY <1>1, <1>2, <1>4, <2>1 DEF WriteEnv, Stay, PlacesTyped, EnvTypes
  <2>3. Owns(p)'
    BY <2>2 DEF Owns
  <2>4. ASSUME NEW q \in Procs \ {p} PROVE Owns(q)'
    <3>1. q \in Sealed /\ q \notin touched' => env'[outHome[q]] = env[outHome[q]]
      BY <1>1, <1>4, <2>4 DEF WriteEnv, Others, EnvTypes
    <3>2. q \in detached' => q \in detached
      BY <1>4 DEF WriteEnv
    <3>3. QED
      BY <3>1, <3>2, <2>4, OthersOwn
  <2>5. QED
    BY <2>3, <2>4
<1>5. CASE SealEnv(p)
  <2>1. /\ step[p] = "seal" /\ outHome[p] \in Homes /\ p \in Sealed
        /\ UNCHANGED <<outHome, detached>>
    BY <1>1, <1>2, <1>5 DEF SealEnv, EnvTypes, Sealed
  <2>2. point'[p] = "inline" /\ step'[p] = "look"
    BY <1>1, <1>5 DEF SealEnv, Goto, FirstStep, PlacesTyped
  <2>3. CASE p \in detached
    <3>1. UNCHANGED <<env, touched>> /\ p \in touched
      BY <1>5, <2>1, <2>3 DEF SealEnv, Owns
    <3>2. Owns(p)'
      BY <2>2, <3>1 DEF Owns
    <3>3. \A q \in Procs \ {p} : Owns(q)'
      BY <2>1, <3>1, OthersOwn
    <3>4. QED
      BY <3>2, <3>3
  <2>4. CASE p \notin detached
    <3>1. PICK left \in IF env[outHome[p]] = "blank" THEN {p} ELSE {p, "mixed"} :
            env' = [env EXCEPT ![outHome[p]] = left]
      BY <1>5, <2>4 DEF SealEnv
    <3>2. touched' = touched \cup Others(p, outHome[p])
      BY <1>5, <2>4 DEF SealEnv
    <3>3. p \notin touched' => env'[outHome[p]] = p
      BY <1>1, <2>1, <3>1, <3>2 DEF Owns, EnvTypes
    <3>4. Owns(p)'
      BY <2>1, <2>2, <3>3 DEF Owns
    <3>5. ASSUME NEW q \in Procs \ {p} PROVE Owns(q)'
      <4>1. q \in Sealed /\ q \notin touched' => env'[outHome[q]] = env[outHome[q]]
        BY <1>1, <3>1, <3>2, <3>5 DEF Others, EnvTypes
      <4>2. QED
        BY <2>1, <3>5, <4>1, OthersOwn
    <3>6. QED
      BY <3>4, <3>5
  <2>5. QED
    BY <2>3, <2>4
<1>6. CASE ReadEnv(p) \/ EnvIsGone(p)
  <2>1. UNCHANGED <<env, outHome, detached, touched, home>> /\ p \in Sealed
    BY <1>2, <1>6 DEF ReadEnv, EnvIsGone, Sealed, files, history
  <2>2. step[p] # "seal" /\ step'[p] \in {"remove", "done"}
    BY <1>1, <1>6 DEF ReadEnv, EnvIsGone, Stay, End, PlacesTyped
  <2>3. point'[p] = "lost" => env[home[p]] # p
    BY <1>1, <1>2, <1>6, HomeAssumption DEF ReadEnv, EnvIsGone, Stay, End, PlacesTyped
  <2>4. Owns(p)'
    BY <2>1, <2>2, <2>3 DEF Owns
  <2>5. \A q \in Procs \ {p} : Owns(q)'
    BY <2>1, OthersOwn
  <2>6. QED
    BY <2>4, <2>5
<1>7. CASE RemoveEnv(p)
  <2>1. point'[p] = "done" /\ step'[p] = "done"
    BY <1>1, <1>7 DEF RemoveEnv, End, PlacesTyped
  <2>2. Owns(p)'
    BY <2>1 DEF Owns, Sealed
  <2>3. ASSUME NEW q \in Procs \ {p} PROVE Owns(q)'
    <3>1. q \in Sealed /\ q \notin touched' => env'[outHome[q]] = env[outHome[q]]
      BY <1>1, <1>7, <2>3 DEF RemoveEnv, Others, EnvTypes
    <3>2. q \in detached' /\ step[q] = "seal" => q \in detached \/ q \in touched'
      <4>1. step[q] = "seal" => q \in Sealed
        BY DEF TypeInv, PlaceInv, Sealed
      <4>2. QED
        BY <1>7, <2>3, <4>1 DEF RemoveEnv, Others
    <3>3. QED
      BY <2>3, <3>1, <3>2, OthersOwn
  <2>4. QED
    BY <2>2, <2>3
<1>8. QED
  BY <1>3, <1>4, <1>5, <1>6, <1>7 DEF EnvStep

LEMMA OwnNext == TypeInv /\ EnvInv /\ [Next]_vars => EnvInv'
<1>1. SUFFICES ASSUME TypeInv, EnvInv, [Next]_vars PROVE EnvInv'
  OBVIOUS
<1>2. PlacesTyped
  BY <1>1, TypeParts DEF TypeInv
<1>3. ASSUME NEW p \in Procs, NEW argv \in Lines, Enter(p, argv) PROVE EnvInv'
  <2>1. /\ point'[p] = "argparse" /\ p \notin detached'
        /\ \A q \in Procs \ {p} : point'[q] = point[q] /\ step'[q] = step[q]
    BY <1>2, <1>3 DEF Enter, Goto, PlacesTyped
  <2>2. \A q \in Procs \ {p} : /\ home'[q] = home[q] /\ outHome'[q] = outHome[q]
                               /\ q \in touched' <=> q \in touched
                               /\ q \in detached' <=> q \in detached
    BY <1>1, <1>3, TypeParts DEF Enter, TypeInv, HomeTypes, EnvTypes
  <2>3. env' = env
    BY <1>3 DEF Enter, files
  <2>4. ASSUME NEW q \in Procs \ {p} PROVE Owns(q)'
    <3>1. q \in Sealed' <=> q \in Sealed
      BY <2>1 DEF Sealed
    <3>2. QED
      BY <1>1, <2>1, <2>2, <2>3, <3>1 DEF EnvInv, Owns
  <2>5. Owns(p)'
    BY <2>1 DEF Owns, Sealed
  <2>6. QED
    BY <2>4, <2>5 DEF EnvInv
<1>4. ASSUME NEW p \in Procs, Crash(p) PROVE EnvInv'
  <2>1. /\ point'[p] = "killed" /\ step'[p] = "done"
        /\ \A q \in Procs \ {p} : point'[q] = point[q] /\ step'[q] = step[q]
        /\ UNCHANGED <<env, home, outHome, touched, detached>>
    BY <1>2, <1>4 DEF Crash, End, PlacesTyped, files, history
  <2>2. ASSUME NEW q \in Procs \ {p} PROVE Owns(q)'
    <3>1. q \in Sealed' <=> q \in Sealed
      BY <2>1 DEF Sealed
    <3>2. QED
      BY <1>1, <2>1, <3>1 DEF EnvInv, Owns
  <2>3. Owns(p)'
    BY <2>1 DEF Owns, Sealed
  <2>4. QED
    BY <2>2, <2>3 DEF EnvInv
<1>5. CASE UNCHANGED vars
  BY <1>1, <1>5 DEF EnvInv, Owns, Sealed, vars, files, locals, history
<1>6. QED
  BY <1>1, <1>3, <1>4, <1>5, OwnStep DEF Next, EnvInv

\* A start whose terminal has opened fails to read its environment only when another start has
\* used the encrypted.env of that home meanwhile, or the home was moved between the two looks
\* (spawn_new_terminal, run_inline.py): the key a start hands over fits what it has written.
THEOREM LostByClash == Spec => []LostOnlyByClash
<1>1. EnvInv => LostOnlyByClash
  BY DEF EnvInv, Owns, LostOnlyByClash
<1>2. Init => EnvInv
  BY DEF Init, EnvInv, Owns, Sealed
<1>3. QED
  BY <1>1, <1>2, Typed, OwnNext, PTL DEF Spec
-----------------------------------------------------------------------------
(* What a command line means, whatever its length. *)

\* The least number principle.
LEMMA LeastNumber ==
    ASSUME NEW T, T \subseteq Nat, T # {}
    PROVE  \E x \in T : \A y \in T : x <= y
<1> DEFINE R == OpToRel(<, Nat)
<1>1. IsWellFoundedOn(R, Nat)
  BY NatLessThanWellFounded
<1>2. \A a, b \in Nat : a < b => <<a, b>> \in R
  BY DEF OpToRel
<1> HIDE DEF R
<1>3. \E x \in T : \A y \in T : ~ (<<y, x>> \in R)
  BY <1>1, WFMin
<1>4. PICK x \in T : \A y \in T : ~ (<<y, x>> \in R)
  BY <1>3
<1>5. \A y \in T : ~ (y < x)
  BY <1>2, <1>4, Zenon
<1>6. \A y \in T : x <= y
  BY <1>5
<1>7. QED
  BY <1>6

\* Induction over the numbers from 1 to n, for a set of them.
LEMMA UpTo ==
    ASSUME NEW n \in Nat, NEW T, n > 0 => 1 \in T,
           \A k \in 1..n : k > 1 /\ k - 1 \in T => k \in T
    PROVE  \A k \in 1..n : k \in T
<1>1. SUFFICES ASSUME \E k \in 1..n : k \notin T PROVE FALSE
  OBVIOUS
<1> DEFINE U == {k \in 1..n : k \notin T}
<1>2. U \subseteq Nat /\ U # {}
  BY <1>1
<1>3. PICK x \in U : \A y \in U : x <= y
  BY <1>2, LeastNumber
<1>4. x \in 1..n /\ x \notin T /\ x # 1
  BY <1>3
<1>5. x - 1 \in 1..n /\ x - 1 \notin U
  BY <1>3, <1>4
<1>6. QED
  BY <1>4, <1>5

\* A set of numbers below a bound has a greatest.
LEMMA Greatest ==
    ASSUME NEW n \in Nat, NEW I, I \subseteq 1..n, I # {}
    PROVE  \E i \in I : \A j \in I : j <= i
<1> DEFINE U == {n - i : i \in I}
<1>1. U \subseteq Nat /\ U # {}
  <2>1. \A i \in I : n - i \in Nat
    OBVIOUS
  <2>2. PICK i \in I : TRUE
    OBVIOUS
  <2>3. QED
    BY <2>1, <2>2
<1>2. PICK x \in U : \A y \in U : x <= y
  BY <1>1, LeastNumber
<1>3. PICK i \in I : x = n - i
  BY <1>2
<1>4. \A j \in I : n - i <= n - j
  BY <1>2, <1>3
<1>5. QED
  BY <1>4

-----------------------------------------------------------------------------
(* The scan. *)

States(A) == [ns : TakesComponent, component : Components \cup {Empty}, exited : BOOLEAN,
              options : Seq(A), rest : Seq(A)]

\* One argument: nothing after the exit; an option or the component before it; what follows it.
LEMMA ScanArgCases ==
    ASSUME NEW A, NEW s \in States(A), NEW a \in A
    PROVE  LET t == ScanArg(s, a) IN
           /\ t \in States(A) /\ t.ns = s.ns
           /\ s.exited => t = s
           /\ ~s.exited /\ s.component = Empty =>
                /\ t.rest = s.rest
                /\ t.options = IF a.form = "long" THEN Append(s.options, a) ELSE s.options
                /\ t.exited = (a.form = "plain" /\ a.name \notin Components)
                /\ t.component = IF a.form = "plain" /\ a.name \in Components
                                 THEN a.name ELSE Empty
           /\ ~s.exited /\ s.component # Empty =>
                /\ t.options = s.options /\ ~t.exited /\ t.component = s.component
                /\ t.rest = IF s.ns \in {"install", "start"} THEN Append(s.rest, a) ELSE s.rest
<1> DEFINE t == ScanArg(s, a)
<1>1. s.ns \in TakesComponent /\ s.options \in Seq(A) /\ s.rest \in Seq(A)
      /\ Append(s.options, a) \in Seq(A) /\ Append(s.rest, a) \in Seq(A)
  BY DEF States
<1>2. CASE s.exited
  BY <1>2 DEF ScanArg
<1>3. CASE ~s.exited /\ s.component = Empty
  <2>1. t = ScanBefore(s, a)
    BY <1>1, <1>3 DEF ScanArg
  <2>2. CASE a.form = "long"
    <3>1. t = [s EXCEPT !.options = Append(@, a)]
      BY <2>1, <2>2 DEF ScanBefore
    <3>2. QED
      BY <1>1, <1>3, <2>2, <3>1 DEF States
  <2>3. CASE a.form = "plain" /\ a.name \in Components
    <3>1. t = [s EXCEPT !.component = a.name]
      BY <2>1, <2>3 DEF ScanBefore
    <3>2. QED
      BY <1>1, <1>3, <2>3, <3>1 DEF States
  <2>4. CASE a.form = "plain" /\ a.name \notin Components
    <3>1. t = [s EXCEPT !.exited = TRUE]
      BY <2>1, <2>4 DEF ScanBefore
    <3>2. QED
      BY <1>1, <1>3, <2>4, <3>1 DEF States
  <2>5. CASE a.form \notin {"long", "plain"}
    <3>1. t = s
      BY <2>1, <2>5 DEF ScanBefore
    <3>2. QED
      BY <1>3, <2>5, <3>1 DEF States
  <2>6. QED
    BY <2>2, <2>3, <2>4, <2>5
<1>4. CASE ~s.exited /\ s.component # Empty
  <2>1. t = ScanAfter(s, a)
    BY <1>1, <1>4 DEF ScanArg
  <2>2. CASE s.ns \in {"install", "start"}
    <3>1. t = [s EXCEPT !.rest = Append(@, a)]
      BY <2>1, <2>2 DEF ScanAfter
    <3>2. QED
      BY <1>1, <1>4, <2>2, <3>1 DEF States
  <2>3. CASE s.ns \notin {"install", "start"}
    <3>1. t = s
      BY <2>1, <2>3 DEF ScanAfter
    <3>2. QED
      BY <1>4, <2>3, <3>1
  <2>4. QED
    BY <2>2, <2>3
<1>5. QED
  BY <1>2, <1>3, <1>4 DEF States

\* The states of the scan, argument by argument.
IsScan(f, argv, n) ==
    f = [k \in 1..n |-> IF k = 1 THEN ScanStart(argv[1].name) ELSE ScanArg(f[k - 1], argv[k])]

\* There is a scan of every vector, and Scan is where one ends.
LEMMA ScanExists ==
    ASSUME NEW A, NEW argv \in Seq(A), argv # <<>>
    PROVE  \E f : IsScan(f, argv, Len(argv)) /\ Scan(argv) = f[Len(argv)]
<1> DEFINE n == Len(argv)
           T == {k \in 1..n : \E f : IsScan(f, argv, k)}
           scan == CHOOSE f : IsScan(f, argv, n)
<1>1. n \in Nat /\ n > 0
  OBVIOUS
<1>2. 1 \in T
  <2>1. IsScan([k \in 1..1 |-> ScanStart(argv[1].name)], argv, 1)
    BY DEF IsScan
  <2>2. QED
    BY <1>1, <2>1
<1>3. ASSUME NEW k \in 1..n, k > 1, k - 1 \in T PROVE k \in T
  <2>1. PICK f : IsScan(f, argv, k - 1)
    BY <1>3
  <2> DEFINE g == [j \in 1..k |-> IF j = k THEN ScanArg(f[k - 1], argv[k]) ELSE f[j]]
  <2>2. \A j \in 1..(k - 1) :
          f[j] = IF j = 1 THEN ScanStart(argv[1].name) ELSE ScanArg(f[j - 1], argv[j])
    BY <2>1 DEF IsScan
  <2>3. \A j \in 1..k :
          g[j] = IF j = 1 THEN ScanStart(argv[1].name) ELSE ScanArg(g[j - 1], argv[j])
    BY <1>3, <2>2
  <2>4. IsScan(g, argv, k)
    BY <2>3 DEF IsScan
  <2>5. QED
    BY <2>4
<1>4. n \in T
  <2> HIDE DEF T
  <2>1. \A k \in 1..n : k > 1 /\ k - 1 \in T => k \in T
    BY <1>3
  <2>2. \A k \in 1..n : k \in T
    BY <1>1, <1>2, <2>1, UpTo
  <2>3. QED
    BY <1>1, <2>2
<1>5. IsScan(scan, argv, n)
  BY <1>4
<1>6. Scan(argv) = scan[n]
  BY DEF Scan, IsScan
<1>7. QED
  BY <1>5, <1>6

\* The first argument after the namespace that is neither an option nor short.
LEMMA ComponentPlace ==
    ASSUME NEW A, NEW argv \in Seq(A), argv # <<>>
    PROVE  LET c == ComponentAt(argv) IN
           /\ c \in 2..(Len(argv) + 1)
           /\ \A i \in 2..(c - 1) : argv[i].form # "plain"
           /\ c <= Len(argv) => argv[c].form = "plain"
<1> DEFINE I == {i \in 2..Len(argv) : argv[i].form = "plain"}
<1>1. CASE I = {}
  <2>1. ComponentAt(argv) = Len(argv) + 1
    BY <1>1 DEF ComponentAt
  <2>2. QED
    BY <1>1, <2>1
<1>2. CASE I # {}
  <2> DEFINE c == CHOOSE i \in I : \A j \in I : i <= j
  <2>1. I \subseteq Nat
    OBVIOUS
  <2>2. \E i \in I : \A j \in I : i <= j
    <3> HIDE DEF I
    <3>1. QED
      BY <1>2, <2>1, LeastNumber
  <2>3. c \in I /\ \A j \in I : c <= j
    <3> HIDE DEF I
    <3>1. QED
      BY <2>2
  <2>4. ComponentAt(argv) = c
    BY <1>2 DEF ComponentAt
  <2> HIDE DEF c
  <2>5. QED
    BY <2>3, <2>4
<1>3. QED
  BY <1>1, <1>2

\* A sequence is what stands at the places I of a vector, in their order.
Picks(options, argv, I) == \E g \in [1..Len(options) -> I] :
    /\ \A j, k \in 1..Len(options) : j < k => g[j] < g[k]
    /\ \A i \in I : \E k \in 1..Len(options) : g[k] = i
    /\ \A k \in 1..Len(options) : options[k] = argv[g[k]]

LEMMA PickNext ==
    ASSUME NEW A, NEW options \in Seq(A), NEW argv \in Seq(A), NEW i \in 1..Len(argv),
           NEW I, I \subseteq 1..(i - 1), Picks(options, argv, I)
    PROVE  Picks(Append(options, argv[i]), argv, I \cup {i})
<1> DEFINE n == Len(options)
           more == Append(options, argv[i])
<1>1. n \in Nat /\ Len(more) = n + 1 /\ more[n + 1] = argv[i]
      /\ \A k \in 1..n : more[k] = options[k]
  OBVIOUS
<1>2. PICK g \in [1..n -> I] :
        /\ \A j, k \in 1..n : j < k => g[j] < g[k]
        /\ \A j \in I : \E k \in 1..n : g[k] = j
        /\ \A k \in 1..n : options[k] = argv[g[k]]
  BY DEF Picks
<1> DEFINE f == [k \in 1..(n + 1) |-> IF k = n + 1 THEN i ELSE g[k]]
<1>3. f \in [1..(n + 1) -> I \cup {i}]
  BY <1>1, <1>2
<1>4. \A j, k \in 1..(n + 1) : j < k => f[j] < f[k]
  <2>1. SUFFICES ASSUME NEW j \in 1..(n + 1), NEW k \in 1..(n + 1), j < k PROVE f[j] < f[k]
    OBVIOUS
  <2>2. j \in 1..n /\ f[j] = g[j] /\ g[j] \in I
    BY <1>1, <1>2, <2>1
  <2>3. \A x \in I : x \in Nat /\ x < i
    <3> HIDE DEF n, more, f
    <3>1. i \in Nat
      OBVIOUS
    <3>2. QED
      BY <3>1
  <2>4. g[j] < i
    BY <2>2, <2>3
  <2>5. f[k] = i \/ (k \in 1..n /\ f[k] = g[k])
    <3>1. CASE k = n + 1
      BY <3>1
    <3>2. CASE k # n + 1
      <4>1. k \in 1..n
        BY <1>1, <3>2
      <4>2. QED
        BY <3>2, <4>1
    <3>3. QED
      BY <3>1, <3>2
  <2>6. k \in 1..n => g[j] < g[k]
    BY <1>2, <2>1, <2>2
  <2> HIDE DEF f
  <2>7. QED
    BY <2>2, <2>4, <2>5, <2>6
<1>5. \A j \in I \cup {i} : \E k \in 1..(n + 1) : f[k] = j
  <2>1. f[n + 1] = i /\ n + 1 \in 1..(n + 1)
    BY <1>1
  <2>2. ASSUME NEW j \in I PROVE \E k \in 1..(n + 1) : f[k] = j
    <3>1. PICK k \in 1..n : g[k] = j
      BY <1>2
    <3>2. k \in 1..(n + 1) /\ f[k] = j
      BY <1>1, <3>1
    <3>3. QED
      BY <3>2
  <2>3. QED
    BY <2>1, <2>2
<1>6. \A k \in 1..(n + 1) : more[k] = argv[f[k]]
  BY <1>1, <1>2
<1> HIDE DEF more, f
<1>7. \E h \in [1..Len(more) -> I \cup {i}] :
        /\ \A j, k \in 1..Len(more) : j < k => h[j] < h[k]
        /\ \A j \in I \cup {i} : \E k \in 1..Len(more) : h[k] = j
        /\ \A k \in 1..Len(more) : more[k] = argv[h[k]]
  <2>1. Len(more) = n + 1
    BY <1>1
  <2> HIDE DEF n
  <2>2. QED
    BY <1>3, <1>4, <1>5, <1>6, <2>1
<1>8. QED
  BY <1>7 DEF Picks, more

\* What the scan has when it has passed the first n arguments.
OptionsTo(argv, n) == {i \in 2..n : i < ComponentAt(argv) /\ argv[i].form = "long"}
Following(argv, ns, n) == IF ns \in {"install", "start"}
                          THEN SubSeq(argv, ComponentAt(argv) + 1, n) ELSE <<>>
Passed(A, argv, n, s) ==
    /\ s \in States(A) /\ s.ns = argv[1].name
    /\ Picks(s.options, argv, OptionsTo(argv, n))
    /\ n < ComponentAt(argv) => s.component = Empty /\ ~s.exited /\ s.rest = <<>>
    /\ n >= ComponentAt(argv) =>
         LET name == argv[ComponentAt(argv)].name IN
         IF name \in Components
         THEN ~s.exited /\ s.component = name /\ s.rest = Following(argv, s.ns, n)
         ELSE s.exited

LEMMA PassOne ==
    ASSUME NEW A, NEW argv \in Seq(A), argv[1].name \in TakesComponent, argv # <<>>
    PROVE  Passed(A, argv, 1, ScanStart(argv[1].name))
<1> DEFINE s == ScanStart(argv[1].name)
<1>1. s = [ns |-> argv[1].name, component |-> Empty, exited |-> FALSE,
           options |-> <<>>, rest |-> <<>>]
  BY DEF ScanStart
<1>2. <<>> \in Seq(A)
  OBVIOUS
<1>3. s \in States(A)
  BY <1>1, <1>2 DEF States
<1>4. ComponentAt(argv) \in 2..(Len(argv) + 1)
  BY ComponentPlace
<1>5. OptionsTo(argv, 1) = {}
  BY DEF OptionsTo
<1>6. Picks(<<>>, argv, {})
  <2>1. [k \in 1..Len(<<>>) |-> k] \in [1..Len(<<>>) -> {}]
    OBVIOUS
  <2>2. QED
    BY <2>1 DEF Picks
<1>7. /\ s.ns = argv[1].name /\ s.component = Empty /\ ~s.exited
      /\ s.options = <<>> /\ s.rest = <<>>
  BY <1>1
<1> HIDE DEF s
<1>8. 1 < ComponentAt(argv) /\ ~(1 >= ComponentAt(argv))
  BY <1>4
<1>9. Picks(s.options, argv, OptionsTo(argv, 1))
  BY <1>5, <1>6, <1>7
<1>10. Passed(A, argv, 1, s)
  BY <1>3, <1>7, <1>8, <1>9 DEF Passed
<1>11. QED
  BY <1>10 DEF s

\* A part of a sequence, one place longer.
LEMMA Extended ==
    ASSUME NEW A, NEW q \in Seq(A), NEW n \in 1..Len(q), NEW m \in 1..n
    PROVE  SubSeq(q, m, n) = Append(SubSeq(q, m, n - 1), q[n])
<1> DEFINE u == SubSeq(q, m, n)
           v == SubSeq(q, m, n - 1)
<1>0. m \in Nat /\ n \in Nat /\ m <= n /\ q[n] \in A
  OBVIOUS
<1>1. u \in Seq(A) /\ Len(u) = n - m + 1 /\ \A i \in 1..(n - m + 1) : u[i] = q[m + i - 1]
  OBVIOUS
<1>2. v \in Seq(A) /\ Len(v) = n - m /\ \A i \in 1..(n - m) : v[i] = q[m + i - 1]
  OBVIOUS
<1> HIDE DEF u, v
<1>3. Append(v, q[n]) \in Seq(A) /\ Len(Append(v, q[n])) = n - m + 1
      /\ \A i \in 1..(n - m + 1) : Append(v, q[n])[i] = q[m + i - 1]
  <2>1. Append(v, q[n]) \in Seq(A) /\ Len(Append(v, q[n])) = n - m + 1
    BY <1>2
  <2>2. ASSUME NEW i \in 1..(n - m + 1) PROVE Append(v, q[n])[i] = q[m + i - 1]
    <3>1. CASE i \in 1..(n - m)
      BY <1>2, <3>1
    <3>2. CASE i = n - m + 1
      <4>1. m + i - 1 = n
        BY <3>2
      <4>2. i = Len(v) + 1
        BY <1>0, <1>2, <3>2
      <4>3. Append(v, q[n])[Len(v) + 1] = q[n]
        BY <1>0, <1>2
      <4>4. QED
        BY <4>1, <4>2, <4>3
    <3>3. i \in 1..(n - m) \/ i = n - m + 1
      BY <1>0
    <3>4. QED
      BY <3>1, <3>2, <3>3, Zenon
  <2>3. QED
    BY <2>1, <2>2
<1>4. u = Append(v, q[n])
  BY <1>1, <1>3, SeqEqual
<1>5. QED
  BY <1>4 DEF u, v

LEMMA PassNext ==
    ASSUME NEW A, NEW argv \in Seq(A), NEW n \in 2..Len(argv), NEW s, Passed(A, argv, n - 1, s)
    PROVE  Passed(A, argv, n, ScanArg(s, argv[n]))
<1> DEFINE a == argv[n]
           t == ScanArg(s, a)
           c == ComponentAt(argv)
<1>1. s \in States(A) /\ a \in A /\ s.ns = argv[1].name /\ argv # <<>>
  BY DEF Passed
<1>2. /\ t \in States(A) /\ t.ns = s.ns
      /\ s.exited => t = s
      /\ ~s.exited /\ s.component = Empty =>
           /\ t.rest = s.rest
           /\ t.options = IF a.form = "long" THEN Append(s.options, a) ELSE s.options
           /\ t.exited = (a.form = "plain" /\ a.name \notin Components)
           /\ t.component = IF a.form = "plain" /\ a.name \in Components
                            THEN a.name ELSE Empty
      /\ ~s.exited /\ s.component # Empty =>
           /\ t.options = s.options /\ ~t.exited /\ t.component = s.component
           /\ t.rest = IF s.ns \in {"install", "start"} THEN Append(s.rest, a) ELSE s.rest
  BY <1>1, ScanArgCases
<1>3. /\ c \in 2..(Len(argv) + 1)
      /\ \A i \in 2..(c - 1) : argv[i].form # "plain"
      /\ c <= Len(argv) => argv[c].form = "plain"
  BY <1>1, ComponentPlace
<1> HIDE DEF t, c
<1>4. Picks(s.options, argv, OptionsTo(argv, n - 1)) /\ s.options \in Seq(A)
  BY <1>1 DEF Passed, States
<1>5. CASE n < c
  <2>1. s.component = Empty /\ ~s.exited /\ s.rest = <<>> /\ a.form # "plain"
    BY <1>3, <1>5 DEF Passed, c
  <2>2. t.component = Empty /\ ~t.exited /\ t.rest = <<>>
    BY <1>2, <2>1
  <2>3. Picks(t.options, argv, OptionsTo(argv, n))
    <3>1. CASE a.form = "long"
      <4>1. t.options = Append(s.options, argv[n])
        BY <1>2, <2>1, <3>1
      <4>2. OptionsTo(argv, n) = OptionsTo(argv, n - 1) \cup {n}
        BY <1>5, <3>1 DEF OptionsTo, c
      <4>3. OptionsTo(argv, n - 1) \subseteq 1..(n - 1) /\ n \in 1..Len(argv)
        BY DEF OptionsTo
      <4>4. Picks(Append(s.options, argv[n]), argv, OptionsTo(argv, n - 1) \cup {n})
        BY <1>4, <4>3, PickNext
      <4>5. QED
        BY <4>1, <4>2, <4>4
    <3>2. CASE a.form # "long"
      <4>1. t.options = s.options
        BY <1>2, <2>1, <3>2
      <4>2. OptionsTo(argv, n) = OptionsTo(argv, n - 1)
        BY <3>2 DEF OptionsTo
      <4>3. QED
        BY <1>4, <4>1, <4>2
    <3>3. QED
      BY <3>1, <3>2
  <2>4. QED
    BY <1>1, <1>2, <1>3, <1>5, <2>2, <2>3 DEF Passed, t, c
<1>6. ASSUME n >= c PROVE OptionsTo(argv, n) = OptionsTo(argv, n - 1)
  BY <1>3, <1>6 DEF OptionsTo, c
<1>7. CASE n = c
  <2>1. s.component = Empty /\ ~s.exited /\ s.rest = <<>> /\ a.form = "plain"
    BY <1>3, <1>7 DEF Passed, c
  <2>2. t.options = s.options /\ t.rest = <<>> /\ t.exited = (a.name \notin Components)
    BY <1>2, <2>1
  <2>3. a.name \in Components => t.component = a.name
    BY <1>2, <2>1
  <2>4. Following(argv, t.ns, n) = <<>>
    <3>1. SubSeq(argv, n + 1, n) = <<>>
      OBVIOUS
    <3>2. QED
      BY <1>7, <3>1 DEF Following, c
  <2>5. Picks(t.options, argv, OptionsTo(argv, n)) /\ ~(n < c)
    BY <1>3, <1>4, <1>6, <1>7, <2>2
  <2>6. argv[c].name \in Components =>
          ~t.exited /\ t.component = argv[c].name /\ t.rest = Following(argv, t.ns, n)
    BY <1>7, <2>2, <2>3, <2>4
  <2>7. argv[c].name \notin Components => t.exited
    BY <1>7, <2>2
  <2>8. QED
    BY <1>1, <1>2, <2>5, <2>6, <2>7 DEF Passed, t, c
<1>8. CASE n > c
  <2>1. n - 1 >= c /\ n >= c /\ ~(n < c)
    BY <1>3, <1>8
  <2>2. CASE argv[c].name \notin Components
    <3>1. s.exited /\ t = s
      BY <1>2, <2>1, <2>2 DEF Passed, c
    <3>2. QED
      BY <1>1, <1>2, <1>4, <1>6, <2>1, <2>2, <3>1 DEF Passed, t, c
  <2>3. CASE argv[c].name \in Components
    <3>1. /\ ~s.exited /\ s.component = argv[c].name /\ s.component # Empty
          /\ s.rest = Following(argv, s.ns, n - 1)
      BY <2>1, <2>3, CommandLineAssumption DEF Passed, c
    <3>2. /\ t.options = s.options /\ ~t.exited /\ t.component = s.component
          /\ t.rest = IF s.ns \in {"install", "start"} THEN Append(s.rest, a) ELSE s.rest
      BY <1>2, <3>1
    <3>3. SubSeq(argv, c + 1, n) = Append(SubSeq(argv, c + 1, n - 1), argv[n])
      <4>1. n \in 1..Len(argv) /\ c + 1 \in 1..n
        BY <1>3, <1>8
      <4>2. QED
        BY <4>1, Extended
    <3>4. t.rest = Following(argv, t.ns, n)
      BY <1>2, <3>1, <3>2, <3>3 DEF Following, c
    <3>5. QED
      BY <1>1, <1>2, <1>4, <1>6, <2>1, <2>3, <3>1, <3>2, <3>4 DEF Passed, t, c
  <2>4. QED
    BY <2>2, <2>3
<1>9. QED
  BY <1>3, <1>5, <1>7, <1>8

LEMMA ScanPasses ==
    ASSUME NEW A, NEW argv \in Seq(A), argv # <<>>, argv[1].name \in TakesComponent
    PROVE  Passed(A, argv, Len(argv), Scan(argv))
<1> DEFINE n == Len(argv)
<1>1. PICK f : IsScan(f, argv, n) /\ Scan(argv) = f[n]
  BY ScanExists
<1>2. \A k \in 1..n : f[k] = IF k = 1 THEN ScanStart(argv[1].name)
                             ELSE ScanArg(f[k - 1], argv[k])
  BY <1>1 DEF IsScan
<1> DEFINE T == {k \in 1..n : Passed(A, argv, k, f[k])}
<1>3. n \in Nat /\ n > 0
  OBVIOUS
<1>4. 1 \in T
  BY <1>2, <1>3, PassOne
<1>5. ASSUME NEW k \in 1..n, k > 1, k - 1 \in T PROVE k \in T
  <2>1. Passed(A, argv, k - 1, f[k - 1]) /\ k \in 2..n
    BY <1>5
  <2>2. f[k] = ScanArg(f[k - 1], argv[k])
    BY <1>2, <1>5
  <2>3. QED
    BY <2>1, <2>2, PassNext
<1>6. n \in T
  <2> HIDE DEF T
  <2>1. \A k \in 1..n : k > 1 /\ k - 1 \in T => k \in T
    BY <1>5
  <2>2. \A k \in 1..n : k \in T
    BY <1>3, <1>4, <2>1, UpTo
  <2>3. QED
    BY <1>3, <2>2
<1>7. QED
  BY <1>1, <1>6

-----------------------------------------------------------------------------
(* What argparse makes of the options that the scan has kept. *)

\* The value of an option is that of the last place that gives it.
LEMMA ValueAtLast ==
    ASSUME NEW A, NEW argv \in Seq(A), NEW options \in Seq(A), NEW name,
           NEW I, I \subseteq 1..Len(argv), Picks(options, argv, I),
           \A i \in I : argv[i].form = "long"
    PROVE  LET J == {i \in I : argv[i].name = name} IN
           /\ J = {} => Value(options, name) = Empty
           /\ J # {} => \E m \in J :
                /\ \A j \in J : j <= m
                /\ Value(options, name) = IF argv[m].value = Missing THEN Set ELSE argv[m].value
<1> DEFINE n == Len(options)
           J == {i \in I : argv[i].name = name}
           K == {k \in DOMAIN options : options[k].form = "long" /\ options[k].name = name}
           x == CHOOSE k \in K : \A j \in K : j <= k
<1>1. n \in Nat /\ DOMAIN options = 1..n
  OBVIOUS
<1>2. PICK g \in [1..n -> I] :
        /\ \A j, k \in 1..n : j < k => g[j] < g[k]
        /\ \A j \in I : \E k \in 1..n : g[k] = j
        /\ \A k \in 1..n : options[k] = argv[g[k]]
  BY DEF Picks
<1>3. Value(options, name) = IF K = {} THEN Empty
                             ELSE IF options[x].value = Missing THEN Set ELSE options[x].value
  BY DEF Value
<1> HIDE DEF x
<1>4. ASSUME NEW k \in 1..n PROVE g[k] \in Nat /\ (k \in K <=> g[k] \in J)
  <2>1. g[k] \in I /\ options[k] = argv[g[k]]
    BY <1>2
  <2>2. \A i \in I : i \in Nat
    OBVIOUS
  <2>3. argv[g[k]].form = "long"
    BY <2>1
  <2>4. QED
    BY <1>1, <2>1, <2>2, <2>3
<1>5. \A j \in J : \E k \in K : g[k] = j
  BY <1>1, <1>2
<1>6. K \subseteq 1..n
  BY <1>1
<1> HIDE DEF n, J, K
<1>7. CASE J = {}
  BY <1>3, <1>4, <1>6, <1>7 DEF J
<1>8. CASE J # {}
  <2>1. K # {}
    BY <1>5, <1>8
  <2>2. \E k \in K : \A j \in K : j <= k
    BY <1>1, <1>6, <2>1, Greatest
  <2>3. x \in K /\ \A j \in K : j <= x
    BY <2>2 DEF x
  <2>4. g[x] \in J /\ options[x] = argv[g[x]]
    BY <1>2, <1>4, <1>6, <2>3
  <2>5. ASSUME NEW j \in J PROVE j <= g[x]
    <3>1. PICK k \in K : g[k] = j
      BY <1>5
    <3>2. k \in 1..n /\ x \in 1..n /\ k <= x
      BY <1>6, <2>3
    <3>3. CASE k = x
      <4>1. g[x] \in Nat
        BY <1>4, <3>2
      <4>2. QED
        BY <3>1, <3>3, <4>1
    <3>4. CASE k # x
      <4>1. k < x /\ g[k] \in Nat /\ g[x] \in Nat
        BY <1>1, <1>4, <3>2, <3>4
      <4>2. g[k] < g[x]
        BY <1>2, <3>2, <4>1
      <4>3. QED
        BY <3>1, <4>1, <4>2
    <3>5. QED
      BY <3>3, <3>4
  <2>6. Value(options, name) = IF argv[g[x]].value = Missing THEN Set ELSE argv[g[x]].value
    BY <1>3, <2>1, <2>4
  <2>7. QED
    BY <1>8, <2>4, <2>5, <2>6 DEF J
<1>9. QED
  BY <1>7, <1>8

\* The places of the options, and the last that gives a value.
LEMMA OptionPlaces ==
    ASSUME NEW A, NEW argv \in Seq(A), argv # <<>>
    PROVE  /\ OptionsAt(argv) = OptionsTo(argv, Len(argv))
           /\ OptionsAt(argv) \subseteq 1..Len(argv)
           /\ \A i \in OptionsAt(argv) : argv[i].form = "long"
<1>1. ComponentAt(argv) \in 2..(Len(argv) + 1) /\ Len(argv) \in Nat
  BY ComponentPlace
<1>2. QED
  BY <1>1 DEF OptionsAt, OptionsTo

LEMMA LastGivenAt ==
    ASSUME NEW A, NEW argv \in Seq(A), argv # <<>>, NEW name
    PROVE  LET J == {i \in OptionsAt(argv) : argv[i].name = name} IN
           /\ J = {} => LastGiven(argv, name) = Empty
           /\ \A m \in J : (\A j \in J : j <= m) => LastGiven(argv, name) = argv[m].value
<1> DEFINE J == {i \in OptionsAt(argv) : argv[i].name = name}
           x == CHOOSE i \in J : \A j \in J : j <= i
<1>1. LastGiven(argv, name) = IF J = {} THEN Empty ELSE argv[x].value
  BY DEF LastGiven
<1>2. J \subseteq Nat
  BY OptionPlaces
<1> HIDE DEF J
<1>3. ASSUME NEW m \in J, \A j \in J : j <= m PROVE x = m
  <2>1. x \in J /\ \A j \in J : j <= x
    BY <1>3
  <2> HIDE DEF x
  <2>2. x <= m /\ m <= x /\ x \in Nat /\ m \in Nat
    BY <1>2, <1>3, <2>1
  <2>3. QED
    BY <2>2
<1> HIDE DEF x
<1>4. QED
  BY <1>1, <1>3 DEF J

\* Which options a namespace has with a value and which without.
LEMMA Parsers ==
    ASSUME NEW ns \in TakesComponent, NEW c \in Components \cup {Empty}
    PROVE  /\ Valued[ns] \subseteq {"id", "repo", "branch"}
           /\ (Flags[ns] \cup AddedFlags(ns, c)) \cap Valued[ns] = {}
<1>1. ns \in Namespaces /\ ns # "config" /\ ns # "node"
  BY DEF TakesComponent, Namespaces
<1>2. Valued[ns] \subseteq {"id", "repo", "branch"}
  BY <1>1 DEF Valued, Namespaces
<1>3. Flags[ns] \cap Valued[ns] = {}
  BY <1>1, <1>2 DEF Flags
<1>4. AddedFlags(ns, c) \cap Valued[ns] = {}
  BY <1>1, CommandLineAssumption DEF AddedFlags
<1>5. QED
  BY <1>2, <1>3, <1>4

\* argparse accepts the options if every one that is given is declared and has a value, or not,
\* as declared.
LEMMA AcceptsDeclared ==
    ASSUME NEW A, NEW argv \in Seq(A), NEW options \in Seq(A), NEW ns, NEW c,
           NEW I, I \subseteq 1..Len(argv), Picks(options, argv, I),
           \A i \in I : argv[i].form = "long"
    PROVE  Accepts(ns, c, options) <=> \A i \in I : WellFormed(ns, c, argv[i])
<1> DEFINE n == Len(options)
<1>1. DOMAIN options = 1..n
  OBVIOUS
<1>2. PICK g \in [1..n -> I] :
        /\ \A j, k \in 1..n : j < k => g[j] < g[k]
        /\ \A j \in I : \E k \in 1..n : g[k] = j
        /\ \A k \in 1..n : options[k] = argv[g[k]]
  BY DEF Picks
<1> HIDE DEF n
<1>3. ASSUME Accepts(ns, c, options), NEW i \in I PROVE WellFormed(ns, c, argv[i])
  <2>1. PICK k \in 1..n : g[k] = i
    BY <1>2
  <2>2. WellFormed(ns, c, options[k]) /\ options[k] = argv[i]
    BY <1>1, <1>2, <1>3, <2>1 DEF Accepts
  <2>3. QED
    BY <2>2
<1>4. ASSUME \A i \in I : WellFormed(ns, c, argv[i]) PROVE Accepts(ns, c, options)
  <2>1. SUFFICES ASSUME NEW k \in 1..n
                 PROVE  options[k].form = "long" /\ WellFormed(ns, c, options[k])
    BY <1>1 DEF Accepts
  <2>2. g[k] \in I /\ options[k] = argv[g[k]]
    BY <1>2
  <2>3. QED
    BY <1>4, <2>2
<1>5. QED
  BY <1>3, <1>4

\* Of a vector whose options are accepted: the values and flags are what the options say.
LEMMA OptionsMean ==
    ASSUME NEW A, NEW argv \in Seq(A), argv # <<>>, NEW options \in Seq(A),
           NEW ns \in TakesComponent, NEW c \in Components \cup {Empty},
           Picks(options, argv, OptionsAt(argv)),
           \A i \in OptionsAt(argv) : WellFormed(ns, c, argv[i])
    PROVE  /\ \A name \in Valued[ns] : Value(options, name) = LastGiven(argv, name)
           /\ {f \in Flags[ns] \cup AddedFlags(ns, c) : Value(options, f) = Set}
                = {argv[i].name : i \in OptionsAt(argv)} \ Valued[ns]
<1> DEFINE I == OptionsAt(argv)
           J(name) == {i \in I : argv[i].name = name}
           Own == Flags[ns] \cup AddedFlags(ns, c)
<1>1. I \subseteq 1..Len(argv) /\ \A i \in I : argv[i].form = "long"
  BY OptionPlaces
<1>2. ASSUME NEW name
      PROVE  /\ J(name) = {} => Value(options, name) = Empty
             /\ J(name) # {} => \E m \in J(name) :
                  /\ \A j \in J(name) : j <= m
                  /\ Value(options, name)
                       = IF argv[m].value = Missing THEN Set ELSE argv[m].value
  BY <1>1, ValueAtLast
<1>3. Own \cap Valued[ns] = {}
  BY Parsers
<1>4. \A i \in I : \/ argv[i].name \in Valued[ns] /\ argv[i].value # Missing
                   \/ argv[i].name \in Own /\ argv[i].value = Missing
  BY DEF WellFormed
<1>5. Empty # Set
  BY CommandLineAssumption
<1>6. ASSUME NEW name
      PROVE  /\ J(name) = {} => LastGiven(argv, name) = Empty
             /\ \A m \in J(name) :
                  (\A j \in J(name) : j <= m) => LastGiven(argv, name) = argv[m].value
  BY LastGivenAt
<1> HIDE DEF I, Own
<1>7. ASSUME NEW name \in Valued[ns]
      PROVE  Value(options, name) = LastGiven(argv, name)
  <2>1. CASE J(name) = {}
    BY <1>2, <1>6, <2>1
  <2>2. CASE J(name) # {}
    <3>1. PICK m \in J(name) :
            /\ \A j \in J(name) : j <= m
            /\ Value(options, name) = IF argv[m].value = Missing THEN Set ELSE argv[m].value
      BY <1>2, <2>2
    <3>2. LastGiven(argv, name) = argv[m].value
      BY <1>6, <3>1
    <3>3. argv[m].value # Missing
      BY <1>3, <1>4
    <3>4. QED
      BY <3>1, <3>2, <3>3
  <2>3. QED
    BY <2>1, <2>2
<1>8. ASSUME NEW f \in Own, Value(options, f) = Set
      PROVE  f \in {argv[i].name : i \in I} \ Valued[ns]
  <2>1. J(f) # {}
    BY <1>2, <1>5, <1>8
  <2>2. QED
    BY <1>3, <2>1
<1>9. ASSUME NEW i \in I, argv[i].name \notin Valued[ns]
      PROVE  argv[i].name \in Own /\ Value(options, argv[i].name) = Set
  <2>1. \A j \in J(argv[i].name) : argv[j].name \in Own /\ argv[j].value = Missing
    BY <1>3, <1>4, <1>9
  <2>2. i \in J(argv[i].name)
    OBVIOUS
  <2>3. PICK m \in J(argv[i].name) : Value(options, argv[i].name)
          = IF argv[m].value = Missing THEN Set ELSE argv[m].value
    BY <1>2, <2>2
  <2>4. QED
    BY <2>1, <2>2, <2>3
<1>10. QED
  BY <1>7, <1>8, <1>9 DEF I, Own

\* A vector of a namespace that takes a component means what the documentation says.
LEMMA VectorMeaning ==
    ASSUME NEW A, NEW argv \in Seq(A), argv # <<>>,
           argv[1] \in {Plain(ns) : ns \in TakesComponent}
    PROVE  Means(argv, ParseArgs(argv))
<1> DEFINE n == Len(argv)
           s == Scan(argv)
           c == ComponentAt(argv)
           component == IF c > n THEN Empty ELSE argv[c].name
           unknown == c <= n /\ argv[c].name \notin Components
<1>1. argv[1].form = "plain" /\ argv[1].name \in TakesComponent
  BY DEF Plain
<1>2. Passed(A, argv, n, s)
  BY <1>1, ScanPasses
<1>3. c \in 2..(n + 1) /\ n \in Nat
  BY ComponentPlace
<1> HIDE DEF s
<1>4. s \in States(A) /\ s.ns = argv[1].name /\ Picks(s.options, argv, OptionsAt(argv))
  BY <1>2, OptionPlaces DEF Passed
<1>5. /\ unknown => s.exited
      /\ ~unknown => /\ ~s.exited /\ s.component = component
                     /\ component \in Components \cup {Empty}
                     /\ s.ns = "start" => s.rest = SubSeq(argv, c + 1, n)
  <2>1. CASE c > n
    <3>1. SubSeq(argv, c + 1, n) = <<>>
      BY <1>3, <2>1
    <3>2. QED
      BY <1>2, <1>3, <2>1, <3>1 DEF Passed
  <2>2. CASE c <= n
    BY <1>2, <1>3, <2>2 DEF Passed, Following
  <2>3. QED
    BY <1>3, <2>1, <2>2
<1> HIDE DEF c, n, component, unknown
<1>6. ParseArgs(argv) = IF s.exited \/ ~Accepts(s.ns, s.component, s.options)
                        THEN Refused ELSE Inputs(s)
  BY <1>1, <1>4 DEF ParseArgs, TakesComponent, Namespaces, s
<1>7. s.options \in Seq(A) /\ s.ns \in TakesComponent
  BY <1>4 DEF States
<1> DEFINE declared == \A i \in OptionsAt(argv) : WellFormed(s.ns, component, argv[i])
           places == OptionsAt(argv)
<1>12. /\ places \subseteq 1..Len(argv)
       /\ \A i \in places : argv[i].form = "long"
  BY OptionPlaces
<1>13. /\ Picks(s.options, argv, places)
       /\ declared <=> \A i \in places : WellFormed(s.ns, component, argv[i])
  BY <1>4
<1> HIDE DEF places, declared
<1>14. Accepts(s.ns, component, s.options) <=> declared
  <2>1. Accepts(s.ns, component, s.options)
          <=> \A i \in places : WellFormed(s.ns, component, argv[i])
    BY <1>7, <1>12, <1>13, AcceptsDeclared
  <2>2. QED
    BY <1>13, <2>1
<1>8. CASE unknown
  BY <1>5, <1>6, <1>8 DEF Means, c, n, component, unknown, declared
<1>9. CASE ~unknown /\ ~declared
  <2>1. ~Accepts(s.ns, s.component, s.options)
    BY <1>5, <1>9, <1>14
  <2>2. ParseArgs(argv) = Refused
    BY <1>6, <2>1
  <2>3. QED
    BY <1>4, <1>9, <2>2 DEF Means, c, n, component, unknown, declared
<1>10. CASE ~unknown /\ declared
  <2>1. Accepts(s.ns, s.component, s.options)
    BY <1>5, <1>10, <1>14
  <2>2. ParseArgs(argv) = Inputs(s)
    BY <1>5, <1>6, <1>10, <2>1
  <2>3. /\ \A name \in Valued[s.ns] : Value(s.options, name) = LastGiven(argv, name)
        /\ {f \in Flags[s.ns] \cup AddedFlags(s.ns, component) : Value(s.options, f) = Set}
             = {argv[i].name : i \in OptionsAt(argv)} \ Valued[s.ns]
    <3>1. component \in Components \cup {Empty}
      BY <1>5, <1>10
    <3>2. \A i \in OptionsAt(argv) : WellFormed(s.ns, component, argv[i])
      BY <1>10 DEF declared
    <3> DEFINE ns == s.ns
               options == s.options
    <3>3. /\ options \in Seq(A) /\ ns \in TakesComponent
          /\ Picks(options, argv, OptionsAt(argv))
          /\ \A i \in OptionsAt(argv) : WellFormed(ns, component, argv[i])
      BY <1>4, <1>7, <3>2
    <3> HIDE DEF ns, options
    <3>4. /\ \A name \in Valued[ns] : Value(options, name) = LastGiven(argv, name)
          /\ {f \in Flags[ns] \cup AddedFlags(ns, component) : Value(options, f) = Set}
               = {argv[i].name : i \in OptionsAt(argv)} \ Valued[ns]
      BY <3>1, <3>3, OptionsMean
    <3>5. QED
      BY <3>4 DEF ns, options
  <2> DEFINE inputs == Inputs(s)
  <2>4. /\ inputs.ns = argv[1].name /\ inputs.component = component
        /\ \A name \in Valued[s.ns] : inputs[name] = Value(s.options, name)
        /\ inputs.flags = {f \in Flags[s.ns] \cup AddedFlags(s.ns, component) :
                             Value(s.options, f) = Set}
        /\ inputs.args = IF inputs.ns = "start" THEN SubSeq(argv, c + 1, n) ELSE <<>>
    <3>1. s.component = component /\ s.ns = argv[1].name
          /\ (s.ns = "start" => s.rest = SubSeq(argv, c + 1, n))
      BY <1>4, <1>5, <1>10
    <3>2. /\ inputs["id"] = Parsed(s, "id") /\ inputs["repo"] = Parsed(s, "repo")
          /\ inputs["branch"] = Parsed(s, "branch")
      BY DEF Inputs
    <3>3. Valued[s.ns] \subseteq {"id", "repo", "branch"}
      BY <1>5, <1>7, <1>10, Parsers
    <3>4. inputs.flags = {f \in Flags[s.ns] \cup AddedFlags(s.ns, component) :
                             Value(s.options, f) = Set}
      BY <3>1 DEF Inputs
    <3>5. /\ inputs.ns = argv[1].name /\ inputs.component = component
          /\ inputs.args = IF inputs.ns = "start" THEN SubSeq(argv, c + 1, n) ELSE <<>>
      BY <3>1 DEF Inputs
    <3> HIDE DEF inputs
    <3>6. \A name \in Valued[s.ns] : inputs[name] = Value(s.options, name)
      BY <3>2, <3>3 DEF Parsed
    <3>7. QED
      BY <3>4, <3>5, <3>6
  <2> HIDE DEF inputs
  <2>5. Means(argv, inputs)
    BY <1>4, <1>10, <2>3, <2>4 DEF Means, c, n, component, unknown, declared
  <2>6. QED
    BY <2>2, <2>5 DEF inputs
<1>11. QED
  BY <1>8, <1>9, <1>10

-----------------------------------------------------------------------------
(* What a library call's command line means. *)

LEMMA OneWhen ==
    ASSUME NEW A, NEW a \in A, NEW condition
    PROVE  /\ When(condition, a) \in Seq(A)
           /\ Range(When(condition, a)) = IF condition THEN {a} ELSE {}
<1>1. CASE condition
  <2>1. When(condition, a) = <<a>>
    BY <1>1 DEF When
  <2>2. <<a>> \in Seq(A) /\ Len(<<a>>) = 1 /\ <<a>>[1] = a
    OBVIOUS
  <2>3. Range(<<a>>) = {<<a>>[i] : i \in 1..1}
    BY <2>2, RangeEquality
  <2>4. {<<a>>[i] : i \in 1..1} = {a}
    BY <2>2
  <2>5. QED
    BY <1>1, <2>1, <2>2, <2>3, <2>4
<1>2. CASE ~condition
  <2>1. When(condition, a) = <<>>
    BY <1>2 DEF When
  <2>2. <<>> \in Seq(A) /\ Len(<<>>) = 0
    OBVIOUS
  <2>3. Range(<<>>) = {<<>>[i] : i \in 1..0}
    BY <2>2, RangeEquality
  <2>4. {<<>>[i] : i \in 1..0} = {}
    OBVIOUS
  <2>5. QED
    BY <1>2, <2>1, <2>2, <2>3, <2>4
<1>3. QED
  BY <1>1, <1>2

\* A namespace, options, a component if there is one, and what follows it.
LaidOut(A, argv, h, pre, mid, tail) ==
    LET c == ComponentAt(argv) IN
    /\ argv \in Seq(A) /\ argv # <<>> /\ argv[1] = h
    /\ c <= Len(argv) <=> mid # <<>>
    /\ mid # <<>> => argv[c] = mid[1]
    /\ {argv[i] : i \in OptionsAt(argv)} = Range(pre)
    /\ SubSeq(argv, c + 1, Len(argv)) = tail

LEMMA Layout ==
    ASSUME NEW A, NEW h \in A, NEW pre \in Seq(A), NEW mid \in Seq(A), NEW tail \in Seq(A),
           \A i \in 1..Len(pre) : pre[i].form = "long",
           \/ mid = <<>> /\ tail = <<>>
           \/ Len(mid) = 1 /\ mid[1].form = "plain"
    PROVE  LaidOut(A, <<h>> \o ((pre \o mid) \o tail), h, pre, mid, tail)
<1> DEFINE w == (pre \o mid) \o tail
           argv == <<h>> \o w
           p == Len(pre)
           m == Len(mid)
           l == Len(tail)
           c == ComponentAt(argv)
<1>1. /\ pre \o mid \in Seq(A) /\ Len(pre \o mid) = p + m
      /\ \A i \in 1..(p + m) : (pre \o mid)[i] = IF i <= p THEN pre[i] ELSE mid[i - p]
      /\ p \in Nat /\ m \in Nat /\ l \in Nat
  BY ConcatProperties
<1>2. /\ w \in Seq(A) /\ Len(w) = p + m + l
      /\ \A i \in 1..(p + m + l) :
           w[i] = IF i <= p + m THEN (pre \o mid)[i] ELSE tail[i - (p + m)]
  BY <1>1, ConcatProperties
<1> HIDE DEF w
<1>3. /\ argv \in Seq(A) /\ Len(argv) = 1 + p + m + l
      /\ \A i \in 1..(1 + p + m + l) : argv[i] = IF i <= 1 THEN <<h>>[i] ELSE w[i - 1]
  <2>1. <<h>> \in Seq(A) /\ Len(<<h>>) = 1
    OBVIOUS
  <2> DEFINE first == <<h>>
  <2> HIDE DEF first
  <2>2. /\ first \o w \in Seq(A) /\ Len(first \o w) = Len(first) + Len(w)
        /\ \A i \in 1..(Len(first) + Len(w)) :
             (first \o w)[i] = IF i <= Len(first) THEN first[i] ELSE w[i - Len(first)]
    <3>1. first \in Seq(A) /\ w \in Seq(A)
      BY <1>2, <2>1 DEF first
    <3>2. QED
      BY <3>1, ConcatProperties
  <2>3. Len(first) = 1 /\ 1 + Len(w) = 1 + p + m + l /\ argv = first \o w
    BY <1>1, <1>2, <2>1 DEF first
  <2> HIDE DEF argv
  <2>4. /\ argv \in Seq(A) /\ Len(argv) = 1 + p + m + l
        /\ \A i \in 1..(1 + p + m + l) : argv[i] = IF i <= 1 THEN first[i] ELSE w[i - 1]
    BY <2>2, <2>3
  <2>5. QED
    BY <2>4 DEF first
<1> HIDE DEF argv, p, m, l, c
<1>4. argv[1] = h
  <2>1. 1 \in 1..(1 + p + m + l) /\ <<h>>[1] = h
    BY <1>1
  <2>2. QED
    BY <1>3, <2>1
<1>5. ASSUME NEW i \in 1..p PROVE i + 1 \in 2..Len(argv) /\ argv[i + 1] = pre[i]
  <2>1. /\ i + 1 \in 1..(1 + p + m + l) /\ i + 1 > 1 /\ (i + 1) - 1 = i
        /\ i \in 1..(p + m + l) /\ i \in 1..(p + m) /\ i <= p
    BY <1>1
  <2>2. argv[i + 1] = w[(i + 1) - 1]
    BY <1>3, <2>1
  <2>3. w[i] = (pre \o mid)[i]
    BY <1>1, <1>2, <2>1
  <2>4. (pre \o mid)[i] = pre[i]
    BY <1>1, <2>1
  <2>5. i + 1 \in 2..Len(argv)
    BY <1>1, <1>3
  <2>6. QED
    BY <2>1, <2>2, <2>3, <2>4, <2>5
<1>6. m = 1 => argv[p + 2] = mid[1]
  <2>1. SUFFICES ASSUME m = 1 PROVE argv[p + 2] = mid[1]
    OBVIOUS
  <2>2. /\ p + 2 \in 1..(1 + p + m + l) /\ p + 2 > 1 /\ (p + 2) - 1 = p + 1
        /\ p + 1 \in 1..(p + m + l) /\ p + 1 \in 1..(p + m) /\ ~(p + 1 <= p) /\ p + 1 <= p + m
        /\ (p + 1) - p = 1
    BY <1>1, <2>1
  <2>3. argv[p + 2] = w[(p + 2) - 1]
    BY <1>3, <2>2
  <2>4. w[p + 1] = (pre \o mid)[p + 1]
    BY <1>2, <2>2
  <2>5. (pre \o mid)[p + 1] = mid[(p + 1) - p]
    BY <1>1, <2>2
  <2>6. QED
    BY <2>2, <2>3, <2>4, <2>5
<1>7. ASSUME NEW i \in 1..l PROVE argv[(p + m + 1) + i] = tail[i]
  <2>1. /\ p + m + 1 + i \in 1..(1 + p + m + l) /\ p + m + 1 + i > 1
        /\ (p + m + 1 + i) - 1 = p + m + i
        /\ p + m + i \in 1..(p + m + l) /\ ~(p + m + i <= p + m) /\ (p + m + i) - (p + m) = i
    BY <1>1
  <2>2. argv[p + m + 1 + i] = w[p + m + i] /\ w[p + m + i] = tail[i]
    BY <1>2, <1>3, <2>1
  <2>3. QED
    BY <2>2
<1>8. /\ mid = <<>> => m = 0 /\ l = 0 /\ tail = <<>>
      /\ mid # <<>> => m = 1 /\ mid[1].form = "plain"
  BY DEF m, l
<1>9. c = p + 2
  <2> DEFINE I == {i \in 2..Len(argv) : argv[i].form = "plain"}
  <2>1. ASSUME NEW i \in 2..(p + 1) PROVE argv[i].form = "long"
    <3>1. i - 1 \in 1..p /\ (i - 1) + 1 = i
      BY <1>1
    <3>2. argv[i] = pre[i - 1]
      BY <1>5, <3>1
    <3>3. QED
      BY <3>1, <3>2 DEF p
  <2>2. ASSUME NEW i \in I PROVE i >= p + 2
    <3>1. i \in Nat /\ i >= 2 /\ argv[i].form # "long"
      OBVIOUS
    <3>2. i \notin 2..(p + 1)
      BY <2>1, <3>1
    <3>3. QED
      BY <1>1, <3>1, <3>2
  <2>3. CASE mid = <<>>
    <3>1. Len(argv) + 1 = p + 2 /\ I = {}
      BY <1>1, <1>3, <1>8, <2>2, <2>3
    <3>2. QED
      BY <3>1 DEF c, ComponentAt
  <2>4. CASE mid # <<>>
    <3>1. p + 2 \in I
      BY <1>1, <1>3, <1>6, <1>8, <2>4
    <3>2. c = CHOOSE i \in I : \A j \in I : i <= j
      BY <3>1 DEF c, ComponentAt
    <3>3. I \subseteq Nat
      OBVIOUS
    <3> HIDE DEF I
    <3>4. \E i \in I : \A j \in I : i <= j
      BY <2>2, <3>1
    <3>5. c \in I /\ \A j \in I : c <= j
      BY <3>2, <3>4
    <3>6. QED
      BY <1>1, <2>2, <3>1, <3>3, <3>5
  <2>5. QED
    BY <2>3, <2>4
<1>10. c <= Len(argv) <=> mid # <<>>
  BY <1>1, <1>3, <1>8, <1>9
<1>11. mid # <<>> => argv[c] = mid[1]
  BY <1>6, <1>8, <1>9
<1>12. {argv[i] : i \in OptionsAt(argv)} = Range(pre)
  <2>1. ASSUME NEW i \in 1..p
        PROVE  i + 1 \in OptionsAt(argv) /\ argv[i + 1] = pre[i]
    <3>1. i + 1 \in 2..(c - 1)
      BY <1>1, <1>9
    <3>2. argv[i + 1].form = "long"
      BY <1>5 DEF p
    <3>3. QED
      BY <1>5, <3>1, <3>2 DEF OptionsAt, c
  <2>2. ASSUME NEW i \in OptionsAt(argv)
        PROVE  i - 1 \in 1..p /\ argv[i] = pre[i - 1]
    <3>1. i \in 2..(p + 1)
      BY <1>1, <1>9 DEF OptionsAt, c
    <3>2. i - 1 \in 1..p /\ (i - 1) + 1 = i
      BY <1>1, <3>1
    <3>3. QED
      BY <1>5, <3>2
  <2>3. Range(pre) = {pre[i] : i \in 1..p}
    BY RangeEquality DEF p
  <2>4. {argv[i] : i \in OptionsAt(argv)} \subseteq {pre[i] : i \in 1..p}
    BY <2>2
  <2>5. {pre[i] : i \in 1..p} \subseteq {argv[i] : i \in OptionsAt(argv)}
    BY <2>1
  <2>6. QED
    BY <2>3, <2>4, <2>5
<1>13. SubSeq(argv, c + 1, Len(argv)) = tail
  <2> DEFINE u == SubSeq(argv, c + 1, Len(argv))
  <2>1. CASE mid = <<>>
    <3>1. c + 1 > Len(argv)
      BY <1>1, <1>3, <1>8, <1>9, <2>1
    <3>2. u = <<>>
      BY <1>1, <1>3, <1>9, <3>1
    <3>3. QED
      BY <1>8, <2>1, <3>2
  <2>2. CASE mid # <<>>
    <3>1. m = 1 /\ Len(argv) = p + 2 + l /\ c + 1 = p + 3
      BY <1>1, <1>3, <1>8, <1>9, <2>2
    <3>2. u \in Seq(A) /\ Len(u) = l /\ \A i \in 1..l : u[i] = argv[p + 2 + i]
      <4>1. u = SubSeq(argv, p + 3, p + 2 + l)
        BY <3>1
      <4> HIDE DEF u
      <4>2. Len(u) = l /\ \A i \in 1..l : u[i] = argv[p + 2 + i]
        BY <1>1, <1>3, <3>1, <4>1
      <4>3. u \in Seq(A)
        <5>1. c + 1 \in 1..(Len(argv) + 1)
          BY <1>1, <3>1
        <5>2. QED
          BY <1>3, <5>1 DEF u
      <4>4. QED
        BY <4>2, <4>3
    <3> HIDE DEF u
    <3>3. ASSUME NEW i \in 1..l PROVE u[i] = tail[i]
      <4>1. argv[(p + m + 1) + i] = tail[i]
        BY <1>7
      <4>2. (p + m + 1) + i = p + 2 + i
        BY <1>1, <3>1
      <4>3. QED
        BY <3>2, <4>1, <4>2
    <3>4. u = tail
      BY <3>2, <3>3, SeqEqual DEF l
    <3>5. QED
      BY <3>4 DEF u
  <2>3. QED
    BY <2>1, <2>2
<1>14. argv # <<>>
  BY <1>1, <1>3
<1>15. QED
  BY <1>3, <1>4, <1>10, <1>11, <1>12, <1>13, <1>14 DEF argv, c, w, LaidOut

\* What LibraryArgv puts before the component and after it, and the options it asks for.
Leading(r) ==
    CASE r.call = "install" -> RepoArgs(r) \o IdArg(r)
      [] r.call = "start" -> RepoArgs(r) \o StartFlags(r) \o IdArg(r)
                               \o NetworkFlag(r) \o SeedFlag(r)
      [] r.call = "stop" -> IdArg(r)
      [] r.call = "reset" -> RepoArgs(r) \o IdArg(r) \o SeedFlag(r)
Trailing(r) == IF r.call = "start" THEN r.args ELSE <<>>
Values(r) == (IF r.id # Empty THEN {Opt("id", r.id)} ELSE {})
             \cup (IF r.call # "stop" /\ r.repo # Empty THEN {Opt("repo", r.repo)} ELSE {})
             \cup (IF r.call # "stop" /\ r.branch # Empty THEN {Opt("branch", r.branch)} ELSE {})
Asked(r) == Values(r) \cup {Flag(f) : f \in RequestFlags(r)}
Words(r) == Arguments \cup {Plain(r.call), Plain(r.component), Opt("id", r.id),
                            Opt("repo", r.repo), Opt("branch", r.branch), Flag("new"),
                            Flag("gui"), Flag(r.mode), Flag(r.network),
                            Flag("deterministic-seed")}

LEMMA RequestParts ==
    ASSUME NEW r \in Requests
    PROVE  LET A == Words(r) IN
           /\ RepoArgs(r) \in Seq(A) /\ IdArg(r) \in Seq(A) /\ StartFlags(r) \in Seq(A)
           /\ NetworkFlag(r) \in Seq(A) /\ SeedFlag(r) \in Seq(A) /\ ComponentArg(r) \in Seq(A)
           /\ Range(IdArg(r)) = IF r.id # Empty THEN {Opt("id", r.id)} ELSE {}
           /\ Range(RepoArgs(r)) = (IF r.repo # Empty THEN {Opt("repo", r.repo)} ELSE {})
                \cup (IF r.branch # Empty THEN {Opt("branch", r.branch)} ELSE {})
           /\ Range(StartFlags(r)) = (IF r.new THEN {Flag("new")} ELSE {})
                \cup (IF r.gui THEN {Flag("gui")} ELSE {})
                \cup (IF r.mode # Empty THEN {Flag(r.mode)} ELSE {})
           /\ Range(NetworkFlag(r)) = IF r.network # Empty THEN {Flag(r.network)} ELSE {}
           /\ Range(SeedFlag(r)) = IF r.seed THEN {Flag("deterministic-seed")} ELSE {}
<1> DEFINE A == Words(r)
<1>1. /\ Opt("id", r.id) \in A /\ Opt("repo", r.repo) \in A /\ Opt("branch", r.branch) \in A
      /\ Flag("new") \in A /\ Flag("gui") \in A /\ Flag(r.mode) \in A /\ Flag(r.network) \in A
      /\ Flag("deterministic-seed") \in A /\ Plain(r.component) \in A
  BY DEF Words
<1> HIDE DEF A
<1>2. /\ IdArg(r) \in Seq(A)
      /\ Range(IdArg(r)) = IF r.id # Empty THEN {Opt("id", r.id)} ELSE {}
  BY <1>1, OneWhen DEF IdArg, Given
<1>3. /\ NetworkFlag(r) \in Seq(A)
      /\ Range(NetworkFlag(r)) = IF r.network # Empty THEN {Flag(r.network)} ELSE {}
  BY <1>1, OneWhen DEF NetworkFlag, Given
<1>4. /\ SeedFlag(r) \in Seq(A)
      /\ Range(SeedFlag(r)) = IF r.seed THEN {Flag("deterministic-seed")} ELSE {}
  BY <1>1, OneWhen DEF SeedFlag
<1>5. ComponentArg(r) \in Seq(A)
  BY <1>1, OneWhen DEF ComponentArg, Given
<1>6. /\ RepoArgs(r) \in Seq(A)
      /\ Range(RepoArgs(r)) = (IF r.repo # Empty THEN {Opt("repo", r.repo)} ELSE {})
           \cup (IF r.branch # Empty THEN {Opt("branch", r.branch)} ELSE {})
  <2> DEFINE u == Given(r.repo, Opt("repo", r.repo))
             v == Given(r.branch, Opt("branch", r.branch))
  <2>1. /\ u \in Seq(A)
        /\ Range(u) = IF r.repo # Empty THEN {Opt("repo", r.repo)} ELSE {}
    BY <1>1, OneWhen DEF Given
  <2>2. /\ v \in Seq(A)
        /\ Range(v) = IF r.branch # Empty THEN {Opt("branch", r.branch)} ELSE {}
    BY <1>1, OneWhen DEF Given
  <2>3. RepoArgs(r) = u \o v
    BY DEF RepoArgs
  <2> HIDE DEF u, v
  <2>4. u \o v \in Seq(A) /\ Range(u \o v) = Range(u) \cup Range(v)
    BY <2>1, <2>2, ConcatProperties, RangeConcatenation
  <2>5. QED
    BY <2>1, <2>2, <2>3, <2>4
<1>7. /\ StartFlags(r) \in Seq(A)
      /\ Range(StartFlags(r)) = (IF r.new THEN {Flag("new")} ELSE {})
           \cup (IF r.gui THEN {Flag("gui")} ELSE {})
           \cup (IF r.mode # Empty THEN {Flag(r.mode)} ELSE {})
  <2> DEFINE u == When(r.new, Flag("new"))
             v == When(r.gui, Flag("gui"))
             w == Given(r.mode, Flag(r.mode))
  <2>1. u \in Seq(A) /\ Range(u) = IF r.new THEN {Flag("new")} ELSE {}
    BY <1>1, OneWhen
  <2>2. v \in Seq(A) /\ Range(v) = IF r.gui THEN {Flag("gui")} ELSE {}
    BY <1>1, OneWhen
  <2>3. w \in Seq(A) /\ Range(w) = IF r.mode # Empty THEN {Flag(r.mode)} ELSE {}
    BY <1>1, OneWhen DEF Given
  <2>4. StartFlags(r) = (u \o v) \o w
    BY DEF StartFlags
  <2> HIDE DEF u, v, w
  <2>5. u \o v \in Seq(A) /\ Range(u \o v) = Range(u) \cup Range(v)
    BY <2>1, <2>2, ConcatProperties, RangeConcatenation
  <2>6. /\ (u \o v) \o w \in Seq(A)
        /\ Range((u \o v) \o w) = Range(u \o v) \cup Range(w)
    <3> DEFINE x == u \o v
    <3>1. x \in Seq(A)
      BY <2>5
    <3> HIDE DEF x
    <3>2. x \o w \in Seq(A) /\ Range(x \o w) = Range(x) \cup Range(w)
      BY <2>3, <3>1, ConcatProperties, RangeConcatenation
    <3>3. QED
      BY <3>2 DEF x
  <2>7. QED
    BY <2>1, <2>2, <2>3, <2>4, <2>5, <2>6
<1>8. QED
  BY <1>2, <1>3, <1>4, <1>5, <1>6, <1>7 DEF A

LEMMA LibraryParts ==
    ASSUME NEW r \in Requests
    PROVE  LET A == Words(r)
               C == ComponentArg(r) IN
           /\ LibraryArgv(r) = <<Plain(r.call)>> \o ((Leading(r) \o C) \o Trailing(r))
           /\ Leading(r) \in Seq(A) /\ C \in Seq(A) /\ Trailing(r) \in Seq(A)
           /\ Range(Leading(r)) = Asked(r)
           /\ \/ r.component = Empty /\ C = <<>> /\ Trailing(r) = <<>>
              \/ r.component # Empty /\ Len(C) = 1 /\ C[1] = Plain(r.component)
<1> DEFINE A == Words(r)
           C == ComponentArg(r)
           repo == RepoArgs(r)
           id == IdArg(r)
           fl == StartFlags(r)
           net == NetworkFlag(r)
           seed == SeedFlag(r)
           repoSet == (IF r.repo # Empty THEN {Opt("repo", r.repo)} ELSE {})
                      \cup (IF r.branch # Empty THEN {Opt("branch", r.branch)} ELSE {})
           idSet == IF r.id # Empty THEN {Opt("id", r.id)} ELSE {}
           flSet == (IF r.new THEN {Flag("new")} ELSE {})
                    \cup (IF r.gui THEN {Flag("gui")} ELSE {})
                    \cup (IF r.mode # Empty THEN {Flag(r.mode)} ELSE {})
           netSet == IF r.network # Empty THEN {Flag(r.network)} ELSE {}
           seedSet == IF r.seed THEN {Flag("deterministic-seed")} ELSE {}
<1>1. /\ repo \in Seq(A) /\ id \in Seq(A) /\ fl \in Seq(A) /\ net \in Seq(A) /\ seed \in Seq(A)
      /\ C \in Seq(A)
      /\ Range(id) = idSet /\ Range(repo) = repoSet /\ Range(fl) = flSet
      /\ Range(net) = netSet /\ Range(seed) = seedSet
  BY RequestParts
<1>2. /\ r.call \in {"install", "start", "stop", "reset"}
      /\ r.call \in {"install", "start"} => r.component # Empty
      /\ r.call = "start" => {r.new, r.gui} \subseteq BOOLEAN /\ r.args \in Seq(Arguments)
  BY RequestAssumption
<1>3. \/ r.component = Empty /\ C = <<>>
      \/ r.component # Empty /\ Len(C) = 1 /\ C[1] = Plain(r.component)
  BY DEF ComponentArg, Given, When
<1>4. \/ r.component = Empty /\ C = <<>> /\ Trailing(r) = <<>>
      \/ r.component # Empty /\ Len(C) = 1 /\ C[1] = Plain(r.component)
  <2>1. r.component = Empty => Trailing(r) = <<>>
    BY <1>2 DEF Trailing
  <2>2. QED
    BY <1>3, <2>1
<1>5. Trailing(r) \in Seq(A)
  <2>1. CASE r.call = "start"
    <3>1. Arguments \subseteq A
      BY DEF Words
    <3>2. r.args \in Seq(Arguments) /\ Trailing(r) = r.args
      BY <1>2, <2>1 DEF Trailing
    <3> HIDE DEF A
    <3>3. QED
      BY <3>1, <3>2, SeqMonotonic
  <2>2. CASE r.call # "start"
    BY <2>2 DEF Trailing
  <2>3. QED
    BY <2>1, <2>2
<1>6. idSet \cup (IF r.call # "stop" THEN repoSet ELSE {})
        \cup (IF r.call = "start" THEN flSet \cup netSet ELSE {})
        \cup (IF r.call \in {"start", "reset"} THEN seedSet ELSE {}) = Asked(r)
  <2>1. idSet \cup (IF r.call # "stop" THEN repoSet ELSE {}) = Values(r)
    BY DEF Values
  <2>2. (IF r.call = "start" THEN flSet \cup netSet ELSE {})
        \cup (IF r.call \in {"start", "reset"} THEN seedSet ELSE {})
          = {Flag(f) : f \in RequestFlags(r)}
    <3> DEFINE G == IF r.call = "start" THEN {f \in {"new", "gui"} : r[f]} ELSE {}
               M == IF r.call = "start" THEN {r.mode} \ {Empty} ELSE {}
               N == IF r.call = "start" THEN {r.network} \ {Empty} ELSE {}
               D == IF r.call \in {"start", "reset"} /\ r.seed
                    THEN {"deterministic-seed"} ELSE {}
    <3>1. RequestFlags(r) = ((G \cup M) \cup D) \cup N
      BY DEF RequestFlags
    <3>2. {Flag(f) : f \in G} = IF r.call = "start" THEN (IF r.new THEN {Flag("new")} ELSE {})
                                  \cup (IF r.gui THEN {Flag("gui")} ELSE {}) ELSE {}
      <4>1. CASE r.call = "start"
        <5>1. G = (IF r.new THEN {"new"} ELSE {}) \cup (IF r.gui THEN {"gui"} ELSE {})
          BY <4>1
        <5> HIDE DEF G
        <5>2. QED
          BY <4>1, <5>1
      <4>2. CASE r.call # "start"
        BY <4>2
      <4>3. QED
        BY <4>1, <4>2
    <3>3. {Flag(f) : f \in M} = IF r.call = "start" /\ r.mode # Empty THEN {Flag(r.mode)} ELSE {}
      OBVIOUS
    <3>4. {Flag(f) : f \in N} = IF r.call = "start" THEN netSet ELSE {}
      OBVIOUS
    <3>5. {Flag(f) : f \in D} = IF r.call \in {"start", "reset"} THEN seedSet ELSE {}
      OBVIOUS
    <3> HIDE DEF G, M, N, D
    <3>6. {Flag(f) : f \in RequestFlags(r)} = {Flag(f) : f \in G} \cup {Flag(f) : f \in M}
            \cup {Flag(f) : f \in N} \cup {Flag(f) : f \in D}
      BY <3>1
    <3>7. QED
      BY <3>2, <3>3, <3>4, <3>5, <3>6
  <2> HIDE DEF repoSet, idSet, flSet, netSet, seedSet
  <2>3. QED
    BY <2>1, <2>2 DEF Asked
<1> HIDE DEF A, C, repo, id, fl, net, seed, repoSet, idSet, flSet, netSet, seedSet
<1>7. ASSUME NEW u \in Seq(A), NEW v \in Seq(A)
      PROVE  u \o v \in Seq(A) /\ Range(u \o v) = Range(u) \cup Range(v)
  BY ConcatProperties, RangeConcatenation
<1>8. ASSUME NEW u \in Seq(A) PROVE u \o <<>> = u
  BY ConcatEmptySeq
<1>9. CASE r.call = "install"
  <2>1. Leading(r) = repo \o id /\ Trailing(r) = <<>>
    BY <1>9 DEF Leading, Trailing, repo, id
  <2>2. LibraryArgv(r) = <<Plain(r.call)>> \o ((repo \o id) \o C)
    BY <1>9 DEF LibraryArgv, repo, id, C
  <2>3. repo \o id \in Seq(A) /\ Range(repo \o id) = repoSet \cup idSet
    BY <1>1, <1>7
  <2>4. ((repo \o id) \o C) \o <<>> = (repo \o id) \o C
    BY <1>1, <1>7, <1>8, <2>3
  <2>5. repoSet \cup idSet = Asked(r)
    BY <1>6, <1>9
  <2>6. QED
    BY <1>1, <1>4, <1>5, <2>1, <2>2, <2>3, <2>4, <2>5 DEF A, C
<1>10. CASE r.call = "start"
  <2> DEFINE pre == (((repo \o fl) \o id) \o net) \o seed
  <2>1. Leading(r) = pre /\ Trailing(r) = r.args
    BY <1>10 DEF Leading, Trailing, repo, id, fl, net, seed
  <2>2. LibraryArgv(r) = <<Plain(r.call)>> \o ((pre \o C) \o r.args)
    BY <1>10 DEF LibraryArgv, repo, id, fl, net, seed, C
  <2>3. repo \o fl \in Seq(A) /\ Range(repo \o fl) = repoSet \cup flSet
    BY <1>1, <1>7
  <2>4. (repo \o fl) \o id \in Seq(A) /\ Range((repo \o fl) \o id) = repoSet \cup flSet \cup idSet
    BY <1>1, <1>7, <2>3
  <2>5. /\ ((repo \o fl) \o id) \o net \in Seq(A)
        /\ Range(((repo \o fl) \o id) \o net) = repoSet \cup flSet \cup idSet \cup netSet
    BY <1>1, <1>7, <2>4
  <2>6. pre \in Seq(A) /\ Range(pre) = repoSet \cup flSet \cup idSet \cup netSet \cup seedSet
    BY <1>1, <1>7, <2>5
  <2>7. repoSet \cup flSet \cup idSet \cup netSet \cup seedSet = Asked(r)
    BY <1>6, <1>10
  <2> HIDE DEF pre
  <2>8. QED
    BY <1>1, <1>4, <1>5, <2>1, <2>2, <2>6, <2>7 DEF A, C
<1>11. CASE r.call = "stop"
  <2>1. Leading(r) = id /\ Trailing(r) = <<>>
    BY <1>11 DEF Leading, Trailing, id
  <2>2. LibraryArgv(r) = <<Plain(r.call)>> \o (id \o C)
    BY <1>11 DEF LibraryArgv, id, C
  <2>3. (id \o C) \o <<>> = id \o C
    BY <1>1, <1>7, <1>8
  <2>4. idSet = Asked(r)
    BY <1>6, <1>11
  <2>5. QED
    BY <1>1, <1>4, <1>5, <2>1, <2>2, <2>3, <2>4 DEF A, C
<1>12. CASE r.call = "reset"
  <2> DEFINE pre == (repo \o id) \o seed
  <2>1. Leading(r) = pre /\ Trailing(r) = <<>>
    BY <1>12 DEF Leading, Trailing, repo, id, seed
  <2>2. LibraryArgv(r) = <<Plain(r.call)>> \o (pre \o C)
    BY <1>12 DEF LibraryArgv, repo, id, seed, C
  <2>3. repo \o id \in Seq(A) /\ Range(repo \o id) = repoSet \cup idSet
    BY <1>1, <1>7
  <2>4. pre \in Seq(A) /\ Range(pre) = repoSet \cup idSet \cup seedSet
    BY <1>1, <1>7, <2>3
  <2> HIDE DEF pre
  <2>5. (pre \o C) \o <<>> = pre \o C
    BY <1>1, <1>7, <1>8, <2>4
  <2>6. repoSet \cup idSet \cup seedSet = Asked(r)
    BY <1>6, <1>12
  <2>7. QED
    BY <1>1, <1>4, <1>5, <2>1, <2>2, <2>4, <2>5, <2>6 DEF A, C
<1>13. QED
  BY <1>2, <1>9, <1>10, <1>11, <1>12

\* The value of an option is one that is given.
LEMMA LastGivenSome ==
    ASSUME NEW A, NEW argv \in Seq(A), argv # <<>>, NEW name
    PROVE  LET J == {i \in OptionsAt(argv) : argv[i].name = name} IN
           /\ J = {} => LastGiven(argv, name) = Empty
           /\ J # {} => \E m \in J : LastGiven(argv, name) = argv[m].value
<1> DEFINE J == {i \in OptionsAt(argv) : argv[i].name = name}
<1>1. /\ J = {} => LastGiven(argv, name) = Empty
      /\ \A m \in J : (\A j \in J : j <= m) => LastGiven(argv, name) = argv[m].value
  BY LastGivenAt
<1>2. J \subseteq 1..Len(argv) /\ Len(argv) \in Nat
  BY OptionPlaces
<1> HIDE DEF J
<1>3. CASE J # {}
  <2>1. PICK m \in J : \A j \in J : j <= m
    BY <1>2, <1>3, Greatest
  <2>2. QED
    BY <1>1, <1>3, <2>1 DEF J
<1>4. QED
  BY <1>1, <1>3 DEF J

\* The fields of what a request asks for.
LEMMA AskedFields ==
    ASSUME NEW r \in Requests
    PROVE  \A a \in Asked(r) :
             /\ a.form = "long"
             /\ \/ a.name = "id" /\ a.value = r.id /\ r.id # Empty
                \/ a.name = "repo" /\ a.value = r.repo /\ r.call # "stop" /\ r.repo # Empty
                \/ a.name = "branch" /\ a.value = r.branch /\ r.call # "stop" /\ r.branch # Empty
                \/ a.name \in RequestFlags(r) /\ a.value = Missing
<1>1. ASSUME NEW a \in Values(r)
      PROVE  /\ a.form = "long"
             /\ \/ a.name = "id" /\ a.value = r.id /\ r.id # Empty
                \/ a.name = "repo" /\ a.value = r.repo /\ r.call # "stop" /\ r.repo # Empty
                \/ a.name = "branch" /\ a.value = r.branch /\ r.call # "stop" /\ r.branch # Empty
  <2>1. \/ a = Opt("id", r.id) /\ r.id # Empty
        \/ a = Opt("repo", r.repo) /\ r.call # "stop" /\ r.repo # Empty
        \/ a = Opt("branch", r.branch) /\ r.call # "stop" /\ r.branch # Empty
    BY DEF Values
  <2>2. QED
    BY <2>1 DEF Opt
<1>2. ASSUME NEW f \in RequestFlags(r)
      PROVE  Flag(f).form = "long" /\ Flag(f).name = f /\ Flag(f).value = Missing
  BY DEF Flag
<1>3. QED
  BY <1>1, <1>2 DEF Asked

\* The vector that a library call builds is parsed back to the call.
LEMMA RequestMeaning ==
    ASSUME NEW r \in Requests
    PROVE  RoundTrips(r)
<1> DEFINE A == Words(r)
           argv == LibraryArgv(r)
           c == ComponentAt(argv)
           I == OptionsAt(argv)
           inputs == ParseArgs(argv)
           ns == r.call
           Own == Flags[ns] \cup AddedFlags(ns, r.component)
           C == ComponentArg(r)
<1>1. /\ ns \in {"install", "start", "stop", "reset"}
      /\ r.component \in Components \cup {Empty} /\ r.id # Missing
      /\ ns # "stop" => r.repo # Missing /\ r.branch # Missing
  BY RequestAssumption
<1>2. Empty \notin Components /\ Empty # Missing
  BY CommandLineAssumption
<1>3. /\ argv = <<Plain(ns)>> \o ((Leading(r) \o C) \o Trailing(r))
      /\ Leading(r) \in Seq(A) /\ C \in Seq(A) /\ Trailing(r) \in Seq(A)
      /\ Range(Leading(r)) = Asked(r)
      /\ \/ r.component = Empty /\ C = <<>> /\ Trailing(r) = <<>>
         \/ r.component # Empty /\ Len(C) = 1 /\ C[1] = Plain(r.component)
  BY LibraryParts
<1>4. \A i \in 1..Len(Leading(r)) : Leading(r)[i].form = "long"
  <2>1. \A i \in 1..Len(Leading(r)) : Leading(r)[i] \in Asked(r)
    BY <1>3, RangeEquality
  <2>2. QED
    BY <2>1, AskedFields
<1>5. Plain(ns) \in A /\ Plain(r.component).form = "plain"
      /\ Plain(r.component).name = r.component
  BY DEF Words, Plain
<1> HIDE DEF A, argv, C
<1>6. /\ argv \in Seq(A) /\ argv # <<>> /\ argv[1] = Plain(ns)
      /\ c <= Len(argv) <=> C # <<>>
      /\ C # <<>> => argv[c] = C[1]
      /\ {argv[i] : i \in I} = Asked(r)
      /\ SubSeq(argv, c + 1, Len(argv)) = Trailing(r)
  <2> DEFINE pre == Leading(r)
             tail == Trailing(r)
             full == <<Plain(ns)>> \o ((pre \o C) \o tail)
  <2>1. (C = <<>> /\ tail = <<>>) \/ (Len(C) = 1 /\ C[1].form = "plain")
    BY <1>3, <1>5
  <2>2. argv = full /\ Range(pre) = Asked(r)
    BY <1>3
  <2> DEFINE h == Plain(ns)
  <2>3. /\ h \in A /\ pre \in Seq(A) /\ C \in Seq(A) /\ tail \in Seq(A)
        /\ \A i \in 1..Len(pre) : pre[i].form = "long"
        /\ (C = <<>> /\ tail = <<>>) \/ (Len(C) = 1 /\ C[1].form = "plain")
    BY <1>3, <1>4, <1>5, <2>1
  <2> HIDE DEF pre, tail, h
  <2>4. LaidOut(A, <<h>> \o ((pre \o C) \o tail), h, pre, C, tail)
    BY <2>3, Layout
  <2>5. LaidOut(A, full, Plain(ns), pre, C, tail)
    BY <2>4 DEF h
  <2> HIDE DEF full
  <2>6. QED
    BY <2>2, <2>5 DEF tail, LaidOut
<1>7. ns \in TakesComponent /\ argv[1].name = ns
  BY <1>1, <1>6 DEF TakesComponent, Plain
<1>8. Means(argv, inputs)
  BY <1>6, <1>7, VectorMeaning
<1>9. (c > Len(argv) => r.component = Empty) /\ (c <= Len(argv) => argv[c].name = r.component)
      /\ c \in Nat /\ Len(argv) \in Nat
  <2>1. c \in Nat /\ Len(argv) \in Nat
    BY <1>6, ComponentPlace
  <2>2. C = <<>> => r.component = Empty
    BY <1>3
  <2>3. C # <<>> => C[1].name = r.component
    BY <1>3, <1>5
  <2>4. QED
    BY <1>6, <2>1, <2>2, <2>3
<1>10. r.component = (IF c > Len(argv) THEN Empty ELSE argv[c].name)
       /\ ~(c <= Len(argv) /\ argv[c].name \notin Components)
  <2>1. c <= Len(argv) => r.component # Empty
    BY <1>3, <1>6
  <2>2. QED
    BY <1>1, <1>9, <2>1
<1> HIDE DEF c, inputs
<1>11. /\ Valued[ns] \subseteq {"id", "repo", "branch"} /\ Own \cap Valued[ns] = {}
       /\ "id" \in Valued[ns] /\ (ns # "stop" => {"repo", "branch"} \subseteq Valued[ns])
  <2>1. Valued[ns] \subseteq {"id", "repo", "branch"} /\ Own \cap Valued[ns] = {}
    BY <1>1, <1>7, Parsers
  <2>2. "id" \in Valued[ns] /\ (ns # "stop" => {"repo", "branch"} \subseteq Valued[ns])
    BY <1>1 DEF Valued, Namespaces
  <2>3. QED
    BY <2>1, <2>2
<1> HIDE DEF Own
<1>12. /\ \A i \in I : argv[i] \in Asked(r)
       /\ \A a \in Asked(r) : \E i \in I : argv[i] = a
  BY <1>6
<1> HIDE DEF I
<1>13. (\A i \in I : WellFormed(ns, r.component, argv[i])) <=> RequestFlags(r) \subseteq Own
  <2>1. ASSUME \A i \in I : WellFormed(ns, r.component, argv[i]), NEW f \in RequestFlags(r)
        PROVE  f \in Own
    <3>1. Flag(f) \in Asked(r) /\ Flag(f).name = f /\ Flag(f).value = Missing
      BY DEF Asked, Flag
    <3>2. WellFormed(ns, r.component, Flag(f))
      BY <1>12, <2>1, <3>1
    <3>3. QED
      BY <3>1, <3>2 DEF WellFormed, Own
  <2>2. ASSUME RequestFlags(r) \subseteq Own, NEW i \in I
        PROVE  WellFormed(ns, r.component, argv[i])
    <3>1. \/ argv[i].name \in Valued[ns] /\ argv[i].value # Missing
          \/ argv[i].name \in Own /\ argv[i].value = Missing
      BY <1>1, <1>11, <1>12, <2>2, AskedFields
    <3>2. QED
      BY <3>1 DEF WellFormed, Own
  <2>3. QED
    BY <2>1, <2>2
<1>14. CASE ~(RequestFlags(r) \subseteq Own)
  <2>1. inputs = Refused
    BY <1>7, <1>8, <1>10, <1>13, <1>14 DEF Means, c, I
  <2>2. QED
    BY <1>14, <2>1 DEF RoundTrips, inputs, argv, Own
<1>15. CASE RequestFlags(r) \subseteq Own
  <2>1. /\ inputs.ns = ns /\ inputs.component = r.component
        /\ \A name \in Valued[ns] : inputs[name] = LastGiven(argv, name)
        /\ inputs.flags = {argv[i].name : i \in I} \ Valued[ns]
        /\ inputs.args = IF inputs.ns = "start" THEN SubSeq(argv, c + 1, Len(argv)) ELSE <<>>
    BY <1>7, <1>8, <1>10, <1>13, <1>15 DEF Means, c, I
  <2>2. \A i \in I : \/ argv[i].name = "id" /\ argv[i].value = r.id
                     \/ ns # "stop" /\ argv[i].name = "repo" /\ argv[i].value = r.repo
                     \/ ns # "stop" /\ argv[i].name = "branch" /\ argv[i].value = r.branch
                     \/ argv[i].name \in RequestFlags(r) \ Valued[ns]
    BY <1>11, <1>12, <1>15, AskedFields
  <2>3. ASSUME NEW name \in Valued[ns], NEW v,
               \A i \in I : argv[i].name = name => argv[i].value = v,
               v # Empty => \E i \in I : argv[i].name = name
         PROVE  LastGiven(argv, name) = v
    <3> DEFINE J == {i \in OptionsAt(argv) : argv[i].name = name}
    <3>1. /\ J = {} => LastGiven(argv, name) = Empty
          /\ J # {} => \E m \in J : LastGiven(argv, name) = argv[m].value
      BY <1>6, LastGivenSome
    <3>2. CASE J = {}
      <4>1. v = Empty
        BY <2>3, <3>2 DEF I
      <4>2. QED
        BY <3>1, <3>2, <4>1
    <3>3. CASE J # {}
      <4>1. \A m \in J : argv[m].value = v
        BY <2>3 DEF I
      <4> HIDE DEF J
      <4>2. QED
        BY <3>1, <3>3, <4>1
    <3>4. QED
      BY <3>2, <3>3
  <2>4. LastGiven(argv, "id") = r.id
    <3>1. r.id # Empty => \E i \in I : argv[i].name = "id"
      <4>1. r.id # Empty => Opt("id", r.id) \in Asked(r) /\ Opt("id", r.id).name = "id"
        BY DEF Asked, Values, Opt
      <4>2. QED
        BY <1>12, <4>1
    <3>2. QED
      BY <1>11, <2>2, <2>3, <3>1
  <2>5. ns # "stop" => LastGiven(argv, "repo") = r.repo
    <3>1. ns # "stop" /\ r.repo # Empty => \E i \in I : argv[i].name = "repo"
      <4>1. ns # "stop" /\ r.repo # Empty =>
              Opt("repo", r.repo) \in Asked(r) /\ Opt("repo", r.repo).name = "repo"
        BY DEF Asked, Values, Opt
      <4>2. QED
        BY <1>12, <4>1
    <3>2. QED
      BY <1>11, <2>2, <2>3, <3>1
  <2>6. ns # "stop" => LastGiven(argv, "branch") = r.branch
    <3>1. ns # "stop" /\ r.branch # Empty => \E i \in I : argv[i].name = "branch"
      <4>1. ns # "stop" /\ r.branch # Empty =>
              Opt("branch", r.branch) \in Asked(r) /\ Opt("branch", r.branch).name = "branch"
        BY DEF Asked, Values, Opt
      <4>2. QED
        BY <1>12, <4>1
    <3>2. QED
      BY <1>11, <2>2, <2>3, <3>1
  <2>7. {argv[i].name : i \in I} \ Valued[ns] = RequestFlags(r)
    <3>1. ASSUME NEW f \in RequestFlags(r)
          PROVE  f \notin Valued[ns] /\ \E i \in I : argv[i].name = f
      <4>1. Flag(f) \in Asked(r) /\ Flag(f).name = f
        BY DEF Asked, Flag
      <4>2. QED
        BY <1>11, <1>12, <1>15, <4>1
    <3>2. QED
      BY <1>11, <2>2, <3>1
  <2>8. ns = "start" => inputs.args = r.args
    BY <1>6, <2>1 DEF Trailing, c
  <2>9. /\ inputs.ns = ns /\ inputs.component = r.component /\ inputs.id = r.id
        /\ ns # "stop" => inputs.repo = r.repo /\ inputs.branch = r.branch
        /\ inputs.flags = RequestFlags(r)
        /\ ns = "start" => inputs.args = r.args
    BY <1>11, <2>1, <2>4, <2>5, <2>6, <2>7, <2>8
  <2>10. QED
    BY <1>15, <2>9 DEF RoundTrips, inputs, argv, Own
<1>16. QED
  BY <1>14, <1>15

-----------------------------------------------------------------------------
(* The two properties of command lines. *)

\* start.rst NOTE2, for every command line of a namespace that takes a component, however long:
\* generate_cli_inputs gives the options before the component their last value, start passes on
\* what follows the component and the other namespaces ignore it, and a line with an unknown
\* component or an option that the parser does not declare is refused.
THEOREM MeansAsDocumented == Spec => []DocumentedMeaning
<1>1. ParsesAsDocumented
  <2>1. SUFFICES ASSUME NEW argv \in Vectors, argv # <<>>,
                        argv[1] \in {Plain(ns) : ns \in TakesComponent}
                 PROVE  Means(argv, ParseArgs(argv))
    BY DEF ParsesAsDocumented
  <2>2. argv \in Seq(Arguments)
    BY CommandLineAssumption
  <2>3. QED
    BY <2>1, <2>2, VectorMeaning
<1>2. DocumentedMeaning
  BY <1>1 DEF DocumentedMeaning
<1>3. QED
  BY <1>2, PTL

\* commands.py: the command line that install, start, stop or reset of the library builds is
\* parsed back to the id, repository, branch, flags and arguments of the call, or refused when
\* the component's plugin does not have a flag that the call asks for.
THEOREM CallsRoundTrip == Spec => []LibraryCalls
<1>1. LibraryRoundTrip
  BY RequestMeaning DEF LibraryRoundTrip
<1>2. LibraryCalls
  BY <1>1 DEF LibraryCalls
<1>3. QED
  BY <1>2, PTL
=============================================================================
