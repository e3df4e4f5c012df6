---------------------------- MODULE CustomCommands ----------------------------
(***************************************************************************)
(* The command directory: replace and write_dir, validate and read_dir     *)
(* (src/monitor/src/monitoring/custom_cmds.rs), the install script of the  *)
(* app, which does the same over SSH, and the loop of the status script    *)
(* that runs what is in it (src/crates/sbm_parser/src/script.rs).          *)
(*                                                                         *)
(* Grain.  One file system call is one step, and one command the script    *)
(* runs is one: the writers and the script are different processes, and no *)
(* lock keeps two writers apart.  A writer can die between two steps, and  *)
(* either removal can fail without anybody looking.                        *)
(*                                                                         *)
(* Abstracted: a file's name, which stands for its order prefix and the    *)
(* encoded name; a text to the request it came with.  Making a file and    *)
(* filling it are two steps, between which it is Torn.                     *)
(*                                                                         *)
(* History: shared and littered say that the two exceptions have happened  *)
(* in which a torn text may be run.                                        *)
(***************************************************************************)
EXTENDS Naturals, FiniteSets, Sequences

CONSTANTS
  Writer,    \* requests that replace the set, on the panel or by the app
  Named(_),  \* the file names of the set a writer brings, in order
  First,     \* the writer whose set is installed in the beginning
  Torn,      \* the text of a file that is open and not filled, or filled by two
  Gone       \* no directory

Skipped == "skipped"

ASSUME CommandsAssumption ==
  /\ First \notin Writer /\ Torn \notin Writer \cup {First, Skipped}
  /\ \A w \in Writer \cup {First} : Named(w) \in Seq(Nat)

VARIABLES
  folder,  \* the directory: its files and their texts, or Gone
  aside,   \* the directory beside it, `.new`, or Gone
  todo,    \* what a writer still has to do
  opened,  \* where the file a writer opened last is now: "aside", "folder", "gone"
  glob,    \* the paths the script has still to run
  ranIt,   \* the texts it ran, and Skipped for a path that was no file any more
  shared,  \* history: a writer began while another was at work
  littered \* history: a torn file stayed aside because the removal failed

commandVars == <<folder, aside, todo, opened, glob, ranIt, shared, littered>>

Files(d) == IF d = Gone THEN {} ELSE DOMAIN d
Full(w) == [n \in {Named(w)[i] : i \in DOMAIN Named(w)} |-> w]
With(d, n, text) == [m \in DOMAIN d \cup {n} |-> IF m = n THEN text ELSE d[m]]
Without(d, n) == [m \in DOMAIN d \ {n} |-> d[m]]

\* A text that some writer brought, and a directory with no other.
Texts == Writer \cup {First}
Whole(d) == \A n \in Files(d) : d[n] \in Texts

\* validate: one file for each name.
validate(w) == Cardinality({Named(w)[i] : i \in DOMAIN Named(w)}) = Len(Named(w))

\* write_dir: clear what an earlier writer left aside, make and fill each file
\* there, remove the old directory, move the new one in.
Plan(w) ==
  <<[op |-> "clear"], [op |-> "mkdir"]>>
  \o [i \in 1..2 * Len(Named(w)) |->
        [op   |-> IF i % 2 = 1 THEN "open" ELSE "fill",
         file |-> Named(w)[(i + 1) \div 2]]]
  \o <<[op |-> "remove"], [op |-> "rename"]>>

\* MUTANT (Target): written in place.
InPlace == "folder"

Target == "aside"
At(place) == CASE place = "aside" -> aside [] place = "folder" -> folder [] OTHER -> Gone
InDirectory(place, d) ==
  /\ aside' = IF place = "aside" THEN d ELSE aside
  /\ folder' = IF place = "folder" THEN d ELSE folder

CommandsInit ==
  /\ folder = Full(First) /\ aside = Gone
  /\ todo = [w \in Writer |-> <<>>]
  /\ opened = [w \in Writer |-> "gone"]
  /\ glob = <<>> /\ ranIt = <<>>
  /\ shared = FALSE /\ littered = FALSE

Replace(w) ==
  /\ todo[w] = <<>> /\ validate(w)
  /\ todo' = [todo EXCEPT ![w] = Plan(w)]
  /\ shared' = (shared \/ \E v \in Writer \ {w} : todo[v] # <<>>)
  /\ UNCHANGED <<folder, aside, opened, glob, ranIt, littered>>

Op(w, op) == todo[w] # <<>> /\ Head(todo[w]).op = op
Done(w) == todo' = [todo EXCEPT ![w] = Tail(@)]
Failed(w) == todo' = [todo EXCEPT ![w] = <<>>]

\* A writer that has this file open goes on writing, into no directory.
Unlinked(place, n) ==
  opened' = [v \in Writer |->
               IF opened[v] = place /\ Op(v, "fill") /\ Head(todo[v]).file = n THEN "gone"
               ELSE opened[v]]

\* remove_dir_all goes through the entries one by one.
Clear(w) ==
  /\ Op(w, "clear")
  /\ IF Files(aside) = {} THEN aside' = Gone /\ Done(w) /\ UNCHANGED opened
     ELSE /\ \E n \in Files(aside) : aside' = Without(aside, n) /\ Unlinked("aside", n)
          /\ UNCHANGED todo
  /\ UNCHANGED <<folder, glob, ranIt, shared, littered>>

ClearFails(w) ==  \* what is left of an earlier set stays
  /\ Op(w, "clear") /\ Done(w)
  /\ littered' = (littered \/ ~Whole(aside))
  /\ UNCHANGED <<folder, aside, opened, glob, ranIt, shared>>

Mkdir(w) ==  \* create_dir_all: no matter whether it is there
  /\ Op(w, "mkdir") /\ Done(w)
  /\ aside' = IF aside = Gone THEN <<>> ELSE aside
  /\ UNCHANGED <<folder, opened, glob, ranIt, shared, littered>>

\* std::fs::write: open truncates.
Open(w) ==
  /\ Op(w, "open")
  /\ IF At(Target) = Gone THEN Failed(w) /\ UNCHANGED <<folder, aside, opened>>
     ELSE /\ Done(w)
          /\ InDirectory(Target, With(At(Target), Head(todo[w]).file, Torn))
          /\ opened' = [opened EXCEPT ![w] = Target]
  /\ UNCHANGED <<glob, ranIt, shared, littered>>

\* The open file is filled wherever it has been moved to meanwhile; over what
\* another writer put into it, what is left may be of both.
Fill(w) ==
  /\ Op(w, "fill") /\ Done(w)
  /\ LET n == Head(todo[w]).file
         d == At(opened[w])
     IN  IF n \notin Files(d) THEN UNCHANGED <<folder, aside>>
         ELSE \E text \in IF d[n] = Torn THEN {w} ELSE {w, Torn} : InDirectory(opened[w], With(d, n, text))
  /\ UNCHANGED <<opened, glob, ranIt, shared, littered>>

RemoveOld(w) ==
  /\ Op(w, "remove")
  /\ IF Files(folder) = {} THEN folder' = Gone /\ Done(w) /\ UNCHANGED opened
     ELSE /\ \E n \in Files(folder) : folder' = Without(folder, n) /\ Unlinked("folder", n)
          /\ UNCHANGED todo
  /\ UNCHANGED <<aside, glob, ranIt, shared, littered>>

RemoveOldFails(w) ==  \* and the rename tries its luck
  /\ Op(w, "remove") /\ Done(w)
  /\ UNCHANGED <<folder, aside, opened, glob, ranIt, shared, littered>>

Rename(w) ==  \* onto a directory that has files it fails
  /\ Op(w, "rename")
  /\ IF aside = Gone \/ Files(folder) # {}
     THEN Failed(w) /\ UNCHANGED <<folder, aside, opened>>
     ELSE /\ folder' = aside /\ aside' = Gone /\ Done(w)
          /\ opened' = [v \in Writer |-> IF opened[v] = "aside" THEN "folder" ELSE opened[v]]
  /\ UNCHANGED <<glob, ranIt, shared, littered>>

Dies(w) ==  \* a call fails, the agent is killed, the SSH connection is lost
  /\ todo[w] # <<>> /\ Failed(w)
  /\ UNCHANGED <<folder, aside, opened, glob, ranIt, shared, littered>>

-----------------------------------------------------------------------------
(* The script: the glob is expanded once, in the order of the names; each  *)
(* path is looked at again before it is run.                               *)

Sorted(S) ==
  LET at(n) == Cardinality({m \in S : m <= n})
  IN  [i \in 1..Cardinality(S) |-> CHOOSE n \in S : at(n) = i]

Expand ==
  /\ glob = <<>>
  /\ glob' = Sorted(Files(folder)) /\ ranIt' = <<>>
  /\ UNCHANGED <<folder, aside, todo, opened, shared, littered>>

Run ==
  /\ glob # <<>>
  /\ LET n == Head(glob)
     IN  ranIt' = Append(ranIt, IF n \in Files(folder) THEN folder[n] ELSE Skipped)
  /\ glob' = Tail(glob)
  /\ UNCHANGED <<folder, aside, todo, opened, shared, littered>>

CommandsNext ==
  \/ \E w \in Writer :
       Replace(w) \/ Clear(w) \/ ClearFails(w) \/ Mkdir(w) \/ Open(w) \/ Fill(w)
         \/ RemoveOld(w) \/ RemoveOldFails(w) \/ Rename(w) \/ Dies(w)
  \/ Expand \/ Run

CommandsSpec == CommandsInit /\ [][CommandsNext]_commandVars

-----------------------------------------------------------------------------
\* read_dir, for the editor: no directory reads as no commands.
ListOfCommands == [i \in 1..Cardinality(Files(folder)) |-> folder[Sorted(Files(folder))[i]]]

\* Every variable has its type.
CommandsTypeOK ==
  LET text == Texts \cup {Torn}
      name == UNION {{Named(w)[i] : i \in DOMAIN Named(w)} : w \in Writer \cup {First}}
      isDir(d) == d = Gone \/ (DOMAIN d \subseteq name /\ \A n \in DOMAIN d : d[n] \in text)
  IN  /\ isDir(folder) /\ isDir(aside)
      /\ opened \in [Writer -> {"gone", "aside", "folder"}]
      /\ shared \in BOOLEAN /\ littered \in BOOLEAN
      /\ \A i \in DOMAIN glob : glob[i] \in name
      /\ \A i \in DOMAIN ranIt : ranIt[i] \in text \cup {Skipped}

\* The script never runs a command whose text has not all been written, at
\* whatever moment it comes to the file, wherever a writer died and whatever
\* removal failed: unless two writers were at work at once, who share the
\* directory beside it, or what a dead writer left torn there could not be
\* removed.
RunsWholeTexts == shared \/ littered \/ \A i \in DOMAIN ranIt : ranIt[i] # Torn

\* custom_cmds.rs:105: "a collection cycle landing mid-write runs the old set
\* or the new one and never half of each".
OneSetPerCycle ==
  glob = <<>> => \A i, j \in DOMAIN ranIt : ranIt[i] = ranIt[j] /\ ranIt[i] # Skipped
=============================================================================
