---------------------------- MODULE SettingsFile ----------------------------
(***************************************************************************)
(* config.toml of the agent: how it comes to be at startup                 *)
(* (src/monitor/src/core/config.rs), how the panel's three PUT handlers    *)
(* rewrite it (src/monitor/src/api/server.rs), how config_file.rs replaces *)
(* it, and what a crash, a power loss, a full disk and a request cancelled *)
(* at an await leave behind.                                               *)
(*                                                                         *)
(* Grain.  A handler waits for the config_write mutex, and the settings    *)
(* one again for live_settings.write(); those are its only awaits, and     *)
(* where a client that hangs up can cancel it.  In between, config_file    *)
(* runs without an await; it is cut into the steps a crash can fall        *)
(* between.                                                                *)
(*                                                                         *)
(* Abstracted: the configuration to one value per group of fields that has *)
(* a handler of its own; authentication and validation, which come before  *)
(* the lock and change nothing.                                            *)
(***************************************************************************)
EXTENDS Integers, Sequences, FiniteSets

CONSTANTS
  Request,     \* handler slots: PUTs that can be in flight at once
  Asked,       \* what clients ask of them
  Value,       \* values of the settings and of the card order
  Fresh,       \* what an empty file stands for: every field is optional
  FromJson,    \* what a config.json left by the older agent says
  Env,         \* SBM_FULL_ACCESS: "unset", "on" or "off"
  MaxBackups,  \* MAX_BACKUPS
  BackupBound, \* bound of the model: the copies failures to prune may leave
  DelayBound,  \* bound of the model: changes of the directory not yet on disk
  Absent, Empty, Cut,  \* not contents: no file, a truncated one, half of one
  Nil          \* no file, no request, no job, no copy

\* full: whether remote_access.full_access comes out on.
Content == [settings : Value, order : Value, full : BOOLEAN]

Job == [kind : {"settings", "order"}, value : Value] \cup [kind : {"full"}, value : {FALSE}]

Text == Content \cup {Absent, Empty, Cut}

ASSUME ContentAssumption == Fresh \in Content /\ FromJson \in Content
ASSUME EnvAssumption     == Env \in {"unset", "on", "off"}
ASSUME BackupAssumption  == MaxBackups \in Nat \ {0}
ASSUME AskedAssumption   == Asked \subseteq Job
ASSUME ConfigBoundAssumption ==
  BackupBound \in Nat /\ BackupBound > MaxBackups /\ DelayBound \in Nat
ASSUME NilAssumption     == /\ Nil \notin Request \cup Asked
                            /\ {Absent, Empty, Cut, Nil} \cap Content = {}

VARIABLES
  toml,      \* config.toml: its text, whether that is flushed, who wrote it
  json,      \* config.json: "present", "migrated" or "absent"
  earlier,   \* directories a power loss may bring back: no rename is flushed
  tmp,       \* config.tmp-<pid>
  backups,   \* config.toml.bak-*, the last modified last, as files like toml
  proc,      \* the agent: "down", "writing", "renaming" (both in load), "up"
  running,   \* AppState.config, a snapshot of startup
  live,      \* AppState.live_settings
  offFlag,   \* AppState.full_access_off
  lock,      \* the holder of AppState.config_write
  pc,        \* where a handler stands
  job,       \* what it was asked
  copy,      \* the Config it read and changed
  offAcked,  \* history: a disable_full_access was answered ok
  reverted,  \* history: a power loss took a rename back
  cutShort   \* history: this process had a request cancelled with its save made

disk     == <<toml, json, earlier, tmp, backups>>
process  == <<proc, running, live, offFlag>>
handlers == <<lock, pc, job, copy>>
history  == <<offAcked, reverted, cutShort>>
configVars     == <<disk, process, handlers, history>>

File(text, synced, by) == [text |-> text, synced |-> synced, by |-> by]
Files == [text : Text, synced : BOOLEAN, by : {"start", "save"}]
NoFile == File(Absent, TRUE, "start")

Whole(text) == text \notin {Absent, Empty, Cut}

Directory == [toml |-> toml, json |-> json]

ConfigInit ==
  /\ toml = NoFile
  /\ json \in {"present", "absent"}
  /\ earlier = {}
  /\ tmp = Nil /\ backups = <<>>
  /\ proc = "down" /\ running = Fresh /\ live = Fresh.settings /\ offFlag = FALSE
  /\ lock = Nil
  /\ pc = [r \in Request |-> "idle"]
  /\ job = [r \in Request |-> Nil]
  /\ copy = [r \in Request |-> Nil]
  /\ offAcked = FALSE /\ reverted = FALSE /\ cutShort = FALSE

-----------------------------------------------------------------------------
(* Startup: Config::load and AppState::new.                                *)

\* toml::from_str, which has a default for every field.
Parses(text) == Whole(text) \/ text = Empty
Parsed(text) == IF text = Empty THEN Fresh ELSE text

\* AppState::new
Boot(config) ==
  /\ proc' = "up"
  /\ running' = config /\ live' = config.settings /\ offFlag' = FALSE
  /\ UNCHANGED <<tmp, handlers, history>>

\* config.toml exists.  One that does not parse ends the process, which is a stutter.
StartFromToml ==
  /\ proc = "down"
  /\ Parses(toml.text)
  /\ Boot(Parsed(toml.text))
  /\ UNCHANGED <<toml, json, earlier, backups>>

\* What load makes of a machine without a config.toml.
Initial == IF json = "present" THEN FromJson ELSE Fresh

\* fs::write truncates first.
StartWriting ==
  /\ proc = "down"
  /\ toml.text = Absent
  /\ proc' = "writing"
  /\ toml' = File(Empty, FALSE, "start")
  /\ earlier' = earlier \cup {Directory}
  /\ UNCHANGED <<json, tmp, backups, running, live, offFlag, handlers, history>>

\* The disk is full: whatever was written stays, and load returns the error.
StartWriteFails ==
  /\ proc = "writing"
  /\ proc' = "down"
  /\ toml' \in {toml, File(Cut, FALSE, "start")}
  /\ UNCHANGED <<json, earlier, tmp, backups, running, live, offFlag, handlers, history>>

StartWritten ==
  /\ proc = "writing"
  /\ toml' = File(Initial, FALSE, "start")
  /\ IF json = "present"
     THEN /\ proc' = "renaming"
          /\ UNCHANGED <<tmp, running, live, offFlag, handlers, history>>
     ELSE Boot(Initial)
  /\ UNCHANGED <<json, earlier, backups>>

\* Renaming config.json; a failure is only a warning.
StartMigrated ==
  /\ proc = "renaming"
  /\ json' \in {"present", "migrated"}
  /\ earlier' = earlier \cup {Directory}
  /\ Boot(FromJson)
  /\ UNCHANGED <<toml, backups>>

-----------------------------------------------------------------------------
(* PUT /settings, PUT /card-order and disable_full_access.                 *)

Goto(r, p) == pc' = [pc EXCEPT ![r] = p]

\* The guard is dropped with the handler.
Respond(r) ==
  /\ Goto(r, "idle")
  /\ lock' = Nil
  /\ job' = [job EXCEPT ![r] = Nil]
  /\ copy' = [copy EXCEPT ![r] = Nil]

Arrive(r, j) ==
  /\ proc = "up" /\ pc[r] = "idle"
  /\ Goto(r, "wait")
  /\ job' = [job EXCEPT ![r] = j]
  /\ UNCHANGED <<disk, process, lock, copy, history>>

\* MUTANT: the change is made to the snapshot of startup.
LockSnapshot(r) ==
  /\ pc[r] = "wait" /\ lock = Nil
  /\ lock' = r
  /\ copy' = [copy EXCEPT ![r] = [running EXCEPT ![job[r].kind] = job[r].value]]
  /\ Goto(r, "backup")
  /\ UNCHANGED <<disk, process, job, history>>

\* MUTANT: what is saved takes effect before it is saved.
LockApplies(r) ==
  /\ pc[r] = "wait" /\ lock = Nil
  /\ lock' = r
  /\ copy' = [copy EXCEPT ![r] = [Parsed(toml.text) EXCEPT ![job[r].kind] = job[r].value]]
  /\ live' = IF job[r].kind = "settings" THEN job[r].value ELSE live
  /\ Goto(r, "backup")
  /\ UNCHANGED <<disk, proc, running, offFlag, job, history>>

\* MUTANT: the lock is not taken.
LockNothing(r) ==
  /\ pc[r] = "wait"
  /\ copy' = [copy EXCEPT ![r] = [Parsed(toml.text) EXCEPT ![job[r].kind] = job[r].value]]
  /\ Goto(r, "backup")
  /\ UNCHANGED <<disk, process, lock, job, history>>

\* The lock, then config_file::read and the handler's own fields; no await
\* from here to the end of config_file::write.
Lock(r) ==
  /\ pc[r] = "wait" /\ lock = Nil
  /\ lock' = r
  /\ copy' = [copy EXCEPT ![r] = [Parsed(toml.text) EXCEPT ![job[r].kind] = job[r].value]]
  /\ Goto(r, "backup")
  /\ UNCHANGED <<disk, process, job, history>>

\* The file cannot be read, which is answered before anything is touched.
ReadFails(r) ==
  /\ pc[r] = "wait" /\ lock = Nil
  /\ Respond(r)
  /\ UNCHANGED <<disk, process, history>>

\* Best effort: config.toml cannot be read, no name is found for the copy or the
\* copy cannot be created, and the save goes on.
BackupFails(r) ==
  /\ pc[r] = "backup"
  /\ Goto(r, "create")
  /\ UNCHANGED <<disk, process, lock, job, copy, history>>

\* fs::write creates the copy empty, fills it and never flushes it.
OpenBackup(r) ==
  /\ pc[r] = "backup"
  /\ Len(backups) < BackupBound
  /\ backups' = Append(backups, File(Empty, FALSE, "save"))
  /\ Goto(r, "copying")
  /\ UNCHANGED <<toml, json, earlier, tmp, process, lock, job, copy, history>>

\* What the copy being written holds now.
Filled(text) == [backups EXCEPT ![Len(backups)] = File(text, FALSE, "save")]

\* The disk is full: what was written stays, nothing is pruned, and the save goes on.
CopyFails(r) ==
  /\ pc[r] = "copying"
  /\ backups' \in {backups, Filled(Cut)}
  /\ Goto(r, "create")
  /\ UNCHANGED <<toml, json, earlier, tmp, process, lock, job, copy, history>>

FillBackup(r) ==
  /\ pc[r] = "copying"
  /\ backups' = Filled(toml.text)
  /\ Goto(r, "prune")
  /\ UNCHANGED <<toml, json, earlier, tmp, process, lock, job, copy, history>>

Least(m, n) == IF m < n THEN m ELSE n

\* MUTANT: sorted the other way.
OldestBackups == SubSeq(backups, 1, Least(Len(backups), MaxBackups))

\* All but the MaxBackups last by mtime, for a clock that is not set back.
Stale == SubSeq(backups, 1, Len(backups) - Least(Len(backups), MaxBackups))
KeptBackups == SubSeq(backups, Len(backups) - Least(Len(backups), MaxBackups) + 1, Len(backups))

\* The ways to leave some elements of a sequence out: the places of the others.
Places(seq) ==
  UNION {{at \in [1..n -> 1..Len(seq)] : \A i, j \in 1..n : i < j => at[i] < at[j]} :
           n \in 0..Len(seq)}

At(seq, at) == [i \in DOMAIN at |-> seq[at[i]]]

\* The directory cannot be listed, or some of the stale copies cannot be
\* removed: they stay, and the save goes on.
Prune(r) ==
  /\ pc[r] = "prune"
  /\ \E left \in Places(Stale) : backups' = At(Stale, left) \o KeptBackups
  /\ Goto(r, "create_saved")
  /\ UNCHANGED <<toml, json, earlier, tmp, process, lock, job, copy, history>>

Writing(r) == pc[r] \in {"create", "create_saved"}

WriteTemp(r) ==
  /\ Writing(r)
  /\ tmp' = File(copy[r], FALSE, "save")
  /\ pc' = [pc EXCEPT ![r] = IF @ = "create" THEN "sync" ELSE "sync_saved"]
  /\ UNCHANGED <<toml, json, earlier, backups, process, lock, job, copy, history>>

Syncing(r) == pc[r] \in {"sync", "sync_saved"}

\* MUTANT: no fsync before the rename.
SyncNothing(r) ==
  /\ Syncing(r)
  /\ pc' = [pc EXCEPT ![r] = IF @ = "sync" THEN "rename" ELSE "rename_saved"]
  /\ UNCHANGED <<disk, process, lock, job, copy, history>>

Sync(r) ==
  /\ Syncing(r) /\ tmp # Nil
  /\ tmp' = [tmp EXCEPT !.synced = TRUE]
  /\ pc' = [pc EXCEPT ![r] = IF @ = "sync" THEN "rename" ELSE "rename_saved"]
  /\ UNCHANGED <<toml, json, earlier, backups, process, lock, job, copy, history>>

Renaming(r) == pc[r] \in {"rename", "rename_saved"}

\* Serialising, create, write_all, sync_all or rename failed: the temp file is removed and the
\* client told.
SaveFails(r) ==
  /\ pc[r] = "backup" \/ Writing(r) \/ Syncing(r) \/ Renaming(r)
  /\ tmp' = Nil
  /\ Respond(r)
  /\ UNCHANGED <<toml, json, earlier, backups, process, history>>

Rename(r) ==
  /\ Renaming(r) /\ tmp # Nil
  /\ Cardinality(earlier) < DelayBound
  /\ toml' = tmp
  /\ tmp' = Nil
  /\ earlier' = earlier \cup {Directory}
  /\ Goto(r, "apply")
  /\ UNCHANGED <<json, backups, process, lock, job, copy, history>>

\* live_settings.write() or the flag, and the answer.
Apply(r) ==
  /\ pc[r] = "apply"
  /\ live' = IF job[r].kind = "settings" THEN job[r].value ELSE live
  /\ offFlag' = (offFlag \/ job[r].kind = "full")
  /\ offAcked' = (offAcked \/ job[r].kind = "full")
  /\ Respond(r)
  /\ UNCHANGED <<disk, proc, running, reverted, cutShort>>

\* The client hangs up: the handler is dropped at the await it stands at.
Cancel(r) ==
  \/ /\ pc[r] = "wait"
     /\ Goto(r, "idle")
     /\ job' = [job EXCEPT ![r] = Nil]
     /\ UNCHANGED <<disk, process, lock, copy, history>>
  \/ /\ pc[r] = "apply" /\ job[r].kind = "settings"
     /\ Respond(r)
     /\ cutShort' = TRUE
     /\ UNCHANGED <<disk, process, offAcked, reverted>>

-----------------------------------------------------------------------------
(* The machine.                                                            *)

\* Memory is lost, and so is the name of the temp file, which has the pid in it.
ProcessGone ==
  /\ proc' = "down"
  /\ lock' = Nil
  /\ pc' = [r \in Request |-> "idle"]
  /\ job' = [r \in Request |-> Nil]
  /\ copy' = [r \in Request |-> Nil]
  /\ running' = Fresh /\ live' = Fresh.settings /\ offFlag' = FALSE /\ cutShort' = FALSE
  /\ tmp' = Nil

\* Killed, panicked or stopped.  fs::write may be half way.
Crash ==
  /\ proc # "down"
  /\ ProcessGone
  /\ toml' \in {toml} \cup (IF proc = "writing" THEN {File(Cut, FALSE, "start")} ELSE {})
  /\ backups' \in {backups} \cup
                   (IF \E r \in Request : pc[r] = "copying" THEN {Filled(Cut)} ELSE {})
  /\ UNCHANGED <<json, earlier, offAcked, reverted>>

\* What is left of a file whose contents may not have been flushed.
Survives(f) == IF f.synced THEN {f.text} ELSE {f.text, Empty, Cut}

\* The copies were never flushed either: one made since the last writeback may
\* be lost, empty or cut.
PowerLoss ==
  /\ \E was \in earlier \cup {Directory} :
       /\ \E text \in Survives(was.toml) : toml' = File(text, TRUE, was.toml.by)
       /\ json' = was.json
       /\ reverted' = (reverted \/ was.toml # toml)
  /\ \E left \in Places(backups) : \E found \in [DOMAIN left -> {"own", "empty", "cut"}] :
       /\ \A i \in DOMAIN backups :
            backups[i].synced => \E k \in DOMAIN left : left[k] = i /\ found[k] = "own"
       /\ backups' = [k \in DOMAIN left |->
                        File(CASE found[k] = "own"   -> backups[left[k]].text
                               [] found[k] = "empty" -> Empty
                               [] found[k] = "cut"   -> Cut, TRUE, "save")]
  /\ earlier' = {}
  /\ ProcessGone
  /\ UNCHANGED offAcked

\* Writeback: contents and directory reach the disk.
Settle ==
  /\ proc # "writing"
  /\ toml' = [toml EXCEPT !.synced = TRUE]
  /\ backups' = [i \in DOMAIN backups |-> [backups[i] EXCEPT !.synced = TRUE]]
  /\ earlier' = {}
  /\ UNCHANGED <<json, tmp, process, handlers, history>>

-----------------------------------------------------------------------------

StartStep == StartFromToml \/ StartWriting \/ StartWriteFails \/ StartWritten \/ StartMigrated

HandlerStep ==
  \E r \in Request :
    \/ \E j \in Asked : Arrive(r, j)
    \/ Lock(r) \/ ReadFails(r) \/ BackupFails(r) \/ OpenBackup(r)
    \/ CopyFails(r) \/ FillBackup(r) \/ Prune(r)
    \/ WriteTemp(r) \/ Sync(r) \/ SaveFails(r) \/ Rename(r) \/ Apply(r) \/ Cancel(r)

ConfigNext == StartStep \/ HandlerStep \/ Crash \/ PowerLoss \/ Settle

ConfigSpec == ConfigInit /\ [][ConfigNext]_configVars

-----------------------------------------------------------------------------

Steps == {"idle", "wait", "backup", "copying", "prune", "create", "create_saved", "sync",
          "sync_saved", "rename", "rename_saved", "apply"}

\* Types; whoever is past its wait holds config_write; only writers have a
\* temp file; and a running agent has a config.toml that parses.
SettingsTypeOK ==
  /\ toml \in Files
  /\ json \in {"present", "migrated", "absent"}
  /\ earlier \subseteq [toml : Files, json : {"present", "migrated", "absent"}]
  /\ tmp = Nil \/ tmp \in Files
  /\ backups \in Seq(Files) /\ Len(backups) <= BackupBound
  /\ proc \in {"down", "writing", "renaming", "up"}
  /\ running \in Content /\ live \in Value /\ offFlag \in BOOLEAN
  /\ pc \in [Request -> Steps]
  /\ \A r \in Request :
       /\ (lock = r) = (pc[r] \notin {"idle", "wait"})
       /\ pc[r] = "idle" <=> job[r] = Nil
       /\ lock # r <=> copy[r] = Nil
       /\ pc[r] # "idle" => proc = "up" /\ job[r] \in Asked
  /\ proc = "up" => Parses(toml.text)
  /\ {offAcked, reverted, cutShort} \subseteq BOOLEAN

\* config_file::write replaces the file atomically: neither a crash nor a
\* power loss after any of its steps leaves an unparsable or truncated
\* config.toml.  A file that is not whole was made by the first start.
TornOnlyAtStart == ~Whole(toml.text) => toml.by = "start"

\* A save that made its backup, and has not replaced the file yet, has what it
\* is about to replace as the newest backup, whole, whatever pruning removed or
\* failed to and whatever partial copies earlier saves and crashes left.
UndoPath ==
  \A r \in Request :
    pc[r] \in {"create_saved", "sync_saved", "rename_saved"} =>
      /\ backups # <<>>
      /\ backups[Len(backups)].text = toml.text

\* What the monitoring loop reads is what the file says whenever no save is
\* under way, across failed saves and restarts.  A request cancelled between
\* its save and live_settings.write() is the exception.
LiveFollowsFile ==
  proc = "up" /\ lock = Nil /\ ~cutShort => live = Parsed(toml.text).settings

\* RemoteAccessConfig::resolve: the environment beats the file.
Resolved(config) == IF Env = "unset" THEN config.full ELSE Env = "on"

\* AppState::full_access_allowed
FullAccessAllowed == proc = "up" /\ Resolved(running) /\ ~offFlag

\* A disable_full_access answered ok outlives crashes, restarts and whatever
\* later saves write, unless a power loss takes the rename itself back or the
\* environment says otherwise.
OffStaysOff == Env # "on" /\ offAcked /\ ~reverted => ~FullAccessAllowed

\* No save loses another's: while the agent runs, config.toml changes by the
\* group of fields of one request at a time.
OneRequestAtATime ==
  [][proc = "up" /\ proc' = "up" /\ toml'.text # toml.text =>
       \E r \in Request :
         /\ job[r] # Nil
         /\ toml'.text = [Parsed(toml.text) EXCEPT ![job[r].kind] = job[r].value]]_configVars

\* What the comment on the migration promises (config.rs:312): the settings of
\* a config.json are never silently discarded, even if the TOML write fails.
\* Until a save, an agent that came up over one runs on what it said.
MigrationKeepsSettings ==
  proc = "up" /\ json # "absent" /\ toml.by = "start" => running = FromJson
=============================================================================
