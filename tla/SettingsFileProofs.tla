------------------------- MODULE SettingsFileProofs -------------------------
(***************************************************************************)
(* Why no save is lost and no save tears config.toml: what the holder of   *)
(* config_write read is still what the file says when it renames, and what *)
(* it renames is whole and flushed.                                        *)
(***************************************************************************)
EXTENDS SettingsFile, TLAPS

Migration == {"present", "migrated", "absent"}

\* The types of what the argument is about; a handler's copy is a whole
\* configuration because a running agent's file always parses.
Types ==
  /\ toml \in Files
  /\ json \in Migration
  /\ earlier \subseteq [toml : Files, json : Migration]
  /\ tmp \in Files \cup {Nil}
  /\ proc \in {"down", "writing", "renaming", "up"}
  /\ proc \in {"renaming", "up"} => Parses(toml.text)
  /\ lock \in Request \cup {Nil}
  /\ pc \in [Request -> Steps]
  /\ job \in [Request -> Asked \cup {Nil}]
  /\ copy \in [Request -> Content \cup {Nil}]

Saving(r) == pc[r] \notin {"idle", "wait", "apply"}

\* What r makes of the file as it is.
Changed(r) == [Parsed(toml.text) EXCEPT ![job[r].kind] = job[r].value]

\* One handler at a time is past its wait, and nobody changes the file under it.
Exclusive ==
  \A r \in Request :
    /\ (lock = r) = (pc[r] \notin {"idle", "wait"})
    /\ pc[r] # "idle" => proc = "up" /\ job[r] \in Asked
    /\ Saving(r) => copy[r] = Changed(r) /\ copy[r] \in Content
    /\ (Syncing(r) \/ Renaming(r)) /\ tmp # Nil
         => tmp.text = copy[r] /\ tmp.by = "save"
    /\ Renaming(r) /\ tmp # Nil => tmp.synced = TRUE

\* A file whose contents are torn, or may be after a power loss, is the start's.
Sound(f) == (~Whole(f.text) \/ f.synced = FALSE) => f.by = "start"

NothingTorn == Sound(toml) /\ \A d \in earlier : Sound(d.toml)

SettingsInv == Types /\ Exclusive /\ NothingTorn

USE DEF Migration

-----------------------------------------------------------------------------

\* A configuration with one group of fields replaced is a configuration.
LEMMA ChangedType ==
  ASSUME NEW c \in Content, NEW j \in Job
  PROVE  [c EXCEPT ![j.kind] = j.value] \in Content
<1>1. CASE j.kind = "settings"
  BY <1>1 DEF Content, Job
<1>2. CASE j.kind = "order"
  BY <1>2 DEF Content, Job
<1>3. CASE j.kind = "full"
  BY <1>3 DEF Content, Job
<1> QED
  BY <1>1, <1>2, <1>3 DEF Job

\* What a running agent reads from a file that parses is a configuration.
LEMMA ParsedType ==
  ASSUME NEW text \in Text, Parses(text)
  PROVE  Parsed(text) \in Content
  BY ContentAssumption DEF Text, Parses, Parsed, Whole

\* A configuration is none of the three texts that are not.
LEMMA ContentWhole == \A c \in Content : Whole(c)
  BY NilAssumption DEF Whole

\* Half a file, left by the start, is a file that is sound.
LEMMA CutFile ==
  File(Cut, FALSE, "start") \in Files /\ Sound(File(Cut, FALSE, "start"))
  BY DEF File, Files, Text, Sound

\* The machine starts without a file.
LEMMA SettingsInit == ConfigInit => SettingsInv
  BY NilAssumption
  DEF ConfigInit, SettingsInv, Types, Exclusive, NothingTorn, Sound, NoFile, File, Files, Text,
      Steps, Saving, Syncing, Renaming

-----------------------------------------------------------------------------
(* The start of the agent: no handler runs before it is up.                *)

\* A step of a machine whose agent is not up, after which no handler has
\* started: what there is to show is the file's.
LEMMA NoHandlers ==
  ASSUME SettingsInv, Types', NothingTorn', UNCHANGED <<lock, pc>>, proc # "up"
  PROVE  SettingsInv'
<1>1. \A r \in Request : pc[r] = "idle"
  BY DEF SettingsInv, Exclusive
<1> QED
  BY <1>1 DEF SettingsInv, Types, Exclusive, Saving, Syncing, Renaming

\* No step of Config::load or AppState::new breaks the invariant.
LEMMA StartKeeps == SettingsInv /\ StartStep => SettingsInv'
<1> SUFFICES ASSUME SettingsInv, StartStep PROVE SettingsInv'
  OBVIOUS
<1> USE DEF SettingsInv, Types, NothingTorn, Sound, Files, File, Text, handlers, history,
            Directory
<1>1. CASE StartFromToml
  <2>1. Types' /\ NothingTorn'
    BY <1>1 DEF StartFromToml, Boot
  <2> QED
    BY <1>1, <2>1, NoHandlers DEF StartFromToml, Boot
<1>2. CASE StartWriting
  <2>1. Types' /\ NothingTorn'
    BY <1>2 DEF StartWriting
  <2> QED
    BY <1>2, <2>1, NoHandlers DEF StartWriting
<1>3. CASE StartWriteFails
  <2>1. toml' = toml \/ toml' = File(Cut, FALSE, "start")
    BY <1>3 DEF StartWriteFails
  <2>2. toml' \in Files /\ Sound(toml)'
    BY <2>1, CutFile
  <2>3. Types' /\ NothingTorn'
    BY <1>3, <2>2 DEF StartWriteFails
  <2> QED
    BY <1>3, <2>3, NoHandlers DEF StartWriteFails
<1>4. CASE StartWritten
  <2>1. Initial \in Content /\ Whole(Initial)
    BY ContentAssumption, ContentWhole DEF Initial
  <2>2. Types' /\ NothingTorn'
    BY <1>4, <2>1 DEF StartWritten, Boot, Parses
  <2> QED
    BY <1>4, <2>2, NoHandlers DEF StartWritten, Boot
<1>5. CASE StartMigrated
  <2>1. Types' /\ NothingTorn'
    BY <1>5 DEF StartMigrated, Boot
  <2> QED
    BY <1>5, <2>1, NoHandlers DEF StartMigrated, Boot
<1> QED
  BY <1>1, <1>2, <1>3, <1>4, <1>5 DEF StartStep

-----------------------------------------------------------------------------
(* The machine.                                                            *)

\* A crash, a power loss and a writeback leave the file one that may be left.
LEMMA MachineKeeps == SettingsInv /\ (Crash \/ PowerLoss \/ Settle) => SettingsInv'
<1> SUFFICES ASSUME SettingsInv, Crash \/ PowerLoss \/ Settle PROVE SettingsInv'
  OBVIOUS
<1> USE DEF SettingsInv, Types, NothingTorn, Sound, Files, File, Text
<1>1. ASSUME ProcessGone PROVE Exclusive'
  BY <1>1, NilAssumption DEF ProcessGone, Exclusive, Saving, Syncing, Renaming, Steps
<1>2. CASE Crash
  <2>1. toml' = toml \/ toml' = File(Cut, FALSE, "start")
    BY <1>2 DEF Crash
  <2>2. toml' \in Files /\ Sound(toml)'
    BY <2>1, CutFile
  <2>3. Types'
    BY <1>2, <2>2 DEF Crash, ProcessGone, Steps
  <2>4. NothingTorn'
    BY <1>2, <2>2 DEF Crash
  <2> QED
    BY <1>1, <1>2, <2>3, <2>4 DEF Crash
<1>3. CASE PowerLoss
  <2>1. PICK was \in earlier \cup {Directory} :
          /\ \E text \in Survives(was.toml) : toml' = File(text, TRUE, was.toml.by)
          /\ json' = was.json
    BY <1>3 DEF PowerLoss
  <2>2. was.toml \in Files /\ was.json \in Migration /\ Sound(was.toml)
    BY <2>1 DEF Directory
  <2>3. toml' \in Files /\ Sound(toml')
    BY <2>1, <2>2 DEF Survives
  <2>4. Types' /\ NothingTorn'
    BY <1>3, <2>1, <2>2, <2>3, NilAssumption DEF PowerLoss, ProcessGone, Steps
  <2> QED
    BY <1>1, <1>3, <2>4 DEF PowerLoss
<1>4. CASE Settle
  <2>1. toml'.text = toml.text /\ toml' \in Files /\ Sound(toml')
    BY <1>4 DEF Settle
  <2>2. Types' /\ NothingTorn'
    BY <1>4, <2>1 DEF Settle, Parses, process, handlers
  <2>3. Exclusive'
    BY <1>4, <2>1 DEF Settle, process, handlers, Exclusive, Saving, Changed, Syncing, Renaming
  <2> QED
    BY <2>2, <2>3
<1> QED
  BY <1>2, <1>3, <1>4
-----------------------------------------------------------------------------
(* The handlers.                                                           *)

\* A step of one handler that leaves the files as they are, and so what every
\* other handler is to find.
LEMMA FilesAsWere ==
  ASSUME SettingsInv, UNCHANGED <<toml, json, earlier, proc>>
  PROVE  /\ NothingTorn'
         /\ \A r \in Request : job'[r] = job[r] => Changed(r)' = Changed(r)
  BY DEF SettingsInv, NothingTorn, Sound, Changed

\* Only the holder of the lock is past its wait.
LEMMA OneHolder ==
  ASSUME SettingsInv, NEW r \in Request, NEW q \in Request,
         pc[r] \notin {"idle", "wait"}, q # r
  PROVE  pc[q] \in {"idle", "wait"} /\ lock = r
  BY DEF SettingsInv, Exclusive

\* Arrivals, what ends a request, and what a request does before its save.
LEMMA RequestKeeps ==
  ASSUME SettingsInv, NEW r \in Request,
         \/ \E j \in Asked : Arrive(r, j)
         \/ Lock(r) \/ ReadFails(r) \/ SaveFails(r) \/ Apply(r) \/ Cancel(r)
  PROVE  SettingsInv'
<1> USE DEF disk, process, history
<1>0. NothingTorn' /\ \A q \in Request : job'[q] = job[q] => Changed(q)' = Changed(q)
  <2>1. UNCHANGED <<toml, json, earlier, proc>>
    BY DEF Arrive, Lock, ReadFails, SaveFails, Apply, Cancel
  <2> QED
    BY <2>1, FilesAsWere
<1>1. CASE \E j \in Asked : Arrive(r, j)
  <2>1. Types'
    BY <1>1 DEF SettingsInv, Types, Arrive, Goto, Steps
  <2>2. Exclusive'
    BY <1>0, <1>1 DEF SettingsInv, Types, Exclusive, Arrive, Goto, Saving, Syncing, Renaming
  <2> QED
    BY <1>0, <2>1, <2>2 DEF SettingsInv
<1>2. CASE Lock(r)
  <2>1. Changed(r) \in Content
    BY <1>2, AskedAssumption, ParsedType, ChangedType
    DEF SettingsInv, Types, Exclusive, Lock, Files, Changed
  <2>2. Types'
    BY <1>2, <2>1 DEF SettingsInv, Types, Lock, Goto, Steps, Changed
  <2>3. Exclusive'
    BY <1>0, <1>2, <2>1, NilAssumption
    DEF SettingsInv, Types, Exclusive, Lock, Goto, Saving, Syncing, Renaming, Changed
  <2> QED
    BY <1>0, <2>2, <2>3 DEF SettingsInv
<1>3. CASE ReadFails(r) \/ SaveFails(r) \/ Apply(r) \/ (Cancel(r) /\ pc[r] = "apply")
  <2>1. /\ pc' = [pc EXCEPT ![r] = "idle"] /\ job' = [job EXCEPT ![r] = Nil]
        /\ copy' = [copy EXCEPT ![r] = Nil] /\ lock' = Nil
        /\ tmp' \in {tmp, Nil} /\ UNCHANGED <<toml, json, earlier, proc>>
        /\ lock \in {r, Nil}
    <3>1. CASE ReadFails(r)
      BY <3>1 DEF ReadFails, Respond, Goto
    <3>2. CASE SaveFails(r)
      BY <3>2
      DEF SettingsInv, Exclusive, SaveFails, Respond, Goto, Writing, Syncing, Renaming
    <3>3. CASE Apply(r)
      BY <3>3 DEF SettingsInv, Exclusive, Apply, Respond, Goto
    <3>4. CASE Cancel(r) /\ pc[r] = "apply"
      BY <3>4 DEF SettingsInv, Exclusive, Cancel, Respond, Goto
    <3> QED
      BY <1>3, <3>1, <3>2, <3>3, <3>4
  <2>2. Types'
    BY <2>1 DEF SettingsInv, Types, Steps
  <2>3. Exclusive'
    BY <1>0, <2>1, NilAssumption
    DEF SettingsInv, Types, Exclusive, Saving, Syncing, Renaming
  <2> QED
    BY <1>0, <2>2, <2>3 DEF SettingsInv
<1>4. CASE Cancel(r) /\ pc[r] = "wait"
  <2>1. Types'
    BY <1>4 DEF SettingsInv, Types, Cancel, Goto, Steps
  <2>2. Exclusive'
    BY <1>0, <1>4 DEF SettingsInv, Types, Exclusive, Cancel, Goto, Saving, Syncing, Renaming
  <2> QED
    BY <1>0, <2>1, <2>2 DEF SettingsInv
<1> QED
  BY <1>1, <1>2, <1>3, <1>4 DEF Cancel, Respond
\* The steps of config_file::write up to the rename, which touch the backups
\* and the temp file.
LEMMA WriteKeeps ==
  ASSUME SettingsInv, NEW r \in Request,
         BackupFails(r) \/ OpenBackup(r) \/ CopyFails(r) \/ FillBackup(r) \/ Prune(r)
         \/ WriteTemp(r) \/ Sync(r)
  PROVE  SettingsInv'
<1> USE DEF process, history, disk
<1>0. NothingTorn' /\ \A q \in Request : job'[q] = job[q] => Changed(q)' = Changed(q)
  <2>1. UNCHANGED <<toml, json, earlier, proc>>
    BY DEF BackupFails, OpenBackup, CopyFails, FillBackup, Prune, WriteTemp, Sync
  <2> QED
    BY <2>1, FilesAsWere
<1>1. Saving(r) /\ pc[r] \in Steps
  BY DEF SettingsInv, Types, BackupFails, OpenBackup, CopyFails, FillBackup, Prune, WriteTemp,
         Sync, Writing, Syncing, Saving
<1>2. \A q \in Request : q # r => pc[q] \in {"idle", "wait"}
  BY <1>1, OneHolder DEF Saving
<1>3. CASE BackupFails(r) \/ OpenBackup(r) \/ CopyFails(r) \/ FillBackup(r) \/ Prune(r)
  <2>1. /\ pc' = [pc EXCEPT ![r] = pc'[r]] /\ pc'[r] \in {"copying", "prune", "create", "create_saved"}
        /\ UNCHANGED <<toml, json, earlier, tmp, proc, lock, job, copy>>
    BY <1>3 DEF SettingsInv, Types, BackupFails, OpenBackup, CopyFails, FillBackup, Prune, Goto
  <2>2. Types'
    BY <2>1 DEF SettingsInv, Types, Steps
  <2>3. Exclusive'
    BY <1>0, <1>1, <1>2, <2>1 DEF SettingsInv, Types, Exclusive, Saving, Syncing, Renaming
  <2> QED
    BY <1>0, <2>2, <2>3 DEF SettingsInv
<1>4. CASE WriteTemp(r)
  <2>1. copy[r] \in Content
    BY <1>1 DEF SettingsInv, Exclusive
  <2>2. tmp' \in Files /\ tmp'.text = copy[r] /\ tmp'.by = "save"
    BY <1>4, <2>1 DEF WriteTemp, File, Files, Text
  <2>3. /\ pc' = [pc EXCEPT ![r] = pc'[r]] /\ pc'[r] \in {"sync", "sync_saved"}
        /\ UNCHANGED <<toml, json, earlier, proc, lock, job, copy>>
    BY <1>4 DEF SettingsInv, Types, WriteTemp
  <2>4. Types'
    BY <2>2, <2>3 DEF SettingsInv, Types, Steps
  <2>5. Exclusive'
    BY <1>0, <1>1, <1>2, <2>2, <2>3
    DEF SettingsInv, Types, Exclusive, Saving, Syncing, Renaming
  <2> QED
    BY <1>0, <2>4, <2>5 DEF SettingsInv
<1>5. CASE Sync(r)
  <2>1. tmp # Nil /\ tmp \in Files /\ tmp.text = copy[r] /\ tmp.by = "save"
    BY <1>5 DEF SettingsInv, Types, Exclusive, Sync
  <2>2. tmp' = [tmp EXCEPT !.synced = TRUE]
    BY <1>5 DEF Sync
  <2>3. tmp' \in Files /\ tmp'.text = copy[r] /\ tmp'.by = "save" /\ tmp'.synced = TRUE
    BY <2>1, <2>2 DEF Files
  <2>4. /\ pc' = [pc EXCEPT ![r] = pc'[r]] /\ pc'[r] \in {"rename", "rename_saved"}
        /\ UNCHANGED <<toml, json, earlier, proc, lock, job, copy>>
    BY <1>5 DEF SettingsInv, Types, Sync
  <2>5. Types'
    BY <2>3, <2>4 DEF SettingsInv, Types, Steps
  <2>6. Exclusive'
    BY <1>0, <1>1, <1>2, <2>3, <2>4
    DEF SettingsInv, Types, Exclusive, Saving, Syncing, Renaming
  <2> QED
    BY <1>0, <2>5, <2>6 DEF SettingsInv
<1> QED
  BY <1>3, <1>4, <1>5

\* What a rename puts in place is the holder's copy, whole and flushed.
LEMMA RenamedFile ==
  ASSUME SettingsInv, NEW r \in Request, Rename(r)
  PROVE  /\ toml' = tmp /\ tmp \in Files
         /\ tmp.text = Changed(r) /\ tmp.text \in Content
         /\ tmp.synced = TRUE /\ tmp.by = "save"
  BY DEF SettingsInv, Types, Exclusive, Rename, Renaming, Saving

\* A rename leaves a sound file and nobody else in the middle of a save.
LEMMA RenameKeeps ==
  ASSUME SettingsInv, NEW r \in Request, Rename(r)
  PROVE  SettingsInv'
<1>1. /\ toml' \in Files /\ Whole(toml'.text) /\ toml'.synced = TRUE
  BY RenamedFile, ContentWhole
<1>2. \A q \in Request : q # r => pc[q] \in {"idle", "wait"}
  BY OneHolder DEF Rename, Renaming
<1>3. Directory \in [toml : Files, json : Migration]
  BY DEF SettingsInv, Types, Directory
<1>4. Types'
  BY <1>1, <1>3 DEF SettingsInv, Types, Rename, Goto, Steps, Parses, process
<1>5. Exclusive'
  BY <1>2 DEF SettingsInv, Types, Exclusive, Rename, Goto, Saving, Syncing, Renaming, process
<1>6. NothingTorn'
  BY <1>1 DEF SettingsInv, NothingTorn, Sound, Rename, Directory
<1> QED
  BY <1>4, <1>5, <1>6 DEF SettingsInv

-----------------------------------------------------------------------------

\* No step breaks the invariant.
LEMMA SettingsStep == SettingsInv /\ [ConfigNext]_configVars => SettingsInv'
<1> SUFFICES ASSUME SettingsInv, [ConfigNext]_configVars PROVE SettingsInv'
  OBVIOUS
<1>1. CASE StartStep
  BY <1>1, StartKeeps
<1>2. CASE HandlerStep
  BY <1>2, RequestKeeps, WriteKeeps, RenameKeeps DEF HandlerStep
<1>3. CASE Crash \/ PowerLoss \/ Settle
  BY <1>3, MachineKeeps
<1>4. CASE UNCHANGED configVars
  BY <1>4
  DEF configVars, disk, process, handlers, SettingsInv, Types, Exclusive, NothingTorn, Sound,
      Saving, Changed, Syncing, Renaming
<1> QED
  BY <1>1, <1>2, <1>3, <1>4 DEF ConfigNext

\* config_file::write never tears config.toml: through every crash, power loss
\* and failed step of any number of saves, a file that is not whole is one the
\* start of the agent made (config_file.rs 102-134).
THEOREM TornTheorem == ConfigSpec => []TornOnlyAtStart
<1>1. SettingsInv => TornOnlyAtStart
  BY DEF SettingsInv, NothingTorn, Sound, TornOnlyAtStart
<1> QED
  BY <1>1, SettingsInit, SettingsStep, PTL DEF ConfigSpec

\* Handlers that change config.toml under a running agent lose nobody's change:
\* each save is one request's fields on top of the file as it was at that very
\* moment (server.rs 717, 781 and 842; AppState.config_write).
THEOREM OneRequestTheorem == ConfigSpec => OneRequestAtATime
<1> DEFINE OneRequest ==
      proc = "up" /\ proc' = "up" /\ toml'.text # toml.text =>
        \E r \in Request :
          /\ job[r] # Nil
          /\ toml'.text = [Parsed(toml.text) EXCEPT ![job[r].kind] = job[r].value]
<1>1. SettingsInv /\ [ConfigNext]_configVars => [OneRequest]_configVars
  <2> SUFFICES ASSUME SettingsInv, [ConfigNext]_configVars, proc = "up", proc' = "up",
                      toml'.text # toml.text
               PROVE  OneRequest
    OBVIOUS
  <2>1. ~StartStep
    BY DEF StartStep, StartFromToml, StartWriting, StartWriteFails, StartWritten, StartMigrated
  <2>2. ~(Crash \/ PowerLoss)
    BY DEF Crash, PowerLoss, ProcessGone
  <2>3. ~Settle
    BY DEF Settle, SettingsInv, Types, Files
  <2>4. PICK r \in Request : Rename(r)
    BY <2>1, <2>2, <2>3
    DEF ConfigNext, HandlerStep, configVars, disk, Arrive, Lock, ReadFails, BackupFails, OpenBackup,
        CopyFails, FillBackup, Prune,
        WriteTemp, Sync, SaveFails, Apply, Cancel
  <2>5. job[r] # Nil
    BY <2>4, NilAssumption DEF SettingsInv, Exclusive, Rename, Renaming
  <2> QED
    BY <2>4, <2>5, RenamedFile DEF Changed
<1> QED
  BY <1>1, SettingsInit, SettingsStep, PTL DEF ConfigSpec, OneRequestAtATime
-----------------------------------------------------------------------------
(* The switch that only goes off.                                          *)

\* The file says off, and a power loss can only take it back by taking the
\* rename back.
FileOff == Whole(toml.text) /\ toml.synced = TRUE /\ toml.text.full = FALSE

\* Once answered, the file says off, and a process that started before has its
\* flag; a handler about to answer has put it in the file.
OffInv ==
  /\ {offFlag, offAcked, reverted} \subseteq BOOLEAN
  /\ offAcked /\ ~reverted => FileOff /\ (proc = "up" /\ running.full => offFlag)
  /\ \A r \in Request : pc[r] = "apply" /\ job[r].kind = "full" => FileOff
  /\ proc = "writing" => toml.text = Empty
  /\ proc = "renaming" => toml.text = FromJson

\* A save keeps the file at off, and the switch's own save puts it there.
LEMMA ChangeKeepsOff ==
  ASSUME NEW c \in Content, NEW j \in Job, c.full = FALSE \/ j.kind = "full"
  PROVE  [c EXCEPT ![j.kind] = j.value].full = FALSE
<1>1. CASE j.kind = "settings"
  BY <1>1 DEF Content, Job
<1>2. CASE j.kind = "order"
  BY <1>2 DEF Content, Job
<1>3. CASE j.kind = "full"
  BY <1>3 DEF Content, Job
<1> QED
  BY <1>1, <1>2, <1>3 DEF Job

\* At start nothing has been asked.
LEMMA OffInit == ConfigInit => OffInv
  BY DEF ConfigInit, OffInv

\* The start of the agent reads off from a file that says off, and writes none
\* over it.
LEMMA OffStart == SettingsInv /\ OffInv /\ StartStep => OffInv'
<1> SUFFICES ASSUME SettingsInv, OffInv, StartStep PROVE OffInv'
  OBVIOUS
<1> USE DEF OffInv, FileOff, Boot, handlers, history
<1>1. proc # "up" /\ \A r \in Request : pc[r] = "idle"
  BY DEF SettingsInv, Exclusive, StartStep, StartFromToml, StartWriting, StartWriteFails,
         StartWritten, StartMigrated
<1>2. CASE StartFromToml
  BY <1>1, <1>2 DEF StartFromToml, Parsed, Whole
<1>3. CASE StartWriting
  BY <1>1, <1>3 DEF StartWriting, File, Whole
<1>4. CASE StartWriteFails
  BY <1>1, <1>4 DEF StartWriteFails, Whole
<1>5. CASE StartWritten
  BY <1>1, <1>5 DEF StartWritten, File, Initial, Whole
<1>6. CASE StartMigrated
  BY <1>1, <1>6 DEF StartMigrated
<1> QED
  BY <1>2, <1>3, <1>4, <1>5, <1>6 DEF StartStep

\* The machine takes a file that says off back only by reverting a rename.
LEMMA OffMachine == SettingsInv /\ OffInv /\ (Crash \/ PowerLoss \/ Settle) => OffInv'
<1> SUFFICES ASSUME SettingsInv, OffInv, Crash \/ PowerLoss \/ Settle PROVE OffInv'
  OBVIOUS
<1> USE DEF OffInv, FileOff
<1>1. CASE Crash
  BY <1>1 DEF Crash, ProcessGone, Whole
<1>2. CASE PowerLoss
  <2>1. PICK was \in earlier \cup {Directory} :
          /\ \E text \in Survives(was.toml) : toml' = File(text, TRUE, was.toml.by)
          /\ reverted' = (reverted \/ was.toml # toml)
    BY <1>2 DEF PowerLoss
  <2>2. ~reverted' => ~reverted /\ was.toml = toml
    BY <2>1
  <2>3. FileOff /\ was.toml = toml => FileOff'
    BY <2>1 DEF Survives, File
  <2>4. offFlag' = FALSE /\ proc' = "down" /\ offAcked' = offAcked /\ reverted' \in BOOLEAN
    BY <1>2, <2>1 DEF PowerLoss, ProcessGone
  <2>5. \A r \in Request : pc'[r] = "idle"
    BY <1>2 DEF PowerLoss, ProcessGone
  <2> HIDE DEF FileOff
  <2> QED
    BY <2>2, <2>3, <2>4, <2>5
<1>3. CASE Settle
  <2>1. toml'.text = toml.text /\ toml'.synced = TRUE
    BY <1>3 DEF Settle, SettingsInv, Types, Files
  <2> QED
    BY <1>3, <2>1 DEF Settle, process, handlers, history
<1> QED
  BY <1>1, <1>2, <1>3

\* No handler turns it on again.
LEMMA OffHandler ==
  ASSUME SettingsInv, OffInv, NEW r \in Request,
         \/ \E j \in Asked : Arrive(r, j)
         \/ Lock(r) \/ ReadFails(r) \/ BackupFails(r) \/ OpenBackup(r) \/ CopyFails(r)
         \/ FillBackup(r) \/ Prune(r)
         \/ WriteTemp(r) \/ Sync(r) \/ SaveFails(r) \/ Rename(r) \/ Apply(r) \/ Cancel(r)
  PROVE  OffInv'
<1> USE DEF disk, process, history
<1>1. CASE Rename(r)
  <2>1. /\ Parsed(toml.text) \in Content /\ job[r] \in Job
        /\ toml'.text = Changed(r) /\ Whole(toml'.text) /\ toml'.synced = TRUE
    BY <1>1, RenamedFile, ContentWhole, ParsedType, AskedAssumption
    DEF SettingsInv, Types, Exclusive, Files, Rename, Renaming
  <2>2. FileOff => Parsed(toml.text).full = FALSE
    BY DEF FileOff, Parsed, Whole
  <2>3. FileOff \/ job[r].kind = "full" => FileOff'
    BY <2>1, <2>2, ChangeKeepsOff DEF FileOff, Changed
  <2>4. \A q \in Request : q # r => pc[q] \in {"idle", "wait"}
    BY <1>1, OneHolder DEF Rename, Renaming
  <2>5. /\ pc' = [pc EXCEPT ![r] = "apply"] /\ proc = "up"
        /\ UNCHANGED <<proc, running, offFlag, offAcked, reverted, job>>
    BY <1>1 DEF Rename, Goto, Renaming, SettingsInv, Exclusive
  <2> QED
    BY <2>3, <2>4, <2>5 DEF OffInv, SettingsInv, Types
<1>2. CASE Apply(r)
  <2>1. /\ pc' = [pc EXCEPT ![r] = "idle"] /\ job' = [job EXCEPT ![r] = Nil]
        /\ UNCHANGED <<toml, proc, running, reverted>>
        /\ offFlag' = (offFlag \/ job[r].kind = "full")
        /\ offAcked' = (offAcked \/ job[r].kind = "full")
        /\ pc[r] = "apply"
    BY <1>2 DEF Apply, Respond, Goto
  <2>2. FileOff' = FileOff
    BY <2>1 DEF FileOff
  <2>3. \A q \in Request : pc'[q] = "apply" /\ job'[q].kind = "full" => FileOff
    BY <2>1 DEF OffInv, SettingsInv, Types
  <2>4. job[r].kind = "full" => FileOff
    BY <2>1 DEF OffInv
  <2> QED
    BY <2>1, <2>2, <2>3, <2>4 DEF OffInv
<1>3. CASE ~Rename(r) /\ ~Apply(r)
  <2>1. UNCHANGED <<toml, proc, running, offFlag, offAcked, reverted>>
    BY <1>3
    DEF Arrive, Lock, ReadFails, BackupFails, OpenBackup, CopyFails, FillBackup, Prune,
        WriteTemp, Sync, SaveFails, Cancel
  <2>2. \A q \in Request :
          pc'[q] = "apply" => pc[q] = "apply" /\ job'[q] = job[q]
    BY <1>3
    DEF SettingsInv, Types, Arrive, Lock, ReadFails, BackupFails, OpenBackup, CopyFails,
        FillBackup, Prune, WriteTemp, Sync,
        SaveFails, Cancel, Goto, Respond
  <2>3. FileOff' = FileOff
    BY <2>1 DEF FileOff
  <2> QED
    BY <2>1, <2>2, <2>3 DEF OffInv
<1> QED
  BY <1>1, <1>2, <1>3

\* No step breaks the invariant of the switch.
LEMMA OffStep == SettingsInv /\ OffInv /\ [ConfigNext]_configVars => OffInv'
<1> SUFFICES ASSUME SettingsInv, OffInv, [ConfigNext]_configVars PROVE OffInv'
  OBVIOUS
<1>1. CASE UNCHANGED configVars
  BY <1>1 DEF configVars, disk, process, handlers, history, OffInv, FileOff
<1> QED
  BY <1>1, OffStart, OffMachine, OffHandler DEF ConfigNext, HandlerStep

\* A disable_full_access that was answered holds for good: in this process and
\* in all that follow, through crashes, failed starts and every later save
\* (server.rs 768-803), unless a power loss reverts a rename.
THEOREM OffTheorem == ConfigSpec => []OffStaysOff
<1>1. SettingsInv /\ OffInv => OffStaysOff
  BY EnvAssumption DEF OffInv, OffStaysOff, FullAccessAllowed, Resolved
<1> QED
  BY <1>1, SettingsInit, SettingsStep, OffInit, OffStep, PTL DEF ConfigSpec
-----------------------------------------------------------------------------
(* The live settings.                                                      *)

InFile == Parsed(toml.text).settings

\* Between a rename and its Apply the file is ahead by that request's settings.
LiveInv ==
  /\ cutShort \in BOOLEAN
  /\ proc = "up" /\ ~cutShort =>
       /\ (\A r \in Request : pc[r] # "apply") => live = InFile
       /\ \A r \in Request :
            pc[r] = "apply" =>
              InFile = IF job[r].kind = "settings" THEN job[r].value ELSE live

\* The value a save puts in the file.
LEMMA ChangedSettings ==
  ASSUME NEW c \in Content, NEW j \in Job
  PROVE  [c EXCEPT ![j.kind] = j.value].settings
           = IF j.kind = "settings" THEN j.value ELSE c.settings
<1>1. CASE j.kind = "settings"
  BY <1>1 DEF Content, Job
<1>2. CASE j.kind = "order"
  BY <1>2 DEF Content, Job
<1>3. CASE j.kind = "full"
  BY <1>3 DEF Content, Job
<1> QED
  BY <1>1, <1>2, <1>3 DEF Job

\* At start there is no process.
LEMMA LiveInit == ConfigInit => LiveInv
  BY DEF ConfigInit, LiveInv

\* A process starts on what the file says.
LEMMA LiveStart == SettingsInv /\ OffInv /\ LiveInv /\ StartStep => LiveInv'
<1> SUFFICES ASSUME SettingsInv, OffInv, LiveInv, StartStep PROVE LiveInv'
  OBVIOUS
<1> USE DEF LiveInv, InFile, Boot, handlers, history
<1>1. proc # "up" /\ \A r \in Request : pc[r] = "idle"
  BY DEF SettingsInv, Exclusive, StartStep, StartFromToml, StartWriting, StartWriteFails,
         StartWritten, StartMigrated
<1>2. CASE StartFromToml
  BY <1>1, <1>2 DEF StartFromToml
<1>3. CASE StartWriting \/ StartWriteFails
  BY <1>1, <1>3 DEF StartWriting, StartWriteFails
<1>4. CASE StartWritten
  <2>1. Whole(Initial)
    BY ContentAssumption, ContentWhole DEF Initial
  <2> QED
    BY <1>1, <1>4, <2>1 DEF StartWritten, File, Parsed, Whole
<1>5. CASE StartMigrated
  <2>1. Whole(FromJson) /\ toml.text = FromJson
    BY <1>5, ContentAssumption, ContentWhole DEF StartMigrated, OffInv
  <2> QED
    BY <1>1, <1>5, <2>1 DEF StartMigrated, Parsed, Whole
<1> QED
  BY <1>2, <1>3, <1>4, <1>5 DEF StartStep

\* The machine ends the process or leaves what the file says.
LEMMA LiveMachine == SettingsInv /\ LiveInv /\ (Crash \/ PowerLoss \/ Settle) => LiveInv'
<1> SUFFICES ASSUME SettingsInv, LiveInv, Crash \/ PowerLoss \/ Settle PROVE LiveInv'
  OBVIOUS
<1>1. CASE Crash \/ PowerLoss
  BY <1>1 DEF LiveInv, Crash, PowerLoss, ProcessGone
<1>2. CASE Settle
  <2>1. toml'.text = toml.text
    BY <1>2 DEF Settle, SettingsInv, Types, Files
  <2> QED
    BY <1>2, <2>1 DEF LiveInv, InFile, Settle, process, handlers, history
<1> QED
  BY <1>1, <1>2

\* A handler's rename and its Apply move the file and the live settings by the
\* same value.
LEMMA LiveHandler ==
  ASSUME SettingsInv, LiveInv, NEW r \in Request,
         \/ \E j \in Asked : Arrive(r, j)
         \/ Lock(r) \/ ReadFails(r) \/ BackupFails(r) \/ OpenBackup(r) \/ CopyFails(r)
         \/ FillBackup(r) \/ Prune(r)
         \/ WriteTemp(r) \/ Sync(r) \/ SaveFails(r) \/ Rename(r) \/ Apply(r) \/ Cancel(r)
  PROVE  LiveInv'
<1> USE DEF disk, process, history
<1>1. CASE Rename(r)
  <2>1. /\ Parsed(toml.text) \in Content /\ job[r] \in Job
        /\ toml'.text = Changed(r) /\ Whole(toml'.text)
    BY <1>1, RenamedFile, ContentWhole, ParsedType, AskedAssumption
    DEF SettingsInv, Types, Exclusive, Files, Rename, Renaming
  <2>2. InFile' = IF job[r].kind = "settings" THEN job[r].value ELSE InFile
    BY <2>1, ChangedSettings DEF InFile, Changed, Parsed, Whole
  <2>3. \A q \in Request : q # r => pc[q] \in {"idle", "wait"}
    BY <1>1, OneHolder DEF Rename, Renaming
  <2>4. /\ pc' = [pc EXCEPT ![r] = "apply"] /\ pc[r] # "apply"
        /\ UNCHANGED <<proc, live, cutShort, job>>
    BY <1>1 DEF Rename, Goto, Renaming
  <2>5. proc = "up" /\ ~cutShort => live = InFile
    BY <2>3, <2>4 DEF LiveInv
  <2> QED
    BY <2>2, <2>3, <2>4, <2>5 DEF LiveInv, SettingsInv, Types
<1>2. CASE Apply(r)
  <2>1. /\ pc' = [pc EXCEPT ![r] = "idle"] /\ pc[r] = "apply"
        /\ live' = IF job[r].kind = "settings" THEN job[r].value ELSE live
        /\ UNCHANGED <<toml, proc, cutShort>>
    BY <1>2 DEF Apply, Respond, Goto
  <2>2. \A q \in Request : q # r => pc[q] \in {"idle", "wait"}
    BY <2>1, OneHolder
  <2>3. \A q \in Request : pc'[q] # "apply"
    BY <2>1, <2>2 DEF SettingsInv, Types
  <2>4. InFile' = InFile
    BY <2>1 DEF InFile
  <2> QED
    BY <2>1, <2>3, <2>4 DEF LiveInv
<1>3. CASE Cancel(r) /\ cutShort'
  BY <1>3 DEF LiveInv, Cancel
<1>4. CASE ~Rename(r) /\ ~Apply(r) /\ ~(Cancel(r) /\ cutShort')
  <2>1. UNCHANGED <<toml, proc, live, cutShort>>
    BY <1>4
    DEF Arrive, Lock, ReadFails, BackupFails, OpenBackup, CopyFails, FillBackup, Prune,
        WriteTemp, Sync, SaveFails, Cancel
  <2>2. \A q \in Request :
          (pc'[q] = "apply" <=> pc[q] = "apply") /\ (pc[q] = "apply" => job'[q] = job[q])
    BY <1>4
    DEF SettingsInv, Types, Arrive, Lock, ReadFails, BackupFails, OpenBackup, CopyFails,
        FillBackup, Prune, WriteTemp, Sync,
        SaveFails, Cancel, Goto, Respond, Writing, Syncing, Renaming
  <2>3. InFile' = InFile
    BY <2>1 DEF InFile
  <2> QED
    BY <2>1, <2>2, <2>3 DEF LiveInv
<1> QED
  BY <1>1, <1>2, <1>3, <1>4

\* No step breaks the invariant of the live settings.
LEMMA LiveStep == SettingsInv /\ OffInv /\ LiveInv /\ [ConfigNext]_configVars => LiveInv'
<1> SUFFICES ASSUME SettingsInv, OffInv, LiveInv, [ConfigNext]_configVars PROVE LiveInv'
  OBVIOUS
<1>1. CASE UNCHANGED configVars
  BY <1>1 DEF configVars, disk, process, handlers, history, LiveInv, InFile
<1> QED
  BY <1>1, LiveStart, LiveMachine, LiveHandler DEF ConfigNext, HandlerStep

\* What the monitoring loop reads is what the file says whenever nobody holds
\* config_write, for any number of saves, failures and restarts; a request
\* dropped between its save and live_settings.write() excepted (server.rs 750).
THEOREM LiveTheorem == ConfigSpec => []LiveFollowsFile
<1>1. SettingsInv /\ LiveInv => LiveFollowsFile
  BY NilAssumption DEF SettingsInv, Exclusive, LiveInv, InFile, LiveFollowsFile
<1> QED
  BY <1>1, SettingsInit, SettingsStep, OffInit, OffStep, LiveInit, LiveStep, PTL DEF ConfigSpec

-----------------------------------------------------------------------------
(* The backups.                                                            *)

Made == {"create_saved", "sync_saved", "rename_saved"}

Copies == backups \in Seq(Files) /\ Len(backups) <= BackupBound

\* The newest copy is of the file as it is.
Newest == Len(backups) # 0 /\ backups[Len(backups)].text = toml.text

\* While a copy is being filled there is one, and from its end to the rename a
\* save has what it is about to replace as the newest backup.
BackupInv ==
  /\ Copies
  /\ \A r \in Request : /\ pc[r] = "copying" => Len(backups) # 0
                        /\ pc[r] \in Made \cup {"prune"} => Newest

\* At start there are no copies.
LEMMA BackupInit == ConfigInit => BackupInv
  BY ConfigBoundAssumption, BackupAssumption DEF ConfigInit, BackupInv, Copies, Made

\* What the operators on sequences make, for elements of any kind.
LEMMA SeqAppend ==
  ASSUME NEW S, NEW seq \in Seq(S), NEW e \in S
  PROVE  Append(seq, e) \in Seq(S) /\ Len(Append(seq, e)) = Len(seq) + 1
  OBVIOUS

\* Replacing an element.
LEMMA SeqReplace ==
  ASSUME NEW S, NEW seq \in Seq(S), NEW e \in S, NEW i \in 1..Len(seq)
  PROVE  /\ [seq EXCEPT ![i] = e] \in Seq(S)
         /\ Len([seq EXCEPT ![i] = e]) = Len(seq)
         /\ [seq EXCEPT ![i] = e][i] = e
  OBVIOUS

\* A function on 1..n.
LEMMA SeqOfFunction ==
  ASSUME NEW S, NEW n \in Nat, NEW f \in [1..n -> S]
  PROVE  f \in Seq(S) /\ Len(f) = n
  OBVIOUS

\* Joining two.
LEMMA SeqJoin ==
  ASSUME NEW S, NEW left \in Seq(S), NEW right \in Seq(S), right # <<>>
  PROVE  /\ left \o right \in Seq(S)
         /\ Len(left \o right) = Len(left) + Len(right)
         /\ (left \o right)[Len(left) + Len(right)] = right[Len(right)]
  OBVIOUS

\* The newest of a sequence, m of them.
LEMMA SeqLast ==
  ASSUME NEW S, NEW seq \in Seq(S), NEW m \in 1..Len(seq)
  PROVE  /\ SubSeq(seq, Len(seq) - m + 1, Len(seq)) \in Seq(S)
         /\ Len(SubSeq(seq, Len(seq) - m + 1, Len(seq))) = m
         /\ SubSeq(seq, Len(seq) - m + 1, Len(seq))[m] = seq[Len(seq)]
  OBVIOUS

\* The file that is opened for a copy is one more, and the last.
LEMMA Opened ==
  ASSUME Copies, backups' = Append(backups, File(Empty, FALSE, "save")),
         Len(backups) < BackupBound
  PROVE  Copies' /\ Len(backups') # 0
<1>1. File(Empty, FALSE, "save") \in Files
  BY DEF File, Files, Text
<1> HIDE DEF File
<1>2. backups' \in Seq(Files) /\ Len(backups') = Len(backups) + 1
  BY <1>1, SeqAppend DEF Copies
<1>3. Len(backups) \in Nat /\ BackupBound \in Nat
  BY ConfigBoundAssumption DEF Copies
<1>4. Len(backups') <= BackupBound /\ Len(backups') # 0
  BY <1>2, <1>3, SMT
<1> QED
  BY <1>2, <1>4, Zenon DEF Copies

\* Filling it, in part or whole, changes the last of the copies.
LEMMA FilledIs ==
  ASSUME Copies, Len(backups) # 0, NEW text \in Text, backups' = Filled(text)
  PROVE  Copies' /\ Len(backups') = Len(backups) /\ backups'[Len(backups')].text = text
<1>1. File(text, FALSE, "save") \in Files /\ File(text, FALSE, "save").text = text
  BY DEF File, Files
<1>2. Len(backups) \in 1..Len(backups)
  BY DEF Copies
<1> DEFINE f == File(text, FALSE, "save")
<1> HIDE DEF f
<1>3. /\ backups' \in Seq(Files) /\ Len(backups') = Len(backups)
      /\ backups'[Len(backups)] = f
  <2>1. backups' = [backups EXCEPT ![Len(backups)] = f] /\ f \in Files /\ backups \in Seq(Files)
    BY <1>1 DEF Copies, Filled, f
  <2> QED
    BY <1>2, <2>1, SeqReplace
<1> QED
  BY <1>1, <1>3 DEF Copies, f

\* Leaving elements out makes a sequence that is no longer.
LEMMA PlacesShort ==
  ASSUME NEW S, NEW seq \in Seq(S), NEW at \in Places(seq)
  PROVE  At(seq, at) \in Seq(S) /\ Len(At(seq, at)) <= Len(seq) /\ Len(At(seq, at)) \in Nat
<1>1. PICK n \in 0..Len(seq) : at \in [1..n -> 1..Len(seq)]
  BY DEF Places
<1>2. DOMAIN at = 1..n /\ \A i \in 1..n : at[i] \in 1..Len(seq)
  BY <1>1
<1>3. At(seq, at) = [i \in 1..n |-> seq[at[i]]]
  BY <1>2 DEF At
<1>4. \A i \in 1..n : seq[at[i]] \in S
  BY <1>2
<1> QED
  BY <1>3, <1>4

\* Pruning keeps the newest copy, whichever of the others it removes.
LEMMA Pruned ==
  ASSUME Copies, Newest, NEW left \in Places(Stale),
         backups' = At(Stale, left) \o KeptBackups, toml' = toml
  PROVE  Copies' /\ Newest'
<1> DEFINE n == Len(backups)
           m == Least(n, MaxBackups)
           old == At(Stale, left)
<1>1. n \in Nat /\ n # 0 /\ m \in Nat /\ m # 0 /\ m <= n /\ backups \in Seq(Files)
  BY BackupAssumption DEF Copies, Newest, Least
<1>2. Stale \in Seq(Files) /\ Len(Stale) = n - m
  BY <1>1 DEF Stale
<1>3. /\ KeptBackups \in Seq(Files) /\ Len(KeptBackups) = m
      /\ KeptBackups[m] = backups[n]
  <2>1. KeptBackups = SubSeq(backups, Len(backups) - m + 1, Len(backups)) /\ m \in 1..Len(backups)
    BY <1>1 DEF KeptBackups
  <2> HIDE DEF m
  <2> QED
    BY <1>1, <2>1, SeqLast
<1>4. old \in Seq(Files) /\ Len(old) <= n - m /\ Len(old) \in Nat
  BY <1>2, PlacesShort
<1> HIDE DEF old, m, n
<1>5. /\ backups' \in Seq(Files) /\ Len(backups') = Len(old) + m
      /\ backups'[Len(old) + m] = KeptBackups[m]
  <2>1. KeptBackups # <<>> /\ backups' = old \o KeptBackups
    BY <1>1, <1>3 DEF old
  <2> QED
    BY <1>3, <1>4, <2>1, SeqJoin
<1>6. Len(backups') <= n /\ Len(backups') # 0
  BY <1>1, <1>4, <1>5
<1>7. backups'[Len(backups')].text = toml'.text
  BY <1>3, <1>5 DEF Newest, n
<1> QED
  BY <1>1, <1>5, <1>6, <1>7, ConfigBoundAssumption DEF Copies, Newest, n

\* A step that leaves copies and text alone, and brings nobody past its copy.
LEMMA BackupStays ==
  ASSUME BackupInv, backups' = backups, toml'.text = toml.text,
         \A q \in Request : pc'[q] \in Made \cup {"copying", "prune"} =>
           pc[q] = pc'[q] \/ (pc[q] \in Made /\ pc'[q] \in Made)
  PROVE  BackupInv'
  BY DEF BackupInv, Copies, Newest, Made

\* A step after which nobody is between its copy and its rename.
LEMMA BackupOver ==
  ASSUME Copies', \A q \in Request : pc'[q] \notin Made \cup {"copying", "prune"}
  PROVE  BackupInv'
  BY DEF BackupInv

\* No handler breaks it.
LEMMA BackupHandler ==
  ASSUME SettingsInv, BackupInv, NEW r \in Request,
         \/ \E j \in Asked : Arrive(r, j)
         \/ Lock(r) \/ ReadFails(r) \/ BackupFails(r) \/ OpenBackup(r) \/ CopyFails(r)
         \/ FillBackup(r) \/ Prune(r) \/ WriteTemp(r) \/ Sync(r) \/ SaveFails(r) \/ Rename(r)
         \/ Apply(r) \/ Cancel(r)
  PROVE  BackupInv'
<1> USE DEF disk, process
<1>0. pc \in [Request -> Steps] /\ toml.text \in Text /\ Cut \in Text /\ Copies
  BY DEF SettingsInv, Types, Files, BackupInv, Text
<1>1. CASE OpenBackup(r)
  <2>1. /\ pc[r] = "backup" /\ backups' = Append(backups, File(Empty, FALSE, "save"))
        /\ pc' = [pc EXCEPT ![r] = "copying"] /\ Len(backups) < BackupBound
    BY <1>1 DEF OpenBackup, Goto
  <2>2. \A q \in Request : q # r => pc'[q] \in {"idle", "wait"}
    BY <1>0, <2>1, OneHolder
  <2>3. Copies' /\ Len(backups') # 0
    BY <1>0, <2>1, Opened
  <2> QED
    BY <1>0, <2>1, <2>2, <2>3 DEF BackupInv, Made
<1>2. CASE CopyFails(r)
  <2>1. /\ pc[r] = "copying" /\ backups' \in {backups, Filled(Cut)}
        /\ pc' = [pc EXCEPT ![r] = "create"]
    BY <1>2 DEF CopyFails, Goto
  <2>2. \A q \in Request : q # r => pc'[q] \in {"idle", "wait"}
    BY <1>0, <2>1, OneHolder
  <2>3. Len(backups) # 0
    BY <2>1 DEF BackupInv
  <2>4. Copies'
    BY <1>0, <2>1, <2>3, FilledIs DEF Copies
  <2> QED
    BY <1>0, <2>1, <2>2, <2>4, BackupOver DEF Made
<1>3. CASE FillBackup(r)
  <2>1. /\ pc[r] = "copying" /\ backups' = Filled(toml.text) /\ toml' = toml
        /\ pc' = [pc EXCEPT ![r] = "prune"]
    BY <1>3 DEF FillBackup, Goto
  <2>2. \A q \in Request : q # r => pc'[q] \in {"idle", "wait"}
    BY <1>0, <2>1, OneHolder
  <2>3. Len(backups) # 0
    BY <2>1 DEF BackupInv
  <2>4. Copies' /\ Len(backups') = Len(backups) /\ backups'[Len(backups')].text = toml.text
    BY <1>0, <2>1, <2>3, FilledIs
  <2>5. Newest'
    BY <2>1, <2>3, <2>4 DEF Newest
  <2> QED
    BY <1>0, <2>1, <2>2, <2>4, <2>5 DEF BackupInv, Made
<1>4. CASE Prune(r)
  <2>1. /\ pc[r] = "prune" /\ toml' = toml
        /\ \E left \in Places(Stale) : backups' = At(Stale, left) \o KeptBackups
        /\ pc' = [pc EXCEPT ![r] = "create_saved"]
    BY <1>4 DEF Prune, Goto
  <2>2. \A q \in Request : q # r => pc'[q] \in {"idle", "wait"}
    BY <1>0, <2>1, OneHolder
  <2>3. Newest
    BY <2>1 DEF BackupInv
  <2>4. Copies' /\ Newest'
    BY <1>0, <2>1, <2>3, Pruned
  <2> QED
    BY <1>0, <2>1, <2>2, <2>4 DEF BackupInv, Made
<1>5. CASE Rename(r)
  <2>1. Renaming(r) /\ backups' = backups /\ pc' = [pc EXCEPT ![r] = "apply"]
    BY <1>5 DEF Rename, Goto
  <2>2. \A q \in Request : q # r => pc[q] \in {"idle", "wait"}
    BY <2>1, OneHolder DEF Renaming
  <2>3. Copies'
    BY <1>0, <2>1 DEF Copies
  <2> QED
    BY <1>0, <2>1, <2>2, <2>3, BackupOver DEF Made
<1>6. CASE ~OpenBackup(r) /\ ~CopyFails(r) /\ ~FillBackup(r) /\ ~Prune(r) /\ ~Rename(r)
  <2>1. backups' = backups /\ toml' = toml
    BY <1>6 DEF Arrive, Lock, ReadFails, BackupFails, WriteTemp, Sync, SaveFails, Apply, Cancel
  <2>2. /\ \A q \in Request : q # r => pc'[q] = pc[q]
        /\ \/ pc'[r] \in {"idle", "wait", "backup", "create", "sync", "rename"}
           \/ pc[r] = "create_saved" /\ pc'[r] = "sync_saved"
           \/ pc[r] = "sync_saved" /\ pc'[r] = "rename_saved"
    <3>1. CASE (\E j \in Asked : Arrive(r, j)) \/ Lock(r) \/ BackupFails(r)
      BY <1>0, <3>1 DEF Arrive, Lock, BackupFails, Goto
    <3>2. CASE ReadFails(r) \/ SaveFails(r) \/ Apply(r) \/ Cancel(r)
      BY <1>0, <3>2 DEF ReadFails, SaveFails, Apply, Cancel, Respond, Goto
    <3>3. CASE WriteTemp(r)
      BY <1>0, <3>3 DEF WriteTemp, Writing
    <3>4. CASE Sync(r)
      BY <1>0, <3>4 DEF Sync, Syncing
    <3> QED
      BY <1>6, <3>1, <3>2, <3>3, <3>4
  <2> QED
    BY <2>1, <2>2, BackupStays DEF Made
<1> QED
  BY <1>1, <1>2, <1>3, <1>4, <1>5, <1>6

\* What a power loss leaves of the copies are files.
LEMMA PowerCopies == Copies /\ PowerLoss => Copies'
<1> SUFFICES ASSUME Copies, PowerLoss PROVE Copies'
  OBVIOUS
<1>0. PICK left \in Places(backups) : \E found \in [DOMAIN left -> {"own", "empty", "cut"}] :
        backups' = [k \in DOMAIN left |->
                      File(CASE found[k] = "own"   -> backups[left[k]].text
                             [] found[k] = "empty" -> Empty
                             [] found[k] = "cut"   -> Cut, TRUE, "save")]
  BY DEF PowerLoss
<1>1. PICK found \in [DOMAIN left -> {"own", "empty", "cut"}] :
        backups' = [k \in DOMAIN left |->
                      File(CASE found[k] = "own"   -> backups[left[k]].text
                             [] found[k] = "empty" -> Empty
                             [] found[k] = "cut"   -> Cut, TRUE, "save")]
  BY <1>0
<1>2. PICK n \in 0..Len(backups) : left \in [1..n -> 1..Len(backups)]
  BY DEF Places
<1>3. \A k \in 1..n : left[k] \in 1..Len(backups) /\ found[k] \in {"own", "empty", "cut"}
  BY <1>1, <1>2
<1> DEFINE now(k) == CASE found[k] = "own"   -> backups[left[k]].text
                       [] found[k] = "empty" -> Empty
                       [] found[k] = "cut"   -> Cut
<1>4. \A k \in 1..n : now(k) \in Text
  <2>1. \A i \in 1..Len(backups) : backups[i] \in Files
    BY DEF Copies
  <2>2. \A i \in 1..Len(backups) : backups[i].text \in Text
    BY <2>1 DEF Files
  <2> QED
    BY <1>3, <2>2 DEF Text
<1>5. backups' = [k \in 1..n |-> File(now(k), TRUE, "save")]
  BY <1>1, <1>2
<1>6. \A k \in 1..n : File(now(k), TRUE, "save") \in Files
  BY <1>4 DEF File, Files
<1> DEFINE is(k) == File(now(k), TRUE, "save")
<1> HIDE DEF is
<1>7. backups' \in Seq(Files) /\ Len(backups') = n
  <2>1. backups' = [k \in 1..n |-> is(k)] /\ \A k \in 1..n : is(k) \in Files
    BY <1>5, <1>6 DEF is
  <2>2. backups' \in [1..n -> Files] /\ n \in Nat
    BY <2>1
  <2> QED
    BY <2>2, SeqOfFunction
<1> QED
  BY <1>2, <1>7, ConfigBoundAssumption DEF Copies

\* Nor does any other step.
LEMMA BackupStep == SettingsInv /\ BackupInv /\ [ConfigNext]_configVars => BackupInv'
<1> SUFFICES ASSUME SettingsInv, BackupInv, [ConfigNext]_configVars PROVE BackupInv'
  OBVIOUS
<1>0. Copies
  BY DEF BackupInv
<1>1. CASE HandlerStep
  BY <1>1, BackupHandler DEF HandlerStep
<1>2. CASE StartStep
  <2>1. (\A r \in Request : pc[r] = "idle") /\ UNCHANGED <<backups, pc>>
    BY <1>2 DEF SettingsInv, Exclusive, StartStep, StartFromToml, StartWriting, StartWriteFails,
                StartWritten, StartMigrated, Boot, handlers
  <2> QED
    BY <1>0, <2>1, BackupOver DEF Made, Copies
<1>3. CASE Crash
  <2>1. (\A r \in Request : pc'[r] = "idle")
    BY <1>3 DEF Crash, ProcessGone
  <2>2. backups' = backups \/ (Len(backups) # 0 /\ backups' = Filled(Cut))
    BY <1>3 DEF Crash, BackupInv
  <2>3. Cut \in Text
    BY DEF Text
  <2>4. Copies'
    BY <1>0, <2>2, <2>3, FilledIs DEF Copies
  <2> QED
    BY <2>1, <2>4, BackupOver DEF Made
<1>4. CASE PowerLoss
  <2>1. (\A r \in Request : pc'[r] = "idle")
    BY <1>4 DEF PowerLoss, ProcessGone
  <2>2. Copies'
    BY <1>0, <1>4, PowerCopies
  <2> QED
    BY <2>1, <2>2, BackupOver DEF Made
<1>5. CASE Settle
  <2>1. toml'.text = toml.text /\ UNCHANGED pc
    BY <1>5 DEF Settle, SettingsInv, Types, Files, handlers
  <2>2. backups' = [i \in DOMAIN backups |-> [backups[i] EXCEPT !.synced = TRUE]]
    BY <1>5 DEF Settle
  <2>3. \A i \in 1..Len(backups) :
          /\ [backups[i] EXCEPT !.synced = TRUE] \in Files
          /\ [backups[i] EXCEPT !.synced = TRUE].text = backups[i].text
    <3>1. \A i \in 1..Len(backups) : backups[i] \in Files
      BY <1>0 DEF Copies
    <3> QED
      BY <3>1 DEF Files
  <2>4. DOMAIN backups = 1..Len(backups) /\ Len(backups) \in Nat
    BY <1>0 DEF Copies
  <2>5. /\ backups' \in Seq(Files) /\ Len(backups') = Len(backups)
        /\ \A i \in 1..Len(backups) : backups'[i].text = backups[i].text
    <3>1. /\ backups' \in [1..Len(backups) -> Files]
          /\ \A i \in 1..Len(backups) : backups'[i].text = backups[i].text
      BY <2>2, <2>3, <2>4
    <3> QED
      BY <2>4, <3>1, SeqOfFunction
  <2>6. Copies' /\ (Newest => Newest')
    BY <1>0, <2>1, <2>4, <2>5 DEF Copies, Newest
  <2> QED
    BY <2>1, <2>5, <2>6 DEF BackupInv
<1>6. CASE UNCHANGED configVars
  BY <1>6, BackupStays DEF configVars, disk, handlers
<1> QED
  BY <1>1, <1>2, <1>3, <1>4, <1>5, <1>6 DEF ConfigNext

\* A save that made its copy can be undone: the newest copy is, whole, the file
\* it is about to replace, whatever pruning failed to remove and whatever partial
\* copies earlier saves, crashes and power losses left (config_file.rs 76-93).
THEOREM UndoTheorem == ConfigSpec => []UndoPath
<1>1. BackupInv => UndoPath
  <2> SUFFICES ASSUME BackupInv, NEW r \in Request, pc[r] \in Made
               PROVE  backups # <<>> /\ backups[Len(backups)].text = toml.text
    BY DEF UndoPath, Made
  <2> QED
    BY BackupAssumption DEF BackupInv, Newest, Copies
<1> QED
  BY <1>1, SettingsInit, SettingsStep, BackupInit, BackupStep, PTL DEF ConfigSpec

-----------------------------------------------------------------------------
(* The types of what the arguments above do not need.                      *)

RunType == running \in Content /\ live \in Value
FlagType == offFlag \in BOOLEAN /\ offAcked \in BOOLEAN /\ reverted \in BOOLEAN /\ cutShort \in BOOLEAN

\* A slot has a job from its arrival, and a copy while it holds the lock.
SlotInv ==
  \A r \in Request :
    /\ pc[r] = "idle" <=> job[r] = Nil
    /\ lock # r <=> copy[r] = Nil

RestInv == RunType /\ FlagType /\ SlotInv

\* At start nothing runs.
LEMMA RestInit == ConfigInit => RestInv
<1> SUFFICES ASSUME ConfigInit PROVE RestInv
  OBVIOUS
<1>1. RunType /\ FlagType
  BY ContentAssumption DEF ConfigInit, RunType, FlagType, Content
<1>2. SlotInv
  BY NilAssumption DEF ConfigInit, SlotInv
<1> QED
  BY <1>1, <1>2 DEF RestInv

\* What a request asks for is one of the values of its kind.
LEMMA SettingsValue == \A j \in Asked : j.kind = "settings" => j.value \in Value
  BY AskedAssumption DEF Job

\* No handler breaks them.
LEMMA RestHandler ==
  ASSUME SettingsInv, RestInv, NEW r \in Request,
         \/ \E j \in Asked : Arrive(r, j)
         \/ Lock(r) \/ ReadFails(r) \/ BackupFails(r) \/ OpenBackup(r) \/ CopyFails(r)
         \/ FillBackup(r) \/ Prune(r)
         \/ WriteTemp(r) \/ Sync(r) \/ SaveFails(r) \/ Rename(r) \/ Apply(r) \/ Cancel(r)
  PROVE  RestInv'
<1> USE DEF process, history
<1>0. /\ pc \in [Request -> Steps] /\ job \in [Request -> Asked \cup {Nil}]
      /\ copy \in [Request -> Content \cup {Nil}] /\ lock \in Request \cup {Nil}
  BY DEF SettingsInv, Types
<1>1. RunType'
  <2>1. CASE Apply(r)
    <3>1. running' = running /\ live' = (IF job[r].kind = "settings" THEN job[r].value ELSE live)
      BY <2>1 DEF Apply
    <3>2. job[r] \in Asked
      BY <2>1 DEF Apply, SettingsInv, Exclusive
    <3> QED
      BY <3>1, <3>2, SettingsValue DEF RestInv, RunType
  <2>2. CASE ~Apply(r)
    <3>1. running' = running /\ live' = live
      BY <2>2 DEF Arrive, Lock, ReadFails, BackupFails, OpenBackup, CopyFails, FillBackup, Prune,
                  WriteTemp, Sync, SaveFails,
                  Rename, Cancel
    <3> QED
      BY <3>1 DEF RestInv, RunType
  <2> QED BY <2>1, <2>2
<1>2. FlagType'
  <2>1. CASE Apply(r)
    BY <2>1, Zenon DEF Apply, RestInv, FlagType
  <2>2. CASE Cancel(r)
    BY <2>2, Zenon DEF Cancel, RestInv, FlagType
  <2>3. CASE ~Apply(r) /\ ~Cancel(r)
    <3>1. UNCHANGED <<offFlag, offAcked, reverted, cutShort>>
      BY <2>3 DEF Arrive, Lock, ReadFails, BackupFails, OpenBackup, CopyFails, FillBackup, Prune,
                  WriteTemp, Sync, SaveFails,
                  Rename
    <3> QED
      BY <3>1, Zenon DEF RestInv, FlagType
  <2> QED BY <2>1, <2>2, <2>3
<1>3. SlotInv'
  <2> USE DEF RestInv, SlotInv
  <2>1. CASE \E j \in Asked : Arrive(r, j)
    BY <1>0, <2>1, NilAssumption DEF Arrive, Goto
  <2>2. CASE Lock(r)
    <3>1. Changed(r) \in Content
      BY <2>2, AskedAssumption, ParsedType, ChangedType
      DEF SettingsInv, Types, Exclusive, Lock, Files, Changed
    <3>2. /\ lock = Nil /\ lock' = r /\ copy' = [copy EXCEPT ![r] = Changed(r)]
          /\ pc[r] = "wait" /\ pc' = [pc EXCEPT ![r] = "backup"] /\ job' = job
      BY <2>2 DEF Lock, Goto, Changed
    <3>3. Changed(r) # Nil
      BY <3>1, NilAssumption
    <3> HIDE DEF Changed
    <3> QED
      BY <1>0, <3>2, <3>3, NilAssumption
  <2>3. CASE BackupFails(r) \/ OpenBackup(r) \/ CopyFails(r) \/ FillBackup(r) \/ Prune(r)
             \/ WriteTemp(r) \/ Sync(r) \/ Rename(r)
    <3>1. /\ UNCHANGED <<lock, job, copy>> /\ pc[r] # "idle" /\ pc'[r] # "idle"
          /\ \A q \in Request : q # r => pc'[q] = pc[q]
      BY <1>0, <2>3 DEF BackupFails, OpenBackup, CopyFails, FillBackup, Prune, WriteTemp, Sync,
                        Rename, Goto, Writing,
                        Syncing, Renaming
    <3> QED
      BY <3>1
  <2>4. CASE ReadFails(r) \/ SaveFails(r) \/ Apply(r) \/ (Cancel(r) /\ pc[r] = "apply")
    <3>1. /\ pc' = [pc EXCEPT ![r] = "idle"] /\ job' = [job EXCEPT ![r] = Nil]
          /\ copy' = [copy EXCEPT ![r] = Nil] /\ lock' = Nil
      BY <2>4 DEF ReadFails, SaveFails, Apply, Cancel, Respond, Goto
    <3>2. lock \in {r, Nil}
      BY <2>4 DEF ReadFails, SaveFails, Apply, Cancel, SettingsInv, Exclusive, Writing, Syncing,
                  Renaming
    <3> QED
      BY <1>0, <3>1, <3>2, NilAssumption
  <2>5. CASE Cancel(r) /\ pc[r] = "wait"
    BY <1>0, <2>5 DEF Cancel, Goto
  <2> QED
    BY <2>1, <2>2, <2>3, <2>4, <2>5 DEF Cancel
<1> QED
  BY <1>1, <1>2, <1>3 DEF RestInv

\* The start reads a configuration; the end of a process takes it all away.
LEMMA RestStep == SettingsInv /\ OffInv /\ RestInv /\ [ConfigNext]_configVars => RestInv'
<1> SUFFICES ASSUME SettingsInv, OffInv, RestInv, [ConfigNext]_configVars PROVE RestInv'
  OBVIOUS
<1>1. CASE HandlerStep
  BY <1>1, RestHandler DEF HandlerStep
<1>2. CASE StartStep
  <2>1. UNCHANGED <<lock, pc, job, copy, offAcked, reverted, cutShort>>
    BY <1>2 DEF StartStep, StartFromToml, StartWriting, StartWriteFails, StartWritten,
                StartMigrated, Boot, handlers, history
  <2>2. SlotInv'
    BY <2>1 DEF RestInv, SlotInv
  <2>3. \/ UNCHANGED <<running, live, offFlag>>
        \/ \E c \in Content : running' = c /\ live' = c.settings /\ offFlag' = FALSE
    <3>1. CASE StartFromToml
      <4>1. Parsed(toml.text) \in Content
        BY <3>1, ParsedType DEF StartFromToml, SettingsInv, Types, Files
      <4> QED BY <3>1, <4>1 DEF StartFromToml, Boot
    <3>2. CASE StartWriting \/ StartWriteFails
      BY <3>2 DEF StartWriting, StartWriteFails
    <3>3. CASE StartWritten
      <4>1. Initial \in Content
        BY ContentAssumption DEF Initial
      <4> QED BY <3>3, <4>1 DEF StartWritten, Boot
    <3>4. CASE StartMigrated
      BY <3>4, ContentAssumption DEF StartMigrated, Boot
    <3> QED BY <1>2, <3>1, <3>2, <3>3, <3>4 DEF StartStep
  <2>4. RunType'
    BY <2>3 DEF RestInv, RunType, Content
  <2>5. FlagType'
    BY <2>1, <2>3, Zenon DEF RestInv, FlagType
  <2> QED
    BY <2>2, <2>4, <2>5 DEF RestInv
<1>3. CASE Crash \/ PowerLoss
  <2>1. /\ lock' = Nil /\ pc' = [r \in Request |-> "idle"] /\ job' = [r \in Request |-> Nil]
        /\ copy' = [r \in Request |-> Nil]
        /\ running' = Fresh /\ live' = Fresh.settings
    BY <1>3 DEF Crash, PowerLoss, ProcessGone
  <2>2. offFlag' = FALSE /\ cutShort' = FALSE /\ offAcked' = offAcked /\ reverted' \in BOOLEAN
    <3>1. CASE Crash
      BY <3>1, Zenon DEF Crash, ProcessGone, RestInv, FlagType
    <3>2. CASE PowerLoss
      <4>1. PICK was \in earlier \cup {Directory} : reverted' = (reverted \/ was.toml # toml)
        BY <3>2 DEF PowerLoss
      <4> QED BY <3>2, <4>1, Zenon DEF PowerLoss, ProcessGone
    <3> QED BY <1>3, <3>1, <3>2
  <2>3. RunType'
    BY <2>1, ContentAssumption DEF RunType, Content
  <2>4. FlagType'
    BY <2>2, Zenon DEF RestInv, FlagType
  <2>5. SlotInv'
    BY <2>1, NilAssumption DEF SlotInv
  <2> QED
    BY <2>3, <2>4, <2>5 DEF RestInv
<1>4. CASE Settle \/ UNCHANGED configVars
  <2>1. UNCHANGED <<lock, pc, job, copy, running, live, offFlag, offAcked, reverted, cutShort>>
    BY <1>4 DEF Settle, configVars, process, handlers, history
  <2>2. FlagType'
    BY <2>1, Zenon DEF RestInv, FlagType
  <2> QED
    BY <2>1, <2>2 DEF RestInv, RunType, SlotInv
<1> QED
  BY <1>1, <1>2, <1>3, <1>4 DEF ConfigNext

\* Every variable has its type, whoever is past its wait holds config_write,
\* and a running agent has a config.toml that parses (server.rs 717 and 781).
THEOREM SettingsTypes == ConfigSpec => []SettingsTypeOK
<1>1. SettingsInv /\ BackupInv /\ RestInv => SettingsTypeOK
  <2> SUFFICES ASSUME SettingsInv, BackupInv, RestInv PROVE SettingsTypeOK
    OBVIOUS
  <2>1. {offAcked, reverted, cutShort} \subseteq BOOLEAN /\ offFlag \in BOOLEAN
    BY Zenon DEF RestInv, FlagType
  <2>2. \A r \in Request :
          /\ (lock = r) = (pc[r] \notin {"idle", "wait"})
          /\ pc[r] = "idle" <=> job[r] = Nil
          /\ lock # r <=> copy[r] = Nil
          /\ pc[r] # "idle" => proc = "up" /\ job[r] \in Asked
    BY Zenon DEF SettingsInv, Exclusive, RestInv, SlotInv
  <2>3. /\ running \in Content /\ live \in Value /\ backups \in Seq(Files)
        /\ Len(backups) <= BackupBound
    BY Zenon DEF RestInv, RunType, BackupInv, Copies
  <2>4. /\ toml \in Files /\ json \in {"present", "migrated", "absent"}
        /\ earlier \subseteq [toml : Files, json : {"present", "migrated", "absent"}]
        /\ tmp = Nil \/ tmp \in Files
        /\ proc \in {"down", "writing", "renaming", "up"}
        /\ pc \in [Request -> Steps]
        /\ proc = "up" => Parses(toml.text)
    BY Zenon DEF SettingsInv, Types, Migration
  <2> QED
    BY <2>1, <2>2, <2>3, <2>4, Zenon DEF SettingsTypeOK
<1> QED
  BY <1>1, SettingsInit, SettingsStep, BackupInit, BackupStep, OffInit, OffStep, RestInit,
  RestStep,
     PTL DEF ConfigSpec
=============================================================================
