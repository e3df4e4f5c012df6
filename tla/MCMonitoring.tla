---------------------------- MODULE MCMonitoring ----------------------------
(***************************************************************************)
(* The monitor behind the doors, checked side by side: the collection loop *)
(* and what it computes, shows, pushes, stores and deletes; the status     *)
(* script and its custom commands; and the start of the process.  `scene`  *)
(* says which of them moves in a behaviour, so that their state spaces add *)
(* up instead of multiplying.                                              *)
(***************************************************************************)
EXTENDS Monitoring, Velocity, PushQuota, CustomCommands, Thresholds, Aggregates,
        StatusScript, StatusFields, Retention, History, Startup

CONSTANT Scenes  \* those a run is about

VARIABLE scene

vars == <<scene, monitorVars, velocityVars, quotaVars, commandVars, ruleVars, sumVars,
          scriptVars, fieldVars, retentionVars, historyVars, startupVars>>

-----------------------------------------------------------------------------
(* Values of the constants                                                 *)

Entry(name, type, checked) ==
  [name |-> name, type |-> type, complete |-> TRUE, checked |-> checked]
\* Two names, two entries each, one of every way a sender reads an answer.
MCPush == << Entry("a", "webhook", FALSE), Entry("b", "ios", TRUE),
             Entry("a", "serverchan", FALSE), Entry("b", "email", FALSE) >>

\* All sets have a first file; the second file is one of each alone.
MCNamed(w) == CASE w = First -> <<100, 200>>
                [] w = (CHOOSE v \in Writer : TRUE) -> <<100, 300>>
                [] OTHER -> <<100>>

\* Two devices and a file system without one; two volumes of one APFS container
\* and one of another.
MCPath == {"/dev/sda1", "/dev/sdb1", "tmpfs", "Macintosh HD", "Work", "Backup"}
MCLabel == {"Macintosh HD", "Work", "Backup"}
MCDiskBase == [p \in MCPath |-> Nothing]
MCOn == [p \in MCPath |-> IF p = "Work" THEN "Macintosh HD" ELSE p]

MCManifest == << [key |-> "cpu", extended |-> FALSE], [key |-> "diskSmart", extended |-> TRUE] >>
MCOff == {{}, {"cpu"}, {"cpu", "diskSmart"}}
MCDirs == {<<>>, <<"cpu">>, <<"b", "cpu">>}
MCOutput == {<<>>, <<"x">>, <<"forged", "y">>, <<"z", "cpu's marker", "x">>}
MCSpelled == "cpu's marker" :> Builtin("cpu")

MCHosts == {{}, {"swap", "temps"}, {"nvidia", "disk_smart"},
            {"swap", "temps", "batteries", "disk_smart"},
            {"swap", "temps", "batteries", "sensors", "nvidia", "amd", "disk_smart"}}

MCDays == [t \in Table |-> IF t \in {"metrics", "alerts", "log"} THEN 1 ELSE 0]
\* A file without sections is not read for the secret, so two contents of it do.
MCChosen ==
  {s \in Settings : /\ ~s.sectioned => s.file \in {"unset", "long"}
                    /\ s.env = "empty" => s.file = "unset" /\ s.sectioned}
MCWholeDays == [t \in Table |-> 2]

-----------------------------------------------------------------------------
Rule0 == /\ monitor = "cpu" /\ reading = 0 /\ alert = "unchecked" /\ saved = "untried"
         /\ threshold = [op |-> "", num |-> 0, unit |-> <<>>, rate |-> FALSE]
Sum0  == /\ system = "linux" /\ disks = <<>> /\ before = Nothing
         /\ now = NoCounters /\ memory = NoMemory /\ shown = Nothing

Init ==
  /\ scene \in Scenes
  /\ VelocityInit /\ QuotaInit /\ CommandsInit /\ RetentionInit /\ HistoryInit
  /\ MonitorInit
  /\ scene # "loop" => live = [every |-> 0, pause |-> FALSE] /\ installed = {}
  /\ ScriptInit
  /\ scene # "script" => disabled = {} /\ dir = <<>>
  /\ FieldsInit
  /\ scene # "fields" => platform = Linux /\ host = {}
  /\ StartupInit
  \* Bound: the variable and the key of the file are not both set.
  /\ settings.env = "unset" \/ settings.file = "unset"
  /\ scene # "startup" => settings = [env |-> "unset", file |-> "unset", sectioned |-> TRUE]
  /\ IF scene = "rules" THEN RuleInit ELSE Rule0
  /\ IF scene = "sums" THEN SumInit ELSE Sum0

Loop_ == scene = "loop" /\ MonitorNext
  /\ UNCHANGED <<velocityVars, quotaVars, commandVars, ruleVars, sumVars, scriptVars, fieldVars,
                 retentionVars, historyVars, startupVars>>
Velocity_ == scene = "velocity" /\ VelocityNext
  /\ UNCHANGED <<monitorVars, quotaVars, commandVars, ruleVars, sumVars, scriptVars, fieldVars,
                 retentionVars, historyVars, startupVars>>
Quota_ == scene = "quota" /\ QuotaNext
  /\ UNCHANGED <<monitorVars, velocityVars, commandVars, ruleVars, sumVars, scriptVars, fieldVars,
                 retentionVars, historyVars, startupVars>>
Commands_ == scene = "commands" /\ CommandsNext
  /\ UNCHANGED <<monitorVars, velocityVars, quotaVars, ruleVars, sumVars, scriptVars, fieldVars,
                 retentionVars, historyVars, startupVars>>
Rules_ == scene = "rules" /\ RuleNext
  /\ UNCHANGED <<monitorVars, velocityVars, quotaVars, commandVars, sumVars, scriptVars, fieldVars,
                 retentionVars, historyVars, startupVars>>
Sums_ == scene = "sums" /\ Show
  /\ UNCHANGED <<monitorVars, velocityVars, quotaVars, commandVars, ruleVars, scriptVars, fieldVars,
                 retentionVars, historyVars, startupVars>>
Script_ == scene = "script" /\ ScriptNext
  /\ UNCHANGED <<monitorVars, velocityVars, quotaVars, commandVars, ruleVars, sumVars, fieldVars,
                 retentionVars, historyVars, startupVars>>
Fields_ == scene = "fields" /\ FieldsNext
  /\ UNCHANGED <<monitorVars, velocityVars, quotaVars, commandVars, ruleVars, sumVars, scriptVars,
                 retentionVars, historyVars, startupVars>>
Retention_ == scene = "retention" /\ RetentionNext
  /\ UNCHANGED <<monitorVars, velocityVars, quotaVars, commandVars, ruleVars, sumVars, scriptVars,
                 fieldVars, historyVars, startupVars>>
History_ == scene = "history" /\ HistoryNext
  /\ UNCHANGED <<monitorVars, velocityVars, quotaVars, commandVars, ruleVars, sumVars, scriptVars,
                 fieldVars, retentionVars, startupVars>>
Startup_ == scene = "startup" /\ StartupNext
  /\ UNCHANGED <<monitorVars, velocityVars, quotaVars, commandVars, ruleVars, sumVars, scriptVars,
                 fieldVars, retentionVars, historyVars>>

Next == \/ Loop_ /\ UNCHANGED scene
        \/ Velocity_ /\ UNCHANGED scene
        \/ Quota_ /\ UNCHANGED scene
        \/ Commands_ /\ UNCHANGED scene
        \/ Rules_ /\ UNCHANGED scene
        \/ Sums_ /\ UNCHANGED scene
        \/ Script_ /\ UNCHANGED scene
        \/ Fields_ /\ UNCHANGED scene
        \/ Retention_ /\ UNCHANGED scene
        \/ History_ /\ UNCHANGED scene
        \/ Startup_ /\ UNCHANGED scene

Spec == Init /\ [][Next]_vars

-----------------------------------------------------------------------------
\* Every variable has its type.
TypeOK ==
  /\ scene = "loop" => MonitorTypeOK
  /\ scene = "velocity" => VelocityTypeOK
  /\ scene = "quota" => QuotaTypeOK
  /\ scene = "commands" => CommandsTypeOK
  /\ scene = "rules" => RuleTypeOK
  /\ scene = "sums" => SumTypeOK
  /\ scene = "script" => ScriptTypeOK
  /\ scene = "fields" => FieldsTypeOK
  /\ scene = "retention" => RetentionTypeOK
  /\ scene = "history" => HistoryTypeOK
  /\ scene = "startup" => StartupTypeOK

\* The loop shows the values of its last run, measures from the sample it says,
\* and runs the extended commands on their schedule (Monitoring).
LoopHolds == scene = "loop" => ShowsLastRun /\ BaselinesAgree /\ ExtendedOnSchedule

\* The panel shows what was read: its sums, rates and charts, and the fields it
\* is told to expect (Aggregates, Velocity, History, StatusFields).
FiguresHold ==
  /\ scene = "sums" => SumsAgree
  /\ scene = "velocity" => SpeedWithinScriptTime
  /\ scene = "history" => ChartsHold
  /\ scene = "fields" => FieldsAgree

\* A custom command runs whole, and its output reaches its own section
\* (CustomCommands, StatusScript).
CommandsStand ==
  /\ scene = "commands" => RunsWholeTexts
  /\ scene = "script" => SectionsStand
=============================================================================
