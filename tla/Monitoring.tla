------------------------------ MODULE Monitoring ------------------------------
(***************************************************************************)
(* The collection loop of the agent: run_monitoring_loop, collect_metrics  *)
(* and adapt_status (src/monitor/src/monitoring/monitoring.rs), the series *)
(* it feeds (velocity.rs), the settings it re-reads and the viewers that   *)
(* keep its slow half awake (src/monitor/src/api/server.rs).               *)
(*                                                                         *)
(* Grain.  A cycle is: decide and take the native sample (no write of      *)
(* another task is visible in between); run the script on extended cycles, *)
(* which takes time and may fail; feed the series; publish.  Requests and  *)
(* saves come between any two of these.                                    *)
(*                                                                         *)
(* Abstracted: a sample to a name that tells it from the samples still in  *)
(* use; the lists only the script yields to the sample they were read in;  *)
(* the commands to names; time to how long the last viewer is gone.  The   *)
(* timestamps and the rates made of them are in Velocity, storage in       *)
(* Retention, rules and pushes in PushQuota.  `cycle` is kept modulo Span, *)
(* which every schedule divides.                                           *)
(***************************************************************************)
EXTENDS Naturals, FiniteSets

CONSTANTS
  Command,    \* names of custom commands
  Every,      \* extended_interval_secs / interval_seconds, as cycles
  Span,       \* a common multiple of Every
  IdleAfter,  \* idle_pause_threshold_secs, in ticks
  None

Stride(e) == IF e > 1 THEN e ELSE 1

SampleName == 0..5
MaybeSample == SampleName \cup {None}
Metrics ==
  [id: SampleName, core: MaybeSample, smart: MaybeSample, cmds: SUBSET Command]

ASSUME MonitoringAssumption ==
  /\ Every \subseteq Nat /\ Span \in Nat \ {0} /\ IdleAfter \in Nat
  /\ \A e \in Every : Span % Stride(e) = 0
  /\ None \notin Nat \cup Metrics

VARIABLES
  live, away,        \* live_settings; ticks since last_viewer_seen
  installed,         \* the command directory
  phase,             \* where the loop stands
  cycle,             \* its counter, modulo Span
  extended,          \* extended_due of the cycle at hand
  taken,             \* what sbm_native::sample returned in it
  metrics,           \* the metrics of the cycle, before they are published
  prevCpu,           \* prev_cpu: the summary sample usage is measured from
  newest,            \* the newest sample of NetworkTimeSeries
  current,           \* current_metrics
  ran,               \* history: what the last script that succeeded printed
  read,              \* history: the last sample in which the script yielded a list
  gap                \* history: cycles since the script last ran, or could not

settingsVars == <<live, away, installed>>
loopVars == <<phase, cycle, extended, taken, metrics, prevCpu, newest, current>>
monitorVars == <<settingsVars, loopVars, ran, read, gap>>

\* A name for the next sample that no variable still holds.
Fresh ==
  LET held == {prevCpu, newest, read}
              \cup (IF current = None THEN {} ELSE {current.id, current.smart})
  IN  CHOOSE i \in SampleName : i \notin held

-----------------------------------------------------------------------------
(* The two decisions of a cycle.                                           *)

\* MUTANT (is_extended_cycle): the first cycle waits its turn.
NotTheFirst(c, e) == c % Stride(e) = 1

is_extended_cycle(c, e) == c % Stride(e) = 0

Idle == away >= IdleAfter

should_run_extended(due) == due /\ (live.pause => ~Idle)

\* What is fresh wins, else what the last cycle had.
carry_forward(fresh, prev) == IF fresh = None THEN prev ELSE fresh

Prev(field) == IF current = None THEN None ELSE current[field]

-----------------------------------------------------------------------------
MonitorInit ==
  /\ live \in [every: Every, pause: BOOLEAN]
  /\ away = 0
  /\ installed \in SUBSET Command
  /\ phase = "asleep" /\ cycle = 0 /\ extended = FALSE
  /\ taken = None /\ metrics = None /\ prevCpu = None /\ newest = None
  /\ current = None
  /\ ran = {} /\ read = None /\ gap = 0

\* Decide whether this cycle is extended, then take the native sample.  Its
\* CPU part may come back empty: a file that could not be read, the first
\* reading of sysinfo.
Begin ==
  /\ phase = "asleep"
  /\ phase' = "collecting"
  /\ cycle' = (cycle + 1) % Span
  /\ extended' = should_run_extended(is_extended_cycle(cycle, live.every))
  /\ \E cpu \in BOOLEAN : taken' = [id |-> Fresh, cpu |-> cpu]
  /\ gap' = IF extended' \/ (live.pause /\ Idle) THEN 0 ELSE gap + 1
  /\ UNCHANGED <<settingsVars, metrics, prevCpu, newest, current, ran, read>>

\* execute_commands fails, or printed nothing: the cycle is lost whole.
ScriptFails ==
  /\ phase = "collecting" /\ extended
  /\ phase' = "asleep" /\ taken' = None /\ extended' = FALSE
  /\ UNCHANGED <<settingsVars, cycle, metrics, prevCpu, newest, current,
                 ran, read, gap>>

\* MUTANT (Commands): custom commands carried forward like the other lists.
CommandsCarried(printed) ==
  IF extended /\ printed # {} THEN printed
  ELSE IF current = None THEN {} ELSE current.cmds

Commands(printed) ==
  IF extended THEN printed
  ELSE IF current = None THEN {} ELSE current.cmds

CpuTaken == IF taken.cpu THEN taken.id ELSE None

\* MUTANT (adapt_status): the lists of the script are taken as they come.
AdaptWithoutCarry(smart, printed) ==
  [id |-> taken.id, core |-> CpuTaken, smart |-> smart, cmds |-> Commands(printed)]

\* `smart` is the sample in which the script read its lists, None when it
\* yielded none.
adapt_status(smart, printed) ==
  [id    |-> taken.id,
   core  |-> CpuTaken,
   smart |-> carry_forward(smart, Prev("smart")),
   cmds  |-> Commands(printed)]

\* prev_cpu.take(), then the summary of this sample.
Baseline == CpuTaken

\* Past the script: sections that failed are empty, so it may have printed
\* only some of the commands.
Collect ==
  /\ phase = "collecting"
  /\ \E smart \in IF extended THEN {None, taken.id} ELSE {None},
        printed \in IF extended THEN SUBSET installed ELSE {{}} :
       /\ metrics' = adapt_status(smart, printed)
       /\ ran' = IF extended THEN printed ELSE ran
       /\ read' = carry_forward(smart, read)
  /\ prevCpu' = Baseline
  /\ phase' = "feeding" /\ taken' = None /\ extended' = FALSE
  /\ UNCHANGED <<settingsVars, cycle, newest, current, gap>>

Feed ==  \* update_server_metrics
  /\ phase = "feeding"
  /\ newest' = metrics.id
  /\ phase' = "publishing"
  /\ UNCHANGED <<settingsVars, cycle, extended, taken, metrics, prevCpu, current,
                 ran, read, gap>>

\* The rules have been checked; then current_metrics, then the sleep.
Publish ==
  /\ phase = "publishing"
  /\ current' = metrics /\ metrics' = None
  /\ phase' = "asleep"
  /\ UNCHANGED <<settingsVars, cycle, extended, taken, prevCpu, newest,
                 ran, read, gap>>

-----------------------------------------------------------------------------
Poll ==  \* touch_viewer_heartbeat: /metrics and /status
  /\ away' = 0
  /\ UNCHANGED <<live, installed, loopVars, ran, read, gap>>

Elapse ==  \* time passes, asleep or at work
  /\ ~Idle
  /\ away' = away + 1
  /\ UNCHANGED <<live, installed, loopVars, ran, read, gap>>

SaveSettings ==  \* the end of update_settings
  /\ live' \in [every: Every, pause: BOOLEAN]
  /\ gap' = 0
  /\ UNCHANGED <<away, installed, loopVars, ran, read>>

ReplaceCommands ==  \* PUT /api/v1/custom-cmds
  /\ installed' \in SUBSET Command
  /\ UNCHANGED <<live, away, loopVars, ran, read, gap>>

MonitorNext ==
  \/ Begin \/ ScriptFails \/ Collect \/ Feed \/ Publish
  \/ Poll \/ Elapse \/ SaveSettings \/ ReplaceCommands

MonitorSpec == MonitorInit /\ [][MonitorNext]_monitorVars

-----------------------------------------------------------------------------
\* Every variable has its type.
MonitorTypeOK ==
  /\ live \in [every: Every, pause: BOOLEAN] /\ away \in 0..IdleAfter
  /\ installed \subseteq Command /\ ran \subseteq Command
  /\ phase \in {"asleep", "collecting", "feeding", "publishing"}
  /\ cycle \in 0..Span - 1 /\ extended \in BOOLEAN /\ gap \in Nat
  /\ taken \in {None} \cup [id: SampleName, cpu: BOOLEAN]
  /\ {prevCpu, newest, read} \subseteq MaybeSample
  /\ {current, metrics} \subseteq Metrics \cup {None}

AtRest == phase = "asleep" /\ current # None

\* What the page shows of the script's work is what its last run that came to
\* an end yielded, across cycles that did not run it and cycles that failed:
\* a command deleted before that run is gone (collect_metrics), and a list
\* that came back empty is the newest that did not (carry_forward).
ShowsLastRun == AtRest => current.cmds = ran /\ current.smart = read

\* CPU usage of the whole and of each core cover the same window: the loop's
\* own baseline and the one in the published metrics never drift apart, and
\* the network series stands at the published sample when a cycle begins.
BaselinesAgree == AtRest => prevCpu = current.core /\ newest = current.id

\* With nobody away and no new settings, the script is due again within the
\* interval that is set: failed cycles do not push it further out.
ExtendedOnSchedule == gap < Stride(live.every)
=============================================================================
