------------------------------- MODULE Velocity -------------------------------
(***************************************************************************)
(* The timestamps of the samples and the rates made of them: the order of  *)
(* collect_metrics and adapt_status, compute_diskio_rate                   *)
(* (src/monitor/src/monitoring/monitoring.rs), NetworkTimeSeries           *)
(* (timeseries.rs) and VelocityProcessor::update (velocity.rs).            *)
(*                                                                         *)
(* Grain.  Reading the counters, stamping the metrics and feeding the      *)
(* series are three steps; time passes between any two: nvidia-smi and, on *)
(* extended cycles, the whole script run after the counters are read and   *)
(* before the stamp.                                                       *)
(*                                                                         *)
(* Abstracted: the byte and sector counters to one that counts the ticks   *)
(* since boot, so that the true rate is one per tick; the other fields.    *)
(***************************************************************************)
EXTENDS Integers

CONSTANTS Horizon,  \* bound on the clock
          NoData    \* None of the code

ASSUME VelocityAssumption == Horizon \in Nat \ {0} /\ NoData \notin Nat

VARIABLES
  clock, boot,  \* the time, and when the counters last began at 0
  step,         \* where the cycle stands
  counters,     \* what sample() returned: the count, whether disks were in it
  old, new,     \* the TimeSequences of NetworkTimeSeries, as one
  disk,         \* diskio, its timestamp and the rate, of current_metrics
  lag           \* history: how long before its stamp each sample was taken

velocityVars == <<clock, boot, step, counters, old, new, disk, lag>>

Time == 0..Horizon

VelocityInit ==
  /\ clock = 0 /\ boot = 0 /\ step = "asleep"
  /\ counters = NoData /\ old = NoData /\ new = NoData /\ disk = NoData
  /\ lag = [old |-> 0, new |-> 0, taken |-> 0]

\* sbm_native::sample; a read that fails leaves its list empty.
Sample ==
  /\ step = "asleep" /\ step' = "sampled"
  /\ \E disks \in BOOLEAN : counters' = [count |-> clock - boot, disks |-> disks]
  /\ lag' = [lag EXCEPT !.taken = clock]
  /\ UNCHANGED <<clock, boot, old, new, disk>>

CycleLost ==  \* the script failed
  /\ step = "sampled" /\ step' = "asleep" /\ counters' = NoData
  /\ lag' = [lag EXCEPT !.taken = 0]
  /\ UNCHANGED <<clock, boot, old, new, disk>>

\* MUTANT (compute_diskio_rate): a plain subtraction.
PlainRate(count) ==
  IF disk = NoData \/ count = NoData \/ clock <= disk.at \/ disk.count = NoData
  THEN NoData
  ELSE [gained |-> count - disk.count, over |-> clock - disk.at]

\* carry_forward of diskio, then its rate over the time since the timestamp of
\* the metrics before; a counter that went backwards gains nothing.
compute_diskio_rate(count) ==
  IF disk = NoData \/ count = NoData \/ clock <= disk.at \/ disk.count = NoData
  THEN NoData
  ELSE [gained |-> IF count > disk.count THEN count - disk.count ELSE 0,
        over   |-> clock - disk.at]

Diskio ==
  IF counters.disks THEN counters.count
  ELSE IF disk = NoData THEN NoData ELSE disk.count

\* adapt_status stamps the metrics with the time it runs at; update_server_metrics
\* feeds the series with that stamp.
Update ==
  /\ step = "sampled" /\ step' = "asleep" /\ counters' = NoData
  /\ old' = new
  /\ new' = [at |-> clock, count |-> counters.count]
  /\ disk' = [at |-> clock, count |-> Diskio, rate |-> compute_diskio_rate(Diskio)]
  /\ lag' = [old |-> lag.new, new |-> clock - lag.taken, taken |-> 0]
  /\ UNCHANGED <<clock, boot>>

ScriptTakes ==
  /\ clock < Horizon /\ clock' = clock + 1
  /\ UNCHANGED <<boot, step, counters, old, new, disk, lag>>

Restarted ==  \* the host rebooted its counters: an interface came back
  /\ boot' = clock
  /\ UNCHANGED <<clock, step, counters, old, new, disk, lag>>

VelocityNext == Sample \/ CycleLost \/ Update \/ ScriptTakes \/ Restarted
VelocitySpec == VelocityInit /\ [][VelocityNext]_velocityVars

-----------------------------------------------------------------------------
\* MUTANT (elapsed_seconds): the configured interval, one tick here.
TheInterval == 1

elapsed_seconds == new.at - old.at

\* NetworkTimeSeries::speed, as what was gained over how long.
speed ==
  IF old = NoData \/ new = NoData THEN NoData
  ELSE IF elapsed_seconds <= 0 \/ new.count < old.count THEN NoData
  ELSE [gained |-> new.count - old.count, over |-> elapsed_seconds]

\* Every variable has its type.
VelocityTypeOK ==
  /\ clock \in Time /\ boot \in 0..clock /\ step \in {"asleep", "sampled"}
  /\ counters \in {NoData} \cup [count: Time, disks: BOOLEAN]
  /\ {old, new} \subseteq {NoData} \cup [at: Time, count: Time]
  /\ disk \in {NoData} \cup
       [at: Time, count: Time \cup {NoData},
        rate: {NoData} \cup [gained: Time, over: Time]]
  /\ lag \in [old: Time, new: Time, taken: Time]

\* A speed is right but for the time the older sample waited for its stamp,
\* however many cycles were lost in between and however the counters reset.
SpeedWithinScriptTime ==
  speed # NoData => speed.gained <= speed.over + lag.old

\* "the sampling instant of the cycle these values came from" (velocity.rs:159,
\* of the timestamp): then no speed is above what the host counted.
SpeedIsReal == speed # NoData => speed.gained <= speed.over
=============================================================================
