---------------------------- MODULE MonitoringProofs ----------------------------
(***************************************************************************)
(* Proofs about the monitor behind the doors, for every value of its       *)
(* constants: what the collection loop shows and measures from, how fast   *)
(* a rate can be, how many sends a quota lets through, and what a process  *)
(* that is killed at its start leaves behind.  At the end these, what      *)
(* RetentionProofs shows of the database and its charts, and what          *)
(* StatusProofs shows of a status, are theorems of MCMonitoring's          *)
(* specification of them all.                                              *)
(***************************************************************************)
EXTENDS MCMonitoring, StatusProofs

-----------------------------------------------------------------------------
(* The collection loop.                                                    *)

\* Of six names one is free while five are held.
LEMMA SixNames ==
  ASSUME NEW a, NEW b, NEW c, NEW d, NEW e
  PROVE  \E i \in SampleName : i \notin {a, b, c, d, e}
  BY DEF SampleName

\* What the metrics m of a cycle, or none at all, show of the script's work.
Shows(m) == IF m = None THEN ran = {} /\ read = None
                        ELSE m.cmds = ran /\ m.smart = read

\* Where the metrics of the last cycle that came to an end are.
LoopInv ==
  /\ CASE phase \in {"asleep", "collecting"} -> Shows(current)
       [] phase \in {"feeding", "publishing"} -> metrics # None /\ Shows(metrics)
  /\ CASE phase \in {"asleep", "collecting"} ->
            current # None => prevCpu = current.core /\ newest = current.id
       [] phase = "feeding" -> prevCpu = metrics.core
       [] phase = "publishing" -> prevCpu = metrics.core /\ newest = metrics.id
  /\ phase = "collecting" => taken \in [id: SampleName, cpu: BOOLEAN]

LoopTypes ==
  /\ live \in [every: Every, pause: BOOLEAN] /\ away \in 0..IdleAfter
  /\ installed \subseteq Command /\ ran \subseteq Command
  /\ phase \in {"asleep", "collecting", "feeding", "publishing"}
  /\ prevCpu \in MaybeSample /\ newest \in MaybeSample /\ read \in MaybeSample
  /\ current \in Metrics \cup {None} /\ metrics \in Metrics \cup {None}

\* What a variable of the loop is that the rest does not look into.
LoopRest ==
  /\ extended \in BOOLEAN
  /\ taken \in {None} \cup [id: SampleName, cpu: BOOLEAN]

\* At start nothing has been shown or run.
LEMMA LoopInit == MonitorInit => LoopTypes /\ LoopInv /\ LoopRest
<1> SUFFICES ASSUME MonitorInit PROVE LoopTypes /\ LoopInv /\ LoopRest
  OBVIOUS
<1>1. 0 \in 0..IdleAfter /\ None \in MaybeSample
  BY MonitoringAssumption DEF MaybeSample
<1>2. LoopTypes
  BY <1>1, Zenon DEF MonitorInit, LoopTypes
<1>3. LoopInv
  BY DEF MonitorInit, LoopInv, Shows
<1>4. LoopRest
  BY Zenon DEF MonitorInit, LoopRest
<1> QED BY <1>2, <1>3, <1>4

\* The sample of a cycle has a free name.
LEMMA FreshName == LoopTypes => Fresh \in SampleName
<1> SUFFICES ASSUME LoopTypes PROVE Fresh \in SampleName
  OBVIOUS
<1> DEFINE five == {prevCpu, newest, read}
              \cup (IF current = None THEN {} ELSE {current.id, current.smart})
<1>1. \E i \in SampleName : i \notin five
  <2>1. \E i \in SampleName : i \notin {prevCpu, newest, read, read, read}
    BY SixNames
  <2>2. \E i \in SampleName : i \notin {prevCpu, newest, read, current.id, current.smart}
    BY SixNames
  <2> QED BY <2>1, <2>2
<1>2. Fresh = CHOOSE i \in SampleName : i \notin five
  BY DEF Fresh
<1> HIDE DEF five
<1> QED
  BY <1>1, <1>2

\* Fresh lists are what was read, else what was shown of them.
LEMMA CarriedOver ==
  ASSUME NEW smart \in MaybeSample, Shows(current)
  PROVE  carry_forward(smart, Prev("smart")) = carry_forward(smart, read)
  BY DEF carry_forward, Prev, Shows

\* No step of the loop breaks its invariant.
LEMMA LoopStep == LoopTypes /\ LoopInv /\ LoopRest /\ [MonitorNext]_monitorVars
                    => LoopTypes' /\ LoopInv' /\ LoopRest'
<1> SUFFICES ASSUME LoopTypes, LoopInv, LoopRest, [MonitorNext]_monitorVars
             PROVE  LoopTypes' /\ LoopInv' /\ LoopRest'
  OBVIOUS
<1> USE MonitoringAssumption
<1>1. CASE Begin
  <2>1. PICK cpu \in BOOLEAN : taken' = [id |-> Fresh, cpu |-> cpu]
    BY <1>1 DEF Begin
  <2>2. taken' \in [id: SampleName, cpu: BOOLEAN]
    BY <2>1, FreshName
  <2>3. /\ phase = "asleep" /\ phase' = "collecting"
        /\ UNCHANGED <<live, away, installed, metrics, prevCpu, newest, current, ran, read>>
    BY <1>1 DEF Begin, settingsVars
  <2>4. extended' \in BOOLEAN
    BY <1>1, Zenon DEF Begin, should_run_extended, is_extended_cycle
  <2>5. LoopTypes'
    BY <2>3 DEF LoopTypes
  <2>6. LoopInv'
    BY <2>2, <2>3 DEF LoopInv, Shows
  <2> QED BY <2>2, <2>4, <2>5, <2>6 DEF LoopRest
<1>2. CASE ScriptFails
  <2>1. LoopTypes'
    BY <1>2 DEF ScriptFails, LoopTypes, settingsVars
  <2>2. LoopInv'
    BY <1>2 DEF ScriptFails, LoopInv, Shows, settingsVars
  <2>3. LoopRest'
    BY <1>2 DEF ScriptFails, LoopRest
  <2> QED BY <2>1, <2>2, <2>3
<1>3. CASE Collect
  <2>1. PICK smart \in IF extended THEN {None, taken.id} ELSE {None},
             said \in IF extended THEN SUBSET installed ELSE {{}} :
               /\ metrics' = adapt_status(smart, said)
               /\ ran' = IF extended THEN said ELSE ran
               /\ read' = carry_forward(smart, read)
    BY <1>3, Zenon DEF Collect
  <2>2. /\ phase = "collecting" /\ phase' = "feeding" /\ taken' = None
        /\ prevCpu' = CpuTaken /\ extended' = FALSE
        /\ UNCHANGED <<live, away, installed, newest, current>>
    BY <1>3 DEF Collect, settingsVars, Baseline
  <2>3. taken.id \in SampleName /\ CpuTaken \in MaybeSample /\ smart \in MaybeSample
    BY <2>1, <2>2 DEF LoopInv, CpuTaken, MaybeSample
  <2>4. carry_forward(smart, Prev("smart")) = read'
    BY <2>1, <2>2, <2>3, CarriedOver DEF LoopInv
  <2>5. read' \in MaybeSample
    BY <2>1, <2>3 DEF carry_forward, LoopTypes
  <2>6. Commands(said) = ran' /\ ran' \subseteq Command
    <3>1. CASE extended
      BY <2>1, <3>1, Zenon DEF Commands, LoopTypes
    <3>2. CASE ~extended
      <4>1. Commands(said) = (IF current = None THEN {} ELSE current.cmds)
        BY <3>2, Zenon DEF Commands
      <4>2. ran' = ran
        BY <2>1, <3>2, Zenon
      <4> QED BY <2>2, <4>1, <4>2 DEF LoopInv, Shows, LoopTypes
    <3> QED BY <3>1, <3>2
  <2>7. metrics' = [id |-> taken.id, core |-> CpuTaken, smart |-> read', cmds |-> ran']
    BY <2>1, <2>4, <2>6 DEF adapt_status
  <2>8. metrics' \in Metrics
    BY <2>3, <2>5, <2>6, <2>7 DEF Metrics
  <2>9. LoopTypes'
    BY <2>2, <2>3, <2>5, <2>6, <2>8 DEF LoopTypes
  <2>10. LoopInv'
    BY <2>2, <2>7, <2>8 DEF LoopInv, Shows
  <2> QED BY <2>2, <2>9, <2>10 DEF LoopRest
<1>4. CASE Feed
  <2>1. LoopTypes'
    <3>1. newest' \in MaybeSample
      BY <1>4 DEF Feed, LoopInv, LoopTypes, Metrics, MaybeSample
    <3> QED BY <1>4, <3>1 DEF Feed, LoopTypes, settingsVars
  <2>2. LoopInv'
    BY <1>4 DEF Feed, LoopInv, Shows, settingsVars
  <2>3. LoopRest'
    BY <1>4 DEF Feed, LoopRest
  <2> QED BY <2>1, <2>2, <2>3
<1>5. CASE Publish
  <2>1. LoopTypes'
    BY <1>5 DEF Publish, LoopTypes, settingsVars
  <2>2. LoopInv'
    BY <1>5 DEF Publish, LoopInv, Shows, settingsVars
  <2>3. LoopRest'
    BY <1>5 DEF Publish, LoopRest
  <2> QED BY <2>1, <2>2, <2>3
<1>6. CASE Poll \/ Elapse \/ SaveSettings \/ ReplaceCommands \/ UNCHANGED monitorVars
  <2>1. /\ UNCHANGED <<phase, metrics, prevCpu, newest, current, ran, read>>
        /\ UNCHANGED <<taken, extended>>
    BY <1>6 DEF Poll, Elapse, SaveSettings, ReplaceCommands, loopVars, monitorVars
  <2>2. /\ live' \in [every: Every, pause: BOOLEAN] /\ away' \in 0..IdleAfter
        /\ installed' \subseteq Command
    BY <1>6 DEF Poll, Elapse, SaveSettings, ReplaceCommands, monitorVars, settingsVars, LoopTypes,
                Idle
  <2>3. LoopTypes'
    BY <2>1, <2>2 DEF LoopTypes
  <2>4. LoopInv'
    BY <2>1 DEF LoopInv, Shows
  <2>5. LoopRest'
    BY <2>1, Zenon DEF LoopRest
  <2> QED BY <2>3, <2>4, <2>5
<1> QED
  BY <1>1, <1>2, <1>3, <1>4, <1>5, <1>6 DEF MonitorNext

-----------------------------------------------------------------------------
(* The schedule of the script.                                             *)

\* How far the counter is past the last cycle that was due, which is further
\* than the script has been missing.
Past(c, g, s) == \E q \in Int, r \in 1..s : c = q * s + r /\ g < r

Schedule ==
  /\ cycle \in 0..Span - 1 /\ gap \in Nat
  /\ Past(cycle, gap, Stride(live.every))

StrideType == \A e \in Every : Stride(e) \in Nat \ {0}

\* The stride is a positive number of cycles and divides the span.
LEMMA Strides ==
  ASSUME NEW e \in Every
  PROVE  Stride(e) \in Nat \ {0} /\ \E m \in Int : Span = m * Stride(e)
<1>1. Stride(e) \in Nat \ {0} /\ Span % Stride(e) = 0 /\ Span \in Nat
  BY MonitoringAssumption DEF Stride
<1>2. ASSUME NEW n \in Int, NEW s \in Nat \ {0}, n % s = 0
      PROVE  \E m \in Int : n = m * s
  BY <1>2
<1>3. Span \in Int
  BY <1>1
<1>4. \E m \in Int : Span = m * Stride(e)
  BY <1>1, <1>2, <1>3, Zenon
<1> QED
  BY <1>1, <1>4

\* A cycle that is past the last due one by less than a stride is not due.
LEMMA NotDue ==
  ASSUME NEW s \in Nat \ {0}, NEW q \in Int, NEW r \in 1..s, (q * s + r) % s # 0
  PROVE  r < s
<1> SUFFICES ASSUME r = s PROVE (q * s + r) % s = 0
  OBVIOUS
<1>1. q * s + r = (q + 1) * s + 0
  OBVIOUS
<1>2. \A n \in Int : (n * s + 0) % s = 0
  OBVIOUS
<1> QED
  BY <1>1, <1>2

\* Any counter is past some due one.
LEMMA SomewherePast ==
  ASSUME NEW c \in Int, NEW s \in Nat \ {0} PROVE Past(c, 0, s)
<1>1. ASSUME NEW n \in Int
      PROVE  n \div s \in Int /\ n % s \in 0..s - 1 /\ n = s * (n \div s) + (n % s)
  BY <1>1
<1>0. c - 1 \in Int
  OBVIOUS
<1>2. PICK q \in Int, k \in 0..s - 1 : c - 1 = s * q + k
  BY <1>0, <1>1, Zenon
<1>3. c = q * s + (k + 1) /\ k + 1 \in 1..s /\ 0 < k + 1
  BY <1>2
<1> QED
  BY <1>3 DEF Past

\* Taking the counter modulo the span loses nothing.
LEMMA PastModulo ==
  ASSUME NEW s \in Nat \ {0}, NEW m \in Int, Span = m * s, NEW c \in 0..Span - 1, NEW g \in Nat,
         Past(c + 1, g, s)
  PROVE  (c + 1) % Span \in 0..Span - 1 /\ Past((c + 1) % Span, g, s)
<1>0. Span \in Nat \ {0}
  BY MonitoringAssumption
<1>1. CASE c + 1 < Span
  <2>1. (c + 1) % Span = c + 1
    BY <1>0, <1>1
  <2> QED BY <1>0, <1>1, <2>1
<1>2. CASE c + 1 = Span
  <2>1. (c + 1) % Span = 0
    BY <1>0, <1>2
  <2>2. PICK q \in Int, r \in 1..s : c + 1 = q * s + r /\ g < r
    BY DEF Past
  <2>3. 0 = (q - m) * s + r
    BY <1>2, <2>2
  <2>4. q - m \in Int
    OBVIOUS
  <2>5. Past(0, g, s)
    BY <2>2, <2>3, <2>4 DEF Past
  <2> QED BY <1>0, <2>1, <2>5
<1> QED
  BY <1>0, <1>1, <1>2

\* At start the first cycle is due.
LEMMA ScheduleInit == MonitorInit => Schedule
<1> SUFFICES ASSUME MonitorInit PROVE Schedule
  OBVIOUS
<1>1. cycle = 0 /\ gap = 0 /\ live.every \in Every /\ Span \in Nat \ {0}
  BY MonitoringAssumption DEF MonitorInit
<1> QED
  BY <1>1, Strides, SomewherePast DEF Schedule

\* Only a cycle that is not due adds to the gap.
LEMMA ScheduleStep == LoopTypes /\ Schedule /\ [MonitorNext]_monitorVars => Schedule'
<1> SUFFICES ASSUME LoopTypes, Schedule, [MonitorNext]_monitorVars PROVE Schedule'
  OBVIOUS
<1>0. live.every \in Every /\ live'.every \in Every
  BY DEF LoopTypes, MonitorNext, Begin, ScriptFails, Collect, Feed, Publish, Poll, Elapse,
         SaveSettings, ReplaceCommands, monitorVars, settingsVars
<1>1. CASE Begin
  <2> DEFINE s == Stride(live.every)
  <2>1. /\ cycle' = (cycle + 1) % Span /\ live' = live
        /\ gap' = 0 \/ (gap' = gap + 1 /\ cycle % s # 0)
    <3>1. CASE extended' \/ (live.pause /\ Idle)
      BY <1>1, <3>1, Zenon DEF Begin, settingsVars
    <3>2. CASE ~(extended' \/ (live.pause /\ Idle))
      <4>1. ~is_extended_cycle(cycle, live.every)
        BY <1>1, <3>2, Zenon DEF Begin, should_run_extended
      <4> QED BY <1>1, <3>2, <4>1, Zenon DEF Begin, settingsVars, is_extended_cycle
    <3> QED BY <3>1, <3>2
  <2>2. PICK m \in Int : s \in Nat \ {0} /\ Span = m * s
    BY <1>0, Strides
  <2>3. gap' \in Nat /\ cycle \in 0..Span - 1 /\ Span \in Nat
    BY <2>1, MonitoringAssumption DEF Schedule
  <2>4. Past(cycle + 1, gap', s)
    <3>1. CASE gap' = 0
      BY <2>2, <2>3, <3>1, SomewherePast
    <3>2. CASE gap' = gap + 1 /\ cycle % s # 0
      <4>1. PICK q \in Int, r \in 1..s : cycle = q * s + r /\ gap < r
        BY DEF Schedule, Past
      <4>2. r < s
        BY <2>2, <3>2, <4>1, NotDue
      <4>3. cycle + 1 = q * s + (r + 1) /\ gap' < r + 1 /\ r + 1 \in 1..s
        BY <2>2, <2>3, <3>2, <4>1, <4>2 DEF Schedule
      <4> HIDE DEF s
      <4> QED BY <4>1, <4>3 DEF Past
    <3> QED BY <2>1, <3>1, <3>2
  <2> HIDE DEF s
  <2>5. cycle' \in 0..Span - 1 /\ Past(cycle', gap', s)
    BY <2>1, <2>2, <2>3, <2>4, PastModulo
  <2> QED BY <2>1, <2>3, <2>5 DEF Schedule, s
<1>2. CASE SaveSettings
  <2>1. gap' = 0 /\ cycle' = cycle /\ cycle \in 0..Span - 1 /\ Span \in Nat
    BY <1>2, MonitoringAssumption DEF SaveSettings, loopVars, Schedule
  <2> QED BY <1>0, <2>1, Strides, SomewherePast DEF Schedule
<1>3. CASE ~Begin /\ ~SaveSettings
  <2>1. UNCHANGED <<live, cycle, gap>>
    BY <1>3 DEF MonitorNext, ScriptFails, Collect, Feed, Publish, Poll, Elapse, ReplaceCommands,
                monitorVars, settingsVars, loopVars
  <2> QED BY <2>1 DEF Schedule
<1> QED
  BY <1>1, <1>2, <1>3

\* What is shown of the script is its last run, usage is measured from what was
\* shown, and the script keeps its schedule (run_monitoring_loop and
\* collect_metrics), whatever cycles fail and settings change in between.
THEOREM LoopTheorem == MonitorSpec => [](ShowsLastRun /\ BaselinesAgree /\ ExtendedOnSchedule)
<1>1. LoopTypes /\ LoopInv => ShowsLastRun /\ BaselinesAgree
  BY DEF LoopTypes, LoopInv, Shows, ShowsLastRun, BaselinesAgree, AtRest
<1>2. LoopTypes /\ Schedule => ExtendedOnSchedule
  <2> SUFFICES ASSUME LoopTypes, Schedule PROVE gap < Stride(live.every)
    BY DEF ExtendedOnSchedule
  <2>1. Stride(live.every) \in Nat
    BY Strides DEF LoopTypes
  <2> QED BY <2>1 DEF Schedule, Past
<1> QED
  BY <1>1, <1>2, LoopInit, LoopStep, ScheduleInit, ScheduleStep, PTL DEF MonitorSpec

\* Every variable of the loop has its type.
THEOREM LoopTypesTheorem == MonitorSpec => []MonitorTypeOK
<1>1. LoopTypes /\ LoopRest /\ Schedule => MonitorTypeOK
  BY Zenon DEF LoopTypes, LoopRest, Schedule, MonitorTypeOK
<1> QED
  BY <1>1, LoopInit, LoopStep, ScheduleInit, ScheduleStep, PTL DEF MonitorSpec

-----------------------------------------------------------------------------
(* The rates.                                                              *)

Stamp == [at: Time, count: Time]
Rate == [gained: Time, over: Time]

VelocityTypes ==
  /\ clock \in Time /\ boot \in 0..clock /\ step \in {"asleep", "sampled"}
  /\ lag.old \in Time /\ lag.new \in Time /\ lag.taken \in Time
  /\ lag.old <= clock /\ lag.new <= clock /\ lag.taken <= clock
  /\ lag = [old |-> lag.old, new |-> lag.new, taken |-> lag.taken]
  /\ old \in Stamp \cup {NoData} /\ new \in Stamp \cup {NoData}

CounterTypes ==
  /\ step = "sampled" => counters \in [count: Time, disks: BOOLEAN]
  /\ step = "asleep" => counters = NoData

DiskType ==
  disk \in {NoData} \cup [at: Time, count: Time \cup {NoData}, rate: {NoData} \cup Rate]

\* When the counters a stamp was made of had begun at 0: never before those of
\* the stamp before it.
OldBegan == old.at - lag.old - old.count
NewBegan == new.at - lag.new - new.count
Began == lag.taken - counters.count

Beginnings ==
  /\ step = "sampled" => Began \in 0..boot
  /\ new # NoData => NewBegan \in 0..boot /\ new.at <= clock
  /\ new # NoData /\ step = "sampled" => NewBegan <= Began
  /\ old # NoData /\ new # NoData => OldBegan <= NewBegan

VelocityInv == VelocityTypes /\ CounterTypes /\ DiskType /\ Beginnings

\* At start nothing has been sampled.
LEMMA VelocityInvInit == VelocityInit => VelocityInv
<1> SUFFICES ASSUME VelocityInit PROVE VelocityInv
  OBVIOUS
<1>1. VelocityTypes
  BY VelocityAssumption DEF VelocityInit, VelocityTypes, Time
<1>2. CounterTypes /\ DiskType /\ Beginnings
  BY DEF VelocityInit, CounterTypes, DiskType, Beginnings
<1> QED
  BY <1>1, <1>2 DEF VelocityInv

\* A rate is made of two counts and two times.
LEMMA DiskioType ==
  ASSUME VelocityInv, step = "sampled"
  PROVE  Diskio \in Time \cup {NoData} /\ compute_diskio_rate(Diskio) \in Rate \cup {NoData}
<1>1. Diskio \in Time \cup {NoData}
  BY Zenon DEF VelocityInv, CounterTypes, DiskType, Diskio
<1>2. ASSUME NEW c \in Time \cup {NoData}
      PROVE  compute_diskio_rate(c) \in Rate \cup {NoData}
  BY <1>2, VelocityAssumption
  DEF VelocityInv, VelocityTypes, DiskType, compute_diskio_rate, Rate, Time
<1> QED
  BY <1>1, <1>2

\* No step breaks the invariant.
LEMMA VelocityInvStep == VelocityInv /\ [VelocityNext]_velocityVars => VelocityInv'
<1> SUFFICES ASSUME VelocityInv, [VelocityNext]_velocityVars PROVE VelocityInv'
  OBVIOUS
<1> USE VelocityAssumption DEF Time
<1>1. CASE Sample
  <2>1. PICK withDisks \in BOOLEAN : counters' = [count |-> clock - boot, disks |-> withDisks]
    BY <1>1 DEF Sample
  <2>2. /\ step = "asleep" /\ step' = "sampled" /\ UNCHANGED <<clock, boot, old, new, disk>>
        /\ lag' = [lag EXCEPT !.taken = clock]
    BY <1>1 DEF Sample
  <2>3. VelocityTypes'
    BY <2>2 DEF VelocityInv, VelocityTypes
  <2>4. /\ counters'.count = clock - boot /\ lag'.taken = clock /\ lag'.old = lag.old
        /\ lag'.new = lag.new
    BY <2>1, <2>2 DEF VelocityInv, VelocityTypes
  <2>5. CounterTypes'
    <3>1. clock - boot \in Time
      BY DEF VelocityInv, VelocityTypes
    <3> QED BY <2>1, <2>2, <3>1, Zenon DEF CounterTypes
  <2>6. Beginnings'
    BY <2>2, <2>4 DEF VelocityInv, VelocityTypes, Beginnings, Began, NewBegan, OldBegan, Stamp
  <2> QED BY <2>2, <2>3, <2>5, <2>6 DEF VelocityInv, DiskType
<1>2. CASE CycleLost
  <2>1. VelocityTypes' /\ CounterTypes' /\ DiskType'
    BY <1>2 DEF CycleLost, VelocityInv, VelocityTypes, CounterTypes, DiskType
  <2>2. Beginnings'
    BY <1>2 DEF CycleLost, VelocityInv, VelocityTypes, Beginnings, NewBegan, OldBegan
  <2> QED BY <2>1, <2>2 DEF VelocityInv
<1>3. CASE Update
  <2> DEFINE c == counters.count
  <2>0. c \in Time
    BY <1>3 DEF Update, VelocityInv, CounterTypes
  <2>1. /\ step = "sampled" /\ step' = "asleep" /\ counters' = NoData
        /\ old' = new /\ new' = [at |-> clock, count |-> c]
        /\ lag' = [old |-> lag.new, new |-> clock - lag.taken, taken |-> 0]
        /\ clock' = clock /\ boot' = boot
    BY <1>3 DEF Update
  <2>2. VelocityTypes'
    BY <2>0, <2>1 DEF VelocityInv, VelocityTypes, Stamp
  <2>3. CounterTypes'
    BY <2>1 DEF CounterTypes
  <2>4. DiskType'
    <3>1. disk' = [at |-> clock, count |-> Diskio, rate |-> compute_diskio_rate(Diskio)]
      BY <1>3 DEF Update
    <3> QED BY <2>1, <3>1, DiskioType DEF DiskType, VelocityInv, VelocityTypes
  <2>5. NewBegan' = lag.taken - c /\ OldBegan' = NewBegan
    BY <2>0, <2>1 DEF VelocityInv, VelocityTypes, NewBegan, OldBegan
  <2>6. Beginnings'
    BY <2>0, <2>1, <2>5 DEF VelocityInv, VelocityTypes, Beginnings, Began
  <2> QED BY <2>2, <2>3, <2>4, <2>6 DEF VelocityInv
<1>4. CASE ScriptTakes \/ Restarted \/ UNCHANGED velocityVars
  <2>1. /\ UNCHANGED <<step, counters, old, new, disk, lag>>
        /\ clock' \in Time /\ boot' \in 0..clock' /\ clock <= clock' /\ boot <= boot'
    BY <1>4 DEF ScriptTakes, Restarted, velocityVars, VelocityInv, VelocityTypes
  <2>2. VelocityTypes'
    BY <2>1 DEF VelocityInv, VelocityTypes
  <2>3. CounterTypes' /\ DiskType'
    BY <2>1, Zenon DEF VelocityInv, CounterTypes, DiskType
  <2>4. Beginnings'
    <3>1. Began' = Began /\ NewBegan' = NewBegan /\ OldBegan' = OldBegan
      BY <2>1 DEF Began, NewBegan, OldBegan
    <3>2. \A b : b \in 0..boot => b \in 0..boot'
      BY <2>1 DEF VelocityInv, VelocityTypes
    <3>3. new # NoData => new.at <= clock'
      BY <2>1 DEF VelocityInv, VelocityTypes, Beginnings, Stamp
    <3> QED BY <2>1, <3>1, <3>2, <3>3, Zenon DEF VelocityInv, Beginnings
  <2> QED BY <2>2, <2>3, <2>4 DEF VelocityInv
<1> QED
  BY <1>1, <1>2, <1>3, <1>4 DEF VelocityNext

\* A speed is off by no more than the time the older sample waited for its
\* stamp (adapt_status stamps the metrics with the time it runs at).
THEOREM SpeedTheorem == VelocitySpec => []SpeedWithinScriptTime
<1>1. VelocityInv => SpeedWithinScriptTime
  <2> SUFFICES ASSUME VelocityInv, speed # NoData
               PROVE  speed.gained <= speed.over + lag.old
    BY DEF SpeedWithinScriptTime
  <2>1. /\ old # NoData /\ new # NoData
        /\ speed.gained = new.count - old.count /\ speed.over = new.at - old.at
    BY DEF speed, elapsed_seconds
  <2> QED BY <2>1 DEF VelocityInv, VelocityTypes, Beginnings, NewBegan, OldBegan, Stamp, Time
<1> QED
  BY <1>1, VelocityInvInit, VelocityInvStep, PTL DEF VelocitySpec

\* Every variable of the series has its type.
THEOREM VelocityTypesTheorem == VelocitySpec => []VelocityTypeOK
<1>1. VelocityInv => VelocityTypeOK
  <2> SUFFICES ASSUME VelocityInv PROVE VelocityTypeOK
    OBVIOUS
  <2>1. counters \in {NoData} \cup [count: Time, disks: BOOLEAN]
    BY Zenon DEF VelocityInv, VelocityTypes, CounterTypes
  <2>2. lag \in [old: Time, new: Time, taken: Time]
    BY DEF VelocityInv, VelocityTypes
  <2> QED
    BY <2>1, <2>2, Zenon DEF VelocityInv, VelocityTypes, DiskType, VelocityTypeOK, Stamp, Rate
<1> QED
  BY <1>1, VelocityInvInit, VelocityInvStep, PTL DEF VelocitySpec

-----------------------------------------------------------------------------
(* The quota of a push name.                                               *)

\* p is s without its first k.
Suffix_(p, s, k) ==
  /\ p \in Seq(Age) /\ k \in 0..Len(s) /\ Len(p) = Len(s) - k
  /\ \A i \in 1..Len(p) : p[i] = s[k + i]

\* What popping leaves is the queue from the first young one on.
LEMMA Popped ==
  ASSUME NEW s \in Seq(Age), NEW age \in Nat
  PROVE  \E k \in 0..Len(s) : /\ Suffix_(PopFront(s, age), s, k)
                              /\ \A i \in 1..k : s[i] >= age
                              /\ k < Len(s) => s[k + 1] < age
<1> DEFINE Young == {i \in 1..Len(s) : s[i] < age}
           Stop(k) == (\A i \in 1..k : s[i] >= age) /\ (k < Len(s) => s[k + 1] < age)
<1>0. Len(s) \in Nat /\ (\A i \in 1..Len(s) : s[i] \in Nat)
  BY QuotaAssumption DEF Age
<1>1. \E k \in 0..Len(s) : Stop(k)
  <2>1. CASE Young = {}
    <3>1. Stop(Len(s))
      BY <1>0, <2>1
    <3> QED BY <1>0, <3>1
  <2>2. CASE Young # {}
    <3>1. PICK x \in Young : \A y \in Young : x <= y
      <4>1. Young \subseteq Nat
        BY <1>0
      <4> HIDE DEF Young
      <4> QED BY <2>2, <4>1, LeastOf, Zenon
    <3>2. x \in 1..Len(s) /\ s[x] < age
      BY <3>1
    <3>3. \A i \in 1..(x - 1) : s[i] >= age
      <4> SUFFICES ASSUME NEW i \in 1..(x - 1), s[i] < age PROVE FALSE
        BY <1>0, <3>2
      <4>1. i \in Young /\ i < x
        BY <1>0, <3>2
      <4> QED BY <1>0, <3>1, <3>2, <4>1
    <3>4. x - 1 \in 0..Len(s) /\ x - 1 + 1 = x
      BY <1>0, <3>2
    <3>5. Stop(x - 1)
      BY <3>2, <3>3, <3>4
    <3> QED BY <3>4, <3>5
  <2> QED BY <2>1, <2>2
<1> DEFINE k == CHOOSE i \in 0..Len(s) : Stop(i)
<1>2. k \in 0..Len(s) /\ Stop(k)
  BY <1>1
<1>3. PopFront(s, age) = SubSeq(s, k + 1, Len(s))
  BY DEF PopFront
<1> HIDE DEF k
<1>4. Suffix_(PopFront(s, age), s, k)
  BY <1>0, <1>2, <1>3 DEF Suffix_
<1> QED
  BY <1>2, <1>4

\* The older come first.
InOrder(s) == \A i, j \in DOMAIN s : i <= j => s[j] <= s[i]

\* Every send that was accepted has a charge of its own among the last ones,
\* that is younger than its start and within the window.
Covers(rec, acc) ==
  /\ Len(acc) <= Len(rec)
  /\ \A i \in 1..Len(acc) : LET j == Len(rec) - Len(acc) + i
                            IN  rec[j] <= acc[i] /\ rec[j] <= Window

\* A part from the end is in order.
LEMMA SuffixInOrder ==
  ASSUME NEW s \in Seq(Age), NEW p, NEW k, Suffix_(p, s, k), InOrder(s)
  PROVE  InOrder(p)
<1>1. \A i, j \in 1..Len(p) : i <= j => s[k + j] <= s[k + i]
  <2> SUFFICES ASSUME NEW i \in 1..Len(p), NEW j \in 1..Len(p), i <= j PROVE s[k + j] <= s[k + i]
    OBVIOUS
  <2>1. k + i \in 1..Len(s) /\ k + j \in 1..Len(s) /\ k + i <= k + j
    BY DEF Suffix_
  <2> QED BY <2>1 DEF InOrder
<1> QED
  BY <1>1 DEF Suffix_, InOrder

\* Pruning pops no charge that covers a send.
LEMMA PruneCovers ==
  ASSUME NEW rec \in Seq(Age), NEW acc \in Seq(Age), Covers(rec, acc), Window \in Nat
  PROVE  Pruned(rec) \in Seq(Age) /\ Covers(Pruned(rec), acc)
<1>1. PICK k \in 0..Len(rec) : /\ Suffix_(Pruned(rec), rec, k)
                               /\ \A i \in 1..k : rec[i] >= Window + 1
  <2>1. Window + 1 \in Nat
    OBVIOUS
  <2> QED BY <2>1, Popped, Zenon DEF Pruned
<1> DEFINE p == Pruned(rec)  n == Len(rec)  m == Len(acc)
<1>2. n \in Nat /\ m \in Nat /\ m <= n /\ Len(p) = n - k /\ p \in Seq(Age)
  BY <1>1 DEF Suffix_, Covers
<1>3. m <= n - k
  <2> SUFFICES ASSUME m > n - k PROVE FALSE
    BY <1>2
  <2>1. k - n + m \in 1..m /\ n - m + (k - n + m) = k /\ k \in 1..k
    BY <1>2
  <2>2. rec[k] <= Window
    BY <2>1 DEF Covers
  <2>3. rec[k] \in Nat
    BY <1>2, <2>1 DEF Age
  <2> QED BY <1>1, <2>1, <2>2, <2>3
<1>4. ASSUME NEW i \in 1..m PROVE p[n - k - m + i] <= acc[i] /\ p[n - k - m + i] <= Window
  <2>1. n - k - m + i \in 1..(n - k) /\ k + (n - k - m + i) = n - m + i
    BY <1>2, <1>3
  <2>2. p[n - k - m + i] = rec[n - m + i]
    BY <1>1, <1>2, <2>1 DEF Suffix_
  <2> QED BY <2>2 DEF Covers
<1> HIDE DEF p
<1>5. Covers(p, acc)
  BY <1>2, <1>3, <1>4 DEF Covers
<1> QED
  BY <1>2, <1>5 DEF p

\* Of the sends that are covered, the later ones are.
LEMMA CoversSuffix ==
  ASSUME NEW rec \in Seq(Age), NEW acc \in Seq(Age), NEW p, NEW k, Suffix_(p, acc, k),
         Covers(rec, acc)
  PROVE  Covers(rec, p)
<1> DEFINE n == Len(rec)  m == Len(acc)
<1>1. n \in Nat /\ m \in Nat /\ m <= n /\ k \in 0..m /\ Len(p) = m - k
  BY DEF Suffix_, Covers
<1>2. ASSUME NEW i \in 1..(m - k)
      PROVE  rec[n - (m - k) + i] <= p[i] /\ rec[n - (m - k) + i] <= Window
  <2>1. k + i \in 1..m /\ n - m + (k + i) = n - (m - k) + i
    BY <1>1
  <2>2. p[i] = acc[k + i]
    BY <1>1 DEF Suffix_
  <2> QED BY <2>1, <2>2 DEF Covers
<1> QED
  BY <1>1, <1>2 DEF Covers

\* One more charge: of a send that was accepted, and of one that was not.
LEMMA CoversOneMore ==
  ASSUME NEW rec \in Seq(Age), NEW acc \in Seq(Age), NEW a \in Age, Window \in Nat,
         Covers(rec, acc)
  PROVE  Covers(Append(rec, 0), Append(acc, a))
<1> DEFINE n == Len(rec)  m == Len(acc)  r == Append(rec, 0)  c == Append(acc, a)
<1>1. n \in Nat /\ m \in Nat /\ m <= n /\ Len(r) = n + 1 /\ Len(c) = m + 1
  BY DEF Covers, Age
<1>2. ASSUME NEW i \in 1..(m + 1)
      PROVE  r[n + 1 - (m + 1) + i] <= c[i] /\ r[n + 1 - (m + 1) + i] <= Window
  <2>1. CASE i = m + 1
    <3>1. n + 1 - (m + 1) + i = n + 1
      BY <1>1, <2>1
    <3>2. r[n + 1] = 0 /\ c[m + 1] = a
      BY DEF Age
    <3> QED BY <2>1, <3>1, <3>2 DEF Age
  <2>2. CASE i # m + 1
    <3>1. i \in 1..m /\ n + 1 - (m + 1) + i = n - m + i /\ n - m + i \in 1..n
      BY <1>1, <2>2
    <3>2. r[n - m + i] = rec[n - m + i] /\ c[i] = acc[i]
      BY <3>1 DEF Age
    <3> QED BY <3>1, <3>2 DEF Covers
  <2> QED BY <2>1, <2>2
<1> QED
  BY <1>1, <1>2 DEF Covers

\* A charge for a send that was not accepted changes nothing of what is covered.
LEMMA CoversUncounted ==
  ASSUME NEW rec \in Seq(Age), NEW acc \in Seq(Age), Window \in Nat, Covers(rec, acc),
         InOrder(rec)
  PROVE  Covers(Append(rec, 0), acc)
<1> DEFINE n == Len(rec)  m == Len(acc)  r == Append(rec, 0)
<1>1. n \in Nat /\ m \in Nat /\ m <= n /\ Len(r) = n + 1 /\ r[n + 1] = 0
  BY DEF Covers, Age
<1>2. \A i \in 1..n : r[i] = rec[i] /\ rec[i] \in Nat
  BY DEF Age
<1>3. ASSUME NEW i \in 1..m PROVE r[n + 1 - m + i] <= acc[i] /\ r[n + 1 - m + i] <= Window
  <2>0. acc[i] \in Nat
    BY DEF Age
  <2>1. CASE i = m
    <3>1. n + 1 - m + i = n + 1
      BY <1>1, <2>1
    <3> QED BY <1>1, <2>0, <3>1
  <2>2. CASE i # m
    <3>1. /\ n + 1 - m + i \in 1..n /\ n - m + i \in 1..n /\ n - m + i <= n + 1 - m + i
          /\ n + 1 - m + i \in 1..n
      BY <1>1, <2>2
    <3>2. rec[n + 1 - m + i] <= rec[n - m + i]
      BY <3>1 DEF InOrder
    <3>3. rec[n - m + i] <= acc[i] /\ rec[n - m + i] <= Window
      BY DEF Covers
    <3>4. /\ r[n + 1 - m + i] = rec[n + 1 - m + i] /\ rec[n + 1 - m + i] \in Nat
          /\ rec[n - m + i] \in Nat
      BY <1>2, <3>1
    <3> HIDE DEF n, m, r
    <3>5. \A x, y, z \in Nat : x <= y /\ y <= z => x <= z
      OBVIOUS
    <3>6. rec[n + 1 - m + i] <= acc[i]
      BY <2>0, <3>2, <3>3, <3>4, <3>5, Zenon
    <3>7. rec[n + 1 - m + i] <= Window
      BY <3>2, <3>3, <3>4, <3>5, Zenon
    <3> QED BY <3>4, <3>6, <3>7, Zenon
  <2> QED BY <2>1, <2>2
<1> HIDE DEF r
<1>4. Len(r) - m = n + 1 - m /\ m <= Len(r)
  BY <1>1
<1>5. Covers(r, acc)
  BY <1>3, <1>4, Zenon DEF Covers
<1> QED
  BY <1>5 DEF r

\* A younger one at the end of a queue.
LEMMA AppendInOrder ==
  ASSUME NEW s \in Seq(Age), NEW a \in Age, InOrder(s), \A i \in 1..Len(s) : a <= s[i]
  PROVE  InOrder(Append(s, a)) /\ Append(s, a) \in Seq(Age)
<1>1. /\ Append(s, a) \in Seq(Age) /\ Len(Append(s, a)) = Len(s) + 1
      /\ \A i \in 1..Len(s) : Append(s, a)[i] = s[i]
      /\ Append(s, a)[Len(s) + 1] = a
  OBVIOUS
<1>2. a \in Nat
  BY DEF Age
<1> DEFINE t == Append(s, a)
<1> HIDE DEF t
<1>3. ASSUME NEW i \in 1..(Len(s) + 1), NEW j \in 1..(Len(s) + 1), i <= j PROVE t[j] <= t[i]
  <2>1. CASE j = Len(s) + 1
    BY <1>1, <1>2, <2>1 DEF t
  <2>2. CASE j # Len(s) + 1
    <3>1. i \in 1..Len(s) /\ j \in 1..Len(s)
      BY <1>3, <2>2
    <3> QED BY <1>1, <1>3, <3>1 DEF InOrder, t
  <2> QED BY <2>1, <2>2
<1>4. DOMAIN t = 1..(Len(s) + 1)
  BY <1>1 DEF t
<1>5. InOrder(t)
  BY <1>3, <1>4 DEF InOrder
<1> QED
  BY <1>1, <1>5 DEF t

\* All of them grow older.
LEMMA OlderOf ==
  ASSUME NEW s \in Seq(Age), Window \in Nat
  PROVE  /\ Older(s) \in Seq(Age) /\ Len(Older(s)) = Len(s)
         /\ \A i \in 1..Len(s) : Older(s)[i] = IF s[i] <= Window THEN s[i] + 1 ELSE s[i]
<1>1. \A i \in 1..Len(s) : (IF s[i] <= Window THEN s[i] + 1 ELSE s[i]) \in Age
  BY DEF Age
<1> QED
  BY <1>1 DEF Older

\* Growing older keeps the ages in order.
LEMMA OlderInOrder ==
  ASSUME NEW s \in Seq(Age), Window \in Nat, InOrder(s)
  PROVE  InOrder(Older(s))
<1>1. \A i \in 1..Len(s) : s[i] \in 0..Window + 1
  BY DEF Age
<1> QED
  BY <1>1, OlderOf DEF InOrder

\* As time passes the sends that are still in the window stay covered.
LEMMA AgingCovers ==
  ASSUME NEW rec \in Seq(Age), NEW acc \in Seq(Age), Window \in Nat, Covers(rec, acc),
         InOrder(acc)
  PROVE  LET left == Within(Older(acc))
         IN  /\ left \in Seq(Age) /\ Len(left) <= Len(acc) /\ InOrder(left)
             /\ Covers(Older(rec), left)
             /\ \E k \in Nat : Suffix_(left, Older(acc), k)
<1> DEFINE o == Older(acc)  r == Older(rec)  left == Within(o)
<1>1. /\ o \in Seq(Age) /\ Len(o) = Len(acc) /\ InOrder(o)
      /\ r \in Seq(Age) /\ Len(r) = Len(rec)
  BY OlderOf, OlderInOrder
<1>2. PICK k \in 0..Len(o) : Suffix_(left, o, k) /\ (k < Len(o) => o[k + 1] < Window + 1)
  <2>1. Window + 1 \in Nat /\ Len(o) = Len(o)
    OBVIOUS
  <2> HIDE DEF o
  <2> QED BY <1>1, <2>1, Popped, Zenon DEF Within
<1>3. \A i \in 1..Len(acc) : /\ o[i] = IF acc[i] <= Window THEN acc[i] + 1 ELSE acc[i]
                             /\ acc[i] \in Nat /\ o[i] \in Nat
  BY <1>1, OlderOf DEF Age
<1>4. \A i \in 1..Len(rec) : /\ r[i] = IF rec[i] <= Window THEN rec[i] + 1 ELSE rec[i]
                             /\ rec[i] \in Nat /\ r[i] \in Nat
  BY <1>1, OlderOf DEF Age
<1> HIDE DEF o, r, left
<1>5. left \in Seq(Age) /\ Len(left) = Len(acc) - k /\ InOrder(left)
  BY <1>1, <1>2, SuffixInOrder DEF Suffix_
<1> DEFINE n == Len(rec)  m == Len(acc)
<1>6. n \in Nat /\ m \in Nat /\ m <= n /\ k \in 0..m
  BY <1>1, <1>2 DEF Covers
<1>7. ASSUME NEW i \in 1..(m - k)
      PROVE  r[n - (m - k) + i] <= left[i] /\ r[n - (m - k) + i] <= Window
  <2>1. k + i \in 1..m /\ k + 1 \in 1..m /\ k + 1 <= k + i /\ n - m + (k + i) = n - (m - k) + i
        /\ n - (m - k) + i \in 1..n
    BY <1>6
  <2>2. left[i] = o[k + i]
    BY <1>2, <1>5 DEF Suffix_
  <2>3. o[k + 1] <= Window /\ o[k + i] <= o[k + 1]
    <3>1. o[k + i] <= o[k + 1]
      BY <1>1, <2>1 DEF InOrder
    <3>2. o[k + 1] < Window + 1
      BY <1>1, <1>2, <2>1
    <3> QED BY <1>3, <2>1, <3>1, <3>2
  <2>4. rec[n - (m - k) + i] <= acc[k + i] /\ rec[n - (m - k) + i] <= Window
    BY <2>1 DEF Covers
  <2>5. o[k + i] = acc[k + i] + 1 /\ acc[k + i] + 1 <= Window
    BY <1>3, <2>1, <2>3
  <2>6. r[n - (m - k) + i] = rec[n - (m - k) + i] + 1
    BY <1>4, <2>1, <2>4
  <2> DEFINE x == n - (m - k) + i
  <2>7. r[x] = rec[x] + 1 /\ rec[x] \in Nat
    BY <1>4, <2>1, <2>6
  <2>8. left[i] = acc[k + i] + 1 /\ acc[k + i] \in Nat /\ acc[k + i] + 1 <= Window
    BY <1>3, <2>1, <2>2, <2>5
  <2>9. rec[x] <= acc[k + i]
    BY <2>4
  <2> HIDE DEF x
  <2>10. r[x] <= left[i] /\ r[x] <= Window
    BY <2>7, <2>8, <2>9
  <2> QED BY <2>10 DEF x
<1>8. Covers(r, left)
  BY <1>1, <1>5, <1>6, <1>7 DEF Covers
<1> QED
  BY <1>2, <1>5, <1>6, <1>8 DEF o, r, left

QuotaTypes ==
  /\ records \in [Names -> Seq(Age)] /\ accepted \in [Names -> Seq(Age)]
  /\ rule \in 0..Rules /\ push \in 0..Len(Push) + 1 /\ begun \in Age
  /\ rule = 0 => push = 0

\* The two queues of a name.
Quota(rec, acc) ==
  InOrder(rec) /\ InOrder(acc) /\ Covers(rec, acc) /\ Len(acc) <= Times

\* While a send is under way there is room for it, and it began last.
RoomToSend(acc) == Len(acc) < Times /\ \A i \in 1..Len(acc) : begun <= acc[i]

QuotaInv ==
  /\ QuotaTypes
  /\ \A n \in Names : Quota(records[n], accepted[n])
  /\ sending => push \in DOMAIN Push /\ RoomToSend(accepted[Push[push].name])

\* At start nothing has been sent.
LEMMA QuotaInvInit == QuotaInit => QuotaInv /\ sending \in BOOLEAN
<1> SUFFICES ASSUME QuotaInit PROVE QuotaInv /\ sending = FALSE
  OBVIOUS
<1>1. {Rules, Times, Window} \subseteq Nat /\ Len(Push) \in Nat
  BY QuotaAssumption
<1>2. QuotaTypes
  BY <1>1 DEF QuotaInit, QuotaTypes, Age
<1>3. Quota(<<>>, <<>>)
  BY <1>1 DEF Quota, InOrder, Covers
<1>4. \A n \in Names : Quota(records[n], accepted[n])
  BY <1>3 DEF QuotaInit
<1>5. sending = FALSE
  BY DEF QuotaInit
<1> QED
  BY <1>2, <1>4, <1>5 DEF QuotaInv

\* What is accepted is charged.
LEMMA AcceptedIsCharged ==
  ASSUME NEW entry, Sends(entry) PROVE Charged(entry, "accepted")
  BY DEF Sends, Charged, send_notification, send_webhook_notification,
         send_serverchan_notification, send_bark_notification, send_ios_notification

\* No step breaks the quota.
LEMMA QuotaInvStep == QuotaInv /\ [QuotaNext]_quotaVars => QuotaInv'
<1> SUFFICES ASSUME QuotaInv, [QuotaNext]_quotaVars PROVE QuotaInv'
  OBVIOUS
<1>0. Rules \in Nat /\ Times \in Nat /\ Window \in Nat /\ Len(Push) \in Nat
      /\ DOMAIN Push = 1..Len(Push) /\ (\A i \in DOMAIN Push : Push[i].name \in Names)
  BY QuotaAssumption DEF Names
<1>1. CASE Skip \/ CheckRules \/ Alerts
  <2>1. /\ UNCHANGED <<records, accepted, begun, sending>> /\ ~sending
        /\ rule' \in 0..Rules /\ push' \in 0..Len(Push) + 1 /\ (rule' = 0 => push' = 0)
    <3>1. CASE Skip
      BY <1>0, <3>1 DEF Skip, NextRule, QuotaInv, QuotaTypes
    <3>2. CASE CheckRules
      <4>1. rule = 0 /\ Rules > 0 /\ rule' = 1 /\ push' = 0 /\ push = 0
        BY <3>2 DEF CheckRules, QuotaInv, QuotaTypes
      <4>2. rule' \in 0..Rules /\ push' \in 0..Len(Push) + 1 /\ push \notin DOMAIN Push
        BY <1>0, <4>1
      <4> QED BY <3>2, <4>1, <4>2, Zenon DEF CheckRules, QuotaInv
    <3>3. CASE Alerts
      BY <1>0, <3>3 DEF Alerts, QuotaInv, QuotaTypes
    <3> QED BY <1>1, <3>1, <3>2, <3>3
  <2> QED BY <2>1, Zenon DEF QuotaInv, QuotaTypes
<1>2. CASE Check
  <2> DEFINE n == Push[push].name  kept == Pruned(records[n])
  <2>1. /\ push \in DOMAIN Push /\ ~sending
        /\ records' = [records EXCEPT ![n] = kept] /\ rule' = rule /\ accepted' = accepted
        /\ \/ Room(kept) /\ begun' = 0 /\ push' = push
           \/ push' = push + 1 /\ begun' = begun /\ sending' = sending
    BY <1>2, Zenon DEF Check
  <2>2. n \in Names /\ records[n] \in Seq(Age) /\ accepted[n] \in Seq(Age)
    BY <1>0, <2>1 DEF QuotaInv, QuotaTypes
  <2>3. Quota(records[n], accepted[n])
    BY <2>2, Zenon DEF QuotaInv
  <2>4. kept \in Seq(Age) /\ Covers(kept, accepted[n])
    BY <1>0, <2>2, <2>3, PruneCovers DEF Quota
  <2>5. InOrder(kept)
    <3>1. Window + 1 \in Nat
      BY <1>0
    <3>2. PICK k : Suffix_(kept, records[n], k)
      BY <2>2, <3>1, Popped, Zenon DEF Pruned
    <3> QED BY <2>2, <2>3, <3>2, SuffixInOrder, Zenon DEF Quota
  <2>6. Quota(kept, accepted[n])
    BY <2>3, <2>4, <2>5, Zenon DEF Quota
  <2> HIDE DEF kept, n
  <2>7. \A m \in Names : Quota(records'[m], accepted'[m])
    BY <2>1, <2>6 DEF QuotaInv, QuotaTypes
  <2>8. QuotaTypes'
    <3>1. records' \in [Names -> Seq(Age)]
      BY <2>1, <2>4 DEF QuotaInv, QuotaTypes
    <3>2. push' \in 0..Len(Push) + 1 /\ begun' \in Age
      BY <1>0, <2>1 DEF QuotaInv, QuotaTypes, Age
    <3>3. rule # 0
      BY <1>0, <2>1 DEF QuotaInv, QuotaTypes
    <3> QED BY <2>1, <3>1, <3>2, <3>3, Zenon DEF QuotaInv, QuotaTypes
  <2>9. ASSUME sending' PROVE push' \in DOMAIN Push /\ RoomToSend(accepted[n])' /\ n' = n
    <3>1. Room(kept) /\ begun' = 0 /\ push' = push
      BY <2>1, <2>9, Zenon
    <3>2. Len(accepted[n]) < Times
      BY <1>0, <2>2, <2>4, <3>1 DEF Covers, Room
    <3>3. \A i \in 1..Len(accepted[n]) : 0 <= accepted[n][i]
      BY <1>0, <2>2 DEF Age
    <3>4. n' = n
      BY <3>1 DEF n
    <3> QED BY <2>1, <3>1, <3>2, <3>3, <3>4 DEF RoomToSend
  <2> QED BY <2>7, <2>8, <2>9, Zenon DEF QuotaInv, n
<1>3. CASE SendEnds
  <2> DEFINE n == Push[push].name  rec == records[n]  acc == accepted[n]
  <2>1. PICK end \in Ends(Push[push]) :
          /\ records' = IF Charged(Push[push], end) THEN [records EXCEPT ![n] = Append(@, 0)]
                        ELSE records
          /\ accepted' = IF end = "accepted"
                         THEN [accepted EXCEPT ![n] = Append(Within(@), begun)]
                         ELSE accepted
    BY <1>3, Zenon DEF SendEnds
  <2>2. /\ push \in DOMAIN Push /\ ~sending' /\ push' = push + 1 /\ begun' = 0 /\ rule' = rule
        /\ RoomToSend(acc)
    BY <1>3, Zenon DEF SendEnds, QuotaInv
  <2>3. n \in Names /\ rec \in Seq(Age) /\ acc \in Seq(Age) /\ Quota(rec, acc)
    BY <1>0, <2>2 DEF QuotaInv, QuotaTypes
  <2>4. 0 \in Age /\ begun \in Age /\ push' \in 0..Len(Push) + 1
    BY <1>0, <2>2 DEF Age, QuotaInv, QuotaTypes
  <2>5. \A i \in 1..Len(rec) : 0 <= rec[i]
    BY <1>0, <2>3 DEF Age
  <2>6. Append(rec, 0) \in Seq(Age) /\ InOrder(Append(rec, 0))
    BY <2>3, <2>4, <2>5, AppendInOrder, Zenon DEF Quota
  <2> DEFINE left == Within(acc)  one == Append(left, begun)
  <2>7. /\ one \in Seq(Age) /\ Quota(Append(rec, 0), one)
    <3>1. Window + 1 \in Nat
      BY <1>0
    <3>2. PICK k \in 0..Len(acc) : Suffix_(left, acc, k)
      BY <2>3, <3>1, Popped, Zenon DEF Within
    <3>3. left \in Seq(Age) /\ InOrder(left) /\ Covers(rec, left)
      BY <2>3, <3>2, SuffixInOrder, CoversSuffix, Zenon DEF Suffix_, Quota
    <3>4. Len(left) = Len(acc) - k /\ \A i \in 1..Len(left) : left[i] = acc[k + i]
      BY <3>2 DEF Suffix_
    <3>5. Len(left) < Times /\ \A i \in 1..Len(left) : begun <= left[i]
      <4> HIDE DEF left, acc
      <4>1. Len(acc) \in Nat /\ Len(acc) < Times
        BY <2>2, <2>3 DEF RoomToSend
      <4>2. ASSUME NEW i \in 1..Len(left) PROVE begun <= left[i]
        <5>1. k + i \in 1..Len(acc)
          BY <3>4, <4>1
        <5> QED BY <2>2, <3>4, <5>1 DEF RoomToSend
      <4> QED BY <1>0, <3>4, <4>1, <4>2
    <3>6. one \in Seq(Age) /\ InOrder(one)
      BY <2>4, <3>3, <3>5, AppendInOrder, Zenon
    <3>7. Covers(Append(rec, 0), one)
      BY <1>0, <2>3, <2>4, <3>3, CoversOneMore, Zenon
    <3>8. Len(one) <= Times
      <4> HIDE DEF left
      <4> QED BY <1>0, <2>4, <3>3, <3>5
    <3> QED BY <2>6, <3>6, <3>7, <3>8, Zenon DEF Quota
  <2>8. Quota(Append(rec, 0), acc)
    BY <1>0, <2>3, <2>6, CoversUncounted, Zenon DEF Quota
  <2>9. end = "accepted" => Charged(Push[push], end)
    BY <2>1, AcceptedIsCharged DEF Ends
  <2>10. PICK r \in {rec, Append(rec, 0)}, a \in {acc, one} :
           /\ records' = [records EXCEPT ![n] = r] /\ accepted' = [accepted EXCEPT ![n] = a]
           /\ Quota(r, a) /\ r \in Seq(Age) /\ a \in Seq(Age)
    <3>0. records = [records EXCEPT ![n] = rec] /\ accepted = [accepted EXCEPT ![n] = acc]
      BY <2>3 DEF QuotaInv, QuotaTypes
    <3> HIDE DEF n
    <3>1. CASE end = "accepted"
      <4>1. records' = [records EXCEPT ![n] = Append(rec, 0)] /\ accepted' = [accepted EXCEPT ![n] = one]
        BY <2>1, <2>9, <3>1, Zenon
      <4> QED BY <2>6, <2>7, <4>1, Zenon
    <3>2. CASE end # "accepted" /\ Charged(Push[push], end)
      <4>1. records' = [records EXCEPT ![n] = Append(rec, 0)] /\ accepted' = [accepted EXCEPT ![n] = acc]
        BY <2>1, <3>0, <3>2, Zenon
      <4> QED BY <2>3, <2>6, <2>8, <4>1, Zenon
    <3>3. CASE end # "accepted" /\ ~Charged(Push[push], end)
      <4>1. records' = [records EXCEPT ![n] = rec] /\ accepted' = [accepted EXCEPT ![n] = acc]
        BY <2>1, <3>0, <3>3, Zenon
      <4> QED BY <2>3, <4>1, Zenon
    <3> QED BY <2>9, <3>1, <3>2, <3>3, Zenon
  <2> HIDE DEF n, rec, acc, left, one
  <2>11. records' \in [Names -> Seq(Age)] /\ accepted' \in [Names -> Seq(Age)]
    BY <2>10 DEF QuotaInv, QuotaTypes
  <2>12. \A m \in Names : Quota(records'[m], accepted'[m])
    BY <2>10 DEF QuotaInv, QuotaTypes
  <2>13. QuotaTypes'
    <3>1. rule # 0
      BY <1>0, <2>2 DEF QuotaInv, QuotaTypes
    <3> QED BY <2>2, <2>4, <2>11, <3>1, Zenon DEF QuotaInv, QuotaTypes
  <2> QED BY <2>2, <2>12, <2>13, Zenon DEF QuotaInv
<1>4. CASE Aging
  <2>1. /\ records' = [n \in Names |-> Older(records[n])]
        /\ accepted' = [n \in Names |-> Within(Older(accepted[n]))]
        /\ UNCHANGED <<rule, push>> /\ (sending' <=> sending)
        /\ begun' = IF sending /\ begun <= Window THEN begun + 1 ELSE begun
    BY <1>4, Zenon DEF Aging
  <2>2. begun' \in Age /\ (begun' = begun \/ (begun <= Window /\ begun' = begun + 1))
    BY <1>0, <2>1 DEF QuotaInv, QuotaTypes, Age
  <2>3. ASSUME NEW n \in Names
        PROVE  /\ records'[n] \in Seq(Age) /\ accepted'[n] \in Seq(Age)
               /\ Quota(records'[n], accepted'[n])
               /\ Len(accepted'[n]) <= Len(accepted[n])
               /\ \E k \in Nat : Suffix_(accepted'[n], Older(accepted[n]), k)
    <3>1. records[n] \in Seq(Age) /\ accepted[n] \in Seq(Age) /\ Quota(records[n], accepted[n])
      BY DEF QuotaInv, QuotaTypes
    <3>2. records'[n] = Older(records[n]) /\ accepted'[n] = Within(Older(accepted[n]))
      BY <2>1
    <3>3. /\ accepted'[n] \in Seq(Age) /\ Len(accepted'[n]) <= Len(accepted[n])
          /\ InOrder(accepted'[n]) /\ Covers(records'[n], accepted'[n])
          /\ \E k \in Nat : Suffix_(accepted'[n], Older(accepted[n]), k)
      BY <1>0, <3>1, <3>2, AgingCovers, Zenon DEF Quota
    <3>4. records'[n] \in Seq(Age) /\ InOrder(records'[n])
      BY <1>0, <3>1, <3>2, OlderOf, OlderInOrder, Zenon DEF Quota
    <3>5. Len(accepted'[n]) <= Times
      BY <1>0, <3>1, <3>3 DEF Quota
    <3> QED BY <3>3, <3>4, <3>5, Zenon DEF Quota
  <2>4. records' \in [Names -> Seq(Age)] /\ accepted' \in [Names -> Seq(Age)]
    BY <2>1, <2>3
  <2>5. QuotaTypes'
    BY <2>1, <2>2, <2>4, Zenon DEF QuotaInv, QuotaTypes
  <2>6. ASSUME sending' PROVE push' \in DOMAIN Push /\ RoomToSend(accepted[Push[push].name])'
    <3> DEFINE n == Push[push].name  acc == accepted[n]  left == accepted'[n]
    <3>1. push \in DOMAIN Push /\ push' = push /\ n \in Names /\ RoomToSend(acc)
      BY <1>0, <2>1, <2>6, Zenon DEF QuotaInv
    <3>2. /\ left \in Seq(Age) /\ Len(left) <= Len(acc)
          /\ \E k \in Nat : Suffix_(left, Older(acc), k)
      BY <2>3, <3>1, Zenon
    <3>3. acc \in Seq(Age)
      BY <3>1 DEF QuotaInv, QuotaTypes
    <3>4. PICK k \in Nat : Suffix_(left, Older(acc), k)
      BY <3>2, Zenon
    <3>5. /\ Len(Older(acc)) = Len(acc)
          /\ \A i \in 1..Len(acc) :
               Older(acc)[i] = IF acc[i] <= Window THEN acc[i] + 1 ELSE acc[i]
      BY <1>0, <3>3, OlderOf, Zenon
    <3>6. \A i \in 1..Len(acc) : acc[i] \in 0..Window + 1 /\ begun <= acc[i]
      <4> HIDE DEF acc
      <4>1. \A i \in 1..Len(acc) : acc[i] \in 0..Window + 1
        BY <1>0, <3>3 DEF Age
      <4>2. \A i \in 1..Len(acc) : begun <= acc[i]
        BY <3>1, Zenon DEF RoomToSend
      <4> QED BY <4>1, <4>2
    <3>7. \A i \in 1..Len(acc) : begun' <= Older(acc)[i]
      <4> HIDE DEF acc, left
      <4>0. begun \in 0..Window + 1
        BY DEF QuotaInv, QuotaTypes, Age
      <4> QED BY <1>0, <2>2, <3>5, <3>6, <4>0
    <3> HIDE DEF acc, left
    <3>8. \A i \in 1..Len(left) : begun' <= left[i]
      <4> SUFFICES ASSUME NEW i \in 1..Len(left) PROVE begun' <= left[i]
        OBVIOUS
      <4>1. k + i \in 1..Len(acc) /\ left[i] = Older(acc)[k + i]
        BY <3>2, <3>3, <3>4, <3>5 DEF Suffix_
      <4> QED BY <3>7, <4>1
    <3>9. Len(left) < Times
      BY <1>0, <3>1, <3>2, <3>3 DEF RoomToSend
    <3> QED BY <3>1, <3>8, <3>9, Zenon DEF RoomToSend, acc, left
  <2> QED BY <2>3, <2>5, <2>6, Zenon DEF QuotaInv
<1>5. CASE UNCHANGED quotaVars
  <2>1. UNCHANGED <<records, rule, push, accepted, begun>> /\ (sending' <=> sending)
    BY <1>5, Zenon DEF quotaVars
  <2> QED BY <2>1, Zenon DEF QuotaInv, QuotaTypes, RoomToSend
<1> QED
  BY <1>1, <1>2, <1>3, <1>4, <1>5 DEF QuotaNext

\* A send is under way or it is not.
LEMMA SendingStep == sending \in BOOLEAN /\ [QuotaNext]_quotaVars => (sending \in BOOLEAN)'
  BY Zenon DEF QuotaNext, Skip, CheckRules, Alerts, Check, SendEnds, Aging, quotaVars

\* "at most `times` within `window`" (push.rs, PushRateLimiter), of what the
\* service accepted with the answer their entries expect: for any entries, however
\* long the sends take.
THEOREM QuotaTheorem == QuotaSpec => []QuotaHolds
<1>1. QuotaInv => QuotaHolds
  <2> SUFFICES ASSUME QuotaInv, NEW n \in Names
      PROVE Cardinality({i \in DOMAIN accepted[n] : accepted[n][i] <= Window}) <= Times
    BY DEF QuotaHolds
  <2> DEFINE all == 1..Len(accepted[n])
             some == {i \in DOMAIN accepted[n] : accepted[n][i] <= Window}
  <2>1. accepted[n] \in Seq(Age) /\ Quota(records[n], accepted[n])
    BY DEF QuotaInv, QuotaTypes
  <2>2. Len(accepted[n]) \in Nat /\ Len(accepted[n]) <= Times /\ Times \in Nat
    BY <2>1, QuotaAssumption DEF Quota
  <2>3. some \subseteq all
    BY <2>1
  <2>4. IsFiniteSet(all) /\ Cardinality(all) = Len(accepted[n])
    <3>1. 1 <= Len(accepted[n]) => Len(accepted[n]) - 1 + 1 = Len(accepted[n])
      BY <2>2
    <3> QED BY <2>2, <3>1, FS_Interval
  <2> HIDE DEF all, some
  <2>5. IsFiniteSet(some) /\ Cardinality(some) <= Cardinality(all)
    BY <2>3, <2>4, FS_Subset
  <2>6. Cardinality(some) \in Nat
    BY <2>5, FS_CardinalityType
  <2> QED BY <2>2, <2>4, <2>5, <2>6 DEF some
<1> QED
  BY <1>1, QuotaInvInit, QuotaInvStep, PTL DEF QuotaSpec

\* Every variable of the quota has its type.
THEOREM QuotaTypesTheorem == QuotaSpec => []QuotaTypeOK
<1>1. QuotaInv /\ sending \in BOOLEAN => QuotaTypeOK
  BY Zenon DEF QuotaInv, QuotaTypes, QuotaTypeOK
<1> QED
  BY <1>1, QuotaInvInit, QuotaInvStep, SendingStep, PTL DEF QuotaSpec

-----------------------------------------------------------------------------
(* The start of the process.  One past the secret file has the file's      *)
(* secret, as long as no two processes generated one at once, and so has   *)
(* every token given out, unless a power loss took the file; the account's *)
(* password was shown, is about to be, or died with the process that drew  *)
(* it.                                                                     *)

Places == {"down", "look", "generate", "write", "database", "insert", "print", "bind",
           "serving"}
Ready == {"database", "insert", "print", "bind", "serving"}

Start == [at : Places, secret : {"none"} \cup Configured \cup Generated,
          under : {"none"} \cup Configured, password : {"none"} \cup Password]

Typed ==
  /\ settings \in Settings
  /\ onDisk \subseteq {Absent, ""} \cup Generated /\ secretFile \in onDisk
  /\ account \in {Absent} \cup Password
  /\ started \in [Process -> Start]
  /\ drawn \subseteq Generated \cup Password /\ known \subseteq Password
  /\ {chosen, unshown, overlapped, forgotten} \subseteq BOOLEAN

\* The secret of one process, by where it stands and by the setting it read.
SecretByStage(s) ==
  /\ s.at \in {"look", "generate", "write"} => s.under = "unset"
  /\ s.at = "write" => s.secret \in Generated
  /\ s.at \in Ready => \/ s.under = "long" /\ s.secret = "long"
                       \/ s.under = "unset" /\ s.secret \in Generated

\* Its relation to jwt.secret, unless two were generated at once.
SecretOfFile(s) ==
  /\ s.at = "write" => secretFile = ""
  /\ s.at \in Ready /\ s.under = "unset" => secretFile = s.secret

OneWriter == \A p, q \in Process : started[p].at = "write" /\ started[q].at = "write" => p = q

TokenOfFile(t) ==
  \/ t.under = "long" /\ t.secret = "long"
  \/ /\ t.under = "unset" /\ t.secret \in Generated
     /\ overlapped \/ forgotten \/ t.secret = secretFile

Secrets ==
  /\ \A p \in Process : SecretByStage(started[p])
  /\ ~overlapped => OneWriter /\ \A p \in Process : SecretOfFile(started[p])
  /\ \A t \in tokens : TokenOfFile(t)

Printing == {p \in Process : started[p].at = "print"}

Passwords ==
  /\ account # Absent => account \in drawn /\ (account \in known \/ unshown \/ Printing # {})
  /\ \A p \in Printing : /\ account # Absent
                         /\ started[p].password \in Password
                         /\ started[p].password = account \/ chosen
  /\ \A p \in Process : started[p].at \in {"bind", "serving"} => account # Absent
  /\ chosen => account \in known
  /\ ~chosen => known \subseteq {account}

StartInv == Typed /\ Secrets /\ Passwords

-----------------------------------------------------------------------------
(* What the steps do to the processes.                                     *)

\* A process that moves on keeps the setting it read and its password.
LEMMA BecomesOne ==
  ASSUME Typed, NEW p \in Process, NEW at \in Places,
         NEW secret \in {"none"} \cup Configured \cup Generated, Becomes(p, at, secret)
  PROVE  /\ started' \in [Process -> Start]
         /\ started'[p].at = at /\ started'[p].secret = secret
         /\ started'[p].under = started[p].under /\ started'[p].password = started[p].password
         /\ \A q \in Process \ {p} : started'[q] = started[q]
  BY DEF Typed, Becomes, Start

\* The processes as records, and what a place is.
LEMMA StartFields ==
  ASSUME Typed, NEW p \in Process
  PROVE  /\ started[p].at \in Places
         /\ started[p].secret \in {"none"} \cup Configured \cup Generated
         /\ started[p].under \in {"none"} \cup Configured
         /\ started[p].password \in {"none"} \cup Password
  BY DEF Typed, Start

\* A step of one process that leaves the files and the tokens alone keeps what
\* is known of the secrets, if it does of that process.
LEMMA SecretsOfOne ==
  ASSUME Secrets, NEW p \in Process, UNCHANGED <<secretFile, forgotten, overlapped, tokens>>,
         \A q \in Process \ {p} : started'[q] = started[q],
         SecretByStage(started'[p]), started'[p].at # "write",
         ~overlapped => SecretOfFile(started'[p])
  PROVE  Secrets'
<1>1. \A q \in Process : SecretByStage(started'[q])
  BY DEF Secrets
<1>2. ASSUME ~overlapped PROVE OneWriter' /\ \A q \in Process : SecretOfFile(started[q])'
  <2>1. OneWriter'
    BY <1>2 DEF Secrets, OneWriter
  <2>2. \A q \in Process : SecretOfFile(started'[q])
    BY <1>2 DEF Secrets
  <2> QED
    BY <2>1, <2>2 DEF SecretOfFile
<1>3. \A t \in tokens : TokenOfFile(t)'
  BY DEF Secrets, TokenOfFile
<1> QED
  BY <1>1, <1>2, <1>3 DEF Secrets, SecretByStage

\* A step of one process that neither prints nor stops printing, and changes no
\* password, keeps what is known of them.
LEMMA PasswordsOfOne ==
  ASSUME Passwords, NEW p \in Process, UNCHANGED <<account, known, chosen, unshown>>,
         drawn \subseteq drawn',
         \A q \in Process \ {p} : started'[q] = started[q],
         started[p].at # "print", started'[p].at # "print",
         started'[p].at \in {"bind", "serving"} => account # Absent
  PROVE  Passwords'
<1>1. Printing' = Printing
  BY DEF Printing
<1>2. \A q \in Printing : started'[q] = started[q]
  BY DEF Printing
<1>3. \A q \in Process : started'[q].at \in {"bind", "serving"} => account # Absent
  BY DEF Passwords
<1> QED
  BY <1>1, <1>2, <1>3 DEF Passwords

-----------------------------------------------------------------------------
(* The steps of a start.                                                   *)

\* The secret: the setting, the file, a new file.
LEMMA SecretStep ==
  ASSUME StartInv, NEW p \in Process,
         Load(p) \/ LookForFile(p) \/ OpenFile(p) \/ FillFile(p)
  PROVE  StartInv'
<1>0. Typed /\ Secrets /\ Passwords
  BY DEF StartInv
<1>a. {"down", "look", "generate", "write", "database"} \subseteq Places
  BY DEF Places
<1>1. CASE Load(p)
  <2>1. jwt_secret(settings) \in {"unset", "long"}
    BY <1>0, <1>1
       DEF Load, Rejected, jwt_secret, normalize, NonEmpty, Typed, Settings, Configured
  <2> DEFINE s == [at |-> IF jwt_secret(settings) = "unset" THEN "look" ELSE "database",
                   secret |-> jwt_secret(settings), under |-> jwt_secret(settings),
                   password |-> "none"]
  <2>2. s \in Start
    BY <2>1 DEF Start, Places, Configured
  <2>3. /\ started' = [started EXCEPT ![p] = s] /\ started[p].at = "down"
        /\ UNCHANGED <<settings, secretFile, onDisk, forgotten, account, drawn, known,
                       chosen, unshown, overlapped, tokens>>
    BY <1>1 DEF Load
  <2>4. SecretByStage(s) /\ SecretOfFile(s) /\ s.at \in {"look", "database"}
    BY <2>1, StartupAssumption DEF SecretByStage, SecretOfFile, Ready
  <2> HIDE DEF s
  <2>5. /\ started' \in [Process -> Start] /\ started'[p] = s
        /\ \A q \in Process \ {p} : started'[q] = started[q]
    BY <1>0, <2>2, <2>3 DEF Typed
  <2>6. Typed'
    BY <1>0, <2>3, <2>5 DEF Typed
  <2>7. Secrets'
    BY <1>0, <2>3, <2>4, <2>5, SecretsOfOne
  <2>8. Passwords'
    BY <1>0, <2>3, <2>4, <2>5, PasswordsOfOne
  <2> QED
    BY <2>6, <2>7, <2>8 DEF StartInv
<1>2. CASE LookForFile(p)
  <2>1. /\ started[p].at = "look" /\ started[p].under = "unset"
        /\ UNCHANGED <<settings, secretFile, onDisk, forgotten, account, drawn, known,
                       chosen, unshown, overlapped, tokens>>
    BY <1>0, <1>2 DEF LookForFile, Secrets, SecretByStage
  <2>2. PICK at \in {"down", "generate", "database"}, secret \in {"none"} \cup Generated :
          /\ Becomes(p, at, secret)
          /\ at = "database" => secret = secretFile /\ secret \in Generated
    BY <1>0, <1>2 DEF LookForFile, Typed
  <2>3. /\ started' \in [Process -> Start]
        /\ started'[p].at = at /\ started'[p].secret = secret
        /\ started'[p].under = "unset"
        /\ \A q \in Process \ {p} : started'[q] = started[q]
    BY <1>0, <1>a, <2>1, <2>2, BecomesOne
  <2>4. Typed'
    BY <1>0, <2>1, <2>3 DEF Typed
  <2>5. SecretByStage(started'[p]) /\ SecretOfFile(started'[p])
    BY <2>2, <2>3 DEF SecretByStage, SecretOfFile, Ready
  <2>6. Secrets'
    BY <1>0, <2>1, <2>2, <2>3, <2>5, SecretsOfOne
  <2>7. Passwords'
    BY <1>0, <2>1, <2>2, <2>3, PasswordsOfOne
  <2> QED
    BY <2>4, <2>6, <2>7 DEF StartInv
<1>3. CASE OpenFile(p)
  <2>1. PICK s \in Generated \ drawn : drawn' = drawn \cup {s} /\ Becomes(p, "write", s)
    BY <1>3 DEF OpenFile
  <2>2. /\ started[p].at = "generate" /\ started[p].under = "unset"
        /\ overlapped' = (overlapped \/ secretFile # Absent) /\ secretFile' = ""
        /\ onDisk' = onDisk \cup {""}
        /\ UNCHANGED <<settings, account, known, chosen, unshown, forgotten, tokens>>
    BY <1>0, <1>3 DEF OpenFile, Secrets, SecretByStage
  <2>3. /\ started' \in [Process -> Start]
        /\ started'[p].at = "write" /\ started'[p].secret = s
        /\ started'[p].under = "unset"
        /\ \A q \in Process \ {p} : started'[q] = started[q]
    BY <1>0, <1>a, <2>1, <2>2, BecomesOne
  <2>4. Typed'
    BY <1>0, <2>1, <2>2, <2>3 DEF Typed
  <2>5. \A q \in Process : SecretByStage(started'[q])
    BY <1>0, <2>1, <2>3 DEF Secrets, SecretByStage, Ready
  <2>6. ASSUME ~overlapped'
        PROVE  OneWriter' /\ \A q \in Process : SecretOfFile(started[q])'
    <3>1. ~overlapped /\ secretFile = Absent
      BY <1>0, <2>2, <2>6 DEF Typed
    <3>2. \A q \in Process : /\ started[q].at # "write"
                             /\ ~(started[q].at \in Ready /\ started[q].under = "unset")
      BY <1>0, <3>1, StartupAssumption DEF Secrets, SecretOfFile, SecretByStage
    <3>3. OneWriter'
      BY <2>3, <3>2 DEF OneWriter
    <3>4. ASSUME NEW q \in Process PROVE SecretOfFile(started[q])'
      <4>1. CASE q = p
        BY <2>2, <2>3, <4>1 DEF SecretOfFile, Ready
      <4>2. CASE q # p
        BY <2>3, <3>2, <4>2 DEF SecretOfFile
      <4> QED
        BY <4>1, <4>2
    <3> QED
      BY <3>3, <3>4
  <2>7. \A t \in tokens' : TokenOfFile(t)'
    BY <1>0, <2>2, StartupAssumption DEF Secrets, TokenOfFile, Typed
  <2>8. Secrets'
    BY <2>5, <2>6, <2>7 DEF Secrets, SecretByStage
  <2>9. Passwords'
    BY <1>0, <2>1, <2>2, <2>3, PasswordsOfOne
  <2> QED
    BY <2>4, <2>8, <2>9 DEF StartInv
<1>4. CASE FillFile(p)
  <2>1. /\ started[p].at = "write" /\ started[p].under = "unset"
        /\ started[p].secret \in Generated /\ secretFile' = started[p].secret
        /\ onDisk' = onDisk \cup {started[p].secret}
        /\ UNCHANGED <<settings, account, drawn, known, chosen, unshown, overlapped,
                       forgotten, tokens>>
    BY <1>0, <1>4 DEF FillFile, WrittenSecret, Secrets, SecretByStage
  <2>2. PICK at \in {"database", "down"} : Becomes(p, at, started[p].secret)
    BY <1>4 DEF FillFile
  <2>3. /\ started' \in [Process -> Start]
        /\ started'[p].at = at /\ started'[p].secret = started[p].secret
        /\ started'[p].under = "unset"
        /\ \A q \in Process \ {p} : started'[q] = started[q]
    BY <1>0, <1>a, <2>1, <2>2, BecomesOne
  <2>4. Typed'
    BY <1>0, <2>1, <2>3 DEF Typed
  <2>5. \A q \in Process : SecretByStage(started'[q])
    BY <1>0, <2>1, <2>3 DEF Secrets, SecretByStage, Ready
  <2>6. ASSUME ~overlapped
        PROVE  OneWriter' /\ \A q \in Process : SecretOfFile(started[q])'
    <3>1. secretFile = "" /\ \A q \in Process \ {p} : started[q].at # "write"
      BY <1>0, <2>1, <2>6 DEF Secrets, SecretOfFile, OneWriter
    <3>2. \A q \in Process : ~(started[q].at \in Ready /\ started[q].under = "unset")
      BY <1>0, <2>6, <3>1, StartupAssumption DEF Secrets, SecretOfFile, SecretByStage
    <3>3. OneWriter'
      BY <2>3, <3>1 DEF OneWriter
    <3>4. ASSUME NEW q \in Process PROVE SecretOfFile(started[q])'
      <4>1. CASE q = p
        BY <2>1, <2>3, <4>1 DEF SecretOfFile, Ready
      <4>2. CASE q # p
        BY <2>3, <3>1, <3>2, <4>2 DEF SecretOfFile
      <4> QED
        BY <4>1, <4>2
    <3> QED
      BY <3>3, <3>4
  <2>7. overlapped \/ secretFile = ""
    BY <1>0, <2>1 DEF Secrets, SecretOfFile
  <2>8. \A t \in tokens' : TokenOfFile(t)'
    BY <1>0, <2>1, <2>7, StartupAssumption DEF Secrets, TokenOfFile
  <2>9. Secrets'
    BY <2>1, <2>5, <2>6, <2>8 DEF Secrets, SecretByStage
  <2>10. Passwords'
    BY <1>0, <2>1, <2>3, PasswordsOfOne
  <2> QED
    BY <2>4, <2>9, <2>10 DEF StartInv
<1> QED
  BY <1>1, <1>2, <1>3, <1>4

\* The admin: counted, inserted, shown.
LEMMA AdminStep ==
  ASSUME StartInv, NEW p \in Process, CountUsers(p) \/ InsertAdmin(p) \/ PrintAdmin(p)
  PROVE  StartInv'
<1>0. Typed /\ Secrets /\ Passwords
  BY DEF StartInv
<1>a. {"insert", "print", "bind", "down"} \subseteq Places /\ Printing \subseteq Process
  BY DEF Places, Printing
<1>b. ASSUME started[p].at \in Ready, NEW s \in Start,
             s.at \in Ready \cup {"down"}, s.under = started[p].under,
             s.secret = started[p].secret
      PROVE  SecretByStage(s) /\ (~overlapped => SecretOfFile(s))
  BY <1>0, <1>b DEF Secrets, SecretByStage, SecretOfFile, Ready
<1>1. CASE CountUsers(p)
  <2>1. PICK at \in {"insert", "bind"} : /\ Becomes(p, at, started[p].secret)
                                         /\ at = "bind" => account # Absent
    BY <1>1 DEF CountUsers
  <2>2. /\ started[p].at = "database"
        /\ UNCHANGED <<settings, secretFile, onDisk, forgotten, account, drawn, known,
                       chosen, unshown, overlapped, tokens>>
    BY <1>1 DEF CountUsers
  <2>3. /\ started' \in [Process -> Start]
        /\ started'[p].at = at /\ started'[p].secret = started[p].secret
        /\ started'[p].under = started[p].under
        /\ \A q \in Process \ {p} : started'[q] = started[q]
    BY <1>0, <1>a, <2>1, BecomesOne, StartFields
  <2>4. Typed'
    BY <1>0, <2>2, <2>3 DEF Typed
  <2>5. SecretByStage(started'[p]) /\ (~overlapped => SecretOfFile(started'[p]))
    BY <1>b, <2>2, <2>3 DEF Ready
  <2>6. Secrets'
    BY <1>0, <2>2, <2>3, <2>5, SecretsOfOne
  <2>7. Passwords'
    BY <1>0, <2>1, <2>2, <2>3, PasswordsOfOne
  <2> QED
    BY <2>4, <2>6, <2>7 DEF StartInv
<1>2. CASE InsertAdmin(p)
  <2>1. PICK w \in Password \ drawn :
          /\ drawn' = drawn \cup {w}
          /\ account' = IF account = Absent THEN w ELSE account
          /\ started' = [started EXCEPT ![p].at = IF account' = w THEN "print" ELSE "down",
                                        ![p].password = w]
    BY <1>2 DEF InsertAdmin, Inserted
  <2>2. /\ started[p].at = "insert"
        /\ UNCHANGED <<settings, secretFile, onDisk, forgotten, known, chosen, unshown,
                       overlapped, tokens>>
    BY <1>2 DEF InsertAdmin
  <2>3. (account' = w) <=> (account = Absent)
    BY <1>0, <2>1 DEF Passwords
  <2>4. /\ started' \in [Process -> Start]
        /\ started'[p].at = IF account = Absent THEN "print" ELSE "down"
        /\ started'[p].secret = started[p].secret
        /\ started'[p].under = started[p].under /\ started'[p].password = w
        /\ \A q \in Process \ {p} : started'[q] = started[q]
    BY <1>0, <1>a, <2>1, <2>3 DEF Typed, Start
  <2>5. Typed'
    BY <1>0, <2>1, <2>2, <2>4 DEF Typed
  <2>6. SecretByStage(started'[p]) /\ (~overlapped => SecretOfFile(started'[p]))
    BY <1>b, <2>2, <2>4 DEF Ready
  <2>7. Secrets'
    BY <1>0, <2>2, <2>4, <2>6, SecretsOfOne
  <2>8. Passwords'
    <3>1. CASE account # Absent
      <4>1. account' = account /\ started'[p].at = "down" /\ drawn \subseteq drawn'
        BY <2>1, <2>4, <3>1
      <4> QED
        BY <1>0, <2>2, <2>4, <4>1, PasswordsOfOne
    <3>2. CASE account = Absent
      <4>1. Printing = {} /\ known = {} /\ ~chosen
        BY <1>0, <3>2, StartupAssumption DEF Passwords, Typed
      <4>2. Printing' = {p} /\ account' = w /\ w # Absent
        BY <2>1, <2>4, <3>2, <4>1, StartupAssumption DEF Printing
      <4>3. \A q \in Process : started'[q].at \in {"bind", "serving"} => account' # Absent
        BY <4>2
      <4> QED
        BY <2>1, <2>2, <2>4, <4>1, <4>2, <4>3 DEF Passwords
    <3> QED
      BY <3>1, <3>2
  <2> QED
    BY <2>5, <2>7, <2>8 DEF StartInv
<1>3. CASE PrintAdmin(p)
  <2>1. /\ started[p].at = "print" /\ p \in Printing
        /\ known' = known \cup {started[p].password}
        /\ Becomes(p, "bind", started[p].secret)
        /\ UNCHANGED <<settings, secretFile, onDisk, forgotten, account, drawn, chosen,
                       unshown, overlapped, tokens>>
    BY <1>3 DEF PrintAdmin, Shown, Printing
  <2>2. /\ started' \in [Process -> Start]
        /\ started'[p].at = "bind" /\ started'[p].secret = started[p].secret
        /\ started'[p].under = started[p].under
        /\ \A q \in Process \ {p} : started'[q] = started[q]
    BY <1>0, <1>a, <2>1, BecomesOne, StartFields
  <2>3. Printing' = Printing \ {p} /\ \A q \in Printing' : started'[q] = started[q]
    BY <2>2 DEF Printing
  <2>4. /\ account # Absent /\ started[p].password \in Password
        /\ started[p].password = account \/ chosen
    BY <1>0, <2>1 DEF Passwords
  <2>5. account \in known'
    BY <1>0, <2>1, <2>4 DEF Passwords
  <2>6. Typed'
    BY <1>0, <2>1, <2>2, <2>4 DEF Typed
  <2>7. SecretByStage(started'[p]) /\ (~overlapped => SecretOfFile(started'[p]))
    BY <1>b, <2>1, <2>2 DEF Ready
  <2>8. Secrets'
    BY <1>0, <2>1, <2>2, <2>7, SecretsOfOne
  <2>9. Passwords'
    BY <1>0, <1>a, <2>1, <2>3, <2>4, <2>5 DEF Passwords
  <2> QED
    BY <2>6, <2>8, <2>9 DEF StartInv
<1> QED
  BY <1>1, <1>2, <1>3

\* The port, the log-ins, and the end.
LEMMA ServeStep ==
  ASSUME StartInv, NEW p \in Process, start_server(p) \/ login(p) \/ Die(p)
  PROVE  StartInv'
<1>0. Typed /\ Secrets /\ Passwords
  BY DEF StartInv
<1>a. {"serving", "down"} \subseteq Places
  BY DEF Places
<1>1. CASE start_server(p)
  <2>1. /\ started[p].at = "bind" /\ started[p].under # "none"
        /\ UNCHANGED <<settings, secretFile, onDisk, forgotten, account, drawn, known,
                       chosen, unshown, overlapped, tokens>>
    BY <1>0, <1>1 DEF start_server, Secrets, SecretByStage, Ready
  <2>2. PICK at \in {"serving", "down"}, secret \in {"none", started[p].secret} :
          /\ Becomes(p, at, secret)
          /\ at = "serving" => secret = started[p].secret
    BY <1>1 DEF start_server
  <2>3. secret \in {"none"} \cup Configured \cup Generated
    BY <1>0, StartFields
  <2>4. /\ started' \in [Process -> Start]
        /\ started'[p].at = at /\ started'[p].secret = secret
        /\ started'[p].under = started[p].under
        /\ \A q \in Process \ {p} : started'[q] = started[q]
    BY <1>0, <1>a, <2>2, <2>3, BecomesOne
  <2>5. Typed'
    BY <1>0, <2>1, <2>4 DEF Typed
  <2>6. SecretByStage(started'[p]) /\ (~overlapped => SecretOfFile(started'[p]))
    BY <1>0, <2>1, <2>2, <2>4 DEF Secrets, SecretByStage, SecretOfFile, Ready
  <2>7. Secrets'
    BY <1>0, <2>1, <2>2, <2>4, <2>6, SecretsOfOne
  <2>8. account # Absent
    BY <1>0, <2>1 DEF Passwords
  <2>9. Passwords'
    BY <1>0, <2>1, <2>2, <2>4, <2>8, PasswordsOfOne
  <2> QED
    BY <2>5, <2>7, <2>9 DEF StartInv
<1>2. CASE login(p)
  <2>1. /\ started[p].at = "serving"
        /\ tokens' = tokens \cup {[under |-> started[p].under, secret |-> started[p].secret]}
        /\ UNCHANGED <<settings, secretFile, onDisk, forgotten, account, started, drawn,
                       known, chosen, unshown, overlapped>>
    BY <1>2 DEF login
  <2>2. /\ SecretByStage(started[p]) /\ started[p].at \in Ready
        /\ ~overlapped => SecretOfFile(started[p])
    BY <1>0, <2>1 DEF Secrets, Ready
  <2>3. TokenOfFile([under |-> started[p].under, secret |-> started[p].secret])
    BY <2>2 DEF TokenOfFile, SecretByStage, SecretOfFile
  <2>4. \A t \in tokens' : TokenOfFile(t)'
    BY <1>0, <2>1, <2>3 DEF TokenOfFile, Secrets
  <2>5. Secrets'
    BY <1>0, <2>1, <2>4 DEF Secrets, SecretByStage, SecretOfFile, OneWriter
  <2>6. Typed' /\ Passwords'
    BY <1>0, <2>1 DEF Typed, Passwords, Printing
  <2> QED
    BY <2>5, <2>6 DEF StartInv
<1>3. CASE Die(p)
  <2>1. /\ started' = [started EXCEPT ![p] = Down]
        /\ unshown' = (unshown \/ started[p].at = "print")
        /\ UNCHANGED <<settings, secretFile, onDisk, forgotten, account, drawn, known,
                       chosen, overlapped, tokens>>
    BY <1>3 DEF Die
  <2>2. Down \in Start /\ Down.at = "down"
    BY DEF Down, Start, Places
  <2> HIDE DEF Down
  <2>3. /\ started' \in [Process -> Start] /\ started'[p] = Down
        /\ \A q \in Process \ {p} : started'[q] = started[q]
    BY <1>0, <2>1, <2>2 DEF Typed
  <2>4. Typed'
    BY <1>0, <2>1, <2>3 DEF Typed
  <2>5. SecretByStage(Down) /\ SecretOfFile(Down)
    BY <2>2 DEF SecretByStage, SecretOfFile, Ready
  <2>6. Secrets'
    BY <1>0, <2>1, <2>2, <2>3, <2>5, SecretsOfOne
  <2>7. CASE started[p].at # "print"
    <3>1. unshown' = unshown
      BY <1>0, <2>1, <2>7 DEF Typed
    <3>2. Passwords'
      BY <1>0, <2>1, <2>2, <2>3, <2>7, <3>1, PasswordsOfOne
    <3> QED
      BY <2>4, <2>6, <3>2 DEF StartInv
  <2>8. CASE started[p].at = "print"
    <3>1. unshown' = TRUE
      BY <2>1, <2>8
    <3>2. Printing' = Printing \ {p} /\ \A q \in Printing' : started'[q] = started[q]
      BY <2>2, <2>3 DEF Printing
    <3>3. \A q \in Process : started'[q].at \in {"bind", "serving"} => account # Absent
      BY <1>0, <2>2, <2>3 DEF Passwords
    <3>4. Passwords'
      BY <1>0, <2>1, <3>1, <3>2, <3>3 DEF Passwords
    <3> QED
      BY <2>4, <2>6, <3>4 DEF StartInv
  <2> QED
    BY <2>7, <2>8
<1> QED
  BY <1>1, <1>2, <1>3

\* The power goes: nobody is left, and the tokens are those of a lost file.
LEMMA PowerStep == StartInv /\ PowerLoss => StartInv'
<1> SUFFICES ASSUME StartInv, PowerLoss PROVE StartInv'
  OBVIOUS
<1>0. Typed /\ Secrets /\ Passwords
  BY DEF StartInv
<1>1. /\ started' = [p \in Process |-> Down]
      /\ secretFile' \in onDisk /\ onDisk' = {secretFile'} /\ forgotten' = TRUE
      /\ unshown' = (unshown \/ \E p \in Process : started[p].at = "print")
      /\ UNCHANGED <<settings, account, drawn, known, chosen, overlapped, tokens>>
  BY DEF PowerLoss
<1>2. Down \in Start /\ Down.at = "down"
  BY DEF Down, Start, Places
<1> HIDE DEF Down
<1>3. started' \in [Process -> Start] /\ \A p \in Process : started'[p].at = "down"
  BY <1>1, <1>2
<1>4. unshown' \in BOOLEAN /\ (unshown' <=> unshown \/ Printing # {})
  BY <1>0, <1>1 DEF Typed, Printing
<1>5. Typed'
  BY <1>0, <1>1, <1>3, <1>4 DEF Typed
<1>6. Secrets'
  BY <1>0, <1>1, <1>3
     DEF Secrets, SecretByStage, SecretOfFile, OneWriter, TokenOfFile, Ready
<1>7. Printing' = {}
  BY <1>3 DEF Printing
<1>8. Passwords'
  BY <1>0, <1>1, <1>3, <1>4, <1>7 DEF Passwords
<1> QED
  BY <1>5, <1>6, <1>8 DEF StartInv

\* The operator's doing.
LEMMA OperatorStep ==
  ASSUME StartInv, set_password \/ DeleteSecret \/ Reconfigure
  PROVE  StartInv'
<1>0. Typed /\ Secrets /\ Passwords
  BY DEF StartInv
<1>1. CASE set_password
  <2>1. PICK w \in Password \ drawn : /\ drawn' = drawn \cup {w} /\ account' = w
                                      /\ known' = known \cup {w}
    BY <1>1 DEF set_password
  <2>2. chosen' = TRUE /\ UNCHANGED <<settings, secretFile, onDisk, forgotten, started,
                                      unshown, overlapped, tokens>>
    BY <1>1 DEF set_password
  <2>3. Typed'
    BY <1>0, <2>1, <2>2 DEF Typed
  <2>4. Secrets'
    BY <1>0, <2>2 DEF Secrets, SecretByStage, SecretOfFile, OneWriter, TokenOfFile
  <2>5. Passwords'
    BY <1>0, <2>1, <2>2, StartupAssumption DEF Passwords, Printing
  <2> QED
    BY <2>3, <2>4, <2>5 DEF StartInv
<1>2. CASE DeleteSecret
  <2>1. /\ secretFile = "" /\ secretFile' = Absent
        /\ onDisk' = onDisk \cup {Absent}
        /\ \A p \in Process : started[p].at = "down"
        /\ UNCHANGED <<settings, account, started, drawn, known, chosen, unshown,
                       overlapped, forgotten, tokens>>
    BY <1>2 DEF DeleteSecret
  <2>2. Typed' /\ Passwords'
    BY <1>0, <2>1 DEF Typed, Passwords, Printing
  <2>3. \A t \in tokens : TokenOfFile(t)'
    BY <1>0, <2>1, StartupAssumption DEF Secrets, TokenOfFile
  <2>4. Secrets'
    BY <1>0, <2>1, <2>3 DEF Secrets, SecretByStage, SecretOfFile, OneWriter, Ready
  <2> QED
    BY <2>2, <2>4 DEF StartInv
<1>3. CASE Reconfigure
  <2>1. /\ settings' \in Settings
        /\ UNCHANGED <<secretFile, onDisk, forgotten, account, started, drawn, known,
                       chosen, unshown, overlapped, tokens>>
    BY <1>0, <1>3 DEF Reconfigure, Typed, Settings, Configured
  <2>2. Typed' /\ Passwords'
    BY <1>0, <2>1 DEF Typed, Passwords, Printing
  <2>3. Secrets'
    BY <1>0, <2>1 DEF Secrets, SecretByStage, SecretOfFile, OneWriter, TokenOfFile
  <2> QED
    BY <2>2, <2>3 DEF StartInv
<1> QED
  BY <1>1, <1>2, <1>3

-----------------------------------------------------------------------------
(* The theorem.                                                            *)

\* It holds of a first start.
LEMMA StartInvInit == StartupInit => StartInv
<1> SUFFICES ASSUME StartupInit PROVE StartInv
  OBVIOUS
<1>1. Down \in Start /\ Down.at = "down"
  BY DEF Down, Start, Places
<1>2. Typed
  BY <1>1, StartupAssumption DEF StartupInit, Typed
<1>3. \A p \in Process : started[p].at = "down"
  BY <1>1 DEF StartupInit
<1>4. Secrets
  BY <1>3 DEF StartupInit, Secrets, SecretByStage, SecretOfFile, OneWriter, Ready
<1>5. Passwords
  BY <1>3 DEF StartupInit, Passwords, Printing
<1> QED
  BY <1>2, <1>4, <1>5 DEF StartInv

\* Every step of a start, a kill, a power loss and the operator keep it.
LEMMA StartInvStep == StartInv /\ [StartupNext]_startupVars => StartInv'
<1>1. ASSUME StartInv, UNCHANGED startupVars PROVE StartInv'
  <2> USE <1>1 DEF startupVars, StartInv
  <2>1. Typed'
    BY DEF Typed
  <2>2. Secrets'
    BY DEF Secrets, SecretByStage, SecretOfFile, OneWriter, TokenOfFile
  <2>3. Passwords'
    BY DEF Passwords, Printing
  <2> QED
    BY <2>1, <2>2, <2>3
<1> QED
  BY <1>1, SecretStep, AdminStep, ServeStep, PowerStep, OperatorStep DEF StartupNext

\* The invariant says what the reader of a terminal and of a browser relies on.
LEMMA StartInvHolds == StartInv => StartupHolds
<1> SUFFICES ASSUME StartInv PROVE StartupHolds
  OBVIOUS
<1>1. \A p \in Process : Serving(p) => /\ SecretByStage(started[p]) /\ started[p].at \in Ready
                                       /\ ~overlapped => SecretOfFile(started[p])
  BY DEF StartInv, Secrets, Serving, Ready
<1>2. SecretIsReal
  BY <1>1 DEF SecretIsReal, SecretByStage
<1>3. ASSUME NEW p \in Process, NEW t \in tokens,
             Serving(p), t.under = started[p].under, ~overlapped, ~forgotten
      PROVE  verify_token(t, p)
  <2>1. TokenOfFile(t)
    BY DEF StartInv, Secrets
  <2> QED
    BY <1>1, <1>3, <2>1 DEF TokenOfFile, SecretByStage, SecretOfFile, verify_token
<1>4. TokensSurvive
  BY <1>3 DEF TokensSurvive
<1>5. SomebodyCanLogIn
  BY DEF StartInv, Passwords, Printing, SomebodyCanLogIn, Serving
<1>6. ShownPasswordOpens
  BY DEF StartInv, Passwords, ShownPasswordOpens
<1> QED
  BY <1>2, <1>4, <1>5, <1>6 DEF StartupHolds

\* However starts, kills, password changes and a secret file cut short
\* interleave, a serving agent has a real secret, opens to the tokens of earlier
\* starts unless a power loss took the file they were signed with, and its
\* admin's password was shown unless a kill or a power loss came between.
THEOREM StartupTheorem == StartupSpec => []StartupHolds
  BY StartInvInit, StartInvStep, StartInvHolds, PTL DEF StartupSpec

-----------------------------------------------------------------------------
(* The thresholds.                                                         *)

\* Where a suffix stands among the five, counted from 0.
Place(l, k) == k \in 0..4 /\ SizeSuffixes[k + 1] = l

\* There it stands alone.
LEMMA SuffixPlaces ==
  /\ Place("b", 0) /\ Place("k", 1) /\ Place("m", 2) /\ Place("g", 3) /\ Place("t", 4)
  /\ \A l \in Suffix : l \in {"b", "k", "m", "g", "t"}
  /\ \A l, k, m : Place(l, k) /\ Place(l, m) => k = m
<1>1. /\ SizeSuffixes[1] = "b" /\ SizeSuffixes[2] = "k" /\ SizeSuffixes[3] = "m"
      /\ SizeSuffixes[4] = "g" /\ SizeSuffixes[5] = "t"
  BY DEF SizeSuffixes
<1>2. ASSUME NEW l, NEW k, NEW m, Place(l, k), Place(l, m) PROVE k = m
  <2>1. (k = 0 \/ k = 1 \/ k = 2 \/ k = 3 \/ k = 4) /\ (m = 0 \/ m = 1 \/ m = 2 \/ m = 3 \/ m = 4)
    BY <1>2 DEF Place
  <2> QED BY <1>1, <1>2, <2>1 DEF Place
<1>3. \A l \in Suffix : l \in {"b", "k", "m", "g", "t"}
  <2>1. ASSUME NEW l \in Suffix PROVE l \in {"b", "k", "m", "g", "t"}
    <3>1. PICK i \in 1..5 : l = SizeSuffixes[i]
      BY DEF Suffix
    <3>2. i = 1 \/ i = 2 \/ i = 3 \/ i = 4 \/ i = 5
      OBVIOUS
    <3> QED BY <1>1, <3>1, <3>2
  <2> QED BY <2>1
<1> QED
  BY <1>1, <1>2, <1>3 DEF Place

\* A suffix is found at its place alone, and multiplies by what the letter
\* stands for.
LEMMA Factors ==
  ASSUME NEW l, NEW k, Place(l, k)
  PROVE  /\ \A i \in 1..5 : SizeSuffixes[i] = l <=> i = k + 1
         /\ Factor(l) = Bytes(l)
         /\ Bytes(l) \in Nat
<1>0. k \in 0..4 /\ SizeSuffixes[k + 1] = l
  BY DEF Place
<1>1. \A i \in 1..5 : SizeSuffixes[i] = l <=> i = k + 1
  <2>1. ASSUME NEW i \in 1..5, SizeSuffixes[i] = l PROVE i = k + 1
    <3>1. i - 1 \in 0..4 /\ (i - 1) + 1 = i
      OBVIOUS
    <3>2. Place(l, i - 1)
      BY <2>1, <3>1 DEF Place
    <3>3. i - 1 = k
      BY <3>2, SuffixPlaces, Zenon
    <3> QED BY <3>1, <3>3
  <2> QED BY <1>0, <2>1
<1>2. (CHOOSE i \in 1..5 : SizeSuffixes[i] = l) - 1 = k
  <2>1. k + 1 \in 1..5 /\ (k + 1) - 1 = k
    BY <1>0
  <2>2. (CHOOSE i \in 1..5 : SizeSuffixes[i] = l) = k + 1
    BY <1>1, <2>1
  <2> QED BY <2>1, <2>2
<1>3. k = 0 \/ k = 1 \/ k = 2 \/ k = 3 \/ k = 4
  BY <1>0
<1>4. /\ k = 0 => l = "b"
      /\ k = 1 => l = "k"
      /\ k = 2 => l = "m"
      /\ k = 3 => l = "g"
      /\ k = 4 => l = "t"
  BY <1>0, <1>3 DEF SizeSuffixes
<1>5. KILO \in Nat
  BY DEF KILO
<1>6. KILO * KILO \in Nat /\ KILO * KILO * KILO \in Nat /\ KILO * KILO * KILO * KILO \in Nat
  <2>1. \A a, b \in Nat : a * b \in Nat
    OBVIOUS
  <2> QED BY <1>5, <2>1, Zenon
<1>7. Factor(l) = Bytes(l)
  BY <1>2, <1>3, <1>4 DEF Factor, Bytes
<1>8. Bytes(l) \in Nat
  BY <1>3, <1>4, <1>6, <1>5 DEF Bytes
<1> QED
  BY <1>1, <1>7, <1>8

\* The kind a documented threshold has by its letter.
Read(l, rate) ==
  IF l = "%" THEN "percent" ELSE IF l = "c" THEN "temperature" ELSE IF rate THEN "speed" ELSE "size"

\* A documented threshold is read as it is written: its kind, its limit and its
\* comparator are those of the text.
LEMMA ReadAsWritten ==
  ASSUME NEW t \in Written, Documented(t), NEW l, l = Lower(t.unit[1])
  PROVE  /\ parse(t) = [kind |-> Read(l, t.rate), value |-> Limit(t), compare |-> t.op]
         /\ Limit(t) \in Nat /\ parse(t) # Unread
         /\ t.op \in Comparison /\ (l \in Suffix \/ l \in {"%", "c"})
         /\ l \in Suffix => l \notin {"%", "c"}
<1> DEFINE u == Lowered(t.unit)
<1>1. t.num \in Nat /\ t.rate \in BOOLEAN /\ t.op \in Comparison
  BY ThresholdAssumption DEF Written, Documented, Comparison
<1>2. DOMAIN t.unit = {1} /\ Len(u) = 1 /\ u = <<l>> /\ u[1] = l /\ DOMAIN u = {1}
  <2>1. PICK n \in 0..2 : t.unit \in [1..n -> Letter]
    BY DEF Written
  <2>2. DOMAIN t.unit = 1..n /\ Len(t.unit) = 1 /\ Len(t.unit) = n
    <3>1. \A x : x \in [1..n -> Letter] => Len(x) = n /\ DOMAIN x = 1..n
      OBVIOUS
    <3> QED BY <2>1, <3>1 DEF Documented
  <2>3. n = 1
    BY <2>1, <2>2
  <2>4. DOMAIN t.unit = {1}
    BY <2>2, <2>3
  <2>5. u = [i \in {1} |-> l]
    BY <2>4 DEF Lowered
  <2>6. u = <<l>>
    BY <2>5
  <2> QED BY <2>4, <2>6
<1>3. l \in Suffix \/ (l \in {"%", "c"} /\ ~t.rate)
  BY DEF Documented
<1>4. l \in Suffix => l \notin {"%", "c"}
  BY SuffixPlaces
<1> HIDE DEF u
<1>5. In("%", u) <=> l = "%"
  BY <1>2 DEF In
<1>6. TypeOf(u, t.rate) = Read(l, t.rate)
  <2>1. u # <<>>
    BY <1>2
  <2> QED BY <1>2, <1>3, <1>4, <1>5, <2>1 DEF TypeOf, Read
<1>7. Read(l, t.rate) \in Kind
  BY DEF Read, Kind
<1>8. ValueOf(Read(l, t.rate), t.num, u, t.rate) = Limit(t) /\ Limit(t) \in Nat
  <2>1. CASE l = "%"
    BY <1>1, <1>2, <1>3, <1>4, <2>1 DEF ValueOf, Read, Limit
  <2>2. CASE l = "c"
    BY <1>1, <1>2, <1>3, <1>4, <2>2 DEF ValueOf, Read, Limit
  <2>3. CASE l \in Suffix
    <3>1. PICK k : Place(l, k)
      BY <2>3, SuffixPlaces
    <3>2. /\ \A i \in 1..5 : SizeSuffixes[i] = l <=> i = k + 1
          /\ Factor(l) = Bytes(l)
          /\ Bytes(l) \in Nat
      BY <3>1, Factors, Zenon
    <3>3. Limit(t) = t.num * Bytes(l)
      BY <1>4, <2>3 DEF Limit
    <3>4. ValueOf(Read(l, t.rate), t.num, u, t.rate) = SizeOf(t.num, u)
      BY <1>4, <2>3 DEF ValueOf, Read
    <3>5. SizeOf(t.num, u) = t.num * Factor(l)
      <4> DEFINE found == {i \in 1..5 : In(SizeSuffixes[i], u)}
      <4>1. found = {k + 1}
        <5>1. \A i \in 1..5 : In(SizeSuffixes[i], u) <=> SizeSuffixes[i] = l
          BY <1>2 DEF In
        <5>3. k + 1 \in 1..5
          BY <3>1 DEF Place
        <5> QED BY <3>2, <5>1, <5>3
      <4>2. (CHOOSE i \in found : \A j \in found : i <= j) = k + 1
        <5>1. k + 1 \in Nat
          BY <3>1 DEF Place
        <5> QED BY <4>1, <5>1
      <4>3. SizeSuffixes[k + 1] = l
        BY <3>1 DEF Place
      <4>4. u # <<>> /\ found # {} /\ ~(\E i \in DOMAIN u : u[i] # l)
        BY <1>2, <4>1
      <4> QED BY <4>2, <4>3, <4>4 DEF SizeOf
    <3>6. t.num * Bytes(l) \in Nat
      BY <1>1, <3>2
    <3> QED BY <3>2, <3>3, <3>4, <3>5, <3>6, Zenon
  <2> QED BY <1>3, <2>1, <2>2, <2>3
<1>9. Comparator(t.op) = t.op
  BY <1>1 DEF Comparator, Comparison
<1>10. Unread \notin {Read(l, t.rate), Limit(t), t.op}
  BY <1>1, <1>7, <1>8, ThresholdAssumption
<1>11. parse(t) = [kind |-> Read(l, t.rate), value |-> Limit(t), compare |-> t.op]
  <2>1. TypeOf(u, t.rate) # Unread
    BY <1>6, <1>10
  <2> QED BY <1>6, <1>8, <1>9, <1>10, <2>1 DEF parse, u
<1>12. parse(t) \in Parsed
  BY <1>1, <1>7, <1>8, <1>11 DEF Parsed
<1> QED
  BY <1>1, <1>3, <1>4, <1>8, <1>11, <1>12, ThresholdAssumption

\* A comparison is true of the readings on the sides it names.
LEMMA OnItsSide ==
  ASSUME NEW x \in Int, NEW limit \in Nat, NEW op \in Comparison, NEW r, r.value = limit, r.compare = op
  PROVE  is_true(r, x) <=> Side(x, limit) \in Sides[op]
<1>1. /\ Sides["<"] = {"below"} /\ Sides["<="] = {"below", "at"} /\ Sides["="] = {"at"}
      /\ Sides[">="] = {"at", "above"} /\ Sides[">"] = {"above"}
  BY DEF Sides
<1>2. CASE op = "<"
  BY <1>1, <1>2 DEF is_true, Side
<1>3. CASE op = "<="
  BY <1>1, <1>3 DEF is_true, Side
<1>4. CASE op = "="
  BY <1>1, <1>4 DEF is_true, Side
<1>5. CASE op = ">="
  BY <1>1, <1>5 DEF is_true, Side
<1>6. CASE op = ">"
  BY <1>1, <1>6 DEF is_true, Side
<1> QED
  BY <1>2, <1>3, <1>4, <1>5, <1>6 DEF Comparison

\* What a check of the rule can rely on: a percentage or a temperature is read
\* as one, and the answer is should_alert's.
RuleInv ==
  /\ monitor \in Monitor /\ threshold \in Written /\ reading \in Nat \cup {Unread}
  /\ monitor # "network" => reading \in {Unread} \cup 0..100
  /\ alert \in {"unchecked", "yes", "no"}
  /\ alert # "unchecked" => (alert = "yes" <=> should_alert)

\* It holds of the rules that are configured.
LEMMA RuleInvInit == RuleInit => RuleInv
<1> SUFFICES ASSUME RuleInit PROVE RuleInv
  OBVIOUS
<1>1. reading \in Nat \cup {Unread}
  BY ThresholdAssumption DEF RuleInit
<1>2. /\ monitor \in Monitor /\ threshold \in Written /\ alert = "unchecked"
      /\ monitor # "network" => reading \in {Unread} \cup 0..100
  BY DEF RuleInit
<1> QED
  BY <1>1, <1>2 DEF RuleInv

\* A check and a save keep it.
LEMMA RuleInvStep == RuleInv /\ [RuleNext]_ruleVars => RuleInv'
<1> SUFFICES ASSUME RuleInv, [RuleNext]_ruleVars PROVE RuleInv'
  OBVIOUS
<1>1. /\ monitor' = monitor /\ threshold' = threshold /\ reading' = reading
      /\ \/ alert' = alert
         \/ alert' = IF should_alert THEN "yes" ELSE "no"
  BY DEF RuleNext, CheckRule, SaveRule, ruleVars
<1>2. should_alert' <=> should_alert
  BY <1>1 DEF should_alert, should_trigger
<1>3. CASE alert' = alert
  BY <1>1, <1>2, <1>3, Zenon DEF RuleInv
<1>4. CASE alert' = IF should_alert THEN "yes" ELSE "no"
  <2>1. alert' \in {"unchecked", "yes", "no"} /\ (alert' = "yes" <=> should_alert)
    BY <1>4
  <2> QED BY <1>1, <1>2, <2>1, Zenon DEF RuleInv
<1> QED
  BY <1>1, <1>3, <1>4

\* A documented threshold triggers on the kinds it is asked of, of readings on
\* its side of its limit.
LEMMA TriggersAsWritten ==
  ASSUME NEW kinds, NEW x \in Int, threshold \in Written, Documented(threshold)
  PROVE  should_trigger(kinds, x) <=>
           /\ Read(Lower(threshold.unit[1]), threshold.rate) \in kinds
           /\ Side(x, Limit(threshold)) \in Sides[threshold.op]
<1> DEFINE l == Lower(threshold.unit[1])
           r == [kind |-> Read(l, threshold.rate), value |-> Limit(threshold),
                 compare |-> threshold.op]
<1>1. /\ parse(threshold) = r
      /\ Limit(threshold) \in Nat /\ parse(threshold) # Unread
      /\ threshold.op \in Comparison
  BY ReadAsWritten
<1>2. r.kind = Read(l, threshold.rate) /\ r.value = Limit(threshold) /\ r.compare = threshold.op
  OBVIOUS
<1> HIDE DEF r
<1>3. is_true(r, x) <=> Side(x, Limit(threshold)) \in Sides[threshold.op]
  BY <1>1, <1>2, OnItsSide
<1>4. should_trigger(kinds, x) <=> (r.kind \in kinds /\ is_true(r, x))
  BY <1>1, Zenon DEF should_trigger
<1> QED
  BY <1>2, <1>3, <1>4, Zenon DEF l

\* From it, that a rule alerts as its threshold is written.
LEMMA AlertsFollow == RuleInv => AlertsAsWritten
<1> SUFFICES ASSUME RuleInv, alert # "unchecked", reading # Unread, Documented(threshold)
             PROVE  alert = "yes" <=>
                      /\ (Lower(threshold.unit[1]) \in Suffix) <=> (monitor = "network")
                      /\ Side(IF monitor = "free" THEN 100 - reading ELSE reading,
                              Limit(threshold)) \in Sides[threshold.op]
  BY DEF AlertsAsWritten
<1> DEFINE l == Lower(threshold.unit[1])
           sided(x) == Side(x, Limit(threshold)) \in Sides[threshold.op]
<1>1. /\ monitor \in Monitor /\ threshold \in Written /\ reading \in Nat
      /\ monitor # "network" => reading <= 100
      /\ alert = "yes" <=> should_alert
  <2>1. 0..100 \subseteq Nat /\ \A n \in 0..100 : n <= 100
    OBVIOUS
  <2> QED BY <2>1, Zenon DEF RuleInv
<1>2. (l \in Suffix \/ l \in {"%", "c"}) /\ (l \in Suffix => l \notin {"%", "c"})
  BY <1>1, ReadAsWritten
<1>3. /\ Read(l, threshold.rate) \in Percents <=> l \notin Suffix
      /\ Read(l, threshold.rate) \in {"speed", "size"} <=> l \in Suffix
  BY <1>2 DEF Read, Percents
<1>4. reading \in Int /\ 100 - reading \in Int
  BY <1>1
<1>5. \A kinds : /\ should_trigger(kinds, reading) <=>
                      (Read(l, threshold.rate) \in kinds /\ sided(reading))
                 /\ should_trigger(kinds, 100 - reading) <=>
                      (Read(l, threshold.rate) \in kinds /\ sided(100 - reading))
  BY <1>1, <1>4, TriggersAsWritten
<1> HIDE DEF l, sided
<1>6. CASE monitor = "network"
  <2>1. should_alert <=> should_trigger({"speed", "size"}, reading)
    BY <1>6 DEF should_alert
  <2>2. alert = "yes" <=> (l \in Suffix /\ sided(reading))
    BY <1>1, <1>3, <1>5, <2>1, Zenon
  <2> QED BY <1>6, <2>2 DEF l, sided
<1>7. CASE monitor = "free"
  <2>1. should_alert <=> should_trigger(Percents, 100 - reading)
    BY <1>1, <1>7 DEF should_alert
  <2>2. alert = "yes" <=> (l \notin Suffix /\ sided(100 - reading))
    BY <1>1, <1>3, <1>5, <2>1, Zenon
  <2> QED BY <1>7, <2>2 DEF l, sided
<1>8. CASE monitor \in {"cpu", "core", "temperature"}
  <2>1. should_alert <=> should_trigger(Percents, reading)
    BY <1>8 DEF should_alert
  <2>2. alert = "yes" <=> (l \notin Suffix /\ sided(reading))
    BY <1>1, <1>3, <1>5, <2>1, Zenon
  <2> QED BY <1>8, <2>2 DEF l, sided
<1> QED
  BY <1>1, <1>6, <1>7, <1>8 DEF Monitor

\* A rule alerts exactly when its reading stands where its threshold says
\* (Threshold::parse and is_true, and the checks of rules.rs).
THEOREM RuleTheorem == RuleSpec => []AlertsAsWritten
<1> QED
  BY RuleInvInit, RuleInvStep, AlertsFollow, PTL DEF RuleSpec

-----------------------------------------------------------------------------
(* The command directory.                                                  *)

\* The file system calls of a plan.
Steps == [op : {"clear", "mkdir", "remove", "rename"}] \cup [op : {"open", "fill"}, file : Nat]

\* What a writer has still to do is the rest of its plan.
Following(w) ==
  \/ todo[w] = <<>>
  \/ \E k \in 1..Len(Plan(w)) : todo[w] = SubSeq(Plan(w), k, Len(Plan(w)))

\* What it has beside the directory is whole, but for a file it has open.
AsideOf(w) ==
  todo[w] # <<>> =>
    LET op == Head(todo[w]).op IN
    /\ op \in {"mkdir", "open", "remove", "rename"} => Whole(aside)
    /\ op = "fill" =>
         /\ opened[w] = "aside"
         /\ \A n \in Files(aside) :
              IF n = Head(todo[w]).file THEN aside[n] = Torn ELSE aside[n] \in Texts

\* One writer is at work, or none.
Lone == \A v, w \in Writer : todo[v] # <<>> /\ todo[w] # <<>> => v = w

\* Every writer is within its plan.
Plans == todo = [w \in Writer |-> todo[w]] /\ \A w \in Writer : Following(w)

\* What holds while writers take turns and what they leave can be removed.
WholeInv ==
  /\ Plans /\ Lone /\ opened = [w \in Writer |-> opened[w]]
  /\ \A w \in Writer : AsideOf(w)
  /\ Whole(folder) /\ ranIt \in Seq(Texts \cup {Skipped})

CommandInv == Plans /\ (shared \/ littered \/ WholeInv)

\* The steps of a plan, and which comes after which.
LEMMA PlanIs ==
  ASSUME NEW w \in Writer
  PROVE  /\ Plan(w) \in Seq(Steps) /\ Len(Plan(w)) \in Nat /\ Len(Plan(w)) >= 4
         /\ Plan(w)[1].op = "clear"
         /\ \A k \in 1..Len(Plan(w)) :
              LET this == Plan(w)[k]  next == Plan(w)[k + 1] IN
              /\ k = Len(Plan(w)) => this.op = "rename"
              /\ this.op = "clear" => k < Len(Plan(w)) /\ next.op = "mkdir"
              /\ this.op = "mkdir" => k < Len(Plan(w)) /\ next.op \in {"open", "remove"}
              /\ this.op = "open" => k < Len(Plan(w)) /\ next.op = "fill" /\ next.file = this.file
              /\ this.op = "fill" => k < Len(Plan(w)) /\ next.op \in {"open", "remove"}
              /\ this.op = "remove" => k < Len(Plan(w)) /\ next.op = "rename"
              /\ this.op = "rename" => k = Len(Plan(w))
<1> DEFINE N == Len(Named(w))
           P == <<[op |-> "clear"], [op |-> "mkdir"]>>
           M == [i \in 1..2 * N |-> [op   |-> IF i % 2 = 1 THEN "open" ELSE "fill",
                                     file |-> Named(w)[(i + 1) \div 2]]]
           E == <<[op |-> "remove"], [op |-> "rename"]>>
<1>1. Named(w) \in Seq(Nat) /\ N \in Nat
  BY CommandsAssumption
<1>2. \A i \in 1..2 * N : (i + 1) \div 2 \in 1..N
  <2>1. ASSUME NEW m \in Nat, NEW i \in 1..2 * m PROVE (i + 1) \div 2 \in 1..m
    OBVIOUS
  <2> QED BY <1>1, <2>1
<1>3. M \in Seq(Steps) /\ Len(M) = 2 * N /\ DOMAIN M = 1..2 * N
  <2>1. \A i \in 1..2 * N : M[i] \in Steps
    BY <1>1, <1>2 DEF Steps
  <2>2. 2 * N \in Nat
    BY <1>1
  <2> QED BY <2>1, <2>2
<1>4. P \in Seq(Steps) /\ E \in Seq(Steps) /\ Len(P) = 2 /\ Len(E) = 2
  BY DEF Steps
<1>5. Plan(w) = (P \o M) \o E
  BY DEF Plan
<1>6. /\ P[1].op = "clear" /\ P[2].op = "mkdir" /\ E[1].op = "remove" /\ E[2].op = "rename"
      /\ \A i \in 1..2 * N : i % 2 = 1 => M[i].op = "open" /\ M[i].file = Named(w)[(i + 1) \div 2]
      /\ \A i \in 1..2 * N : i % 2 # 1 => M[i].op = "fill" /\ M[i].file = Named(w)[(i + 1) \div 2]
  OBVIOUS
<1> DEFINE Q == Plan(w)
<1> HIDE DEF P, M, E, N, Q
<1>0. ASSUME NEW S, NEW a \in Seq(S), NEW b \in Seq(S)
      PROVE  /\ a \o b \in Seq(S) /\ Len(a \o b) = Len(a) + Len(b)
             /\ \A i \in 1..Len(a) + Len(b) : (a \o b)[i] = IF i <= Len(a) THEN a[i] ELSE b[i - Len(a)]
  OBVIOUS
<1>7. P \o M \in Seq(Steps) /\ Len(P \o M) = 2 + 2 * N
      /\ \A i \in 1..2 + 2 * N : (P \o M)[i] = IF i <= 2 THEN P[i] ELSE M[i - 2]
  <2> DEFINE F == P \o M
  <2>1. F \in Seq(Steps) /\ Len(F) = Len(P) + Len(M)
        /\ \A i \in 1..Len(P) + Len(M) : F[i] = IF i <= Len(P) THEN P[i] ELSE M[i - Len(P)]
    BY <1>0, <1>3, <1>4, Zenon
  <2> HIDE DEF F
  <2>2. F \in Seq(Steps) /\ Len(F) = 2 + 2 * N
        /\ \A i \in 1..2 + 2 * N : F[i] = IF i <= 2 THEN P[i] ELSE M[i - 2]
    <3>1. Len(P) + Len(M) = 2 + 2 * N /\ Len(P) = 2
      BY <1>3, <1>4
    <3> QED BY <2>1, <3>1
  <2> QED BY <2>2 DEF F
<1>8. Q \in Seq(Steps) /\ Len(Q) = 4 + 2 * N
      /\ \A i \in 1..4 + 2 * N : Q[i] = IF i <= 2 + 2 * N THEN (P \o M)[i] ELSE E[i - (2 + 2 * N)]
  <2> DEFINE F == P \o M
  <2>1. F \in Seq(Steps) /\ Q = F \o E /\ Len(F) = 2 + 2 * N /\ E \in Seq(Steps) /\ Len(E) = 2
    BY <1>4, <1>5, <1>7 DEF Q
  <2>2. (2 + 2 * N) + 2 = 4 + 2 * N
    BY <1>1
  <2> HIDE DEF F
  <2>3. Q \in Seq(Steps) /\ Len(Q) = 4 + 2 * N
        /\ \A i \in 1..4 + 2 * N : Q[i] = IF i <= 2 + 2 * N THEN F[i] ELSE E[i - (2 + 2 * N)]
    <3>1. Q \in Seq(Steps) /\ Len(Q) = Len(F) + Len(E)
          /\ \A i \in 1..Len(F) + Len(E) : Q[i] = IF i <= Len(F) THEN F[i] ELSE E[i - Len(F)]
      BY <1>0, <2>1, Zenon
    <3>2. Len(F) + Len(E) = 4 + 2 * N /\ Len(F) = 2 + 2 * N
      BY <2>1, <2>2
    <3> QED BY <3>1, <3>2
  <2> QED BY <2>3 DEF F
<1>9. /\ Q[1].op = "clear" /\ Q[2].op = "mkdir"
      /\ Q[3 + 2 * N].op = "remove" /\ Q[4 + 2 * N].op = "rename"
      /\ \A i \in 1..2 * N : Q[i + 2] = M[i]
  <2> DEFINE F == P \o M
  <2>1. \A i \in 1..2 + 2 * N : F[i] = IF i <= 2 THEN P[i] ELSE M[i - 2]
    BY <1>7
  <2>2. \A i \in 1..4 + 2 * N : Q[i] = IF i <= 2 + 2 * N THEN F[i] ELSE E[i - (2 + 2 * N)]
    BY <1>8
  <2> HIDE DEF F
  <2>3. Q[1] = P[1] /\ Q[2] = P[2] /\ Q[3 + 2 * N] = E[1] /\ Q[4 + 2 * N] = E[2]
    BY <1>1, <2>1, <2>2
  <2>4. ASSUME NEW i \in 1..2 * N PROVE Q[i + 2] = M[i]
    <3>1. i + 2 \in 1..2 + 2 * N /\ i + 2 \in 1..4 + 2 * N /\ i + 2 <= 2 + 2 * N /\ ~(i + 2 <= 2)
          /\ (i + 2) - 2 = i
      BY <1>1
    <3> QED BY <2>1, <2>2, <3>1
  <2> QED BY <1>6, <2>3, <2>4
<1>10. ASSUME NEW i \in 1..2 * N
       PROVE  /\ i % 2 = 1 => i < 2 * N /\ (i + 1) % 2 # 1 /\ (i + 2) \div 2 = (i + 1) \div 2
              /\ i % 2 # 1 => i = 2 * N \/ ((i + 1) % 2 = 1 /\ i < 2 * N)
  <2>1. ASSUME NEW m \in Nat, NEW j \in 1..2 * m
        PROVE  /\ j % 2 = 1 => j < 2 * m /\ (j + 1) % 2 # 1 /\ (j + 2) \div 2 = (j + 1) \div 2
               /\ j % 2 # 1 => j = 2 * m \/ ((j + 1) % 2 = 1 /\ j < 2 * m)
    OBVIOUS
  <2> QED BY <1>1, <2>1, Zenon
<1>11. ASSUME NEW k \in 1..Len(Q)
       PROVE  /\ k = Len(Q) => Q[k].op = "rename"
              /\ Q[k].op = "clear" => k < Len(Q) /\ Q[k + 1].op = "mkdir"
              /\ Q[k].op = "mkdir" => k < Len(Q) /\ Q[k + 1].op \in {"open", "remove"}
              /\ Q[k].op = "open" => k < Len(Q) /\ Q[k + 1].op = "fill" /\ Q[k + 1].file = Q[k].file
              /\ Q[k].op = "fill" => k < Len(Q) /\ Q[k + 1].op \in {"open", "remove"}
              /\ Q[k].op = "remove" => k < Len(Q) /\ Q[k + 1].op = "rename"
              /\ Q[k].op = "rename" => k = Len(Q)
  <2>1. CASE k = 1
    <3>1. k < Len(Q) /\ k # Len(Q) /\ k + 1 = 2
      BY <1>1, <1>8, <2>1
    <3>2. Q[k].op = "clear" /\ Q[k + 1].op = "mkdir"
      BY <1>9, <2>1, <3>1, Zenon
    <3> QED BY <3>1, <3>2
  <2>2. CASE k = 2
    <3>1. Q[3].op \in {"open", "remove"}
      <4>1. CASE N = 0
        BY <1>9, <4>1
      <4>2. CASE N # 0
        <5>1. 1 \in 1..2 * N /\ 1 % 2 = 1
          BY <1>1, <4>2
        <5>2. Q[1 + 2] = M[1] /\ M[1].op = "open"
          BY <1>6, <1>9, <5>1, Zenon
        <5> QED BY <5>2
      <4> QED BY <4>1, <4>2
    <3>2. k < Len(Q) /\ k # Len(Q) /\ k + 1 = 3
      BY <1>1, <1>8, <2>2
    <3>3. Q[k].op = "mkdir" /\ Q[k + 1].op \in {"open", "remove"}
      BY <1>9, <2>2, <3>1, <3>2, Zenon
    <3> QED BY <3>2, <3>3
  <2>3. CASE k = 3 + 2 * N
    <3>1. k < Len(Q) /\ k # Len(Q) /\ k + 1 = 4 + 2 * N
      BY <1>1, <1>8, <2>3
    <3>2. Q[k].op = "remove" /\ Q[k + 1].op = "rename"
      BY <1>9, <2>3, <3>1, Zenon
    <3> QED BY <3>1, <3>2
  <2>4. CASE k = 4 + 2 * N
    <3>1. k = Len(Q) /\ Q[k].op = "rename"
      BY <1>8, <1>9, <2>4, Zenon
    <3> QED BY <3>1
  <2>5. CASE k \in 3..2 + 2 * N
    <3> DEFINE i == k - 2
    <3>1. i \in 1..2 * N /\ k = i + 2 /\ k < Len(Q) /\ k # Len(Q) /\ k \in Int
      BY <1>1, <1>8, <2>5
    <3>2. Q[k] = M[i]
      BY <1>9, <3>1
    <3> HIDE DEF i
    <3>3. CASE i % 2 = 1
      <4>1. i < 2 * N /\ (i + 1) % 2 # 1 /\ (i + 2) \div 2 = (i + 1) \div 2
        BY <1>10, <3>1, <3>3, Zenon
      <4>2. i + 1 \in 1..2 * N /\ (i + 1) + 2 = k + 1 /\ (i + 1) + 1 = i + 2
        BY <1>1, <3>1, <4>1
      <4>3. Q[k + 1] = M[i + 1]
        BY <1>9, <4>2
      <4>4. M[i].op = "open" /\ M[i].file = Named(w)[(i + 1) \div 2]
        BY <1>6, <3>1, <3>3, Zenon
      <4>5. M[i + 1].op = "fill" /\ M[i + 1].file = Named(w)[((i + 1) + 1) \div 2]
        BY <1>6, <4>1, <4>2, Zenon
      <4>6. M[i + 1].file = M[i].file
        BY <4>1, <4>2, <4>4, <4>5, Zenon
      <4> QED BY <3>1, <3>2, <4>3, <4>4, <4>5, <4>6
    <3>4. CASE i % 2 # 1
      <4>1. i = 2 * N \/ ((i + 1) % 2 = 1 /\ i < 2 * N)
        BY <1>10, <3>1, <3>4, Zenon
      <4>2. M[i].op = "fill"
        BY <1>6, <3>1, <3>4, Zenon
      <4>3. Q[k + 1].op \in {"open", "remove"}
        <5>1. CASE i = 2 * N
          BY <1>1, <1>9, <3>1, <5>1
        <5>2. CASE (i + 1) % 2 = 1 /\ i < 2 * N
          <6>1. i + 1 \in 1..2 * N /\ (i + 1) + 2 = k + 1
            BY <1>1, <3>1, <5>2
          <6>2. M[i + 1].op = "open"
            BY <1>6, <5>2, <6>1, Zenon
          <6> QED BY <1>9, <6>1, <6>2
        <5> QED BY <4>1, <5>1, <5>2
      <4> QED BY <3>1, <3>2, <4>2, <4>3
    <3> QED BY <3>3, <3>4
  <2> QED BY <1>1, <1>8, <2>1, <2>2, <2>3, <2>4, <2>5
<1>12. Len(Q) \in Nat /\ Len(Q) >= 4
  BY <1>1, <1>8
<1> QED
  BY <1>8, <1>9, <1>11, <1>12 DEF Q

\* The first of the rest of a plan, and what is left after it.
LEMMA RestOf ==
  ASSUME NEW S, NEW s \in Seq(S), NEW k \in 1..Len(s)
  PROVE  /\ SubSeq(s, k, Len(s)) # <<>> /\ Head(SubSeq(s, k, Len(s))) = s[k]
         /\ Tail(SubSeq(s, k, Len(s))) = SubSeq(s, k + 1, Len(s))
         /\ k = Len(s) => SubSeq(s, k + 1, Len(s)) = <<>>
<1> DEFINE t == SubSeq(s, k, Len(s))  u == SubSeq(s, k + 1, Len(s))
<1>1. Len(s) \in Nat /\ k \in Nat
  OBVIOUS
<1>2. t \in Seq(S) /\ Len(t) = Len(s) - k + 1 /\ \A i \in 1..Len(t) : t[i] = s[k + i - 1]
  OBVIOUS
<1>3. u \in Seq(S) /\ Len(u) = Len(s) - k /\ \A i \in 1..Len(u) : u[i] = s[k + i]
  BY <1>1
<1> HIDE DEF t, u
<1>4. t # <<>> /\ Head(t) = s[k]
  BY <1>1, <1>2
<1>5. Tail(t) = u
  <2>1. Tail(t) \in Seq(S) /\ Len(Tail(t)) = Len(t) - 1
        /\ \A i \in 1..Len(t) - 1 : Tail(t)[i] = t[i + 1]
    BY <1>2, <1>4
  <2>2. Len(Tail(t)) = Len(u)
    <3>1. Len(Tail(t)) = (Len(s) - k + 1) - 1 /\ Len(u) = Len(s) - k
      BY <1>2, <1>3, <2>1, Zenon
    <3>2. (Len(s) - k + 1) - 1 = Len(s) - k
      BY <1>1
    <3> QED BY <3>1, <3>2, Zenon
  <2>3. ASSUME NEW i \in 1..Len(u) PROVE Tail(t)[i] = u[i]
    <3>1. i \in 1..Len(t) - 1 /\ i + 1 \in 1..Len(t) /\ k + (i + 1) - 1 = k + i
      BY <1>1, <1>2, <1>3
    <3>2. Tail(t)[i] = t[i + 1] /\ t[i + 1] = s[k + (i + 1) - 1] /\ u[i] = s[k + i]
      BY <1>2, <1>3, <2>1, <3>1, Zenon
    <3> QED BY <3>1, <3>2, Zenon
  <2> QED BY <1>3, <2>1, <2>2, <2>3, SeqEqual
<1>6. k = Len(s) => u = <<>>
  BY <1>1, <1>3
<1> QED
  BY <1>4, <1>5, <1>6 DEF t, u

\* Where a writer is once it has done a step of its plan, if it goes on.
LEMMA GoesOn ==
  ASSUME NEW w \in Writer, Following(w), todo = [v \in Writer |-> todo[v]], todo[w] # <<>>, Done(w)
  PROVE  /\ Following(w)'
         /\ LET op == Head(todo[w]).op  next == Head(todo'[w]) IN
            /\ op \in {"clear", "mkdir", "open", "fill", "remove"} => todo'[w] # <<>>
            /\ op = "clear" => next.op = "mkdir"
            /\ op \in {"mkdir", "fill"} => next.op \in {"open", "remove"}
            /\ op = "open" => next.op = "fill" /\ next.file = Head(todo[w]).file
            /\ op = "remove" => next.op = "rename"
            /\ op = "rename" => todo'[w] = <<>>
<1> DEFINE P == Plan(w)
<1>1. PICK k \in 1..Len(P) : todo[w] = SubSeq(P, k, Len(P))
  BY DEF Following
<1>2. todo'[w] = Tail(todo[w])
  BY DEF Done
<1>3. /\ P \in Seq(Steps) /\ Len(P) \in Nat
      /\ k = Len(P) => P[k].op = "rename"
      /\ P[k].op = "clear" => k < Len(P) /\ P[k + 1].op = "mkdir"
      /\ P[k].op = "mkdir" => k < Len(P) /\ P[k + 1].op \in {"open", "remove"}
      /\ P[k].op = "open" => k < Len(P) /\ P[k + 1].op = "fill" /\ P[k + 1].file = P[k].file
      /\ P[k].op = "fill" => k < Len(P) /\ P[k + 1].op \in {"open", "remove"}
      /\ P[k].op = "remove" => k < Len(P) /\ P[k + 1].op = "rename"
      /\ P[k].op = "rename" => k = Len(P)
  BY PlanIs
<1> HIDE DEF P
<1>4. Head(todo[w]) = P[k] /\ todo'[w] = SubSeq(P, k + 1, Len(P))
      /\ (k = Len(P) => todo'[w] = <<>>)
  BY <1>1, <1>2, <1>3, RestOf
<1>5. CASE k = Len(P)
  BY <1>3, <1>4, <1>5 DEF Following
<1>6. CASE k < Len(P)
  <2>1. k + 1 \in 1..Len(P)
    BY <1>3, <1>6
  <2>2. todo'[w] # <<>> /\ Head(todo'[w]) = P[k + 1]
    BY <1>3, <1>4, <2>1, RestOf
  <2>3. Following(w)'
    <3>1. Plan(w)' = P
      BY DEF Plan, P
    <3> QED BY <1>4, <2>1, <3>1 DEF Following, P
  <2> QED BY <1>3, <1>4, <1>6, <2>2, <2>3
<1> QED
  BY <1>3, <1>5, <1>6

\* A plan that is new begins with clearing.
LEMMA Begins ==
  ASSUME NEW w \in Writer, todo = [v \in Writer |-> todo[v]], todo' = [todo EXCEPT ![w] = Plan(w)]
  PROVE  Following(w)' /\ Head(todo'[w]).op = "clear"
<1> DEFINE P == Plan(w)
<1>1. P \in Seq(Steps) /\ Len(P) \in Nat /\ Len(P) >= 4 /\ P[1].op = "clear"
  BY PlanIs
<1>2. todo'[w] = P
  OBVIOUS
<1> HIDE DEF P
<1>3. SubSeq(P, 1, Len(P)) = P /\ Head(P) = P[1] /\ 1 \in 1..Len(P)
  BY <1>1
<1>4. Plan(w)' = P
  BY DEF Plan, P
<1> QED
  BY <1>1, <1>2, <1>3, <1>4 DEF Following

\* A file less, or none, leaves a directory whole.
LEMMA WholeWithout ==
  /\ \A d : \A n \in Files(d) : Whole(d) => Whole(Without(d, n))
  /\ Whole(Gone) /\ Whole(<<>>)
<1>1. ASSUME NEW d, NEW n \in Files(d), Whole(d) PROVE Whole(Without(d, n))
  <2>1. d # Gone /\ DOMAIN Without(d, n) = DOMAIN d \ {n}
        /\ \A m \in DOMAIN d \ {n} : Without(d, n)[m] = d[m]
    BY DEF Without, Files
  <2> QED BY <1>1, <2>1 DEF Whole, Files
<1>2. Whole(Gone)
  BY DEF Whole, Files
<1>3. DOMAIN <<>> = {}
  OBVIOUS
<1>4. Whole(<<>>)
  BY <1>3 DEF Whole, Files
<1> QED
  BY <1>1, <1>2, <1>4

\* Filling the one file that is torn leaves the directory whole.
LEMMA WholeFilled ==
  ASSUME NEW d, NEW n \in Files(d), NEW w \in Writer, \A m \in Files(d) : m # n => d[m] \in Texts
  PROVE  Whole(With(d, n, w))
<1>1. d # Gone /\ DOMAIN With(d, n, w) = DOMAIN d
      /\ \A m \in DOMAIN d : With(d, n, w)[m] = IF m = n THEN w ELSE d[m]
  BY DEF With, Files
<1>2. ASSUME NEW m \in DOMAIN d PROVE With(d, n, w)[m] \in Texts
  BY <1>1 DEF Files, Texts
<1> QED
  BY <1>1, <1>2 DEF Whole, Files

\* What a step does to what a writer still has to do.
MovesOn(w) ==
  \/ UNCHANGED todo
  \/ Failed(w)
  \/ Done(w) /\ todo[w] # <<>>
  \/ todo' = [todo EXCEPT ![w] = Plan(w)]

\* Every step is one of the script or moves one writer on, and what happened to
\* writers is remembered.
LEMMA CommandMoves ==
  ASSUME [CommandsNext]_commandVars
  PROVE  /\ UNCHANGED todo \/ \E w \in Writer : MovesOn(w)
         /\ shared => shared'
         /\ littered => littered'
<1>1. ASSUME NEW w \in Writer, Replace(w) PROVE MovesOn(w) /\ (shared => shared') /\ littered' = littered
  BY <1>1, Zenon DEF Replace, MovesOn
<1>2. ASSUME NEW w \in Writer, ClearFails(w) PROVE MovesOn(w) /\ shared' = shared /\ (littered => littered')
  BY <1>2, Zenon DEF ClearFails, Op, MovesOn
<1>4. ASSUME NEW w \in Writer, Clear(w) \/ Mkdir(w) \/ Open(w) \/ Fill(w) \/ RemoveOld(w)
               \/ RemoveOldFails(w) \/ Rename(w) \/ Dies(w)
      PROVE  MovesOn(w) /\ shared' = shared /\ littered' = littered
  <2>1. CASE Clear(w)
    BY <2>1, Zenon DEF Clear, Op, MovesOn
  <2>2. CASE Mkdir(w)
    BY <2>2, Zenon DEF Mkdir, Op, MovesOn
  <2>3. CASE Open(w)
    BY <2>3, Zenon DEF Open, Op, MovesOn
  <2>4. CASE Fill(w)
    BY <2>4, Zenon DEF Fill, Op, MovesOn
  <2>5. CASE RemoveOld(w)
    BY <2>5, Zenon DEF RemoveOld, Op, MovesOn
  <2>6. CASE RemoveOldFails(w)
    BY <2>6, Zenon DEF RemoveOldFails, Op, MovesOn
  <2>7. CASE Rename(w)
    BY <2>7, Zenon DEF Rename, Op, MovesOn
  <2>8. CASE Dies(w)
    BY <2>8, Zenon DEF Dies, MovesOn
  <2> QED BY <1>4, <2>1, <2>2, <2>3, <2>4, <2>5, <2>6, <2>7, <2>8
<1>3. ASSUME Expand \/ Run \/ UNCHANGED commandVars
      PROVE  UNCHANGED <<todo, shared, littered>>
  BY <1>3 DEF Expand, Run, commandVars
<1> QED
  BY <1>1, <1>2, <1>3, <1>4 DEF CommandsNext

\* Every writer stays within its plan.
LEMMA PlansStep == ASSUME Plans, [CommandsNext]_commandVars PROVE Plans'
<1>1. CASE UNCHANGED todo
  BY <1>1 DEF Plans, Following, Plan
<1>2. ASSUME NEW w \in Writer, MovesOn(w) PROVE Plans'
  <2>1. todo = [v \in Writer |-> todo[v]] /\ Following(w)
    BY DEF Plans
  <2>2. CASE UNCHANGED todo
    BY <1>1, <2>2
  <2>3. ASSUME NEW r, todo' = [todo EXCEPT ![w] = r], Following(w)' PROVE Plans'
    <3>1. todo' = [v \in Writer |-> todo'[v]] /\ \A v \in Writer \ {w} : todo'[v] = todo[v]
      BY <2>1, <2>3
    <3>2. \A v \in Writer : Following(v)'
      BY <2>3, <3>1 DEF Plans, Following, Plan
    <3> QED BY <3>1, <3>2 DEF Plans
  <2>4. CASE Failed(w)
    <3>1. todo' = [todo EXCEPT ![w] = <<>>] /\ todo'[w] = <<>>
      BY <2>1, <2>4 DEF Failed
    <3> QED BY <2>3, <3>1 DEF Following
  <2>5. CASE Done(w) /\ todo[w] # <<>>
    <3>1. Following(w)' /\ todo' = [todo EXCEPT ![w] = Tail(todo[w])]
      BY <2>1, <2>5, GoesOn DEF Done
    <3> QED BY <2>3, <3>1
  <2>6. CASE todo' = [todo EXCEPT ![w] = Plan(w)]
    BY <2>1, <2>3, <2>6, Begins
  <2> QED BY <1>2, <2>2, <2>4, <2>5, <2>6 DEF MovesOn
<1> QED
  BY <1>1, <1>2, CommandMoves

\* A step of the one writer at work, or of the script, keeps what is installed
\* whole.
LEMMA WholeStep ==
  ASSUME WholeInv, [CommandsNext]_commandVars, ~shared', ~littered'
  PROVE  WholeInv'
<1>0. /\ todo = [w \in Writer |-> todo[w]] /\ Whole(folder) /\ ranIt \in Seq(Texts \cup {Skipped})
      /\ opened = [w \in Writer |-> opened[w]]
      /\ Torn \notin Texts \cup {Skipped}
      /\ \A w \in Writer : Following(w) /\ AsideOf(w)
      /\ Plans' /\ ~shared /\ ~littered
  BY CommandsAssumption, PlansStep, CommandMoves DEF WholeInv, Plans, Texts
\* The one writer at work.
<1>1. ASSUME NEW w \in Writer, \A v \in Writer \ {w} : todo[v] = <<>>, AsideOf(w)', Whole(folder)',
             ranIt' = ranIt, opened' = [v \in Writer |-> opened'[v]],
             \E r : todo' = [todo EXCEPT ![w] = r]
      PROVE  WholeInv'
  <2>1. PICK r : todo' = [todo EXCEPT ![w] = r]
    BY <1>1
  <2>2. \A v \in Writer \ {w} : todo'[v] = <<>>
    BY <1>0, <1>1, <2>1
  <2>3. Lone' /\ \A v \in Writer : AsideOf(v)'
    BY <1>1, <2>2 DEF Lone, AsideOf
  <2> QED BY <1>0, <1>1, <2>3 DEF WholeInv
<1>a. ASSUME NEW w \in Writer, todo[w] # <<>> PROVE \A v \in Writer \ {w} : todo[v] = <<>>
  BY <1>a DEF WholeInv, Lone
<1>2. ASSUME NEW w \in Writer, Replace(w) PROVE WholeInv'
  <2>1. todo' = [todo EXCEPT ![w] = Plan(w)] /\ UNCHANGED <<folder, aside, opened, glob, ranIt>>
        /\ \A v \in Writer \ {w} : todo[v] = <<>>
    BY <1>2 DEF Replace
  <2>2. Following(w)' /\ Head(todo'[w]).op = "clear"
    BY <1>0, <2>1, Begins
  <2>3. AsideOf(w)'
    BY <2>2 DEF AsideOf
  <2>4. Whole(folder)' /\ opened' = [v \in Writer |-> opened'[v]]
    BY <1>0, <2>1 DEF Whole, Files, Texts
  <2>5. ranIt' = ranIt /\ \E r : todo' = [todo EXCEPT ![w] = r]
    BY <2>1
  <2> QED BY <1>1, <2>1, <2>3, <2>4, <2>5
<1>3. ASSUME NEW w \in Writer, Failed(w), todo[w] # <<>>, Whole(folder)', ranIt' = ranIt, opened' = opened
      PROVE  WholeInv'
  <2>1. todo' = [todo EXCEPT ![w] = <<>>]
    BY <1>3 DEF Failed
  <2>2. todo'[w] = <<>>
    BY <1>0, <2>1
  <2>3. AsideOf(w)'
    BY <2>2 DEF AsideOf
  <2>4. opened' = [v \in Writer |-> opened'[v]] /\ \E r : todo' = [todo EXCEPT ![w] = r]
    BY <1>0, <1>3, <2>1
  <2>5. \A v \in Writer \ {w} : todo[v] = <<>>
    BY <1>3, <1>a
  <2> QED BY <1>1, <1>3, <2>3, <2>4, <2>5
<1>4. ASSUME NEW w \in Writer, Done(w), todo[w] # <<>>
      PROVE  /\ \E r : todo' = [todo EXCEPT ![w] = r]
             /\ LET op == Head(todo[w]).op  next == Head(todo'[w]) IN
                /\ op \in {"clear", "mkdir", "open", "fill", "remove"} => todo'[w] # <<>>
                /\ op = "clear" => next.op = "mkdir"
                /\ op \in {"mkdir", "fill"} => next.op \in {"open", "remove"}
                /\ op = "open" => next.op = "fill" /\ next.file = Head(todo[w]).file
                /\ op = "remove" => next.op = "rename"
                /\ op = "rename" => todo'[w] = <<>>
  <2>1. \E r : todo' = [todo EXCEPT ![w] = r]
    BY <1>4 DEF Done
  <2> QED BY <1>0, <1>4, <2>1, GoesOn
<1>5. ASSUME folder' = folder PROVE Whole(folder)'
  BY <1>0, <1>5 DEF Whole, Files, Texts
<1>b. ASSUME NEW place, NEW n, Unlinked(place, n) PROVE opened' = [v \in Writer |-> opened'[v]]
  BY <1>b DEF Unlinked
<1>6. ASSUME NEW w \in Writer, todo' = todo, todo[w] # <<>>, ranIt' = ranIt, Whole(folder)', AsideOf(w)',
             opened' = [v \in Writer |-> opened'[v]]
      PROVE  WholeInv'
  <2>1. todo' = [todo EXCEPT ![w] = todo[w]]
    BY <1>0, <1>6
  <2>2. \E r : todo' = [todo EXCEPT ![w] = r]
    BY <2>1
  <2>3. \A v \in Writer \ {w} : todo[v] = <<>>
    BY <1>6, <1>a
  <2> QED BY <1>1, <1>6, <2>2, <2>3
\* A writer whose step is done, to one before which all that is aside is whole.
<1>d. ASSUME NEW w \in Writer, Done(w), todo[w] # <<>>, ranIt' = ranIt, Whole(folder)', Whole(aside)',
             Head(todo[w]).op \in {"clear", "mkdir", "fill", "remove"},
             opened' = [v \in Writer |-> opened'[v]]
      PROVE  WholeInv'
  <2>1. (\E r : todo' = [todo EXCEPT ![w] = r]) /\ Head(todo'[w]).op # "fill"
    BY <1>4, <1>d
  <2>2. AsideOf(w)'
    BY <1>d, <2>1 DEF AsideOf
  <2>3. \A v \in Writer \ {w} : todo[v] = <<>>
    BY <1>d, <1>a
  <2> QED BY <1>1, <1>d, <2>1, <2>2, <2>3
<1>7. ASSUME NEW w \in Writer, Clear(w) PROVE WholeInv'
  <2>1. todo[w] # <<>> /\ Head(todo[w]).op = "clear" /\ folder' = folder /\ ranIt' = ranIt
    BY <1>7 DEF Clear, Op
  <2>2. CASE Files(aside) = {}
    <3>1. aside' = Gone /\ Done(w) /\ opened' = opened
      BY <1>7, <2>2 DEF Clear
    <3>2. Whole(aside)' /\ opened' = [v \in Writer |-> opened'[v]]
      BY <1>0, <3>1 DEF Whole, Files
    <3> QED BY <1>5, <1>d, <2>1, <3>1, <3>2
  <2>3. CASE Files(aside) # {}
    <3>1. todo' = todo /\ \E n \in Files(aside) : Unlinked("aside", n)
      BY <1>7, <2>3 DEF Clear
    <3>2. AsideOf(w)'
      BY <2>1, <3>1 DEF AsideOf
    <3>3. opened' = [v \in Writer |-> opened'[v]]
      BY <1>b, <3>1
    <3> QED BY <1>5, <1>6, <2>1, <3>1, <3>2, <3>3
  <2> QED BY <2>2, <2>3
<1>c. ASSUME NEW w \in Writer, ClearFails(w) PROVE WholeInv'
  <2>1. /\ todo[w] # <<>> /\ Head(todo[w]).op = "clear" /\ Done(w)
        /\ UNCHANGED <<folder, aside, opened, ranIt>> /\ littered' = (littered \/ ~Whole(aside))
    BY <1>c DEF ClearFails, Op
  <2>2. Whole(aside)
    BY <2>1
  <2>3. Whole(aside)' /\ opened' = [v \in Writer |-> opened'[v]] /\ ranIt' = ranIt
    BY <1>0, <2>1, <2>2 DEF Whole, Files, Texts
  <2> QED BY <1>5, <1>d, <2>1, <2>3
<1>8. ASSUME NEW w \in Writer, Mkdir(w) PROVE WholeInv'
  <2>1. todo[w] # <<>> /\ Head(todo[w]).op = "mkdir" /\ Done(w) /\ folder' = folder /\ ranIt' = ranIt
        /\ aside' = IF aside = Gone THEN <<>> ELSE aside
    BY <1>8 DEF Mkdir, Op
  <2>2. Whole(aside)
    BY <1>0, <2>1 DEF AsideOf
  <2>3. Whole(aside)'
    <3>1. CASE aside = Gone
      BY <2>1, <3>1, WholeWithout DEF Whole, Files
    <3>2. CASE aside # Gone
      BY <2>1, <2>2, <3>2 DEF Whole, Files, Texts
    <3> QED BY <3>1, <3>2
  <2>4. opened' = [v \in Writer |-> opened'[v]]
    BY <1>0, <1>8 DEF Mkdir
  <2> QED BY <1>5, <1>d, <2>1, <2>3, <2>4
<1>9. ASSUME NEW w \in Writer, Open(w) PROVE WholeInv'
  <2> DEFINE f == Head(todo[w]).file
  <2>1. todo[w] # <<>> /\ Head(todo[w]).op = "open" /\ ranIt' = ranIt
    BY <1>9 DEF Open, Op
  <2>2. CASE aside = Gone
    <3>1. Failed(w) /\ folder' = folder /\ opened' = opened
      BY <1>9, <2>2 DEF Open, Target, At
    <3> QED BY <1>3, <1>5, <2>1, <3>1
  <2>3. CASE aside # Gone
    <3>1. Done(w) /\ aside' = With(aside, f, Torn) /\ folder' = folder
          /\ opened' = [opened EXCEPT ![w] = "aside"]
      BY <1>9, <2>3 DEF Open, Target, At, InDirectory
    <3>2. Whole(aside)
      BY <1>0, <2>1 DEF AsideOf
    <3>3. \A n \in Files(aside)' : IF n = f THEN aside'[n] = Torn ELSE aside'[n] \in Texts
      <4>1. DOMAIN aside' = DOMAIN aside \cup {f}
            /\ \A n \in DOMAIN aside \cup {f} : aside'[n] = IF n = f THEN Torn ELSE aside[n]
        BY <3>1 DEF With
      <4> QED BY <2>3, <3>2, <4>1 DEF Whole, Files
    <3>4. todo'[w] # <<>> /\ Head(todo'[w]).op = "fill" /\ Head(todo'[w]).file = f
          /\ \E r : todo' = [todo EXCEPT ![w] = r]
      BY <1>4, <2>1, <3>1
    <3>5. opened'[w] = "aside" /\ opened' = [v \in Writer |-> opened'[v]]
      BY <1>0, <3>1
    <3> HIDE DEF f
    <3>6. AsideOf(w)'
      BY <3>3, <3>4, <3>5 DEF AsideOf, Texts
    <3>7. \A v \in Writer \ {w} : todo[v] = <<>>
      BY <1>a, <2>1
    <3> QED BY <1>1, <1>5, <2>1, <3>1, <3>4, <3>5, <3>6, <3>7
  <2> QED BY <2>2, <2>3
<1>10. ASSUME NEW w \in Writer, Fill(w) PROVE WholeInv'
  <2> DEFINE f == Head(todo[w]).file
  <2>1. todo[w] # <<>> /\ Head(todo[w]).op = "fill" /\ Done(w) /\ ranIt' = ranIt /\ opened' = opened
    BY <1>10 DEF Fill, Op
  <2>2. opened[w] = "aside"
        /\ \A n \in Files(aside) : IF n = f THEN aside[n] = Torn ELSE aside[n] \in Texts
    BY <1>0, <2>1 DEF AsideOf
  <2>3. folder' = folder /\ aside' = IF f \in Files(aside) THEN With(aside, f, w) ELSE aside
    BY <1>10, <2>2 DEF Fill, At, InDirectory
  <2> HIDE DEF f
  <2>4. Whole(aside)'
    <3>1. CASE f \in Files(aside)
      <4>1. Whole(With(aside, f, w)) /\ aside' = With(aside, f, w)
        BY <2>2, <2>3, <3>1, WholeFilled
      <4> QED BY <4>1 DEF Whole, Files, Texts
    <3>2. CASE f \notin Files(aside)
      BY <2>2, <2>3, <3>2 DEF Whole, Files, Texts
    <3> QED BY <3>1, <3>2
  <2>5. opened' = [v \in Writer |-> opened'[v]]
    BY <1>0, <2>1
  <2> QED BY <1>5, <1>d, <2>1, <2>3, <2>4, <2>5
<1>11. ASSUME NEW w \in Writer, RemoveOld(w) PROVE WholeInv'
  <2>1. todo[w] # <<>> /\ Head(todo[w]).op = "remove" /\ aside' = aside /\ ranIt' = ranIt
    BY <1>11 DEF RemoveOld, Op
  <2>2. Whole(aside)
    BY <1>0, <2>1 DEF AsideOf
  <2>3. CASE Files(folder) = {}
    <3>1. folder' = Gone /\ Done(w) /\ opened' = opened
      BY <1>11, <2>3 DEF RemoveOld
    <3>2. Whole(folder)' /\ Whole(aside)' /\ opened' = [v \in Writer |-> opened'[v]]
      BY <1>0, <2>1, <2>2, <3>1 DEF Whole, Files, Texts
    <3> QED BY <1>d, <2>1, <3>1, <3>2
  <2>4. CASE Files(folder) # {}
    <3>1. todo' = todo
          /\ \E n \in Files(folder) : folder' = Without(folder, n) /\ Unlinked("folder", n)
      BY <1>11, <2>4 DEF RemoveOld
    <3>2. PICK d : d = folder' /\ Whole(d)
      BY <1>0, <3>1, WholeWithout
    <3>3. Whole(folder)' /\ Whole(aside)' /\ opened' = [v \in Writer |-> opened'[v]]
      BY <1>b, <2>1, <2>2, <3>1, <3>2 DEF Whole, Files, Texts
    <3>4. AsideOf(w)'
      BY <2>1, <3>1, <3>3 DEF AsideOf
    <3> QED BY <1>6, <2>1, <3>1, <3>3, <3>4
  <2> QED BY <2>3, <2>4
<1>e. ASSUME NEW w \in Writer, RemoveOldFails(w) PROVE WholeInv'
  <2>1. /\ todo[w] # <<>> /\ Head(todo[w]).op = "remove" /\ Done(w)
        /\ UNCHANGED <<folder, aside, opened, ranIt>>
    BY <1>e DEF RemoveOldFails, Op
  <2>2. Whole(aside)
    BY <1>0, <2>1 DEF AsideOf
  <2>3. Whole(aside)' /\ opened' = [v \in Writer |-> opened'[v]] /\ ranIt' = ranIt
    BY <1>0, <2>1, <2>2 DEF Whole, Files, Texts
  <2> QED BY <1>5, <1>d, <2>1, <2>3
<1>12. ASSUME NEW w \in Writer, Rename(w) PROVE WholeInv'
  <2>1. todo[w] # <<>> /\ Head(todo[w]).op = "rename" /\ ranIt' = ranIt
    BY <1>12 DEF Rename, Op
  <2>2. Whole(aside)
    BY <1>0, <2>1 DEF AsideOf
  <2>3. CASE aside = Gone \/ Files(folder) # {}
    <3>1. Failed(w) /\ folder' = folder /\ opened' = opened
      BY <1>12, <2>3 DEF Rename
    <3> QED BY <1>3, <1>5, <2>1, <3>1
  <2>4. CASE ~(aside = Gone \/ Files(folder) # {})
    <3>1. folder' = aside /\ Done(w)
          /\ opened' = [v \in Writer |-> IF opened[v] = "aside" THEN "folder" ELSE opened[v]]
      BY <1>12, <2>4 DEF Rename
    <3>2. Whole(folder)'
      BY <2>2, <3>1 DEF Whole, Files, Texts
    <3>3. todo'[w] = <<>> /\ \E r : todo' = [todo EXCEPT ![w] = r]
      BY <1>4, <2>1, <3>1
    <3>4. AsideOf(w)'
      BY <3>3 DEF AsideOf
    <3>5. opened' = [v \in Writer |-> opened'[v]] /\ \A v \in Writer \ {w} : todo[v] = <<>>
      BY <1>a, <2>1, <3>1
    <3> QED BY <1>1, <2>1, <3>1, <3>2, <3>3, <3>4, <3>5
  <2> QED BY <2>3, <2>4
<1>13. ASSUME NEW w \in Writer, Dies(w) PROVE WholeInv'
  <2>1. Failed(w) /\ todo[w] # <<>> /\ folder' = folder /\ ranIt' = ranIt /\ opened' = opened
    BY <1>13 DEF Dies
  <2> QED BY <1>3, <1>5, <2>1
<1>14. ASSUME UNCHANGED <<folder, aside, todo, opened>>, ranIt' \in Seq(Texts \cup {Skipped})
       PROVE  WholeInv'
  <2>1. \A w \in Writer : AsideOf(w)'
    BY <1>0, <1>14 DEF AsideOf, Whole, Files, Texts
  <2>2. ranIt' \in Seq(Texts \cup {Skipped})' /\ Lone'
    BY <1>14 DEF Texts, WholeInv, Lone
  <2> QED BY <1>0, <1>5, <1>14, <2>1, <2>2 DEF WholeInv
<1>15. CASE Expand
  BY <1>14, <1>15 DEF Expand
<1>16. CASE Run
  <2> DEFINE x == IF Head(glob) \in Files(folder) THEN folder[Head(glob)] ELSE Skipped
  <2>1. x \in Texts \cup {Skipped}
    BY <1>0 DEF Whole
  <2>2. ranIt' = Append(ranIt, x) /\ UNCHANGED <<folder, aside, todo, opened>>
    BY <1>16 DEF Run
  <2> HIDE DEF x
  <2>3. ranIt' \in Seq(Texts \cup {Skipped})
    BY <1>0, <2>1, <2>2
  <2> QED BY <1>14, <2>2, <2>3
<1>17. CASE UNCHANGED commandVars
  BY <1>0, <1>14, <1>17 DEF commandVars
<1> QED
  BY <1>2, <1>7, <1>8, <1>9, <1>10, <1>11, <1>12, <1>13, <1>15, <1>16, <1>17, <1>c, <1>e
     DEF CommandsNext

\* Every step keeps what is said of the writers.
LEMMA CommandStep == CommandInv /\ [CommandsNext]_commandVars => CommandInv'
  BY PlansStep, CommandMoves, WholeStep DEF CommandInv

\* It holds of what is installed in the beginning.
LEMMA CommandStart == CommandsInit => CommandInv
<1> SUFFICES ASSUME CommandsInit PROVE WholeInv
  BY DEF WholeInv, CommandInv
<1>1. \A w \in Writer : todo[w] = <<>>
  BY DEF CommandsInit
<1>2. Whole(folder)
  <2>1. folder = Full(First) /\ \A n \in DOMAIN Full(First) : Full(First)[n] = First
    BY DEF CommandsInit, Full
  <2> QED BY <2>1 DEF Whole, Files, Texts
<1>3. ranIt \in Seq(Texts \cup {Skipped})
  BY DEF CommandsInit
<1>4. todo = [w \in Writer |-> todo[w]] /\ opened = [w \in Writer |-> opened[w]]
  BY DEF CommandsInit
<1> QED
  BY <1>1, <1>2, <1>3, <1>4 DEF WholeInv, Plans, Lone, Following, AsideOf

\* What the script has run is whole then.
LEMMA CommandFollows == CommandInv => RunsWholeTexts
<1> SUFFICES ASSUME WholeInv, NEW i \in DOMAIN ranIt PROVE ranIt[i] # Torn
  BY DEF RunsWholeTexts, CommandInv
<1>1. ranIt[i] \in Texts \cup {Skipped}
  BY DEF WholeInv
<1> QED
  BY <1>1, CommandsAssumption DEF Texts

\* For any number of writers, whatever sets they bring, wherever they die and
\* whatever removals fail, the script never runs a command whose text has not
\* all been written, unless two writers were at work at once or a torn file
\* could not be removed (write_dir, src/monitor/src/monitoring/custom_cmds.rs).
THEOREM WholeTextsTheorem == CommandsSpec => []RunsWholeTexts
  BY CommandStart, CommandStep, CommandFollows, PTL DEF CommandsSpec

-----------------------------------------------------------------------------
(* The types of the command directory, for any number of writers.          *)

\* The files a writer brings, those of all writers, and what a file may hold.
NamesOf(w) == {Named(w)[i] : i \in DOMAIN Named(w)}
AllNames == UNION {NamesOf(w) : w \in Writer \cup {First}}
AllTexts == Texts \cup {Torn}

\* A directory of files by known names, or none.
Directory(d) ==
  d = Gone \/ (DOMAIN d \subseteq AllNames /\ IsFiniteSet(DOMAIN d) /\ \A n \in DOMAIN d : d[n] \in AllTexts)

\* The file system calls of a writer.
StepsOf(w) == [op : {"clear", "mkdir", "remove", "rename"}]
              \cup [op : {"open", "fill"}, file : NamesOf(w)]

\* The invariant: plans are of calls, directories of known files and texts.
CommandTypes ==
  /\ todo = [w \in Writer |-> todo[w]] /\ \A w \in Writer : todo[w] \in Seq(StepsOf(w))
  /\ Directory(folder) /\ Directory(aside)
  /\ glob \in Seq(AllNames) /\ ranIt \in Seq(AllTexts \cup {Skipped})
  /\ opened \in [Writer -> {"gone", "aside", "folder"}]
  /\ shared \in BOOLEAN /\ littered \in BOOLEAN

\* A plan opens and fills the files its writer brings.
LEMMA PlanTyped == \A w \in Writer : Plan(w) \in Seq(StepsOf(w))
<1> SUFFICES ASSUME NEW w \in Writer PROVE Plan(w) \in Seq(StepsOf(w))
  OBVIOUS
<1> DEFINE N == Len(Named(w))
           P == <<[op |-> "clear"], [op |-> "mkdir"]>>
           M == [i \in 1..2 * N |-> [op   |-> IF i % 2 = 1 THEN "open" ELSE "fill",
                                     file |-> Named(w)[(i + 1) \div 2]]]
           E == <<[op |-> "remove"], [op |-> "rename"]>>
<1>1. Named(w) \in Seq(Nat) /\ N \in Nat /\ DOMAIN Named(w) = 1..N
  BY CommandsAssumption
<1>2. \A i \in 1..2 * N : (i + 1) \div 2 \in 1..N
  <2>1. ASSUME NEW m \in Nat, NEW i \in 1..2 * m PROVE (i + 1) \div 2 \in 1..m
    OBVIOUS
  <2> QED BY <1>1, <2>1
<1>3. M \in Seq(StepsOf(w))
  <2>1. \A i \in 1..2 * N : Named(w)[(i + 1) \div 2] \in NamesOf(w)
    BY <1>1, <1>2 DEF NamesOf
  <2>2. \A i \in 1..2 * N : M[i] \in StepsOf(w)
    BY <2>1 DEF StepsOf
  <2>3. 2 * N \in Nat
    BY <1>1
  <2> QED BY <2>2, <2>3
<1>4. P \in Seq(StepsOf(w)) /\ E \in Seq(StepsOf(w))
  BY DEF StepsOf
<1>5. Plan(w) = (P \o M) \o E
  BY DEF Plan
<1> HIDE DEF P, M, E, N
<1> QED BY <1>3, <1>4, <1>5

\* The files of a set are its names, each with its text.
LEMMA FullTyped == Directory(Full(First))
<1> DEFINE N == Len(Named(First))  f == [i \in 1..N |-> Named(First)[i]]
<1>1. Named(First) \in Seq(Nat) /\ N \in Nat /\ DOMAIN Named(First) = 1..N
  BY CommandsAssumption
<1>2. IsFiniteSet(NamesOf(First))
  <2>1. IsFiniteSet(1..N)
    BY <1>1, FS_Interval
  <2>2. f \in Surjection(1..N, NamesOf(First))
    BY <1>1 DEF Surjection, NamesOf
  <2> QED BY <2>1, <2>2, FS_Surjection
<1>3. Full(First) = [n \in NamesOf(First) |-> First]
  BY DEF Full, NamesOf
<1>4. NamesOf(First) \subseteq AllNames /\ First \in AllTexts
  BY DEF AllNames, AllTexts, Texts
<1> QED BY <1>2, <1>3, <1>4 DEF Directory

\* Putting a file in and taking one out leave a directory.
LEMMA DirectorySteps ==
  ASSUME NEW d, Directory(d), d # Gone
  PROVE  /\ \A n \in AllNames, t \in AllTexts : Directory(With(d, n, t))
         /\ \A n \in DOMAIN d : Directory(Without(d, n))
<1>1. DOMAIN d \subseteq AllNames /\ IsFiniteSet(DOMAIN d) /\ \A n \in DOMAIN d : d[n] \in AllTexts
  BY DEF Directory
<1>2. ASSUME NEW n \in AllNames, NEW t \in AllTexts PROVE Directory(With(d, n, t))
  <2> DEFINE e == With(d, n, t)
  <2>1. DOMAIN e = DOMAIN d \cup {n} /\ \A m \in DOMAIN e : e[m] = IF m = n THEN t ELSE d[m]
    BY DEF With
  <2>2. IsFiniteSet(DOMAIN d \cup {n})
    BY <1>1, FS_AddElement
  <2> HIDE DEF e
  <2>3. Directory(e)
    BY <1>1, <1>2, <2>1, <2>2 DEF Directory
  <2> QED BY <2>3 DEF e
<1>3. ASSUME NEW n \in DOMAIN d PROVE Directory(Without(d, n))
  <2> DEFINE e == Without(d, n)
  <2>1. DOMAIN e = DOMAIN d \ {n} /\ \A m \in DOMAIN e : e[m] = d[m]
    BY DEF Without
  <2>2. IsFiniteSet(DOMAIN d \ {n})
    BY <1>1, FS_RemoveElement
  <2> HIDE DEF e
  <2>3. Directory(e)
    BY <1>1, <2>1, <2>2 DEF Directory
  <2> QED BY <2>3 DEF e
<1> QED BY <1>2, <1>3

\* The glob lists the files there are.
LEMMA SortedTyped ==
  ASSUME Directory(folder)
  PROVE  Sorted(Files(folder)) \in Seq(AllNames)
<1> DEFINE S == Files(folder)
<1>1. IsFiniteSet(S) /\ S \subseteq AllNames
  BY FS_EmptySet DEF Files, Directory
<1>2. AllNames \subseteq Int
  <2>1. \A w \in Writer \cup {First} : NamesOf(w) \subseteq Nat
    BY CommandsAssumption DEF NamesOf
  <2> QED BY <2>1 DEF AllNames
<1> HIDE DEF S
<1>3. Cardinality(S) \in Nat /\ \A k \in 1..Cardinality(S) : Nth(S, k) \in S
  <2>1. S \subseteq Int
    BY <1>1, <1>2
  <2> QED BY <1>1, <2>1, NthIs
<1>4. Sorted(S) = [i \in 1..Cardinality(S) |-> Nth(S, i)]
  BY Zenon DEF Sorted, Nth
<1>5. \A i \in 1..Cardinality(S) : Nth(S, i) \in AllNames
  BY <1>1, <1>3
<1> QED BY <1>3, <1>4, <1>5 DEF S

\* At the start there is the set that is installed.
LEMMA CommandTypesInit == CommandsInit => CommandTypes
<1> SUFFICES ASSUME CommandsInit PROVE CommandTypes
  OBVIOUS
<1>1. todo = [w \in Writer |-> todo[w]] /\ \A w \in Writer : todo[w] \in Seq(StepsOf(w))
  BY DEF CommandsInit
<1>2. Directory(folder) /\ Directory(aside)
  BY FullTyped DEF CommandsInit, Directory
<1>3. glob \in Seq(AllNames) /\ ranIt \in Seq(AllTexts \cup {Skipped})
  BY DEF CommandsInit
<1>4. opened \in [Writer -> {"gone", "aside", "folder"}]
  BY DEF CommandsInit
<1>5. shared \in BOOLEAN /\ littered \in BOOLEAN
  BY DEF CommandsInit
<1> QED BY <1>1, <1>2, <1>3, <1>4, <1>5, Zenon DEF CommandTypes

\* What a writer still has to do keeps its type.
LEMMA TodoTyped ==
  ASSUME CommandTypes, NEW w \in Writer, MovesOn(w)
  PROVE  todo' = [v \in Writer |-> todo'[v]] /\ \A v \in Writer : todo'[v] \in Seq(StepsOf(v))
<1>1. todo[w] \in Seq(StepsOf(w)) /\ todo = [v \in Writer |-> todo[v]]
      /\ \A v \in Writer : todo[v] \in Seq(StepsOf(v))
  BY DEF CommandTypes
<1>2. ASSUME NEW x \in Seq(StepsOf(w)), todo' = [todo EXCEPT ![w] = x]
      PROVE  todo' = [v \in Writer |-> todo'[v]] /\ \A v \in Writer : todo'[v] \in Seq(StepsOf(v))
  <2>1. todo' = [v \in Writer |-> IF v = w THEN x ELSE todo[v]]
    BY <1>1, <1>2
  <2> QED BY <1>1, <2>1
<1>3. CASE UNCHANGED todo
  BY <1>1, <1>3
<1>4. CASE Done(w) /\ todo[w] # <<>>
  <2>1. Tail(todo[w]) \in Seq(StepsOf(w))
    BY <1>1, <1>4
  <2>2. todo' = [todo EXCEPT ![w] = Tail(todo[w])]
    BY <1>4 DEF Done
  <2> QED BY <1>2, <2>1, <2>2
<1>5. CASE Failed(w)
  <2>1. <<>> \in Seq(StepsOf(w)) /\ todo' = [todo EXCEPT ![w] = <<>>]
    BY <1>5 DEF Failed
  <2> QED BY <1>2, <2>1
<1>6. CASE todo' = [todo EXCEPT ![w] = Plan(w)]
  BY <1>2, <1>6, PlanTyped
<1> QED BY <1>3, <1>4, <1>5, <1>6 DEF MovesOn

\* Where open files are, and what is remembered, keep their types.
LEMMA OpenedTyped ==
  ASSUME CommandTypes, [CommandsNext]_commandVars
  PROVE  /\ opened' \in [Writer -> {"gone", "aside", "folder"}]
         /\ shared' \in BOOLEAN /\ littered' \in BOOLEAN
<1>0. opened \in [Writer -> {"gone", "aside", "folder"}] /\ shared \in BOOLEAN /\ littered \in BOOLEAN
  BY DEF CommandTypes
<1>1. ASSUME NEW w \in Writer, Replace(w) \/ ClearFails(w) \/ Mkdir(w) \/ Fill(w) \/ RemoveOldFails(w)
             \/ Dies(w)
      PROVE  opened' = opened /\ shared' \in BOOLEAN /\ littered' \in BOOLEAN
  BY <1>0, <1>1 DEF Replace, ClearFails, Mkdir, Fill, RemoveOldFails, Dies
<1>2. ASSUME NEW place, NEW n, Unlinked(place, n)
      PROVE  opened' \in [Writer -> {"gone", "aside", "folder"}]
  BY <1>0, <1>2 DEF Unlinked
<1>3. ASSUME NEW w \in Writer, Clear(w) \/ RemoveOld(w)
      PROVE  opened' \in [Writer -> {"gone", "aside", "folder"}] /\ shared' = shared /\ littered' = littered
  BY <1>0, <1>2, <1>3 DEF Clear, RemoveOld
<1>4. ASSUME NEW w \in Writer, Open(w) \/ Rename(w)
      PROVE  opened' \in [Writer -> {"gone", "aside", "folder"}] /\ shared' = shared /\ littered' = littered
  BY <1>0, <1>4 DEF Open, Target, Rename
<1>5. ASSUME Expand \/ Run \/ UNCHANGED commandVars PROVE UNCHANGED <<opened, shared, littered>>
  BY <1>5 DEF Expand, Run, commandVars
<1> QED
  BY <1>0, <1>1, <1>3, <1>4, <1>5 DEF CommandsNext

\* Every step of a writer and of the script keeps the types.
LEMMA CommandTypesStep == CommandTypes /\ [CommandsNext]_commandVars => CommandTypes'
<1> SUFFICES ASSUME CommandTypes, [CommandsNext]_commandVars PROVE CommandTypes'
  OBVIOUS
<1>0. /\ Directory(folder) /\ Directory(aside)
      /\ glob \in Seq(AllNames) /\ ranIt \in Seq(AllTexts \cup {Skipped})
  BY DEF CommandTypes
<1>opened. /\ opened' \in [Writer -> {"gone", "aside", "folder"}]
           /\ shared' \in BOOLEAN /\ littered' \in BOOLEAN
  BY OpenedTyped
<1>none. Directory(Gone) /\ Directory(<<>>)
  <2>1. DOMAIN <<>> = {} /\ IsFiniteSet({})
    BY FS_EmptySet
  <2> QED BY <2>1 DEF Directory
<1>writer. ASSUME NEW w \in Writer, MovesOn(w), Directory(folder'), Directory(aside'),
             UNCHANGED <<glob, ranIt>>
      PROVE  CommandTypes'
  <2>1. todo' = [v \in Writer |-> todo'[v]] /\ \A v \in Writer : todo'[v] \in Seq(StepsOf(v))
    BY <1>writer, TodoTyped
  <2> QED BY <1>0, <1>opened, <1>writer, <2>1 DEF CommandTypes, Directory, AllTexts, Texts
<1>1. ASSUME NEW w \in Writer, Replace(w) PROVE CommandTypes'
  BY <1>0, <1>1, <1>writer DEF Replace, MovesOn
<1>2. ASSUME NEW w \in Writer, Clear(w) PROVE CommandTypes'
  <2>1. CASE Files(aside) = {}
    BY <1>0, <1>2, <1>none, <1>writer, <2>1 DEF Clear, Op, MovesOn
  <2>2. CASE Files(aside) # {}
    <3>1. aside # Gone /\ Files(aside) = DOMAIN aside
      BY <2>2 DEF Files
    <3>2. PICK n \in DOMAIN aside : aside' = Without(aside, n)
      BY <1>2, <2>2, <3>1 DEF Clear
    <3>3. Directory(aside')
      BY <1>0, <3>1, <3>2, DirectorySteps
    <3>4. UNCHANGED todo /\ UNCHANGED <<glob, ranIt>> /\ folder' = folder
      BY <1>2, <2>2 DEF Clear
    <3>5. Directory(folder') /\ Directory(aside')
      BY <1>0, <3>3, <3>4
    <3> QED BY <1>writer, <3>4, <3>5 DEF MovesOn
  <2> QED BY <2>1, <2>2
<1>c. ASSUME NEW w \in Writer, ClearFails(w) \/ RemoveOldFails(w) PROVE CommandTypes'
  <2>1. Done(w) /\ todo[w] # <<>> /\ UNCHANGED <<folder, aside, glob, ranIt>>
    BY <1>c DEF ClearFails, RemoveOldFails, Op
  <2> QED BY <1>0, <1>writer, <2>1 DEF MovesOn
<1>3. ASSUME NEW w \in Writer, Mkdir(w) PROVE CommandTypes'
  <2>1. Directory(aside') /\ Done(w) /\ todo[w] # <<>> /\ UNCHANGED <<folder, glob, ranIt>>
    BY <1>0, <1>3, <1>none DEF Mkdir, Op
  <2> QED BY <1>0, <1>writer, <2>1 DEF MovesOn
<1>4. ASSUME NEW w \in Writer, Open(w) PROVE CommandTypes'
  <2>1. Op(w, "open") /\ UNCHANGED <<folder, glob, ranIt>>
    <3>1. Op(w, "open") /\ UNCHANGED <<glob, ranIt>>
      BY <1>4 DEF Open
    <3>2. folder' = folder
      BY <1>4 DEF Open, Target, At, InDirectory
    <3> QED BY <3>1, <3>2
  <2>2. Head(todo[w]).file \in AllNames
    <3>1. Head(todo[w]) \in StepsOf(w) /\ Head(todo[w]).op = "open"
      BY <2>1 DEF Op, CommandTypes
    <3>2. Head(todo[w]).file \in NamesOf(w)
      BY <3>1 DEF StepsOf
    <3> QED BY <3>2 DEF AllNames
  <2>3. CASE aside = Gone
    BY <1>0, <1>4, <1>writer, <2>3 DEF Open, Target, At, MovesOn
  <2>4. CASE aside # Gone
    <3>1. aside' = With(aside, Head(todo[w]).file, Torn) /\ Done(w) /\ todo[w] # <<>>
      BY <1>4, <2>4 DEF Open, Target, At, InDirectory, Op
    <3>2. Torn \in AllTexts
      BY DEF AllTexts
    <3>3. Directory(aside')
      BY <1>0, <2>2, <2>4, <3>1, <3>2, DirectorySteps
    <3> QED BY <1>0, <1>writer, <2>1, <3>1, <3>3 DEF MovesOn
  <2> QED BY <2>3, <2>4
<1>5. ASSUME NEW w \in Writer, Fill(w) PROVE CommandTypes'
  <2> DEFINE n == Head(todo[w]).file  d == At(opened[w])
  <2>1. Done(w) /\ todo[w] # <<>> /\ UNCHANGED <<glob, ranIt>>
    BY <1>5 DEF Fill, Op
  <2>2. Directory(d)
    BY <1>0, <1>none DEF At
  <2>3. CASE n \notin Files(d)
    <3>1. UNCHANGED <<folder, aside>>
      BY <1>5, <2>3 DEF Fill
    <3> QED BY <1>0, <1>writer, <2>1, <3>1 DEF MovesOn
  <2>4. CASE n \in Files(d)
    <3>1. PICK text \in AllTexts : InDirectory(opened[w], With(d, n, text))
      BY <1>5, <2>4 DEF Fill, AllTexts, Texts
    <3>2. d # Gone /\ n \in DOMAIN d
      BY <2>4 DEF Files
    <3>3. n \in AllNames
      BY <2>2, <3>2 DEF Directory
    <3> HIDE DEF n, d
    <3>4. Directory(With(d, n, text))
      BY <2>2, <3>2, <3>3, DirectorySteps
    <3>5. Directory(aside') /\ Directory(folder')
      BY <1>0, <3>1, <3>4 DEF InDirectory
    <3> QED BY <1>writer, <2>1, <3>5 DEF MovesOn
  <2> QED BY <2>3, <2>4
<1>6. ASSUME NEW w \in Writer, RemoveOld(w) PROVE CommandTypes'
  <2>1. CASE Files(folder) = {}
    BY <1>0, <1>6, <1>none, <1>writer, <2>1 DEF RemoveOld, Op, MovesOn
  <2>2. CASE Files(folder) # {}
    <3>1. folder # Gone /\ Files(folder) = DOMAIN folder
      BY <2>2 DEF Files
    <3>2. PICK n \in DOMAIN folder : folder' = Without(folder, n)
      BY <1>6, <2>2, <3>1 DEF RemoveOld
    <3>3. Directory(folder')
      BY <1>0, <3>1, <3>2, DirectorySteps
    <3>4. UNCHANGED todo /\ UNCHANGED <<glob, ranIt>> /\ aside' = aside
      BY <1>6, <2>2 DEF RemoveOld
    <3>5. Directory(folder') /\ Directory(aside')
      BY <1>0, <3>3, <3>4
    <3> QED BY <1>writer, <3>4, <3>5 DEF MovesOn
  <2> QED BY <2>1, <2>2
<1>7. ASSUME NEW w \in Writer, Rename(w) PROVE CommandTypes'
  <2>1. /\ Failed(w) \/ (Done(w) /\ todo[w] # <<>>)
        /\ Directory(folder') /\ Directory(aside') /\ UNCHANGED <<glob, ranIt>>
    BY <1>0, <1>7, <1>none DEF Rename, Op
  <2> QED BY <1>writer, <2>1 DEF MovesOn
<1>8. ASSUME NEW w \in Writer, Dies(w) PROVE CommandTypes'
  <2>1. Failed(w) /\ UNCHANGED <<folder, aside, glob, ranIt>>
    BY <1>8 DEF Dies
  <2> QED BY <1>0, <1>writer, <2>1 DEF MovesOn
<1>9. CASE Expand
  <2>1. UNCHANGED <<folder, aside, todo>> /\ glob' = Sorted(Files(folder)) /\ ranIt' = <<>>
    BY <1>9 DEF Expand
  <2>2. glob' \in Seq(AllNames) /\ ranIt' \in Seq(AllTexts \cup {Skipped})
    BY <1>0, <2>1, SortedTyped
  <2> QED BY <1>opened, <2>1, <2>2 DEF CommandTypes, Directory, AllTexts, Texts
<1>10. CASE Run
  <2>1. /\ UNCHANGED <<folder, aside, todo>> /\ glob # <<>> /\ glob' = Tail(glob)
        /\ ranIt' = Append(ranIt, IF Head(glob) \in Files(folder) THEN folder[Head(glob)] ELSE Skipped)
    BY <1>10 DEF Run
  <2>2. (IF Head(glob) \in Files(folder) THEN folder[Head(glob)] ELSE Skipped)
          \in AllTexts \cup {Skipped}
    BY <1>0 DEF Files, Directory
  <2>3. glob' \in Seq(AllNames) /\ ranIt' \in Seq(AllTexts \cup {Skipped})
    BY <1>0, <2>1, <2>2
  <2> QED BY <1>opened, <2>1, <2>3 DEF CommandTypes, Directory, AllTexts, Texts
<1>11. CASE UNCHANGED commandVars
  BY <1>11 DEF commandVars, CommandTypes, Directory, AllTexts, Texts
<1> QED
  BY <1>1, <1>2, <1>3, <1>4, <1>5, <1>6, <1>7, <1>8, <1>9, <1>10, <1>11, <1>c
     DEF CommandsNext

\* Which says that every variable has its type.
LEMMA CommandTypesFollow == CommandTypes => CommandsTypeOK
<1> SUFFICES ASSUME CommandTypes PROVE CommandsTypeOK
  OBVIOUS
<1>1. /\ Directory(folder) /\ Directory(aside)
      /\ \A i \in DOMAIN glob : glob[i] \in AllNames
      /\ \A i \in DOMAIN ranIt : ranIt[i] \in AllTexts \cup {Skipped}
      /\ opened \in [Writer -> {"gone", "aside", "folder"}]
      /\ shared \in BOOLEAN /\ littered \in BOOLEAN
  BY DEF CommandTypes
<1> QED BY <1>1, Zenon DEF CommandsTypeOK, Directory, AllNames, AllTexts, NamesOf

-----------------------------------------------------------------------------
(* All of them in one specification.  One component moves in a behaviour;  *)
(* the others keep the state they began with.                              *)

\* Every step of the composition is a step of each component or leaves its
\* variables alone.
LEMMA ComponentSteps ==
  ASSUME [Next]_vars
  PROVE  /\ [MonitorNext]_monitorVars /\ [VelocityNext]_velocityVars /\ [QuotaNext]_quotaVars
         /\ [CommandsNext]_commandVars /\ [RetentionNext]_retentionVars
         /\ [ScriptNext]_scriptVars /\ [StartupNext]_startupVars
         /\ [FieldsNext]_fieldVars /\ [HistoryNext]_historyVars /\ scene' = scene
         /\ \/ scene = "rules" /\ RuleNext
            \/ UNCHANGED ruleVars
         /\ \/ scene = "sums" /\ Show
            \/ UNCHANGED sumVars
<1>1. CASE Loop_ /\ UNCHANGED scene
  BY <1>1 DEF Loop_
<1>2. CASE Velocity_ /\ UNCHANGED scene
  BY <1>2 DEF Velocity_
<1>3. CASE Quota_ /\ UNCHANGED scene
  BY <1>3 DEF Quota_
<1>4. CASE Commands_ /\ UNCHANGED scene
  BY <1>4 DEF Commands_
<1>5. CASE Rules_ /\ UNCHANGED scene
  BY <1>5 DEF Rules_
<1>6. CASE Sums_ /\ UNCHANGED scene
  BY <1>6 DEF Sums_
<1>7. CASE Script_ /\ UNCHANGED scene
  BY <1>7 DEF Script_
<1>8. CASE Fields_ /\ UNCHANGED scene
  BY <1>8 DEF Fields_
<1>9. CASE Retention_ /\ UNCHANGED scene
  BY <1>9 DEF Retention_
<1>10. CASE History_ /\ UNCHANGED scene
  BY <1>10 DEF History_
<1>11. CASE Startup_ /\ UNCHANGED scene
  BY <1>11 DEF Startup_
<1>12. CASE UNCHANGED vars
  BY <1>12 DEF vars
<1> QED
  BY <1>1, <1>2, <1>3, <1>4, <1>5, <1>6, <1>7, <1>8, <1>9, <1>10, <1>11, <1>12 DEF Next

\* A behaviour of the composition is one of each component that begins in every
\* scene as it would alone.
LEMMA ComponentSpecs ==
  Spec => /\ MonitorSpec /\ VelocitySpec /\ QuotaSpec /\ CommandsSpec /\ ScriptSpec
          /\ RetentionSpec /\ StartupSpec /\ FieldsSpec /\ HistorySpec
<1>1. Init => /\ MonitorInit /\ VelocityInit /\ QuotaInit /\ CommandsInit /\ ScriptInit
              /\ RetentionInit /\ StartupInit /\ FieldsInit /\ HistoryInit
  BY DEF Init
<1>2. [Next]_vars => /\ [MonitorNext]_monitorVars /\ [VelocityNext]_velocityVars
                     /\ [QuotaNext]_quotaVars /\ [CommandsNext]_commandVars
                     /\ [ScriptNext]_scriptVars /\ [RetentionNext]_retentionVars
                     /\ [StartupNext]_startupVars /\ [FieldsNext]_fieldVars
                     /\ [HistoryNext]_historyVars
  BY ComponentSteps
<1> QED
  BY <1>1, <1>2, PTL
     DEF Spec, MonitorSpec, VelocitySpec, QuotaSpec, CommandsSpec, ScriptSpec, RetentionSpec,
         StartupSpec, FieldsSpec, HistorySpec

\* The loop of the running monitor shows the values of its last run, measures
\* from the sample it says and runs the extended commands on their schedule
\* (run_monitoring_loop, src/monitor/src/monitoring/monitoring.rs).
THEOREM LoopHoldsTheorem == Spec => []LoopHolds
<1>1. ShowsLastRun /\ BaselinesAgree /\ ExtendedOnSchedule => LoopHolds
  BY DEF LoopHolds
<1> QED
  BY <1>1, ComponentSpecs, LoopTheorem, PTL

\* At most `times` of the pushes a service accepted in one window bear one name,
\* whatever else the monitor does (PushRateLimiter,
\* src/monitor/src/monitoring/push.rs).
THEOREM QuotaHoldsTheorem == Spec => []QuotaHolds
  BY ComponentSpecs, QuotaTheorem, PTL

\* The database keeps the newest rows and whole cycles, and after a clean cleanup
\* nothing past its time; the log loses no row more than a day early
\* (src/monitor/src/db/cleanup.rs).
THEOREM RetentionHoldsTheorem == Spec => []RetentionHolds
  BY ComponentSpecs, RetentionTheorem, PTL

\* A serving agent has a real secret, opens to the tokens of earlier starts and
\* to a password that was shown, unless two first starts wrote jwt.secret at once
\* or a power loss took it (resolve_jwt_secret and db/bootstrap.rs).
THEOREM StartupHoldsTheorem == Spec => []StartupHolds
  BY ComponentSpecs, StartupTheorem, PTL

\* The monitor's rules alert exactly when their readings stand where their
\* thresholds say (check_rules_with_velocity, src/monitor/src/monitoring/rules.rs).
THEOREM AlertsTheorem == Spec => []AlertsAsWritten
<1> DEFINE Alerting == IF scene = "rules" THEN RuleInv ELSE alert = "unchecked"
<1>1. Init => Alerting
  BY RuleInvInit DEF Init, Rule0
<1>2. Alerting /\ [Next]_vars => Alerting'
  <2> SUFFICES ASSUME Alerting, [Next]_vars PROVE Alerting'
    OBVIOUS
  <2>1. scene' = scene /\ ((scene = "rules" /\ RuleNext) \/ UNCHANGED ruleVars)
    BY ComponentSteps
  <2>2. CASE scene = "rules"
    <3>1. RuleInv /\ [RuleNext]_ruleVars
      BY <2>1, <2>2
    <3>2. RuleInv'
      BY <3>1, RuleInvStep
    <3> QED BY <2>1, <2>2, <3>2
  <2>3. CASE scene # "rules"
    <3>1. UNCHANGED ruleVars /\ alert = "unchecked"
      BY <2>1, <2>3
    <3>2. alert' = "unchecked"
      BY <3>1 DEF ruleVars
    <3> QED BY <2>1, <2>3, <3>2
  <2> QED BY <2>2, <2>3
<1>3. Alerting => AlertsAsWritten
  BY AlertsFollow DEF AlertsAsWritten
<1> QED
  BY <1>1, <1>2, <1>3, PTL DEF Spec

\* A custom command runs with its whole text, unless two writers were at work at
\* once or a torn file could not be removed; and whatever the commands print but
\* their markers, the sections of a cycle are what they printed (write_dir,
\* src/monitor/src/monitoring/custom_cmds.rs, and parse_script_segments,
\* src/crates/sbm_parser/src/script.rs).
THEOREM CommandsTheorem == Spec => []CommandsStand
<1>1. RunsWholeTexts /\ SectionsStand /\ ScriptTypeOK => CommandsStand
  BY DEF CommandsStand
<1> QED
  BY <1>1, ComponentSpecs, WholeTextsTheorem, SectionsTheorem, PTL

\* What the panel shows was read: the sums of a sample, the rates, the charts and
\* the fields of a status are what they are said to be (Aggregates, Velocity,
\* History and StatusFields, from src/monitor/src/monitoring/monitoring.rs,
\* velocity.rs and src/monitor/src/api/server.rs).
THEOREM FiguresTheorem == Spec => []FiguresHold
<1> DEFINE Summing == IF scene = "sums" THEN SumInv ELSE shown = Nothing
<1>1. Init => Summing
  BY SumStart DEF Init, Sum0
<1>2. Summing /\ [Next]_vars => Summing'
  <2> SUFFICES ASSUME Summing, [Next]_vars PROVE Summing'
    OBVIOUS
  <2>1. scene' = scene /\ ((scene = "sums" /\ Show) \/ UNCHANGED sumVars)
    BY ComponentSteps
  <2>2. CASE scene = "sums"
    <3>1. SumInv /\ [Show]_sumVars
      BY <2>1, <2>2
    <3>2. SumInv'
      BY <3>1, SumStep
    <3> QED BY <2>1, <2>2, <3>2
  <2>3. CASE scene # "sums"
    <3>1. UNCHANGED sumVars /\ shown = Nothing
      BY <2>1, <2>3
    <3>2. shown' = Nothing
      BY <3>1 DEF sumVars
    <3> QED BY <2>1, <2>3, <3>2
  <2> QED BY <2>2, <2>3
<1>3. Summing => (scene = "sums" => SumsAgree)
  BY SumFollows
<1>4. Spec => [](scene = "sums" => SumsAgree)
  BY <1>1, <1>2, <1>3, PTL DEF Spec
<1>5. (scene = "sums" => SumsAgree) /\ SpeedWithinScriptTime /\ ChartsHold /\ FieldsAgree
        => FiguresHold
  BY DEF FiguresHold
<1> QED
  BY <1>4, <1>5, ComponentSpecs, SpeedTheorem, ChartsTheorem, FieldsTheorem, PTL

\* Every variable of the components has its type, for any number of writers too.
THEOREM TypesTheorem == Spec => []TypeOK
<1> DEFINE Alerting == IF scene = "rules" THEN RuleInv /\ RuleTypeOK ELSE TRUE
           Summing == IF scene = "sums" THEN SumInv ELSE TRUE
<1>1. Init => Alerting /\ Summing
  BY SumStart, RuleInvInit DEF Init, RuleInit, RuleTypeOK
<1>2. Alerting /\ Summing /\ [Next]_vars => Alerting' /\ Summing'
  <2> SUFFICES ASSUME Alerting, Summing, [Next]_vars PROVE Alerting' /\ Summing'
    OBVIOUS
  <2>1. scene' = scene /\ [RuleNext]_ruleVars /\ [Show]_sumVars
    BY ComponentSteps
  <2>2. scene = "sums" => SumInv'
    BY <2>1, SumStep
  <2>3. ASSUME scene = "rules" PROVE RuleInv' /\ RuleTypeOK'
    <3>1. RuleInv'
      BY <2>1, <2>3, RuleInvStep
    <3>2. monitor' = monitor /\ threshold' = threshold /\ reading' = reading
          /\ saved' \in {saved, "saved", "refused"}
      BY <2>1 DEF RuleNext, CheckRule, SaveRule, ruleVars
    <3>3. alert' \in {"unchecked", "yes", "no"}
      BY <3>1 DEF RuleInv
    <3> QED BY <2>3, <3>1, <3>2, <3>3 DEF RuleTypeOK
  <2> QED BY <2>1, <2>2, <2>3
<1>0. Alerting => (scene = "rules" => RuleTypeOK)
  OBVIOUS
<1>3. Spec => [](scene = "rules" => RuleTypeOK)
  <2> HIDE DEF Alerting, Summing
  <2> QED BY <1>0, <1>1, <1>2, PTL DEF Spec
<1>4. Summing => (scene = "sums" => SumTypeOK)
  <2>1. SumInv => SumTypeOK
    BY DEF SumInv, SampleTyped, SumTypeOK
  <2> QED BY <2>1
<1>5. Spec => [](scene = "sums" => SumTypeOK)
  <2> HIDE DEF Alerting, Summing
  <2> QED BY <1>1, <1>2, <1>4, PTL DEF Spec
<1>6. CommandsSpec => []CommandsTypeOK
  BY CommandTypesInit, CommandTypesStep, CommandTypesFollow, PTL DEF CommandsSpec
<1>7. StartupSpec => []StartupTypeOK
  <2>1. StartInv => StartupTypeOK
    BY DEF StartInv, Typed, StartupTypeOK, Start, Places
  <2> QED BY <2>1, StartInvInit, StartInvStep, PTL DEF StartupSpec
<1>8. FieldsSpec => []FieldsTypeOK
  <2>1. FieldsInv => FieldsTypeOK
    BY DEF FieldsInv
  <2> QED BY <2>1, FieldsStart, FieldsStep, PTL DEF FieldsSpec
<1>9. SectionsStand /\ ScriptTypeOK => ScriptTypeOK
  OBVIOUS
<1>10. ASSUME scene = "rules" => RuleTypeOK, scene = "sums" => SumTypeOK,
              MonitorTypeOK, VelocityTypeOK, QuotaTypeOK, CommandsTypeOK, ScriptTypeOK,
              FieldsTypeOK, RetentionTypeOK, HistoryTypeOK, StartupTypeOK
       PROVE  TypeOK
  BY <1>10, Zenon DEF TypeOK
<1> QED
  BY <1>3, <1>5, <1>6, <1>7, <1>8, <1>9, <1>10, ComponentSpecs, LoopTypesTheorem, VelocityTypesTheorem,
     QuotaTypesTheorem, SectionsTheorem, RetentionTypesTheorem, HistoryTypesTheorem, PTL
=============================================================================
