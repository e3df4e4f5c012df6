------------------------------ MODULE Aggregates ------------------------------
(***************************************************************************)
(* The numbers /status and the page show, made of one sample: disks added  *)
(* up (aggregate_disks, flatten_disks, apfs_pool_key, is_real_disk), CPU   *)
(* usage of the whole and of a core (adapt_cpu, core_usage_percent) and    *)
(* memory (adapt_memory); src/monitor/src/monitoring/monitoring.rs and     *)
(* timeseries.rs.                                                          *)
(*                                                                         *)
(* Abstracted: a tree of disks to its pre-order, which is how both walks   *)
(* go through it; a path to a name that Device and DiskBase tell about; a  *)
(* percentage to the pair it is the quotient of; KiB to one unit.  Windows *)
(* is measured like Bsd, by drive letters instead of labels.               *)
(***************************************************************************)
EXTENDS Integers, Sequences, FiniteSets, FiniteSetsExt, Functions

CONSTANTS
  Path,       \* what stands for a path: df's devices, sysinfo's volume labels
  Label,      \* the labels among them
  Device,     \* those below /dev
  DiskBase,   \* the digits a path has after /dev/disk, or Nothing
  On,         \* the physical storage, an APFS container say, of each
  Sizes,      \* sizes and counters
  MaxDisks,   \* bound of the model: rows of one sample
  Nothing      \* None of the code

ASSUME AggregateAssumption ==
  /\ Device \subseteq Path /\ Sizes \subseteq Nat /\ 0 \in Sizes /\ MaxDisks \in Nat
  /\ DOMAIN DiskBase = Path /\ DOMAIN On = Path

VARIABLES
  system, disks,  \* the sample of a cycle: its disks
  before, now,    \* the CPU counters of the cycle before and of this one
  memory,         \* total, free and avail of meminfo
  shown           \* what is made of them, Nothing before that

sumVars == <<system, disks, before, now, memory, shown>>

Disk == [path: Path, size: Sizes, used: Sizes, avail: Sizes]
Counters == [busy: Sizes, idle: Sizes]

-----------------------------------------------------------------------------
is_real_disk(d) == d.size > 0 /\ (system = "linux" => d.path \in Device)

\* No path that the agent gathers has a DiskBase: labels are no devices, and
\* Linux calls no device so.
apfs_pool_key(d) == <<DiskBase[d.path], d.size, d.avail>>

Pooled(d, pools) == DiskBase[d.path] # Nothing /\ apfs_pool_key(d) \in pools

\* MUTANT (Walk): a path listed again is counted again.
WalkAgain(d, acc) ==
  IF ~is_real_disk(d) THEN acc
  ELSE [acc EXCEPT !.total = @ + d.size, !.used = @ + d.used, !.free = @ + d.avail,
                   !.rows = Append(@, d)]

\* One row of either walk: what has been seen is passed over, a pool counts
\* its size and what is available once, and used adds up.
Walk(d, acc) ==
  IF ~is_real_disk(d) \/ d.path \in acc.seen THEN acc
  ELSE LET pooled == Pooled(d, acc.pools)
       IN  [seen  |-> acc.seen \cup {d.path},
            pools |-> IF DiskBase[d.path] = Nothing THEN acc.pools
                      ELSE acc.pools \cup {apfs_pool_key(d)},
            total |-> acc.total + IF pooled THEN 0 ELSE d.size,
            used  |-> acc.used + d.used,
            free  |-> acc.free + IF pooled THEN 0 ELSE d.avail,
            rows  |-> Append(acc.rows, d)]

aggregate_disks ==
  LET none == [seen |-> {}, pools |-> {}, total |-> 0, used |-> 0, free |-> 0, rows |-> <<>>]
      walked[n \in 0..Len(disks)] ==
        IF n = 0 THEN none ELSE Walk(disks[n], walked[n - 1])
  IN  walked[Len(disks)]

-----------------------------------------------------------------------------
Total(c) == c.busy + c.idle
OneShot == system # "linux"

\* cpu_used_percent over the window since the sample before; 0 without one and
\* when the counters have not grown.
summary_usage ==
  LET whole == Total(now) - Total(before)
  IN  IF OneShot THEN [part |-> now.busy, of |-> Total(now)]
      ELSE IF before = Nothing THEN [part |-> 0, of |-> 1]
      ELSE IF whole <= 0 THEN [part |-> 0, of |-> 1]
      ELSE [part |-> whole - (now.idle - before.idle), of |-> whole]

\* MUTANT (core_usage_percent): the ratio of the counters on every platform.
CoreRatio ==
  IF Total(now) = 0 THEN Nothing ELSE [part |-> now.busy, of |-> Total(now)]

core_usage_percent ==
  IF OneShot
  THEN IF Total(now) = 0 THEN Nothing ELSE [part |-> now.busy, of |-> Total(now)]
  ELSE IF before = Nothing THEN Nothing
  ELSE LET whole == Total(now) - Total(before)
           used  == now.busy - before.busy
       IN  IF whole <= 0 \/ used < 0 THEN Nothing
           ELSE [part |-> IF used < whole THEN used ELSE whole, of |-> whole]

adapt_memory ==
  LET avail == IF memory.avail = 0 THEN memory.free ELSE memory.avail
      used  == IF avail < memory.total THEN memory.total - avail ELSE 0
  IN  [total |-> memory.total, used |-> used, free |-> avail]

-----------------------------------------------------------------------------
NoCounters == [busy |-> 0, idle |-> 0]
NoMemory == [total |-> 0, free |-> 0, avail |-> 0]

\* What a backend gathers.  df lists devices and others, and a device again for
\* another mount.  sysinfo lists volumes by label, the first of each (unique_disks),
\* every volume with the space of all its storage.
Gathered(rows) ==
  IF system = "linux" THEN \A i \in DOMAIN rows : rows[i].path \notin Label
  ELSE /\ \A i \in DOMAIN rows : /\ rows[i].path \in Label
                                  /\ rows[i].used = IF rows[i].size < rows[i].avail THEN 0
                                                    ELSE rows[i].size - rows[i].avail
       /\ \A i, j \in DOMAIN rows : rows[i].path = rows[j].path => i = j
       /\ \A i, j \in DOMAIN rows : On[rows[i].path] = On[rows[j].path] =>
            rows[i].size = rows[j].size /\ rows[i].avail = rows[j].avail

SumInit ==
  /\ system \in {"linux", "bsd"}
  \* One of the three kinds of number at a time: they have nothing in common.
  /\ \/ /\ disks \in UNION {[1..n -> Disk] : n \in 0..MaxDisks} /\ Gathered(disks)
        /\ before = Nothing /\ now = NoCounters /\ memory = NoMemory
     \/ /\ disks = <<>> /\ memory = NoMemory
        /\ before \in {Nothing} \cup Counters /\ now \in Counters
     \/ /\ disks = <<>> /\ before = Nothing /\ now = NoCounters
        /\ memory \in [total: Sizes, free: Sizes, avail: Sizes]
  /\ shown = Nothing

Show ==  \* adapt_status
  /\ shown = Nothing
  /\ shown' = [disk |-> aggregate_disks, cpu |-> summary_usage,
               core |-> core_usage_percent, memory |-> adapt_memory]
  /\ UNCHANGED <<system, disks, before, now, memory>>

SumSpec == SumInit /\ [][Show]_sumVars

\* Every variable has its type.
SumTypeOK ==
  /\ system \in {"linux", "bsd", "windows"} /\ \A i \in DOMAIN disks : disks[i] \in Disk
  /\ before \in {Nothing} \cup Counters /\ now \in Counters
  /\ DOMAIN memory = {"total", "free", "avail"}

\* The first real row of each path.
Counted ==
  {i \in DOMAIN disks :
     /\ is_real_disk(disks[i])
     /\ \A j \in 1..i - 1 : is_real_disk(disks[j]) => disks[j].path # disks[i].path}

\* Rows of one numbered disk share its size and what is available.
Pools == {apfs_pool_key(disks[i]) : i \in {j \in Counted : DiskBase[disks[j].path] # Nothing}}
Single == {i \in Counted : DiskBase[disks[i].path] = Nothing}

\* Every path counts once in the sums and in the rows, however often or deep the
\* sample lists it, and what has no size or is no disk not at all; paths of one
\* numbered disk share one size; and as long as each file system's numbers hold
\* together, so does the sum.  Labels of one container each count (ContainersOnce).
DiskSums ==
  LET size == [i \in DOMAIN disks |-> disks[i].size]
      used == [i \in DOMAIN disks |-> disks[i].used]
      sound == /\ \A i \in Single : disks[i].used <= disks[i].size
               /\ \A p \in Pools :
                    SumFunctionOnSet(used, {i \in Counted : apfs_pool_key(disks[i]) = p}) <= p[2]
  IN  /\ shown.disk.total = SumFunctionOnSet(size, Single)
                            + MapThenSumSet(LAMBDA p : p[2], Pools)
      /\ shown.disk.used = SumFunctionOnSet(used, Counted)
      /\ Len(shown.disk.rows) = Cardinality(Counted)
      /\ sound => shown.disk.used <= shown.disk.total

\* Volumes of one APFS container count its size once, as the comment at
\* apfs_pool_key has it: the total is that of the storage they lie on.
ContainersOnce ==
  shown # Nothing =>
    shown.disk.total =
      MapThenSumSet(LAMBDA c : c[2], {<<On[disks[i].path], disks[i].size>> : i \in Counted})

\* The whole and a core measure alike: for counters that only grew both show
\* the share of the window that was not idle, and a core never leaves 0..100.
UsageAgrees ==
  LET grew == before # Nothing => before.busy <= now.busy /\ before.idle <= now.idle
      core == shown.core
      cpu == shown.cpu
  IN  /\ core # Nothing => 0 <= core.part /\ core.part <= core.of /\ core.of > 0
      /\ core # Nothing /\ grew => core.part * cpu.of = cpu.part * core.of
      /\ grew => 0 <= cpu.part /\ cpu.part <= cpu.of

MemorySums == shown.memory.used <= shown.memory.total

SumsAgree == shown # Nothing => DiskSums /\ UsageAgrees /\ MemorySums
=============================================================================
