-------------------------------- MODULE History --------------------------------
(***************************************************************************)
(* The panel's charts: get_metrics_history (src/monitor/src/api/server.rs) *)
(* over the rows store_metrics has written, one a cycle.                   *)
(*                                                                         *)
(* Grain.  One action per cycle; the answer is a function of the rows and  *)
(* the clock, so an invariant asks for it in every state.                  *)
(*                                                                         *)
(* External.  The text a timestamp is stored as has a "T" between date and *)
(* time, and datetime() a space: the WHERE clause, which compares them as  *)
(* text, takes every row of the cut-off's day.  strftime('%s') is exact.   *)
(*                                                                         *)
(* Abstracted.  One counter (rx) stands for the four, and no average of a  *)
(* gauge is kept.  A bucket's average is held as its sum and its count.    *)
(***************************************************************************)
EXTENDS Integers, FiniteSets, FiniteSetsExt

CONSTANTS
  Minutes,     \* what ?minutes= may say
  Least,       \* the clamp's lower end, 5
  Minute,      \* seconds in a minute
  Day,         \* seconds in a day
  MAX_POINTS,  \* 300
  Interval,    \* seconds between two cycles
  Growth,      \* what the counter may gain in a second
  Outcomes,    \* what may become of a cycle's row
  LastSecond,  \* bound: how far the clock goes
  Null

ASSUME HistoryAssumption ==
  /\ Minutes \subseteq Nat /\ Growth \subseteq Nat
  /\ {Least, Minute, Day, MAX_POINTS, Interval} \subseteq Nat \ {0} /\ LastSecond \in Nat
  /\ Outcomes \subseteq {"stored", "lost", "old_schema"}
  \* No interface is faster than the fastest.
  /\ \E g \in Growth : \A h \in Growth : g >= h

VARIABLES
  wall,      \* seconds
  counter,   \* the host's rx counter
  samples,   \* system_metrics: [at, rx], rx NULL in rows older than the column
  migrated   \* a row with the column has been written

historyVars == <<wall, counter, samples, migrated>>

HistoryInit == wall = 0 /\ counter = 0 /\ samples = {} /\ migrated = FALSE

Store(outcome) ==
  /\ samples' = CASE outcome = "stored" -> samples \cup {[at |-> wall', rx |-> counter']}
                  [] outcome = "old_schema" -> samples \cup {[at |-> wall', rx |-> Null]}
                  [] outcome = "lost" -> samples
  /\ outcome = "old_schema" => ~migrated
  /\ migrated' = (migrated \/ outcome = "stored")

\* One cycle: the counter has grown, or the host has restarted.
StoreCycle ==
  /\ wall + Interval <= LastSecond
  /\ wall' = wall + Interval
  /\ \E g \in Growth : counter' \in {counter + g * Interval, g * Interval}
  /\ \E outcome \in Outcomes : Store(outcome)

HistoryNext == StoreCycle

HistorySpec == HistoryInit /\ [][HistoryNext]_historyVars

(***************************************************************************)
(* get_metrics_history                                                     *)
(***************************************************************************)
Larger(a, b) == IF a > b THEN a ELSE b
clamped(minutes) == Larger(minutes, Least)
bucket_secs(minutes) == Larger((clamped(minutes) * Minute) \div MAX_POINTS, 1)

\* MUTANT (Selected): a day is added to the cut-off before it is compared
SelectedNextDay(minutes) ==
  {r \in samples : r.at \div Day > (wall - clamped(minutes) * Minute) \div Day}
Selected(minutes) ==
  {r \in samples : r.at \div Day >= (wall - clamped(minutes) * Minute) \div Day}

BucketOf(r, minutes) == r.at \div bucket_secs(minutes)
Buckets(minutes) == {BucketOf(r, minutes) : r \in Selected(minutes)}

\* avg() skips a NULL, and of nothing else is NULL, which the code reads as 0.
Average(b, minutes) ==
  LET in == {r \in Selected(minutes) : BucketOf(r, minutes) = b /\ r.rx # Null}
  IN IF in = {} THEN [sum |-> 0, n |-> 1]
     ELSE [sum |-> MapThenSumSet(LAMBDA r : r.rx, in), n |-> Cardinality(in)]

Earlier(b, minutes) == {c \in Buckets(minutes) : c < b}

\* MUTANT (Elapsed): one bucket, whatever lies between the two
OneBucket(b, minutes) == bucket_secs(minutes)
Elapsed(b, minutes) == (b - Max(Earlier(b, minutes))) * bucket_secs(minutes)

\* The speed of bucket b is at most limit: (rx - prx) / dt, never below 0.
SpeedAtMost(b, minutes, limit) ==
  Earlier(b, minutes) # {} =>
    LET new == Average(b, minutes)
        old == Average(Max(Earlier(b, minutes)), minutes)
        gain == new.sum * old.n - old.sum * new.n
    IN gain <= 0 \/ gain <= limit * Elapsed(b, minutes) * new.n * old.n

-----------------------------------------------------------------------------
HistoryTypeOK ==
  /\ wall \in 0..LastSecond /\ counter \in Nat /\ migrated \in BOOLEAN
  /\ \A r \in samples : r.at \in 1..LastSecond /\ r.rx \in Nat \cup {Null}

\* Every row of the window is in the answer.
WindowIsCovered ==
  \A m \in Minutes : \A r \in samples :
    r.at >= wall - clamped(m) * Minute => BucketOf(r, m) \in Buckets(m)

HadCounter(b, m) == \E r \in Selected(m) : BucketOf(r, m) = b /\ r.rx # Null

\* No chart shows a speed the host never had: across lost cycles, restarts of
\* the host and buckets of several rows, a speed is under twice the fastest
\* growth, but after a bucket of rows older than the column.
NoPhantomSpeed ==
  \A m \in Minutes : \A b \in Buckets(m) :
    (\A c \in Earlier(b, m) : HadCounter(c, m)) => SpeedAtMost(b, m, 2 * Max(Growth))

ChartsHold == WindowIsCovered /\ NoPhantomSpeed

\* "rows are averaged into at most 300 buckets"
AtMostMaxPoints == \A m \in Minutes : Cardinality(Buckets(m)) <= MAX_POINTS
=============================================================================
