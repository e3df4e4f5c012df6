------------------------------- MODULE Retention -------------------------------
(***************************************************************************)
(* What the agent keeps and what it deletes: the writes of a cycle         *)
(* (store_metrics, store_velocity_data), and DataCleanupService            *)
(* (src/monitor/src/db/cleanup.rs): by age, by policy and by size.         *)
(*                                                                         *)
(* Grain.  One action per SQL statement of the cleanup; the loop stores a  *)
(* cycle between any two of them, as one transaction or not at all.        *)
(*                                                                         *)
(* Abstracted.  A row is the tick it was written in, and takes one page; a *)
(* table is a set of rows.  "metrics" is system_metrics, "cores"           *)
(* cpu_core_metrics, "speeds" velocity_metrics, "log" one of the policy    *)
(* tables no cap trims, "alerts" the table with a retention of its own,    *)
(* which this version of the agent reads and cleans but never writes.  A   *)
(* tenth is one part in Share, ten rounds are Rounds.                      *)
(***************************************************************************)
EXTENDS Integers, Sequences, FiniteSets, FiniteSetsExt

CONSTANTS
  Days,      \* the retention of each table, in ticks
  DayLength, \* the ticks of a calendar day
  MaxPages,  \* max_db_size_mb, in pages; 0 is no cap
  Schema,    \* pages the schema and the indexes take
  Share,     \* the inverse of the share a round deletes
  Rounds,    \* rounds of one cleanup
  Enabled,   \* the tables retention_policies names and has enabled
  Ticks      \* bound: how far the clock goes

Table == {"metrics", "cores", "speeds", "log", "alerts"}
SIZE_CAPPED_TABLES == <<"metrics", "speeds", "cores">>
Capped == {SIZE_CAPPED_TABLES[i] : i \in 1..3}
POLICY_TABLES == {"speeds", "cores", "log"}

ASSUME RetentionAssumption ==
  /\ Days \in [Table -> Nat] /\ {MaxPages, Schema, Ticks} \subseteq Nat
  /\ {Rounds, DayLength} \subseteq Nat \ {0} /\ Share \in Nat \ {0, 1} /\ Enabled \subseteq Table

VARIABLES
  rows,     \* what each table holds
  pages,    \* page_count: the freelist included
  today,    \* the clock
  lost,     \* history: the newest row ever deleted from each table
  statement,  \* the statement the cleanup is about to run
  ahead,    \* the policies, or the capped tables, still to do in this pass
  round,    \* the round of the size cap
  dropped,  \* deleted_round
  since,    \* history: the clock when the cleanup began
  held,     \* history: the size, and the capped rows, when its last round began
  outcome   \* history: how the last cleanup ended

storeVars == <<rows, lost, today>>
sizeVars == <<ahead, round, dropped, held>>
retentionVars == <<storeVars, pages, statement, since, sizeVars, outcome>>

RowsOf(tables) == UNION {{t} \X rows[t] : t \in tables}
Held(tables) == Cardinality(RowsOf(tables))
Used == Schema + Held(Table)

RetentionInit ==
  /\ rows = [t \in Table |-> {}] /\ lost = [t \in Table |-> 0]
  /\ pages = Schema /\ today = 0
  /\ statement = "idle" /\ outcome = "none"
  /\ ahead = {} /\ round = 0 /\ dropped = 0 /\ since = 0 /\ held = [all |-> 0, capped |-> 0]

(***************************************************************************)
(* A tick of the clock, with what it writes.  A cycle's metrics and cores  *)
(* are one transaction; the speeds of its velocity rules are another, and  *)
(* the log is other handlers'.  Any of them may fail.                      *)
(***************************************************************************)
\* MUTANT (store_metrics): each insert on its own connection
StoredOneByOne ==
  {w \in SUBSET {"metrics", "cores"} : "cores" \in w => "metrics" \in w}
store_metrics == {{}, {"metrics", "cores"}}
store_velocity_data == {{}, {"speeds"}}
OtherWrites == {{}, {"log"}}

Write ==
  /\ today < Ticks
  /\ today' = today + 1
  /\ \E m \in store_metrics, v \in store_velocity_data, o \in OtherWrites :
       /\ rows' = [t \in Table |->
            IF t \in m \cup v \cup o THEN rows[t] \cup {today'} ELSE rows[t]]
       /\ pages' = LET used == Used + Cardinality(m) + Cardinality(v) + Cardinality(o)
                   IN IF used > pages THEN used ELSE pages
  /\ UNCHANGED <<lost, statement, since, sizeVars, outcome>>

(***************************************************************************)
(* cleanup_expired_data, statement by statement.  A failing one ends it.   *)
(***************************************************************************)
BeginCleanup ==
  /\ statement = "idle" /\ today > since   \* bound: one cleanup a tick
  /\ statement' = "metrics" /\ since' = today /\ outcome' = "none"
  /\ UNCHANGED <<storeVars, pages, sizeVars>>

\* The scheduler vacuums after every cleanup, failed or not.
Finish(how) ==
  /\ statement' = "vacuum"
  /\ outcome' = how
  /\ ahead' = {} /\ round' = 0 /\ dropped' = 0

StatementFails ==
  /\ statement \notin {"idle", "vacuum"}
  /\ Finish("failed")
  /\ UNCHANGED <<storeVars, pages, since, held>>

Delete(t, gone) ==
  /\ rows' = [rows EXCEPT ![t] = @ \ gone]
  /\ lost' = [lost EXCEPT ![t] = Max(gone \cup {@})]

(***************************************************************************)
(* `timestamp < ?` compares texts.  The agent writes the times of its own  *)
(* rows as RFC 3339, and the bound is written so too: there the texts      *)
(* stand as the times do.  A row of the log has SQLite's CURRENT_TIMESTAMP,*)
(* with a space where the bound has its T: it is less than every time of   *)
(* the same day.                                                           *)
(***************************************************************************)
DayOf(r) == r \div DayLength
LessAsText(t, r, bound) ==
  IF t = "log" THEN DayOf(r) <= DayOf(bound) ELSE r < bound

Expired(t) == {r \in rows[t] : LessAsText(t, r, today - Days[t])}

cleanup_old_metrics ==
  /\ statement = "metrics"
  /\ Delete("metrics", Expired("metrics"))
  /\ statement' = "alerts"
  /\ UNCHANGED <<today, pages, since, sizeVars, outcome>>

cleanup_old_alerts ==
  /\ statement = "alerts"
  /\ Delete("alerts", Expired("alerts"))
  /\ statement' = "policies"
  /\ UNCHANGED <<today, pages, since, sizeVars, outcome>>

FetchPolicies ==
  /\ statement = "policies"
  /\ ahead' = Enabled /\ statement' = "policy"
  /\ UNCHANGED <<storeVars, pages, since, round, dropped, held, outcome>>

\* MUTANT (PolicyTable): the list of the size cap used for the policies too
OfTheOtherList(t) == t \in Capped
PolicyTable(t) == t \in POLICY_TABLES

cleanup_policy_tables ==
  /\ statement = "policy"
  /\ \/ /\ ahead = {}
        /\ IF MaxPages = 0 THEN Finish("uncapped")
           ELSE statement' = "check" /\ round' = 1 /\ UNCHANGED <<ahead, dropped, outcome>>
        /\ UNCHANGED <<rows, lost>>
     \/ \E t \in ahead :
          /\ ahead' = ahead \ {t}
          /\ Delete(t, IF PolicyTable(t) THEN Expired(t) ELSE {})
          /\ UNCHANGED <<statement, round, dropped, outcome>>
  /\ UNCHANGED <<today, pages, since, held>>

(***************************************************************************)
(* enforce_db_size_limit: a check, then a pass over the capped tables.     *)
(***************************************************************************)
\* MUTANT (live_db_bytes): the size of the file
FileSize == pages
Freelist == pages - Used
live_db_bytes == pages - Freelist

CheckSize ==
  /\ statement = "check"
  /\ IF live_db_bytes <= MaxPages
       THEN Finish("fits") /\ held' = held
       ELSE /\ statement' = "trim" /\ ahead' = Capped /\ dropped' = 0
            /\ UNCHANGED <<round, outcome>>
            /\ held' = [all |-> Used, capped |-> Held(Capped)]
  /\ UNCHANGED <<storeVars, pages, since>>

FirstOf(tables) ==
  SIZE_CAPPED_TABLES[CHOOSE i \in 1..3 : /\ SIZE_CAPPED_TABLES[i] \in tables
                                         /\ \A j \in 1..i - 1 : SIZE_CAPPED_TABLES[j] \notin tables]

\* MUTANT (Oldest): ORDER BY timestamp DESC
Newest(t, n) == {r \in rows[t] : Cardinality({s \in rows[t] : s > r}) < n}
Oldest(t, n) == {r \in rows[t] : Cardinality({s \in rows[t] : s < r}) < n}

TrimTable ==
  /\ statement = "trim" /\ ahead # {}
  /\ LET t == FirstOf(ahead)
         gone == Oldest(t, Cardinality(rows[t]) \div Share + 1)
     IN /\ Delete(t, gone)
        /\ ahead' = ahead \ {t}
        /\ dropped' = dropped + Cardinality(gone)
  /\ UNCHANGED <<today, pages, statement, since, round, held, outcome>>

\* MUTANT (LittleLeft): a share of the tables' rows taken for the overhead
SmallRound == dropped <= Share * Len(SIZE_CAPPED_TABLES)
LittleLeft == dropped <= Len(SIZE_CAPPED_TABLES)

EndRound ==
  /\ statement = "trim" /\ ahead = {}
  /\ IF LittleLeft THEN Finish("little_left")
     ELSE IF round = Rounds THEN Finish("rounds_used")
     ELSE statement' = "check" /\ round' = round + 1 /\ UNCHANGED <<ahead, dropped, outcome>>
  /\ UNCHANGED <<storeVars, pages, since, held>>

vacuum_database ==
  /\ statement = "vacuum"
  /\ statement' = "idle"
  /\ pages' \in {Used, pages}   \* it may fail, and `cleanup run` leaves it out
  /\ UNCHANGED <<storeVars, since, sizeVars, outcome>>

RetentionNext ==
  \/ Write
  \/ BeginCleanup
  \/ StatementFails
  \/ cleanup_old_metrics \/ cleanup_old_alerts
  \/ FetchPolicies \/ cleanup_policy_tables
  \/ CheckSize \/ TrimTable \/ EndRound
  \/ vacuum_database

RetentionSpec == RetentionInit /\ [][RetentionNext]_retentionVars

-----------------------------------------------------------------------------
RetentionTypeOK ==
  /\ rows \in [Table -> SUBSET (1..Ticks)] /\ lost \in [Table -> 0..Ticks]
  /\ pages \in Nat /\ today \in 0..Ticks /\ since \in 0..Ticks
  /\ statement \in {"idle", "metrics", "alerts", "policies", "policy", "check", "trim", "vacuum"}
  /\ ahead \subseteq Table /\ round \in 0..Rounds /\ dropped \in Nat
  /\ held \in [all : Nat, capped : Nat]

Governed == {"metrics", "alerts"} \cup (Enabled \cap POLICY_TABLES)
Ended == {"idle", "vacuum"}

\* What a cleanup leaves is the newest of what was stored: whichever statements
\* ran, failed or met a write, a table never loses a row and keeps an older one.
OldestFirst == \A t \in Table : \A r \in rows[t] : lost[t] < r

\* The size cap reaches the listed tables only: a row of another one, or of any
\* table while no check found the data over the cap, went because of its age; a
\* row of the log less than a day before it had reached it.
Early(t) == IF t = "log" THEN DayLength ELSE 0
AgedOutElsewhere ==
  \A t \in Table :
    lost[t] > 0 =>
      \/ lost[t] < today - Days[t] + Early(t)
      \/ t \in Capped /\ held.all > MaxPages

\* A cleanup that ended without an error leaves no row of a governed table that
\* was past its retention when it began, and stops over the cap only after all
\* its rounds or with fewer rows than a share of one per capped table.
CleanMeansClean ==
  statement \in Ended /\ outcome \notin {"none", "failed"} =>
    /\ \A t \in Governed : \A r \in rows[t] : r >= since - Days[t]
    /\ outcome = "little_left" => held.capped < Share * Len(SIZE_CAPPED_TABLES)

\* A cycle has its metrics row and its core rows, or neither: one of the two is
\* missing only where a cleanup has deleted from that table.
TogetherOrNot ==
  \A r \in rows["metrics"] \cup rows["cores"] :
    r > Max({lost["metrics"], lost["cores"]}) => r \in rows["metrics"] \cap rows["cores"]

\* NOT SO for rows of the day of the bound: "Deleted {} rows from {} older than {}
\* days" (cleanup.rs:140), the log's 90 days (migration 006).
LogKeptItsDays == lost["log"] > 0 => lost["log"] < today - Days["log"]

\* What the database keeps is what its retention says, the log to the day.
RetentionHolds == OldestFirst /\ AgedOutElsewhere /\ CleanMeansClean /\ TogetherOrNot
=============================================================================
