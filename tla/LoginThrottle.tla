---------------------------- MODULE LoginThrottle ----------------------------
(***************************************************************************)
(* POST /api/v1/login: the throttle of src/monitor/src/api/ratelimit.rs,   *)
(* checked before two awaits and updated after them, and the limit on      *)
(* password checks running on blocking threads (login and                  *)
(* verify_login_password_off_worker in src/monitor/src/api/server.rs).     *)
(*                                                                         *)
(* Grain.  The throttle's map is one mutex: check, record_failure and      *)
(* record_success are one step each.  A handler awaits the database and    *)
(* then the permit and the thread; it can be cancelled there.              *)
(*                                                                         *)
(* Abstracted: the instants to an age per entry that time advances and     *)
(* that stops at ENTRY_TTL, past which it no longer matters; the password  *)
(* to whether it is right; the token and last_login.                       *)
(***************************************************************************)
EXTENDS Naturals, FiniteSets

CONSTANTS
  Req,         \* handler slots
  Ip, User,    \* addresses, lowercased account names
  Unnamed,     \* no peer address, no user name
  Free,        \* FREE_ATTEMPTS
  MaxDelay,    \* MAX_DELAY in ticks; BASE_DELAY is one tick
  EntryTTL,    \* ENTRY_TTL in ticks
  Prune,       \* PRUNE_THRESHOLD
  MaxFailures, \* where saturating_add stops
  Permits      \* permits of the password check semaphore

ASSUME ThrottleAssumption ==
  /\ {Free, EntryTTL, Prune, MaxFailures} \subseteq Nat
  /\ MaxDelay \in 1..EntryTTL - 1 /\ MaxFailures > Free
  /\ Permits \in Nat \ {0}
  /\ IsFiniteSet(Req) /\ Req # {} /\ Unnamed \notin Ip \cup User

Key == Ip \cup User

VARIABLES
  failures,  \* entries: failures of a key, 0 when it has no entry
  age,       \* ticks since its last_seen
  state,     \* where a handler stands
  who,       \* peer_ip and user name of its request
  orphans,   \* checks still running whose request is gone
  permits,   \* permits of password_check_limit left
  late       \* history: failures recorded on a key since it became blocked

throttleVars == <<failures, age, late>>
loginVars == <<failures, age, state, who, orphans, permits, late>>

\* A missing address and an empty name are no keys.
Keys(w) == {w.ip, w.user} \cap Key

\* Entry::penalty: 1, 2, 4, ... from the first failure over the free ones.
penalty(n) ==
  IF n <= Free THEN 0
  ELSE LET shift == IF n - Free - 1 < 20 THEN n - Free - 1 ELSE 20
       IN  IF 2 ^ shift < MaxDelay THEN 2 ^ shift ELSE MaxDelay

Nobody == [ip |-> Unnamed, user |-> Unnamed]

LateBound == Cardinality(Req)   \* bound of the history

Blocked(k) == penalty(failures[k]) > age[k]

LoginInit ==
  /\ failures = [k \in Key |-> 0]
  /\ age = [k \in Key |-> EntryTTL]
  /\ state = [r \in Req |-> "idle"]
  /\ who = [r \in Req |-> Nobody]
  /\ orphans = 0
  /\ permits = Permits
  /\ late = [k \in Key |-> 0]

-----------------------------------------------------------------------------
LoginTick ==
  /\ age' = [k \in Key |-> IF age[k] < EntryTTL THEN age[k] + 1 ELSE EntryTTL]
  /\ late' = [k \in Key |-> IF penalty(failures[k]) > age'[k] THEN late[k] ELSE 0]
  /\ UNCHANGED <<failures, state, who, orphans, permits>>

\* The account has been looked up, or not found: a check runs all the same.
Found(r) ==
  /\ state[r] = "query"
  /\ state' = [state EXCEPT ![r] = "waiting"]
  /\ UNCHANGED <<throttleVars, who, orphans, permits>>

\* acquire_owned and spawn_blocking.
StartCheck(r) ==
  /\ state[r] = "waiting"
  /\ permits > 0
  /\ permits' = permits - 1
  /\ state' = [state EXCEPT ![r] = "checking"]
  /\ UNCHANGED <<throttleVars, who, orphans>>

Live(k) == failures[k] > 0 /\ age[k] < EntryTTL

\* The failures of the keys left by the sweep of a map grown too large.
Swept ==
  IF Cardinality({k \in Key : failures[k] > 0}) > Prune
  THEN [k \in Key |-> IF Live(k) THEN failures[k] ELSE 0]
  ELSE failures

\* A key idle past the TTL starts over.
Counted(k) ==
  IF age[k] >= EntryTTL THEN 1
  ELSE IF Swept[k] < MaxFailures THEN Swept[k] + 1 ELSE MaxFailures

record_failure(w) ==
  /\ failures' = [k \in Key |-> IF k \in Keys(w) THEN Counted(k) ELSE Swept[k]]
  /\ age' = [k \in Key |-> IF k \in Keys(w) THEN 0 ELSE age[k]]
  /\ late' = [k \in Key |-> IF k \in Keys(w) /\ Blocked(k) /\ late[k] < LateBound
                          THEN late[k] + 1 ELSE late[k]]

record_success(w) ==
  /\ failures' = [k \in Key |-> IF k \in Keys(w) THEN 0 ELSE failures[k]]
  /\ late' = [k \in Key |-> IF k \in Keys(w) THEN 0 ELSE late[k]]
  /\ UNCHANGED age

\* MUTANT: only the address is asked about.
PassesByAddress(w) == \A k \in Keys(w) \cap Ip : ~Blocked(k)

\* LoginThrottle::check: both keys must pass.
Passes(w) == \A k \in Keys(w) : ~Blocked(k)

\* MUTANT: a refused attempt counts as a failure.
CountedCheck(r, w) ==
  /\ state[r] = "idle"
  /\ IF Passes(w)
     THEN /\ state' = [state EXCEPT ![r] = "query"]
          /\ who' = [who EXCEPT ![r] = w]
          /\ UNCHANGED throttleVars
     ELSE record_failure(w) /\ UNCHANGED <<state, who>>
  /\ UNCHANGED <<orphans, permits>>

\* A refused attempt leaves no trace; one that passes queries the database.
Check(r, w) ==
  /\ state[r] = "idle"
  /\ Passes(w)
  /\ state' = [state EXCEPT ![r] = "query"]
  /\ who' = [who EXCEPT ![r] = w]
  /\ UNCHANGED <<throttleVars, orphans, permits>>

Gone(r) == /\ state' = [state EXCEPT ![r] = "idle"]
           /\ who' = [who EXCEPT ![r] = Nobody]

\* The thread is done: its permit is back, and the handler records.
Checked(r, right) ==
  /\ state[r] = "checking"
  /\ permits' = permits + 1
  /\ IF right THEN record_success(who[r]) ELSE record_failure(who[r])
  /\ Gone(r)
  /\ UNCHANGED orphans

\* MUTANT: the permit is the request's, and goes with it.
HangUpWithPermit(r) ==
  /\ state[r] \in {"query", "waiting", "checking"}
  /\ orphans' = orphans + (IF state[r] = "checking" THEN 1 ELSE 0)
  /\ permits' = permits + (IF state[r] = "checking" THEN 1 ELSE 0)
  /\ Gone(r)
  /\ UNCHANGED throttleVars

\* The client is gone and the handler dropped; a check that runs goes on.
HangUp(r) ==
  /\ state[r] \in {"query", "waiting", "checking"}
  /\ orphans' = orphans + (IF state[r] = "checking" THEN 1 ELSE 0)
  /\ Gone(r)
  /\ UNCHANGED <<throttleVars, permits>>

OrphanDone ==
  /\ orphans > 0
  /\ orphans' = orphans - 1
  /\ permits' = permits + 1
  /\ UNCHANGED <<throttleVars, state, who>>

Who == [ip : Ip \cup {Unnamed}, user : User \cup {Unnamed}]

LoginNext ==
  \/ LoginTick
  \/ OrphanDone
  \/ \E r \in Req : \/ \E w \in Who : Check(r, w)
                    \/ Found(r)
                    \/ StartCheck(r)
                    \/ \E right \in BOOLEAN : Checked(r, right)
                    \/ HangUp(r)

\* Time passes, and the threads finish.
LoginSpec == LoginInit /\ [][LoginNext]_loginVars /\ WF_loginVars(LoginTick)

-----------------------------------------------------------------------------
LoginTypeOK ==
  /\ failures \in [Key -> 0..MaxFailures]
  /\ age \in [Key -> 0..EntryTTL]
  /\ state \in [Req -> {"idle", "query", "waiting", "checking"}]
  /\ who \in [Req -> Who]
  /\ orphans \in 0..Permits
  /\ permits \in 0..Permits
  /\ late \in [Key -> 0..LateBound]

Checking == {r \in Req : state[r] = "checking"}

\* However many requests are dropped while their check runs, no more checks
\* run than there are permits ("cancellation of the request cannot admit
\* another bcrypt check before this one actually stops").
VerifierBounded == Cardinality(Checking) + orphans <= Permits

\* The check comes before the awaits and the count after them, so failures
\* are recorded on a key that is blocked already.  They are those of requests
\* in flight when it became so, and no more: a blocked key lets nobody in,
\* by whichever of its two keys a request comes.
LateBounded == \A k \in Key : late[k] < Cardinality(Req)

\* A block is lifted in the end, whoever keeps knocking: refused attempts do
\* not prolong it.
BlockLifts == \A k \in Key : Blocked(k) ~> ~Blocked(k)
=============================================================================
