----------------------------- MODULE VelocityLock -----------------------------
(***************************************************************************)
(* Who waits for whom on AppState.velocity_manager, a tokio RwLock: the    *)
(* collection loop (run_monitoring_loop, src/monitor/src/monitoring/       *)
(* monitoring.rs) writes it once a cycle and reads it while the rules are  *)
(* checked; GET /velocity (get_velocity, src/monitor/src/api/server.rs)    *)
(* reads it three times, the second and the third while the guard of the   *)
(* first, a temporary of the `match`, is still held; the history endpoint  *)
(* reads it once.                                                          *)
(*                                                                         *)
(* External: tokio's RwLock is fair.  A request that cannot be met at once *)
(* waits in line, and whoever comes later waits behind it, readers behind  *)
(* a waiting writer included.                                              *)
(*                                                                         *)
(* Abstracted: what is read and written.  A push that is sent while the    *)
(* rules are checked is answered in the end.                               *)
(***************************************************************************)
EXTENDS Naturals, Sequences

CONSTANTS
  Viewer,    \* handlers of GET /velocity and of the history
  Loop       \* the collection loop, no one of them

VARIABLES
  at,     \* where a task stands
  queue,  \* requests for the lock, in line: who, and in which mode
  guards  \* read guards a task holds

lockVars == <<at, queue, guards>>

Tasks == Viewer \cup {Loop}

LockInit ==
  /\ at = [t \in Tasks |-> "idle"]
  /\ queue = <<>>
  /\ guards = [t \in Tasks |-> 0]

WriteHeld == at[Loop] = "writing"

Ask(t, mode, next) ==
  /\ queue' = Append(queue, [who |-> t, mode |-> mode])
  /\ at' = [at EXCEPT ![t] = next]

\* The head of the line is served when nobody it excludes holds the lock.
Served(t) ==
  /\ queue # <<>> /\ Head(queue).who = t /\ ~WriteHeld
  /\ Head(queue).mode = "write" => \A u \in Tasks : guards[u] = 0
  /\ queue' = Tail(queue)

-----------------------------------------------------------------------------
(* The loop: write, then read for the rules, then publish and sleep.       *)

LoopStep ==
  \/ at[Loop] = "idle" /\ Ask(Loop, "write", "wantsWrite") /\ UNCHANGED guards
  \/ /\ at[Loop] = "wantsWrite" /\ Served(Loop)
     /\ at' = [at EXCEPT ![Loop] = "writing"] /\ UNCHANGED guards
  \/ at[Loop] = "writing" /\ Ask(Loop, "read", "wantsRead") /\ UNCHANGED guards
  \/ /\ at[Loop] = "wantsRead" /\ Served(Loop)
     /\ at' = [at EXCEPT ![Loop] = "rules"]
     /\ guards' = [guards EXCEPT ![Loop] = 1]
  \/ /\ at[Loop] = "rules"
     /\ at' = [at EXCEPT ![Loop] = "idle"]
     /\ guards' = [guards EXCEPT ![Loop] = 0] /\ UNCHANGED queue

-----------------------------------------------------------------------------
(* get_velocity: get_server_velocity under the guard of the match, then    *)
(* get_network_totals and is_ready under a guard of their own each.        *)

Request(v) ==
  /\ at[v] = "idle"
  /\ \E endpoint \in {"first", "history"} : Ask(v, "read", endpoint)
  /\ UNCHANGED guards

Guarded(v, from, to) ==
  /\ at[v] = from /\ Served(v)
  /\ at' = [at EXCEPT ![v] = to]
  /\ guards' = [guards EXCEPT ![v] = @ + 1]

AskAgain(v, from, to) ==
  /\ at[v] = from /\ Ask(v, "read", to)
  \* The guard of a `let` statement is gone at its end, the match's is not.
  /\ guards' = [guards EXCEPT ![v] = 1]

Answer(v) ==
  /\ at[v] \in {"ready", "listed"}
  /\ at' = [at EXCEPT ![v] = "idle"]
  /\ guards' = [guards EXCEPT ![v] = 0]
  /\ UNCHANGED queue

ViewerStep(v) ==
  \/ Guarded(v, "first", "velocity") \/ AskAgain(v, "velocity", "second")
  \/ Guarded(v, "second", "totals") \/ AskAgain(v, "totals", "third")
  \/ Guarded(v, "third", "ready")
  \/ Guarded(v, "history", "listed")
  \/ Answer(v)

LockNext == LoopStep \/ \E v \in Viewer : Request(v) \/ ViewerStep(v)

LockSpec ==
  /\ LockInit /\ [][LockNext]_lockVars
  /\ WF_lockVars(LoopStep)
  /\ \A v \in Viewer : WF_lockVars(ViewerStep(v))

\* is_extended_cycle's comment (monitoring.rs:209) has the cycle "incrementing
\* once per `interval_seconds`": the loop comes round again and again.
CyclesGoOn == []<>(at[Loop] = "idle") /\ []<>(at[Loop] # "idle")
=============================================================================
