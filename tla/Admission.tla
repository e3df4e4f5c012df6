------------------------------ MODULE Admission ------------------------------
(***************************************************************************)
(* What the WebSocket doors promise, with neither clock, store nor         *)
(* counter: a ticket is spent once, whatever becomes of it; only a caller  *)
(* who spent one waits for a place; at most Cap callers have one at a      *)
(* time.  Tunnel.tla implements this.                                      *)
(***************************************************************************)
EXTENDS Naturals, FiniteSets

CONSTANTS Conn, Ticket, Cap

VARIABLES
  spent,    \* tickets that can open nothing any more
  waiting,  \* callers let in by a ticket and not placed yet
  inside    \* callers who have a place

Init == spent = {} /\ waiting = {} /\ inside = {}

Waste(ts) == /\ spent' = spent \cup ts
             /\ UNCHANGED <<waiting, inside>>

Spend(c, t) == /\ t \notin spent
               /\ c \notin waiting \cup inside
               /\ spent' = spent \cup {t}
               /\ waiting' = waiting \cup {c}
               /\ UNCHANGED inside

Enter(c) == /\ c \in waiting
            /\ Cardinality(inside) < Cap
            /\ waiting' = waiting \ {c}
            /\ inside' = inside \cup {c}
            /\ UNCHANGED spent

TurnAway(c) == c \in waiting /\ waiting' = waiting \ {c} /\ UNCHANGED <<spent, inside>>

Leave(c) == c \in inside /\ inside' = inside \ {c} /\ UNCHANGED <<spent, waiting>>

Next == \/ \E ts \in SUBSET Ticket : Waste(ts)
        \/ \E c \in Conn, t \in Ticket : Spend(c, t)
        \/ \E c \in Conn : Enter(c) \/ TurnAway(c) \/ Leave(c)

Spec == Init /\ [][Next]_<<spent, waiting, inside>>
=============================================================================
