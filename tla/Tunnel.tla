------------------------------- MODULE Tunnel -------------------------------
(***************************************************************************)
(* The two WebSocket doors of the agent up to the upgrade: tickets minted  *)
(* by POST /api/v1/ws-ticket (src/monitor/src/api/ws/ticket.rs), spent by  *)
(* the terminal's handshake and by the tunnel's, and the tunnel's count of *)
(* live connections (src/monitor/src/api/ws/tunnel.rs).                    *)
(*                                                                         *)
(* Grain.  The ticket store is one mutex, so issue and consume are one     *)
(* step each.  Handshakes run on several worker threads: between the load  *)
(* and the compare-exchange of the count any other thread may step.  A     *)
(* handshake can be cancelled at its awaits, which drops its guard.        *)
(*                                                                         *)
(* Abstracted: secrets to whether the right one was presented; time to     *)
(* ticks; refusals that come before the ticket is looked at (door closed,  *)
(* origin, no ticket), which change nothing; the audit rows.               *)
(***************************************************************************)
EXTENDS Naturals, FiniteSets

CONSTANTS
  Conn,      \* handshakes
  Ticket,    \* ids; a random id is minted once
  Account,   \* JWT subjects
  Doors,     \* the purposes that are available
  MaxLive,   \* MAX_LIVE
  TTL,       \* TTL, in ticks
  MaxConns   \* remote_access.tunnel.max_conns

Purpose == {"tunnel", "terminal"}

ASSUME DoorsAssumption  == Doors \subseteq Purpose
ASSUME LimitsAssumption == MaxLive \in Nat /\ TTL \in Nat \ {0} /\ MaxConns \in Nat
ASSUME ConnAssumption   == IsFiniteSet(Conn) /\ "nobody" \notin Ticket \cup Account

VARIABLES
  live,    \* TicketStore.entries: the ids in the map
  left,    \* ticks to an entry's expires_at
  minted,  \* an entry's purpose and subject, once issued
  slots,   \* TunnelCount
  at,      \* where a handshake stands
  seen,    \* current, in acquire
  pass,    \* the ticket that let a handshake in
  name     \* the subject it answered

ticketVars == <<live, left, minted>>
tunnelVars == <<live, left, minted, slots, at, seen, pass, name>>

Minted == [purpose : Purpose, subject : Account]
Unminted == [purpose |-> "none", subject |-> "nobody"]

Stage == {"new", "ticketed", "loaded", "connecting", "refusing", "auditing",
          "open", "shell", "gone"}

\* The stages in which a ConnGuard is alive.
Guarded == {"connecting", "refusing", "auditing", "open"}
Holders == {c \in Conn : at[c] \in Guarded}

TunnelInit ==
  /\ live = {}
  /\ left = [t \in Ticket |-> 0]
  /\ minted = [t \in Ticket |-> Unminted]
  /\ slots = 0
  /\ at = [c \in Conn |-> "new"]
  /\ seen = [c \in Conn |-> 0]
  /\ pass = [c \in Conn |-> "nobody"]
  /\ name = [c \in Conn |-> "nobody"]

-----------------------------------------------------------------------------
\* The store.

Tick ==
  /\ left' = [t \in Ticket |-> IF left[t] > 0 THEN left[t] - 1 ELSE 0]
  /\ UNCHANGED <<live, minted, slots, at, seen, pass, name>>

Fresh(entries) == {t \in entries : left[t] > 0}

\* MUTANT: the sweep is forgotten when the map is full.
Room(entries) == Cardinality(entries) < MaxLive + 1

\* The limit counts what is left after the sweep.
HasRoom(entries) == Cardinality(entries) < MaxLive

\* Expired entries are swept here and nowhere else, also when the map is
\* found full.
Issue(t, purpose, subject) ==
  /\ purpose \in Doors
  /\ minted[t] = Unminted
  /\ IF HasRoom(Fresh(live))
     THEN /\ live' = Fresh(live) \cup {t}
          /\ left' = [left EXCEPT ![t] = TTL]
          /\ minted' = [minted EXCEPT ![t] = [purpose |-> purpose, subject |-> subject]]
     ELSE live' = Fresh(live) /\ UNCHANGED <<left, minted>>
  /\ UNCHANGED <<slots, at, seen, pass, name>>

\* MUTANT: an entry is only looked up, and taken out when it has expired.
KeptOnHit(t) == IF left[t] = 0 THEN live \ {t} ELSE live

\* Any hit burns the entry, a wrong secret or purpose too.
Burnt(t) == live \ {t}

Accepted(t, right, purpose) ==
  t \in live /\ left[t] > 0 /\ minted[t].purpose = purpose /\ right

Present(c, t, right, purpose) ==
  /\ at[c] = "new"
  /\ purpose \in Doors
  /\ minted[t] # Unminted
  /\ live' = Burnt(t)
  /\ IF Accepted(t, right, purpose)
     THEN /\ at' = [at EXCEPT ![c] = IF purpose = "tunnel" THEN "ticketed" ELSE "shell"]
          /\ pass' = [pass EXCEPT ![c] = t]
          /\ name' = [name EXCEPT ![c] = minted[t].subject]
     ELSE at' = [at EXCEPT ![c] = "gone"] /\ UNCHANGED <<pass, name>>
  /\ UNCHANGED <<left, minted, slots, seen>>

-----------------------------------------------------------------------------
\* TunnelCount::acquire and its guard.

\* current >= max: refused, and the ticket stays burnt.
Weigh(c, current) ==
  /\ seen' = [seen EXCEPT ![c] = current]
  /\ at' = [at EXCEPT ![c] = IF current >= MaxConns THEN "gone" ELSE "loaded"]

Load(c) ==
  /\ at[c] = "ticketed"
  /\ Weigh(c, slots)
  /\ UNCHANGED <<ticketVars, slots, pass, name>>

\* MUTANT: a plain store of current + 1.
StoreAfterLoad(c) ==
  /\ at[c] = "loaded"
  /\ slots' = seen[c] + 1
  /\ at' = [at EXCEPT ![c] = "connecting"]
  /\ UNCHANGED <<ticketVars, seen, pass, name>>

CompareExchange(c) ==
  /\ at[c] = "loaded"
  /\ IF slots = seen[c]
     THEN slots' = slots + 1 /\ at' = [at EXCEPT ![c] = "connecting"] /\ UNCHANGED seen
     ELSE Weigh(c, slots) /\ UNCHANGED slots
  /\ UNCHANGED <<ticketVars, pass, name>>

\* The connect to sshd: a failure is recorded while the guard is still alive.
Connected(c) ==
  /\ at[c] = "connecting"
  /\ \E result \in {"auditing", "refusing"} : at' = [at EXCEPT ![c] = result]
  /\ UNCHANGED <<ticketVars, slots, seen, pass, name>>

Upgraded(c) ==
  /\ at[c] = "auditing"
  /\ at' = [at EXCEPT ![c] = "open"]
  /\ UNCHANGED <<ticketVars, slots, seen, pass, name>>

\* MUTANT: the slot is only given back by a relay that ran.
DropOfOpen(c) ==
  /\ at[c] \in Guarded
  /\ at' = [at EXCEPT ![c] = "gone"]
  /\ slots' = IF at[c] = "open" THEN slots - 1 ELSE slots
  /\ UNCHANGED <<ticketVars, seen, pass, name>>

\* The guard is dropped: the refusal is answered, the handshake cancelled at
\* an await, or the relay over (TunnelRelay).
DropGuard(c) ==
  /\ at[c] \in Guarded
  /\ at' = [at EXCEPT ![c] = "gone"]
  /\ slots' = slots - 1
  /\ UNCHANGED <<ticketVars, seen, pass, name>>

\* A terminal's connection ends (TerminalSessions has what it does).
ShellCloses(c) ==
  /\ at[c] = "shell"
  /\ at' = [at EXCEPT ![c] = "gone"]
  /\ UNCHANGED <<ticketVars, slots, seen, pass, name>>

Asks(t) == \E purpose \in Purpose, subject \in Account : Issue(t, purpose, subject)

Presents(c) ==
  \E t \in Ticket, right \in BOOLEAN, purpose \in Purpose : Present(c, t, right, purpose)

Acquires(c) == Load(c) \/ CompareExchange(c)

TunnelNext ==
  \/ Tick
  \/ \E t \in Ticket : Asks(t)
  \/ \E c \in Conn : \/ Presents(c)
                     \/ Acquires(c)
                     \/ Connected(c)
                     \/ Upgraded(c)
                     \/ DropGuard(c)
                     \/ ShellCloses(c)

TunnelSpec == TunnelInit /\ [][TunnelNext]_tunnelVars

-----------------------------------------------------------------------------
TunnelTypeOK ==
  /\ live \subseteq Ticket
  /\ left \in [Ticket -> 0..TTL]
  /\ minted \in [Ticket -> Minted \cup {Unminted}]
  /\ slots \in Nat
  /\ at \in [Conn -> Stage]
  /\ seen \in [Conn -> Nat]
  /\ pass \in [Conn -> Ticket \cup {"nobody"}]
  /\ name \in [Conn -> Account \cup {"nobody"}]

\* A ticket opens one connection at most, at the door it was minted for and
\* as the account that asked for it: two sockets racing with one ticket, a
\* second use after the first was turned away, and a use of the other door
\* all find the entry gone (TicketStore::consume).
TicketOnce ==
  /\ \A c, d \in Conn : pass[c] = pass[d] /\ pass[c] # "nobody" => c = d
  /\ \A c \in Conn : pass[c] # "nobody" =>
       /\ pass[c] \notin live
       /\ name[c] = minted[pass[c]].subject
       /\ at[c] \in Guarded \cup {"ticketed", "loaded"} => minted[pass[c]].purpose = "tunnel"
       /\ at[c] = "shell" => minted[pass[c]].purpose = "terminal"

\* TunnelCount is the number of guards alive, and they are within the cap,
\* although every thread decides on a count it read earlier
\* (TunnelCount::acquire, ConnGuard::drop).
SlotsExact ==
  /\ slots = Cardinality(Holders)
  /\ Cardinality(Holders) <= MaxConns

\* However often clients ask and however their tickets expire, the map
\* holds no more than MAX_LIVE (TicketStore::issue).
StoreBounded == Cardinality(live) <= MaxLive

\* The doors implement Admission.
Doorway == INSTANCE Admission WITH
  Cap <- MaxConns,
  spent <- {t \in Ticket : minted[t] # Unminted /\ t \notin live},
  waiting <- {c \in Conn : at[c] \in {"ticketed", "loaded"}},
  inside <- Holders

\* Every step of the doors is a step of Admission or a stutter: no caller is
\* placed twice, without a ticket of its own or above the cap.
Admits == Doorway!Spec
=============================================================================
