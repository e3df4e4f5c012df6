----------------------------- MODULE AccessProofs -----------------------------
(***************************************************************************)
(* Proofs about the ways into the agent, for any set of handshakes,        *)
(* tickets and accounts, any capacities, amounts of memory and bounds: the *)
(* tunnel's counter is exact, a ticket opens one connection, and the doors *)
(* implement Admission; they do what /capabilities says and what the       *)
(* operator wrote, and no capacity is zero or shrinks with more memory;    *)
(* what one tunnel relays arrives whole and its keepalive is fair; the     *)
(* login's checks and late failures are bounded; a local shell's exit      *)
(* comes last, behind all that was printed.  At the end these stand side   *)
(* by side, as theorems of MCAccess's specification of them all.           *)
(***************************************************************************)
EXTENDS MCAccess, FiniteSetTheorems, TLAPS

-----------------------------------------------------------------------------
(* The doors of the tunnel.  The count a handshake carries between its     *)
(* load and its compare-exchange is below the cap; an entry of the map was *)
(* minted; and whoever a ticket let in holds one that was minted and is    *)
(* out of the map for good, alone, at the door and under the name it was   *)
(* minted for.                                                             *)

SeenBelowCap == \A c \in Conn : at[c] = "loaded" => seen[c] < MaxConns
LiveMinted   == \A t \in live : minted[t] # Unminted
PassSpent    == \A c \in Conn : pass[c] # "nobody" => minted[pass[c]] # Unminted
NewHasNone   == \A c \in Conn : at[c] = "new" => pass[c] = "nobody"

TunnelInv == /\ TunnelTypeOK /\ SeenBelowCap /\ LiveMinted /\ PassSpent /\ NewHasNone
             /\ TicketOnce /\ SlotsExact

\* Every variable of the doors has its type.
LEMMA TunnelTypeStep == TunnelTypeOK /\ SlotsExact /\ [TunnelNext]_tunnelVars => TunnelTypeOK'
<1> SUFFICES ASSUME TunnelTypeOK, SlotsExact, [TunnelNext]_tunnelVars PROVE TunnelTypeOK'
  OBVIOUS
<1> USE DEF TunnelTypeOK, ticketVars, Stage
<1>1. CASE Tick
  BY <1>1, LimitsAssumption DEF Tick
<1>2. ASSUME NEW t \in Ticket, NEW purpose \in Purpose, NEW subject \in Account,
             Issue(t, purpose, subject)
      PROVE  TunnelTypeOK'
  BY <1>2, LimitsAssumption DEF Issue, Fresh, Minted
<1>3. ASSUME NEW c \in Conn, NEW t \in Ticket, NEW right \in BOOLEAN, NEW purpose \in Purpose,
             Present(c, t, right, purpose)
      PROVE  TunnelTypeOK'
  <2>1. CASE Accepted(t, right, purpose)
    <3>1. minted[t] \in Minted
      BY <1>3 DEF Present
    <3>2. minted[t].subject \in Account
      BY <3>1 DEF Minted
    <3> QED
      BY <1>3, <2>1, <3>2 DEF Present, Burnt
  <2>2. CASE ~Accepted(t, right, purpose)
    BY <1>3, <2>2 DEF Present, Burnt
  <2> QED
    BY <2>1, <2>2
<1>4. ASSUME NEW c \in Conn, Load(c) PROVE TunnelTypeOK'
  BY <1>4 DEF Load, Weigh
<1>5. ASSUME NEW c \in Conn, CompareExchange(c) PROVE TunnelTypeOK'
  BY <1>5 DEF CompareExchange, Weigh
<1>6. ASSUME NEW c \in Conn, Connected(c) PROVE TunnelTypeOK'
  BY <1>6 DEF Connected
<1>7. ASSUME NEW c \in Conn, Upgraded(c) PROVE TunnelTypeOK'
  BY <1>7 DEF Upgraded
<1>8. ASSUME NEW c \in Conn, DropGuard(c) PROVE TunnelTypeOK'
  <2>1. Holders # {} /\ Holders \subseteq Conn
    BY <1>8 DEF DropGuard, Holders
  <2>2. IsFiniteSet(Holders)
    BY <2>1, ConnAssumption, FS_Subset
  <2>3. slots - 1 \in Nat
    BY <2>1, <2>2, FS_EmptySet, FS_CardinalityType DEF SlotsExact
  <2> QED
    BY <1>8, <2>3 DEF DropGuard
<1>9. ASSUME NEW c \in Conn, ShellCloses(c) PROVE TunnelTypeOK'
  BY <1>9 DEF ShellCloses
<1>10. CASE UNCHANGED tunnelVars
  BY <1>10 DEF tunnelVars
<1> QED
  BY <1>1, <1>2, <1>3, <1>4, <1>5, <1>6, <1>7, <1>8, <1>9, <1>10
     DEF TunnelNext, Asks, Presents, Acquires

-----------------------------------------------------------------------------
(* The counter.                                                            *)

\* A handshake that gets a guard, and one that drops its own, change the set
\* of guards by one element.
LEMMA HoldersChange ==
  ASSUME TunnelTypeOK, SlotsExact, NEW c \in Conn, NEW s \in Stage,
         at' = [at EXCEPT ![c] = s]
  PROVE  /\ IsFiniteSet(Holders) /\ IsFiniteSet(Holders')
         /\ c \notin Holders /\ s \in Guarded => Cardinality(Holders') = Cardinality(Holders) + 1
         /\ c \in Holders /\ s \notin Guarded => Cardinality(Holders') = Cardinality(Holders) - 1
         /\ (c \in Holders <=> s \in Guarded) => Holders' = Holders
<1> USE DEF TunnelTypeOK, Holders
<1>1. IsFiniteSet(Holders) /\ IsFiniteSet(Holders')
  BY ConnAssumption, FS_Subset
<1>2. ASSUME c \notin Holders, s \in Guarded
      PROVE  Cardinality(Holders') = Cardinality(Holders) + 1
  <2>1. Holders' = Holders \cup {c}
    BY <1>2
  <2> QED
    BY <1>1, <1>2, <2>1, FS_AddElement
<1>3. ASSUME c \in Holders, s \notin Guarded
      PROVE  Cardinality(Holders') = Cardinality(Holders) - 1
  <2>1. c \in Holders /\ Holders' = Holders \ {c}
    BY <1>3
  <2> HIDE DEF Holders
  <2> QED
    BY <1>1, <2>1, FS_RemoveElement
<1>4. ASSUME c \in Holders <=> s \in Guarded PROVE Holders' = Holders
  BY <1>4
<1> QED
  BY <1>1, <1>2, <1>3, <1>4

\* Every step keeps the count exact and within the cap.
LEMMA SlotsStep ==
  TunnelTypeOK /\ SeenBelowCap /\ SlotsExact /\ [TunnelNext]_tunnelVars
    => SeenBelowCap' /\ SlotsExact'
<1> SUFFICES ASSUME TunnelTypeOK, SeenBelowCap, SlotsExact, [TunnelNext]_tunnelVars
             PROVE  SeenBelowCap' /\ SlotsExact'
  OBVIOUS
<1> USE DEF SeenBelowCap, SlotsExact
<1>0. /\ slots \in Nat /\ MaxConns \in Nat
      /\ seen \in [Conn -> Nat] /\ at \in [Conn -> Stage]
  BY LimitsAssumption DEF TunnelTypeOK
<1>1. ASSUME UNCHANGED <<at, slots, seen>> PROVE SeenBelowCap' /\ SlotsExact'
  BY <1>1 DEF Holders
<1>2. CASE Tick \/ \E t \in Ticket : Asks(t)
  BY <1>1, <1>2 DEF Tick, Asks, Issue
<1>3. ASSUME NEW c \in Conn, Presents(c) PROVE SeenBelowCap' /\ SlotsExact'
  <2>1. PICK s \in {"ticketed", "shell", "gone"} : at' = [at EXCEPT ![c] = s]
    BY <1>3 DEF Presents, Present
  <2>2. at[c] = "new" /\ UNCHANGED <<slots, seen>>
    BY <1>3 DEF Presents, Present
  <2>3. Holders' = Holders
    BY <1>0, <2>1, <2>2 DEF Holders, Guarded
  <2> QED
    BY <1>0, <2>1, <2>2, <2>3
<1>4. ASSUME NEW c \in Conn, Load(c) PROVE SeenBelowCap' /\ SlotsExact'
  <2>1. Holders' = Holders /\ slots' = slots
    BY <1>0, <1>4 DEF Load, Weigh, Holders, Guarded
  <2>2. SeenBelowCap'
    BY <1>0, <1>4 DEF Load, Weigh
  <2> QED
    BY <2>1, <2>2
<1>5. ASSUME NEW c \in Conn, CompareExchange(c) PROVE SeenBelowCap' /\ SlotsExact'
  <2>1. CASE slots = seen[c]
    <3>1. at[c] = "loaded" /\ at' = [at EXCEPT ![c] = "connecting"] /\ UNCHANGED seen
          /\ slots' = slots + 1
      BY <1>5, <2>1 DEF CompareExchange
    <3>2. c \notin Holders /\ "connecting" \in Guarded /\ "connecting" \in Stage
      BY <3>1 DEF Holders, Guarded, Stage
    <3>3. Cardinality(Holders') = Cardinality(Holders) + 1
      BY <3>1, <3>2, HoldersChange
    <3>4. slots < MaxConns
      BY <2>1, <3>1
    <3>5. SeenBelowCap'
      BY <1>0, <3>1
    <3> QED
      BY <1>0, <3>1, <3>3, <3>4, <3>5
  <2>2. CASE slots # seen[c]
    <3>1. Holders' = Holders /\ slots' = slots
      BY <1>0, <1>5, <2>2 DEF CompareExchange, Weigh, Holders, Guarded
    <3>2. SeenBelowCap'
      BY <1>0, <1>5, <2>2 DEF CompareExchange, Weigh
    <3> QED
      BY <3>1, <3>2
  <2> QED
    BY <2>1, <2>2
<1>6. ASSUME NEW c \in Conn, Connected(c) \/ Upgraded(c) PROVE SeenBelowCap' /\ SlotsExact'
  <2>1. Holders' = Holders /\ UNCHANGED <<slots, seen>>
    BY <1>0, <1>6 DEF Connected, Upgraded, Holders, Guarded
  <2>2. SeenBelowCap'
    BY <1>0, <1>6 DEF Connected, Upgraded
  <2> QED
    BY <2>1, <2>2
<1>7. ASSUME NEW c \in Conn, DropGuard(c) PROVE SeenBelowCap' /\ SlotsExact'
  <2>1. /\ c \in Holders /\ "gone" \notin Guarded /\ "gone" \in Stage
        /\ at' = [at EXCEPT ![c] = "gone"] /\ slots' = slots - 1 /\ UNCHANGED seen
    BY <1>7 DEF DropGuard, Holders, Guarded, Stage
  <2>2. /\ Cardinality(Holders') = Cardinality(Holders) - 1
        /\ IsFiniteSet(Holders')
    BY <2>1, HoldersChange
  <2>3. SeenBelowCap'
    BY <1>0, <2>1
  <2> QED
    BY <1>0, <2>1, <2>2, <2>3
<1>8. ASSUME NEW c \in Conn, ShellCloses(c) PROVE SeenBelowCap' /\ SlotsExact'
  <2>1. Holders' = Holders /\ UNCHANGED <<slots, seen>>
    BY <1>0, <1>8 DEF ShellCloses, Holders, Guarded
  <2>2. SeenBelowCap'
    BY <1>0, <1>8 DEF ShellCloses
  <2> QED
    BY <2>1, <2>2
<1>9. CASE UNCHANGED tunnelVars
  BY <1>1, <1>9 DEF tunnelVars
<1> QED
  BY <1>2, <1>3, <1>4, <1>5, <1>6, <1>7, <1>8, <1>9 DEF TunnelNext, Acquires

-----------------------------------------------------------------------------
(* The tickets.                                                            *)

\* Every step leaves each ticket to one handshake.
LEMMA TicketStep ==
  /\ TunnelTypeOK /\ LiveMinted /\ PassSpent /\ NewHasNone /\ TicketOnce
  /\ [TunnelNext]_tunnelVars
  => LiveMinted' /\ PassSpent' /\ NewHasNone' /\ TicketOnce'
<1> DEFINE Goal == LiveMinted' /\ PassSpent' /\ NewHasNone' /\ TicketOnce'
<1> SUFFICES ASSUME TunnelTypeOK, LiveMinted, PassSpent, NewHasNone, TicketOnce,
                    [TunnelNext]_tunnelVars
             PROVE  Goal
  OBVIOUS
<1> USE DEF TunnelTypeOK, LiveMinted, PassSpent, NewHasNone
<1>1. ASSUME UNCHANGED <<live, minted, pass, name>>,
             \A c \in Conn : /\ at'[c] = "new" => at[c] = "new"
                             /\ at'[c] \in Guarded \cup {"ticketed", "loaded"}
                                  => at[c] \in Guarded \cup {"ticketed", "loaded"}
                             /\ at'[c] = "shell" => at[c] = "shell"
      PROVE  Goal
  <2>1. LiveMinted' /\ PassSpent' /\ NewHasNone'
    BY <1>1
  <2>2. ASSUME NEW d \in Conn, pass'[d] # "nobody"
        PROVE  /\ pass'[d] \notin live'
               /\ name'[d] = minted'[pass'[d]].subject
               /\ at'[d] \in Guarded \cup {"ticketed", "loaded"}
                    => minted'[pass'[d]].purpose = "tunnel"
               /\ at'[d] = "shell" => minted'[pass'[d]].purpose = "terminal"
    BY <1>1, <2>2 DEF TicketOnce
  <2>3. \A d, e \in Conn : pass'[d] = pass'[e] /\ pass'[d] # "nobody" => d = e
    BY <1>1 DEF TicketOnce
  <2> QED
    BY <2>1, <2>2, <2>3 DEF TicketOnce
<1>2. CASE Tick
  BY <1>1, <1>2 DEF Tick
<1>3. ASSUME NEW t \in Ticket, NEW purpose \in Purpose, NEW subject \in Account,
             Issue(t, purpose, subject)
      PROVE  Goal
  <2>1. /\ minted[t] = Unminted /\ t \notin live
        /\ UNCHANGED <<at, pass, name>> /\ live' \subseteq live \cup {t}
    BY <1>3 DEF Issue, Fresh
  <2>2. /\ \A u \in Ticket \ {t} : minted'[u] = minted[u]
        /\ t \in live' => minted'[t] # Unminted
    BY <1>3 DEF Issue, Fresh, Unminted, Purpose
  <2>3. \A c \in Conn : pass[c] # "nobody" => pass[c] \in Ticket \ {t}
    BY <2>1
  <2>4. LiveMinted' /\ PassSpent' /\ NewHasNone'
    BY <2>1, <2>2, <2>3
  <2>5. TicketOnce'
    BY <2>1, <2>2, <2>3 DEF TicketOnce
  <2> QED
    BY <2>4, <2>5
<1>4. ASSUME NEW c \in Conn, NEW t \in Ticket, NEW right \in BOOLEAN, NEW purpose \in Purpose,
             Present(c, t, right, purpose)
      PROVE  Goal
  <2>1. /\ at[c] = "new" /\ pass[c] = "nobody" /\ live' = live \ {t}
        /\ UNCHANGED minted /\ minted[t] # Unminted
    BY <1>4 DEF Present, Burnt
  <2>2. CASE Accepted(t, right, purpose)
    <3>1. /\ t \in live /\ minted[t].purpose = purpose
          /\ at' = [at EXCEPT ![c] = IF purpose = "tunnel" THEN "ticketed" ELSE "shell"]
          /\ pass' = [pass EXCEPT ![c] = t]
          /\ name' = [name EXCEPT ![c] = minted[t].subject]
      BY <1>4, <2>2 DEF Present, Accepted
    <3>2. \A d \in Conn : pass[d] # t
      BY <3>1, ConnAssumption DEF TicketOnce
    <3>3. LiveMinted' /\ PassSpent' /\ NewHasNone'
      BY <2>1, <3>1, ConnAssumption
    <3>4. \A d, e \in Conn : pass'[d] = pass'[e] /\ pass'[d] # "nobody" => d = e
      BY <2>1, <3>1, <3>2 DEF TicketOnce
    <3>5. ASSUME NEW d \in Conn, pass'[d] # "nobody"
          PROVE  /\ pass'[d] \notin live'
                 /\ name'[d] = minted'[pass'[d]].subject
                 /\ at'[d] \in Guarded \cup {"ticketed", "loaded"}
                      => minted'[pass'[d]].purpose = "tunnel"
                 /\ at'[d] = "shell" => minted'[pass'[d]].purpose = "terminal"
      <4>1. CASE d = c
        BY <2>1, <3>1, <4>1 DEF Guarded, Purpose
      <4>2. CASE d # c
        BY <2>1, <3>1, <3>5, <4>2 DEF TicketOnce
      <4> QED
        BY <4>1, <4>2
    <3> QED
      BY <3>3, <3>4, <3>5 DEF TicketOnce
  <2>3. CASE ~Accepted(t, right, purpose)
    <3>1. at' = [at EXCEPT ![c] = "gone"] /\ UNCHANGED <<pass, name>>
      BY <1>4, <2>3 DEF Present
    <3> QED
      BY <2>1, <3>1 DEF TicketOnce, Guarded
  <2> QED
    BY <2>2, <2>3
<1>5. ASSUME NEW c \in Conn, Load(c) PROVE Goal
  BY <1>1, <1>5 DEF Load, Weigh, ticketVars, Guarded
<1>6. ASSUME NEW c \in Conn, CompareExchange(c) PROVE Goal
  BY <1>1, <1>6 DEF CompareExchange, Weigh, ticketVars, Guarded
<1>7. ASSUME NEW c \in Conn, Connected(c) \/ Upgraded(c) PROVE Goal
  BY <1>1, <1>7 DEF Connected, Upgraded, ticketVars, Guarded
<1>8. ASSUME NEW c \in Conn, DropGuard(c) \/ ShellCloses(c) PROVE Goal
  BY <1>1, <1>8 DEF DropGuard, ShellCloses, ticketVars, Guarded
<1>9. CASE UNCHANGED tunnelVars
  BY <1>1, <1>9 DEF tunnelVars
<1> QED
  BY <1>2, <1>3, <1>4, <1>5, <1>6, <1>7, <1>8, <1>9 DEF TunnelNext, Asks, Presents, Acquires

-----------------------------------------------------------------------------
(* The theorems.                                                           *)

\* No guard, no ticket, no count: the invariant holds at the start.
LEMMA InvInit == TunnelInit => TunnelInv
<1> SUFFICES ASSUME TunnelInit PROVE TunnelInv
  OBVIOUS
<1>1. Holders = {}
  BY DEF TunnelInit, Holders, Guarded
<1>2. SlotsExact
  BY <1>1, FS_EmptySet, LimitsAssumption DEF SlotsExact, TunnelInit
<1>3. TunnelTypeOK
  BY LimitsAssumption DEF TunnelInit, TunnelTypeOK, Stage
<1> QED
  BY <1>2, <1>3
     DEF TunnelInit, TunnelInv, SeenBelowCap, LiveMinted, PassSpent, NewHasNone, TicketOnce

\* A step of the doors keeps their invariant.
LEMMA InvStep == TunnelInv /\ [TunnelNext]_tunnelVars => TunnelInv'
  BY TunnelTypeStep, SlotsStep, TicketStep DEF TunnelInv

\* So it always holds.
LEMMA InvAlways == TunnelSpec => []TunnelInv
  BY InvInit, InvStep, PTL DEF TunnelSpec

\* Every variable of the doors has its type, for every instance.
THEOREM TunnelTypes == TunnelSpec => []TunnelTypeOK
<1>1. TunnelInv => TunnelTypeOK
  BY DEF TunnelInv
<1> QED
  BY <1>1, InvAlways, PTL

\* TunnelCount is the number of guards alive and within the cap, for any number
\* of handshakes and any cap.
THEOREM SlotsTheorem == TunnelSpec => []SlotsExact
<1>1. TunnelInv => SlotsExact
  BY DEF TunnelInv
<1> QED
  BY <1>1, InvAlways, PTL

\* A ticket opens one connection, at its door and under its account, for any
\* number of tickets and handshakes.
THEOREM TicketTheorem == TunnelSpec => []TicketOnce
<1>1. TunnelInv => TicketOnce
  BY DEF TunnelInv
<1> QED
  BY <1>1, InvAlways, PTL

-----------------------------------------------------------------------------
(* The refinement.                                                         *)

Waiting == {c \in Conn : at[c] \in {"ticketed", "loaded"}}
Spent == {t \in Ticket : minted[t] # Unminted /\ t \notin live}

\* A step that leaves the three sets alone is a stutter of Admission.
LEMMA Stutter ==
  ASSUME Spent' = Spent, Waiting' = Waiting, Holders' = Holders
  PROVE  [Doorway!Next]_<<Spent, Waiting, Holders>>
  BY DEF Spent, Waiting

\* Every step of the doors is a step of Admission or a stutter.
LEMMA RefinementStep ==
  TunnelInv /\ [TunnelNext]_tunnelVars => [Doorway!Next]_<<Spent, Waiting, Holders>>
<1> DEFINE Abstract == [Doorway!Next]_<<Spent, Waiting, Holders>>
<1> SUFFICES ASSUME TunnelInv, [TunnelNext]_tunnelVars PROVE Abstract
  OBVIOUS
<1>0. /\ at \in [Conn -> Stage] /\ live \subseteq Ticket /\ LiveMinted /\ SeenBelowCap
      /\ minted \in [Ticket -> Minted \cup {Unminted}]
      /\ slots = Cardinality(Holders)
  BY DEF TunnelInv, TunnelTypeOK, SlotsExact
<1>1. CASE Tick \/ UNCHANGED tunnelVars
  BY <1>1, Stutter DEF Tick, tunnelVars, Spent, Waiting, Holders
<1>2. ASSUME NEW t \in Ticket, NEW purpose \in Purpose, NEW subject \in Account,
             Issue(t, purpose, subject)
      PROVE  Abstract
  <2>1. /\ minted[t] = Unminted /\ UNCHANGED at
        /\ Waiting' = Waiting /\ Holders' = Holders
    BY <1>2 DEF Issue, Waiting, Holders
  <2>2. Spent' = Spent \cup (live \ Fresh(live))
    BY <1>0, <1>2 DEF Issue, Spent, Fresh, LiveMinted, Unminted, Purpose
  <2>3. PICK ts \in SUBSET Ticket : ts = live \ Fresh(live)
    BY <1>0
  <2>4. Doorway!Waste(ts)
    BY <2>1, <2>2, <2>3 DEF Doorway!Waste, Spent, Waiting
  <2>5. \E rest \in SUBSET Ticket : Doorway!Waste(rest)
    BY <2>4
  <2> QED
    BY <2>5 DEF Doorway!Next
<1>3. ASSUME NEW c \in Conn, NEW t \in Ticket, NEW right \in BOOLEAN, NEW purpose \in Purpose,
             Present(c, t, right, purpose)
      PROVE  Abstract
  <2>1. /\ at[c] = "new" /\ Spent' = Spent \cup {t}
        /\ c \notin Waiting \cup Holders
    BY <1>3 DEF Present, Burnt, Spent, Waiting, Holders, Guarded
  <2>2. CASE Accepted(t, right, purpose) /\ purpose = "tunnel"
    <3>1. at' = [at EXCEPT ![c] = "ticketed"] /\ t \notin Spent
      BY <1>3, <2>2 DEF Present, Accepted, Spent
    <3>2. Waiting' = Waiting \cup {c} /\ Holders' = Holders
      BY <1>0, <2>1, <3>1 DEF Waiting, Holders, Guarded
    <3>3. Doorway!Spend(c, t)
      BY <2>1, <3>1, <3>2 DEF Doorway!Spend, Spent, Waiting
    <3> QED
      BY <3>3 DEF Doorway!Next
  <2>3. CASE ~(Accepted(t, right, purpose) /\ purpose = "tunnel")
    <3>1. at' = [at EXCEPT ![c] = "gone"] \/ at' = [at EXCEPT ![c] = "shell"]
      BY <1>3, <2>3 DEF Present
    <3>2. Waiting' = Waiting /\ Holders' = Holders
      BY <1>0, <2>1, <3>1 DEF Waiting, Holders, Guarded
    <3>3. Doorway!Waste({t})
      BY <2>1, <3>2 DEF Doorway!Waste, Spent, Waiting
    <3> QED
      BY <3>3 DEF Doorway!Next
  <2> QED
    BY <2>2, <2>3
<1>4. ASSUME NEW c \in Conn, Load(c) \/ CompareExchange(c) PROVE Abstract
  <2>1. c \in Waiting /\ c \notin Holders /\ Spent' = Spent
    BY <1>4 DEF Load, CompareExchange, ticketVars, Waiting, Holders, Guarded, Spent
  <2>2. CASE at' = [at EXCEPT ![c] = "loaded"]
    <3>1. Waiting' = Waiting /\ Holders' = Holders
      BY <1>0, <2>1, <2>2 DEF Waiting, Holders, Guarded
    <3> QED
      BY <2>1, <3>1, Stutter
  <2>3. CASE at' = [at EXCEPT ![c] = "gone"]
    <3>1. Waiting' = Waiting \ {c} /\ Holders' = Holders
      BY <1>0, <2>1, <2>3 DEF Waiting, Holders, Guarded
    <3>2. Doorway!TurnAway(c)
      BY <2>1, <3>1 DEF Doorway!TurnAway, Spent, Waiting
    <3> QED
      BY <3>2 DEF Doorway!Next
  <2>4. CASE at' = [at EXCEPT ![c] = "connecting"] /\ slots = seen[c] /\ at[c] = "loaded"
    <3>1. Waiting' = Waiting \ {c} /\ Holders' = Holders \cup {c}
      BY <1>0, <2>1, <2>4 DEF Waiting, Holders, Guarded
    <3>2. Cardinality(Holders) < MaxConns
      BY <1>0, <2>4 DEF SeenBelowCap
    <3>3. Doorway!Enter(c)
      BY <2>1, <3>1, <3>2 DEF Doorway!Enter, Spent, Waiting, Cardinality, Doorway!Cardinality
    <3> QED
      BY <3>3 DEF Doorway!Next
  <2> QED
    BY <1>4, <2>2, <2>3, <2>4 DEF Load, CompareExchange, Weigh
<1>5. ASSUME NEW c \in Conn, Connected(c) \/ Upgraded(c) PROVE Abstract
  <2>1. Spent' = Spent /\ Waiting' = Waiting /\ Holders' = Holders
    BY <1>0, <1>5 DEF Connected, Upgraded, ticketVars, Waiting, Holders, Guarded, Spent
  <2> QED
    BY <2>1, Stutter
<1>6. ASSUME NEW c \in Conn, DropGuard(c) PROVE Abstract
  <2>1. /\ c \in Holders /\ Holders' = Holders \ {c}
        /\ Waiting' = Waiting /\ Spent' = Spent
    BY <1>0, <1>6 DEF DropGuard, ticketVars, Waiting, Holders, Guarded, Spent
  <2>2. Doorway!Leave(c)
    BY <2>1 DEF Doorway!Leave, Spent, Waiting
  <2> QED
    BY <2>2 DEF Doorway!Next
<1>7. ASSUME NEW c \in Conn, ShellCloses(c) PROVE Abstract
  <2>1. Spent' = Spent /\ Waiting' = Waiting /\ Holders' = Holders
    BY <1>0, <1>7 DEF ShellCloses, ticketVars, Waiting, Holders, Guarded, Spent
  <2> QED
    BY <2>1, Stutter
<1> QED
  BY <1>1, <1>2, <1>3, <1>4, <1>5, <1>6, <1>7 DEF TunnelNext, Asks, Presents, Acquires

\* The doors implement Admission, for every instance: whatever threads race for
\* tickets and places, it is one that an atomic doorkeeper could have run.
THEOREM AdmitsTheorem == TunnelSpec => Admits
<1>1. TunnelInit => Doorway!Init
  BY DEF TunnelInit, Doorway!Init, Holders, Guarded
<1>2. TunnelInv /\ [TunnelNext]_tunnelVars => [Doorway!Next]_<<Spent, Waiting, Holders>>
  BY RefinementStep
<1> QED
  BY <1>1, <1>2, InvAlways, PTL DEF TunnelSpec, Admits, Doorway!Spec, Spent, Waiting


-----------------------------------------------------------------------------
(* The remote access rules.                                                *)

Confs == [full: Switch, terminal: BOOLEAN, insecure: BOOLEAN, tunnel: BOOLEAN,
          files: BOOLEAN, roots: BOOLEAN, capacity: Explicit \cup {Unset}]
Hosts == [env: Switch \cup {"junk"}, memory: Memory \cup {Unset}, tls: BOOLEAN, linux: BOOLEAN]
Views == [terminal: BOOLEAN, full: BOOLEAN, tunnel: BOOLEAN, files: BOOLEAN]

-----------------------------------------------------------------------------
(* The capacities.                                                         *)

\* Memory that can be read or not is a natural number, and stands for itself.
LEMMA MemIsNat ==
  /\ \A m \in Memory \cup {Unset} : Mem(m) \in Nat
  /\ \A m \in Memory : Mem(m) = m /\ m \in Nat
  BY RemoteAccessAssumption DEF Mem, GiB

\* A clamped number is in its bounds, and clamping keeps the order.
LEMMA ClampInBounds ==
  ASSUME NEW n \in Nat, NEW low \in Nat, NEW high \in Nat, low <= high
  PROVE  /\ Clamp(n, low, high) \in Nat
         /\ low <= Clamp(n, low, high) /\ Clamp(n, low, high) <= high
  BY DEF Clamp

\* Of a larger number the clamp is no smaller.
LEMMA ClampMonotone ==
  ASSUME NEW n \in Nat, NEW m \in Nat, NEW low \in Nat, NEW high \in Nat, low <= high, n <= m
  PROVE  Clamp(n, low, high) <= Clamp(m, low, high)
  BY DEF Clamp

\* Whatever the memory, each share of it is a positive number, and a larger
\* memory gives no smaller one.
LEMMA DerivedPositive ==
  ASSUME NEW m \in Memory \cup {Unset}
  PROVE  /\ Derived(m).slots \in Nat /\ Derived(m).slots >= 2
         /\ Derived(m).scrollback \in Nat /\ Derived(m).scrollback >= 64
         /\ Derived(m).write \in Nat /\ Derived(m).write >= 65536
<1>1. Mem(m) \in Nat
  BY MemIsNat
<1>2. Mem(m) \div 1048576 \in Nat /\ Mem(m) \div 4096 \in Nat /\ Mem(m) \div 4 \in Nat
  BY <1>1
<1>3. /\ Derived(m).slots = Clamp(Mem(m) \div 1048576, 2, 16)
      /\ Derived(m).scrollback = Clamp(Mem(m) \div 4096, 64, 2048)
      /\ Derived(m).write = Clamp(Mem(m) \div 4, 65536, 4194304)
  BY DEF Derived, KiB, MiB, GiB
<1> QED
  BY <1>2, <1>3, ClampInBounds

\* Of more memory the derived capacities are no smaller.
LEMMA DerivedMonotone ==
  ASSUME NEW m \in Memory \cup {Unset}, NEW n \in Memory, Mem(m) <= n
  PROVE  /\ Derived(m).slots <= Derived(n).slots
         /\ Derived(m).scrollback <= Derived(n).scrollback
         /\ Derived(m).write <= Derived(n).write
<1>1. Mem(m) \in Nat /\ Mem(n) \in Nat /\ Mem(m) <= Mem(n)
  BY MemIsNat
<1>2. /\ Mem(m) \div 1048576 \in Nat /\ Mem(m) \div 4096 \in Nat /\ Mem(m) \div 4 \in Nat
      /\ Mem(n) \div 1048576 \in Nat /\ Mem(n) \div 4096 \in Nat /\ Mem(n) \div 4 \in Nat
      /\ Mem(m) \div 1048576 <= Mem(n) \div 1048576
      /\ Mem(m) \div 4096 <= Mem(n) \div 4096
      /\ Mem(m) \div 4 <= Mem(n) \div 4
  BY <1>1
<1>3. /\ Derived(m).slots = Clamp(Mem(m) \div 1048576, 2, 16)
      /\ Derived(m).scrollback = Clamp(Mem(m) \div 4096, 64, 2048)
      /\ Derived(m).write = Clamp(Mem(m) \div 4, 65536, 4194304)
      /\ Derived(n).slots = Clamp(Mem(n) \div 1048576, 2, 16)
      /\ Derived(n).scrollback = Clamp(Mem(n) \div 4096, 64, 2048)
      /\ Derived(n).write = Clamp(Mem(n) \div 4, 65536, 4194304)
  BY DEF Derived, KiB, MiB, GiB
<1> QED
  BY <1>2, <1>3, ClampMonotone

\* A capacity is never zero, is what the operator wrote if that is above zero,
\* and else what memory gives.
LEMMA CapacityPositive ==
  ASSUME NEW e \in Explicit \cup {Unset}, NEW d \in Nat, d >= 1
  PROVE  /\ CapacityOf(e, d) \in Nat /\ CapacityOf(e, d) >= 1
         /\ e # Unset /\ e > 0 => CapacityOf(e, d) = e
         /\ \A more \in Nat : d <= more => CapacityOf(e, d) <= CapacityOf(e, more)
  BY RemoteAccessAssumption DEF CapacityOf

-----------------------------------------------------------------------------
(* The invariant.  What was resolved at startup still is what the file     *)
(* and the host give, but for the switch; what was told and what was       *)
(* answered is what the rules say now, but for the switch.                 *)

Resolved ==
  /\ conf \in Confs /\ host \in Hosts /\ off \in BOOLEAN
  /\ \E f \in Switch : access = resolve([conf EXCEPT !.full = f], host)
  /\ ~off => access = resolve(conf, host)

WouldBeFull(link) == terminal_available(link) /\ access.full

ToldNow ==
  /\ told \in [Link -> {<<>>} \cup {<<v>> : v \in Views}]
  /\ \A l \in Link : told[l] # <<>> =>
       /\ told[l][1].terminal = terminal_available(l)
       /\ told[l][1].tunnel = access.tunnel /\ told[l][1].files = fs_available
       /\ told[l][1].full => WouldBeFull(l)
       /\ ~off => told[l][1].full = WouldBeFull(l)

AnsweredNow ==
  /\ answer \in [door: Door \cup {"none"}, link: Link, opened: BOOLEAN]
  /\ answer.door = "none" => ~answer.opened
  /\ answer.door \in FullDoor => answer.opened = full_access_allowed(answer.link)
  /\ answer.door = "terminal" => answer.opened = terminal_available(answer.link)
  /\ answer.door = "tunnel" => answer.opened = access.tunnel
  /\ answer.door = "files" => answer.opened = fs_available

AccessInv == Resolved /\ ToldNow /\ AnsweredNow /\ socket \subseteq Link

\* The fields of what is resolved.
LEMMA ResolvedFields ==
  ASSUME NEW c \in Confs, NEW h \in Hosts
  PROVE  /\ resolve(c, h).full = full_access(c, h)
         /\ resolve(c, h).tunnel \in BOOLEAN /\ resolve(c, h).terminal \in BOOLEAN
         /\ resolve(c, h).files \in BOOLEAN /\ resolve(c, h).roots \in BOOLEAN
         /\ resolve(c, h).insecure \in BOOLEAN /\ full_access(c, h) \in BOOLEAN
  BY DEF resolve, Confs, Hosts, full_access

\* Resolved now, the fields are Booleans.
LEMMA AccessFields ==
  ASSUME Resolved
  PROVE  /\ access.tunnel \in BOOLEAN /\ access.full \in BOOLEAN
         /\ access.terminal \in BOOLEAN
<1>1. PICK f \in Switch : access = resolve([conf EXCEPT !.full = f], host)
  BY DEF Resolved
<1>2. [conf EXCEPT !.full = f] \in Confs /\ host \in Hosts
  BY DEF Resolved, Confs
<1> QED
  BY <1>1, <1>2, ResolvedFields

\* The rules' invariant holds when the agent starts.
LEMMA AccessInvInit == AccessInit => AccessInv
<1> SUFFICES ASSUME AccessInit PROVE AccessInv
  OBVIOUS
<1>1. conf \in Confs /\ host \in Hosts /\ access = resolve(conf, host) /\ off = FALSE
  BY DEF AccessInit, Confs, Hosts
<1>2. conf.full \in Switch /\ conf = [conf EXCEPT !.full = conf.full]
  BY <1>1 DEF Confs
<1>3. Resolved
  BY <1>1, <1>2 DEF Resolved
<1>4. ToldNow
  BY DEF AccessInit, NotTold, ToldNow
<1>5. AnsweredNow /\ socket \subseteq Link
  BY DEF AccessInit, NoAnswer, AnsweredNow, FullDoor, Link
<1> QED
  BY <1>3, <1>4, <1>5 DEF AccessInv

\* A request at a door changes what was answered, and nothing that is resolved
\* or told.
LEMMA AskStep ==
  ASSUME AccessInv, NEW link \in Link, NEW door \in Door, NEW opened,
         answer' = NoAnswer \/ Answered(door, link, opened),
         socket' \subseteq Link,
         UNCHANGED <<conf, host, access, off, told>>,
         door \in FullDoor => opened = full_access_allowed(link),
         door = "terminal" => opened = terminal_available(link),
         door = "tunnel" => opened = access.tunnel,
         door = "files" => opened = fs_available
  PROVE  AccessInv'
<1>1. Resolved' /\ ToldNow'
  BY DEF AccessInv, Resolved, ToldNow, WouldBeFull, terminal_available, secure_transport,
         fs_available
<1>2. /\ access.tunnel \in BOOLEAN
      /\ terminal_available(link) \in BOOLEAN /\ full_access_allowed(link) \in BOOLEAN
      /\ fs_available \in BOOLEAN
  BY AccessFields DEF AccessInv, terminal_available, full_access_allowed, fs_available
<1>3. opened \in BOOLEAN
  BY <1>2 DEF Door, FullDoor
<1>4. /\ access' = access /\ off' = off
      /\ \A l : /\ terminal_available(l)' = terminal_available(l)
                /\ full_access_allowed(l)' = full_access_allowed(l)
      /\ fs_available' = fs_available
  BY DEF terminal_available, secure_transport, full_access_allowed, fs_available
<1>5. CASE answer' = NoAnswer
  <2>1. AnsweredNow'
    BY <1>5 DEF AnsweredNow, NoAnswer, Link, FullDoor
  <2> QED
    BY <1>1, <2>1 DEF AccessInv
<1>6. CASE Answered(door, link, opened)
  <2>1. /\ answer' = [door |-> door, link |-> link, opened |-> opened]
        /\ door # "none"
    BY <1>6 DEF Answered, Door, FullDoor
  <2>2. AnsweredNow'
    BY <1>3, <1>4, <2>1 DEF AnsweredNow
  <2> QED
    BY <1>1, <2>2 DEF AccessInv
<1> QED
  BY <1>5, <1>6

\* Every step keeps the invariant.
LEMMA AccessInvStep == AccessInv /\ [AccessNext]_accessVars => AccessInv'
<1> SUFFICES ASSUME AccessInv, [AccessNext]_accessVars PROVE AccessInv'
  OBVIOUS
<1>a. {"terminal", "shell", "tunnel", "files", "exec", "commands"} = Door
      /\ FullDoor = {"shell", "exec", "commands"}
  BY DEF Door, FullDoor
<1>1. ASSUME NEW l \in Link, GetCapabilities(l) PROVE AccessInv'
  <2>1. /\ told' = [told EXCEPT ![l] = <<View(l)>>]
        /\ UNCHANGED <<conf, host, access, off, socket, answer>>
    BY <1>1 DEF GetCapabilities
  <2>2. Resolved' /\ AnsweredNow' /\ socket' \subseteq Link
    BY <2>1 DEF AccessInv, Resolved, AnsweredNow, full_access_allowed, terminal_available,
                secure_transport, fs_available
  <2>3. View(l) \in Views
    BY AccessFields DEF AccessInv, View, Views, terminal_available, full_access_allowed,
                        fs_available
  <2>4. /\ View(l).terminal = terminal_available(l) /\ View(l).tunnel = access.tunnel
        /\ View(l).files = fs_available /\ View(l).full = full_access_allowed(l)
    BY DEF View
  <2>5. /\ told' \in [Link -> {<<>>} \cup {<<v>> : v \in Views}]
        /\ told'[l] = <<View(l)>> /\ \A k \in Link \ {l} : told'[k] = told[k]
    BY <2>1, <2>3 DEF AccessInv, ToldNow
  <2>6. /\ \A k \in Link : /\ terminal_available(k)' = terminal_available(k)
                           /\ WouldBeFull(k)' = WouldBeFull(k)
        /\ fs_available' = fs_available /\ off' = off /\ access' = access
    BY <2>1 DEF terminal_available, secure_transport, WouldBeFull, fs_available
  <2>7. /\ full_access_allowed(l) => WouldBeFull(l)
        /\ ~off => full_access_allowed(l) = WouldBeFull(l)
    BY DEF full_access_allowed, WouldBeFull
  <2>8. ASSUME NEW k \in Link, told'[k] # <<>>
        PROVE  /\ told'[k][1].terminal = terminal_available(k)
               /\ told'[k][1].tunnel = access.tunnel /\ told'[k][1].files = fs_available
               /\ told'[k][1].full => WouldBeFull(k)
               /\ ~off => told'[k][1].full = WouldBeFull(k)
    <3>1. CASE k = l
      <4>1. told'[k][1] = View(k)
        BY <2>5, <3>1
      <4> QED
        BY <2>4, <2>7, <3>1, <4>1
    <3>2. CASE k # l
      BY <2>5, <2>8, <3>2 DEF AccessInv, ToldNow
    <3> QED
      BY <3>1, <3>2
  <2>9. ToldNow'
    BY <2>5, <2>6, <2>8 DEF ToldNow
  <2> QED
    BY <2>2, <2>9 DEF AccessInv
<1>2. ASSUME NEW l \in Link, NEW d \in Door, AskFull(d, l) PROVE AccessInv'
  BY <1>2, <1>a, AskStep DEF AskFull, AccessInv
<1>3. ASSUME NEW l \in Link, NEW d \in Door, AskOther(d, l) PROVE AccessInv'
  <2>1. CASE d = "tunnel"
    BY <1>3, <1>a, <2>1, AskStep DEF AskOther, AccessInv
  <2>2. CASE d = "files"
    BY <1>3, <1>a, <2>2, AskStep DEF AskOther, AccessInv
  <2> QED
    BY <1>3, <2>1, <2>2 DEF AskOther
<1>4. ASSUME NEW l \in Link, NEW o \in Origin, OpenTerminal(l, o) PROVE AccessInv'
  <2> DEFINE opens == terminal_available(l) /\ origin_allowed(o)
  <2>1. /\ answer' = NoAnswer \/ Answered("terminal", l, terminal_available(l))
        /\ socket' \subseteq Link /\ UNCHANGED <<conf, host, access, off, told>>
    <3>1. origin_allowed(o) => opens = terminal_available(l)
      BY DEF terminal_available
    <3> QED
      BY <1>4, <3>1 DEF OpenTerminal, AccessInv
  <2> QED
    BY <1>a, <2>1, AskStep
<1>5. ASSUME NEW l \in Link, OpenLocal(l) PROVE AccessInv'
  BY <1>5, <1>a, AskStep DEF OpenLocal, AllowedNow, AccessInv
<1>6. ASSUME NEW l \in Link, CloseTerminal(l) PROVE AccessInv'
  <2>1. /\ answer' = NoAnswer /\ socket' \subseteq Link
        /\ UNCHANGED <<conf, host, access, off, told>>
    BY <1>6 DEF CloseTerminal, AccessInv
  <2> QED
    BY <1>a, <2>1, AskStep
<1>7. CASE SwitchOff
  <2>1. /\ conf' = [conf EXCEPT !.full = "off"] /\ off' = TRUE /\ answer' = NoAnswer
        /\ UNCHANGED <<host, access, told, socket>>
    BY <1>7 DEF SwitchOff
  <2>2. conf' \in Confs /\ \A f \in Switch : [conf' EXCEPT !.full = f] = [conf EXCEPT !.full = f]
    BY <2>1 DEF AccessInv, Resolved, Confs, Switch
  <2>3. Resolved'
    BY <2>1, <2>2 DEF AccessInv, Resolved
  <2>4. ToldNow'
    BY <2>1 DEF AccessInv, ToldNow, WouldBeFull, terminal_available, secure_transport,
                fs_available
  <2>5. AnsweredNow'
    BY <2>1 DEF AnsweredNow, NoAnswer, Link, FullDoor
  <2> QED
    BY <2>1, <2>3, <2>4, <2>5 DEF AccessInv
<1>8. CASE StartAgain
  <2>1. /\ access' = resolve(conf, host) /\ off' = FALSE /\ socket' = {}
        /\ told' = NotTold /\ answer' = NoAnswer /\ UNCHANGED <<conf, host>>
    BY <1>8 DEF StartAgain
  <2>2. conf.full \in Switch /\ conf = [conf EXCEPT !.full = conf.full]
    BY DEF AccessInv, Resolved, Confs
  <2>3. Resolved'
    BY <2>1, <2>2 DEF AccessInv, Resolved
  <2>4. ToldNow'
    BY <2>1 DEF NotTold, ToldNow
  <2>5. AnsweredNow' /\ socket' \subseteq Link
    BY <2>1 DEF NoAnswer, AnsweredNow, FullDoor, Link
  <2> QED
    BY <2>3, <2>4, <2>5 DEF AccessInv
<1>9. CASE UNCHANGED accessVars
  <2>1. Resolved' /\ socket' \subseteq Link
    BY <1>9 DEF accessVars, AccessInv, Resolved
  <2>2. ToldNow'
    BY <1>9 DEF accessVars, AccessInv, ToldNow, WouldBeFull, terminal_available,
                secure_transport, fs_available
  <2>3. AnsweredNow'
    BY <1>9 DEF accessVars, AccessInv, AnsweredNow, full_access_allowed, terminal_available,
                secure_transport, fs_available
  <2> QED
    BY <2>1, <2>2, <2>3 DEF AccessInv
<1> QED
  BY <1>1, <1>2, <1>3, <1>4, <1>5, <1>6, <1>7, <1>8, <1>9 DEF AccessNext

-----------------------------------------------------------------------------
(* The theorem.                                                            *)

\* What the app is told is true.
LEMMA InvTold == AccessInv => ToldIsTrue
<1> SUFFICES ASSUME AccessInv, answer.door # "none", told[answer.link] # <<>>
             PROVE  /\ answer.opened => Promised(told[answer.link][1], answer.door)
                    /\ Promised(told[answer.link][1], answer.door) /\ ~answer.opened
                         => off /\ answer.door \in FullDoor
  BY DEF ToldIsTrue
<1> DEFINE view == told[answer.link][1]
<1>1. /\ answer.link \in Link /\ answer.door \in Door /\ answer.opened \in BOOLEAN
      /\ off \in BOOLEAN
  BY DEF AccessInv, AnsweredNow, Resolved
<1>2. /\ view.terminal = terminal_available(answer.link)
      /\ view.tunnel = access.tunnel /\ view.files = fs_available
      /\ view.full => WouldBeFull(answer.link)
      /\ ~off => view.full = WouldBeFull(answer.link)
      /\ view.full \in BOOLEAN
  BY <1>1 DEF AccessInv, ToldNow, Views
<1> HIDE DEF view
<1>3. CASE answer.door \in FullDoor
  <2>1. answer.opened = full_access_allowed(answer.link) /\ Promised(view, answer.door) = view.full
    BY <1>3 DEF AccessInv, AnsweredNow, Promised
  <2>2. full_access_allowed(answer.link) = (WouldBeFull(answer.link) /\ ~off)
    BY DEF full_access_allowed, WouldBeFull
  <2> QED
    BY <1>1, <1>2, <1>3, <2>1, <2>2 DEF view
<1>4. CASE answer.door \notin FullDoor
  <2>1. answer.door \in {"terminal", "tunnel", "files"}
    BY <1>1, <1>4 DEF Door
  <2>2. Promised(view, answer.door) = answer.opened
    BY <1>2, <1>4, <2>1 DEF AccessInv, AnsweredNow, Promised
  <2> QED
    BY <1>1, <2>2 DEF view
<1> QED
  BY <1>3, <1>4

\* No door is left open behind a switch or a link that closes it.
LEMMA InvClosed == AccessInv => ClosedBehindIt
<1> SUFFICES ASSUME AccessInv, answer.opened, answer.door \in FullDoor
             PROVE  /\ ~off /\ terminal_available(answer.link)
                    /\ host.env # "off"
                    /\ host.env # "on" => conf.full # "off"
  BY DEF ClosedBehindIt
<1>1. full_access_allowed(answer.link)
  BY DEF AccessInv, AnsweredNow
<1>2. ~off /\ access.full /\ terminal_available(answer.link)
  BY <1>1 DEF full_access_allowed
<1>3. access = resolve(conf, host) /\ conf \in Confs /\ host \in Hosts
  BY <1>2 DEF AccessInv, Resolved
<1>4. full_access(conf, host)
  BY <1>2, <1>3, ResolvedFields
<1> QED
  BY <1>2, <1>4 DEF full_access

\* The capacities still are what the file and the host give.
LEMMA CapacitiesResolved ==
  ASSUME AccessInv
  PROVE  /\ access.slots = CapacityOf(conf.capacity, Derived(host.memory).slots)
         /\ access.scrollback = CapacityOf(conf.capacity, Derived(host.memory).scrollback)
         /\ access.write = CapacityOf(conf.capacity, Derived(host.memory).write)
<1>1. PICK f \in Switch : access = resolve([conf EXCEPT !.full = f], host)
  BY DEF AccessInv, Resolved
<1>2. [conf EXCEPT !.full = f].capacity = conf.capacity
  BY DEF AccessInv, Resolved, Confs
<1> QED
  BY <1>1, <1>2 DEF resolve

\* Every variable of the rules has its type.
LEMMA InvTyped == AccessInv => AccessTypeOK
<1> SUFFICES ASSUME AccessInv PROVE AccessTypeOK
  OBVIOUS
<1>1. conf.capacity \in Explicit \cup {Unset} /\ host.memory \in Memory \cup {Unset}
  BY DEF AccessInv, Resolved, Confs, Hosts
<1>2. access.slots \in Nat /\ access.scrollback \in Nat /\ access.write \in Nat
  BY <1>1, CapacitiesResolved, DerivedPositive, CapacityPositive
<1>3. \A l \in Link : \/ told[l] = <<>>
                      \/ \E v \in Views : told[l] = <<v>>
  BY Zenon DEF AccessInv, ToldNow
<1>4. \A l \in Link : told[l] = <<>> \/ told[l][1] \in Views
  BY <1>3
<1> QED
  BY <1>2, <1>4, Zenon DEF AccessInv, AccessTypeOK, Resolved, AnsweredNow, Views

\* The capacities work.
LEMMA InvCapacities == AccessInv => CapacitiesWork
<1> SUFFICES ASSUME AccessInv PROVE CapacitiesWork
  OBVIOUS
<1>1. /\ conf.capacity \in Explicit \cup {Unset} /\ host.memory \in Memory \cup {Unset}
      /\ host \in Hosts
  BY DEF AccessInv, Resolved, Confs, Hosts
<1> DEFINE e == conf.capacity  m == host.memory
<1>2. /\ access.slots = CapacityOf(e, Derived(m).slots)
      /\ access.scrollback = CapacityOf(e, Derived(m).scrollback)
      /\ access.write = CapacityOf(e, Derived(m).write)
  BY CapacitiesResolved
<1>3. /\ Derived(m).slots \in Nat /\ Derived(m).slots >= 1
      /\ Derived(m).scrollback \in Nat /\ Derived(m).scrollback >= 1
      /\ Derived(m).write \in Nat /\ Derived(m).write >= 1
  BY <1>1, DerivedPositive
<1>4. \A c \in {access.slots, access.scrollback, access.write} :
        c >= 1 /\ (conf.capacity # Unset /\ conf.capacity > 0 => c = conf.capacity)
  BY <1>1, <1>2, <1>3, CapacityPositive
<1>5. ASSUME NEW n \in Memory, n >= Mem(host.memory)
      PROVE  LET more == resolve(conf, [host EXCEPT !.memory = n]) IN
             more.slots >= access.slots /\ more.scrollback >= access.scrollback
               /\ more.write >= access.write
  <2> DEFINE more == resolve(conf, [host EXCEPT !.memory = n])
  <2>1. [host EXCEPT !.memory = n].memory = n
    BY <1>1 DEF Hosts
  <2>2. /\ more.slots = CapacityOf(e, Derived(n).slots)
        /\ more.scrollback = CapacityOf(e, Derived(n).scrollback)
        /\ more.write = CapacityOf(e, Derived(n).write)
    BY <2>1 DEF resolve
  <2>3. Mem(m) <= n
    BY <1>1, <1>5, MemIsNat
  <2>4. /\ Derived(m).slots <= Derived(n).slots
        /\ Derived(m).scrollback <= Derived(n).scrollback
        /\ Derived(m).write <= Derived(n).write
    BY <1>1, <2>3, DerivedMonotone
  <2>5. /\ Derived(n).slots \in Nat /\ Derived(n).slots >= 1
        /\ Derived(n).scrollback \in Nat /\ Derived(n).scrollback >= 1
        /\ Derived(n).write \in Nat /\ Derived(n).write >= 1
    BY DerivedPositive
  <2>6. /\ CapacityOf(e, Derived(m).slots) <= CapacityOf(e, Derived(n).slots)
        /\ CapacityOf(e, Derived(m).scrollback) <= CapacityOf(e, Derived(n).scrollback)
        /\ CapacityOf(e, Derived(m).write) <= CapacityOf(e, Derived(n).write)
    BY <1>1, <1>3, <2>4, <2>5, CapacityPositive
  <2>7. /\ CapacityOf(e, Derived(m).slots) \in Nat /\ CapacityOf(e, Derived(n).slots) \in Nat
        /\ CapacityOf(e, Derived(m).scrollback) \in Nat
        /\ CapacityOf(e, Derived(n).scrollback) \in Nat
        /\ CapacityOf(e, Derived(m).write) \in Nat /\ CapacityOf(e, Derived(n).write) \in Nat
    BY <1>1, <1>3, <2>5, CapacityPositive
  <2> HIDE DEF more, e, m
  <2>8. more.slots >= access.slots /\ more.scrollback >= access.scrollback
          /\ more.write >= access.write
    BY <1>2, <2>2, <2>6, <2>7
  <2> QED
    BY <2>8 DEF more
<1> QED
  BY <1>4, <1>5 DEF CapacitiesWork

\* The rules' invariant always holds.
LEMMA AccessInvAlways == AccessSpec => []AccessInv
  BY AccessInvInit, AccessInvStep, PTL DEF AccessSpec

\* Whatever is switched, asked and restarted in whatever order, the doors do
\* what the agent said of them and what the operator wrote, and the capacities
\* work, for every instance.
THEOREM AccessTheorem == AccessSpec => []DoorsAgree
<1>1. AccessInv => DoorsAgree
  BY InvTold, InvClosed, InvCapacities DEF DoorsAgree
<1> QED
  BY <1>1, AccessInvAlways, PTL

\* Every variable of the rules has its type, for every instance.
THEOREM AccessRuleTypes == AccessSpec => []AccessTypeOK
  BY AccessInvAlways, InvTyped, PTL


-----------------------------------------------------------------------------
(* An open tunnel.  What the service has taken is written or still queued  *)
(* unless the writer broke, so a writer that stops of its own accord       *)
(* leaves nothing; and silent intervals are never more than the quiet ones *)
(* of the client.                                                          *)

\* The counts: nothing the service took is lost between the queue and sshd.
RelayCounts ==
  /\ queue \in 0..QueueBound /\ taken \in 0..ChunkBound /\ written \in Nat
  /\ service = "sending" => taken < ChunkBound
  /\ written + queue <= taken
  /\ broken = FALSE => written + queue = taken

\* Where each of the tasks is.
RelayControl ==
  /\ io \in {"open", "closed"} /\ client \in {"here", "stalled", "lost"}
  /\ full \in BOOLEAN /\ sshd \in {"open", "ended", "closed"}
  /\ alive \in BOOLEAN /\ keeper \in {"running", "done"}
  /\ reader \in {"reading", "waiting", "done"}
  /\ writer \in {"running", "draining", "done"}
  /\ service \in {"idle", "sending", "refused", "dropped"}
  /\ broken \in BOOLEAN

\* A writer that is through by itself has nothing left to write, and nobody
\* can give it more.
WriterIsLast ==
  writer # "running" /\ broken = FALSE => queue = 0 /\ service = "dropped"

\* What the keeper counts as silent was quiet, and an interval longer by now if
\* nothing was heard in this one.
SilenceIsQuiet ==
  /\ silent \in 0..Rounds /\ quiet \in 0..Rounds + 1
  /\ keeper = "running" => silent < Rounds
  /\ alive = FALSE => quiet > silent

RelayInv == RelayControl /\ RelayCounts /\ WriterIsLast /\ SilenceIsQuiet

\* The relay's invariant holds when a tunnel opens.
LEMMA RelayInvInit == RelayInit => RelayInv
<1> SUFFICES ASSUME RelayInit PROVE RelayInv
  OBVIOUS
<1>1. RelayControl
  BY Zenon DEF RelayInit, RelayControl
<1>2. RelayCounts /\ WriterIsLast /\ SilenceIsQuiet
  BY RelayAssumption DEF RelayInit, RelayCounts, WriterIsLast, SilenceIsQuiet
<1> QED
  BY <1>1, <1>2 DEF RelayInv

\* A step keeps where the relay stands.
LEMMA RelayControlStep == RelayControl /\ [RelayNext]_relayVars => RelayControl'
<1> SUFFICES ASSUME RelayControl, [RelayNext]_relayVars PROVE RelayControl'
  OBVIOUS
<1> USE DEF RelayControl
<1>1. CASE ServiceStep
  BY <1>1, Zenon DEF ServiceStep, AnyFrame, CloseFrame, DataFrame, Place, DropService, Handled
<1>2. CASE WriterStep
  BY <1>2, Zenon DEF WriterStep, Write, WriterEnds, Shutdown
<1>3. CASE ReaderStep
  BY <1>3, Zenon DEF ReaderStep, ReadEnd, ReadChunk, Capacity
<1>4. CASE Interval
  BY <1>4, Zenon DEF Interval
<1>5. CASE Outside
  BY <1>5, Zenon DEF Outside, ClientChanges, ClientReads, TransportFails, SshdCloses
<1>6. CASE UNCHANGED relayVars
  <2>1. /\ io' = io /\ client' = client /\ full' = full /\ sshd' = sshd /\ alive' = alive
        /\ keeper' = keeper /\ reader' = reader /\ writer' = writer /\ service' = service
        /\ broken' = broken
    BY <1>6 DEF relayVars
  <2> QED
    BY <2>1, Zenon
<1> QED
  BY <1>1, <1>2, <1>3, <1>4, <1>5, <1>6 DEF RelayNext

\* A step keeps what has been written and taken.
LEMMA RelayCountsStep == 
  RelayCounts /\ WriterIsLast /\ [RelayNext]_relayVars => (RelayCounts /\ WriterIsLast)'
<1> SUFFICES ASSUME RelayCounts, WriterIsLast, [RelayNext]_relayVars
             PROVE  (RelayCounts /\ WriterIsLast)'
  OBVIOUS
<1> USE RelayAssumption DEF RelayCounts, WriterIsLast
<1>1. CASE UNCHANGED <<writer, service, queue, taken, written, broken>>
  BY <1>1
<1>2. CASE AnyFrame \/ CloseFrame \/ ReaderStep \/ Interval \/ Outside \/ UNCHANGED relayVars
  BY <1>1, <1>2, Zenon
     DEF AnyFrame, CloseFrame, ReaderStep, ReadEnd, ReadChunk, Capacity, Interval, Outside,
         ClientChanges, ClientReads, TransportFails, SshdCloses, relayVars
<1>3. CASE DataFrame
  BY <1>3 DEF DataFrame
<1>4. CASE Place
  BY <1>4 DEF Place
<1>5. CASE DropService
  BY <1>5 DEF DropService
<1>6. CASE Write
  BY <1>6 DEF Write
<1>7. CASE WriterEnds
  BY <1>7 DEF WriterEnds, NothingMore
<1>8. CASE Shutdown
  BY <1>8 DEF Shutdown
<1> QED
  BY <1>2, <1>3, <1>4, <1>5, <1>6, <1>7, <1>8 DEF RelayNext, ServiceStep, WriterStep

\* A step keeps how long the client has been silent.
LEMMA SilenceStep ==
  RelayControl /\ SilenceIsQuiet /\ [RelayNext]_relayVars => SilenceIsQuiet'
<1> SUFFICES ASSUME RelayControl, SilenceIsQuiet, [RelayNext]_relayVars PROVE SilenceIsQuiet'
  OBVIOUS
<1> USE RelayAssumption DEF SilenceIsQuiet
<1>1. CASE UNCHANGED <<silent, quiet, keeper, alive>>
  BY <1>1
<1>2. CASE \/ Place \/ DropService \/ WriterStep \/ ReaderStep \/ Outside \/ UNCHANGED relayVars
  BY <1>1, <1>2, Zenon
     DEF Place, DropService, WriterStep, Write, WriterEnds, Shutdown, ReaderStep, ReadEnd,
         ReadChunk, Capacity, Outside, ClientChanges, ClientReads, TransportFails, SshdCloses,
         relayVars
<1>3. CASE AnyFrame \/ CloseFrame \/ DataFrame
  <2>1. alive' = TRUE /\ quiet' = 0 /\ UNCHANGED <<silent, keeper>>
    BY <1>3, Zenon DEF AnyFrame, CloseFrame, DataFrame, Handled
  <2> QED
    BY <2>1
<1>4. CASE Interval
  BY <1>4 DEF Interval, Count
<1> QED
  BY <1>2, <1>3, <1>4 DEF RelayNext, ServiceStep

\* A step of the relay keeps its invariant.
LEMMA RelayInvStep == RelayInv /\ [RelayNext]_relayVars => RelayInv'
  BY RelayControlStep, RelayCountsStep, SilenceStep DEF RelayInv

\* What is said of the relay follows from it.
LEMMA RelayFollow == RelayInv => RelayTypeOK /\ TakenIsWritten
<1> SUFFICES ASSUME RelayInv PROVE RelayTypeOK /\ TakenIsWritten
  OBVIOUS
<1>1. /\ queue \in 0..QueueBound /\ taken \in 0..ChunkBound /\ written \in 0..ChunkBound
      /\ silent \in 0..Rounds /\ quiet \in 0..Rounds + 1
  BY RelayAssumption DEF RelayInv, RelayCounts, SilenceIsQuiet
<1>2. TakenIsWritten
  BY RelayAssumption DEF RelayInv, RelayControl, RelayCounts, WriterIsLast, TakenIsWritten
<1> QED
  BY <1>1, <1>2, Zenon DEF RelayInv, RelayControl, RelayTypeOK

\* Only an interval's end stops the keeper, and then the client has been quiet
\* for longer than the intervals it is given.
LEMMA KeeperCloses ==
  RelayInv /\ [RelayNext]_relayVars
    => (io = "open" /\ io' = "closed" /\ keeper = "running" /\ keeper' = "done"
          => quiet' > Rounds)
<1> SUFFICES ASSUME RelayInv, [RelayNext]_relayVars, keeper = "running", keeper' = "done",
                    io = "open"
             PROVE  quiet' > Rounds
  OBVIOUS
<1>1. Interval
  BY Zenon
     DEF RelayNext, ServiceStep, AnyFrame, CloseFrame, DataFrame, Place, DropService, Handled,
         WriterStep, Write, WriterEnds, Shutdown, ReaderStep, ReadEnd, ReadChunk, Capacity,
         Outside, ClientChanges, ClientReads, TransportFails, SshdCloses, relayVars
<1> QED
  BY <1>1, RelayAssumption DEF Interval, Count, RelayInv, RelayControl, SilenceIsQuiet

\* The keepalive closes a tunnel only on a client that was quiet for more than
\* its intervals (ping_loop of tcp_tunnel.rs), for any number of intervals.
THEOREM KeepaliveTheorem == RelaySpec => KeepaliveIsFair
  BY RelayInvInit, RelayInvStep, KeeperCloses, PTL DEF RelaySpec, KeepaliveIsFair

\* What the service took of a client is written to sshd before the writer ends
\* of its own accord, for any queue and any amount.
THEOREM TakenTheorem == RelaySpec => []TakenIsWritten
  BY RelayInvInit, RelayInvStep, RelayFollow, PTL DEF RelaySpec

-----------------------------------------------------------------------------
(* The login.  Every permit is free, held by a check somebody waits for or *)
(* by one nobody waits for any more; and the failures a blocked key        *)
(* collects late are bounded by the requests in flight when it was         *)
(* blocked.                                                                *)

HandlerStates == {"idle", "query", "waiting", "checking"}

LoginTyped ==
  /\ failures \in [Key -> 0..MaxFailures]
  /\ age \in [Key -> 0..EntryTTL]
  /\ state \in [Req -> HandlerStates]
  /\ who \in [Req -> Who]
  /\ orphans \in Nat /\ permits \in Nat
  /\ late \in [Key -> Nat]

\* Every permit is free, or a check somebody or nobody waits for has it.
PermitsHeld == permits + Cardinality(Checking) + orphans = Permits

\* Requests that passed the throttle under a key and have not recorded yet.
InFlight(k) == {r \in Req : state[r] # "idle" /\ k \in Keys(who[r])}

\* What came late to a blocked key and what may still come is less than all.
LateInFlight ==
  \A k \in Key : IF Blocked(k) THEN late[k] + Cardinality(InFlight(k)) < Cardinality(Req)
                               ELSE late[k] = 0

LoginInv == LoginTyped /\ PermitsHeld /\ LateInFlight

\* The throttle's constants are natural numbers, and its requests finitely many.
LEMMA ThrottleBounds ==
  /\ Free \in Nat /\ EntryTTL \in Nat /\ Prune \in Nat /\ MaxFailures \in Nat
  /\ MaxDelay \in Nat /\ 0 < MaxDelay /\ MaxDelay < EntryTTL /\ Free < MaxFailures
  /\ Permits \in Nat \ {0}
  /\ IsFiniteSet(Req) /\ Cardinality(Req) \in Nat /\ Cardinality(Req) > 0
<1>1. IsFiniteSet(Req) /\ Cardinality(Req) \in Nat /\ Cardinality(Req) > 0
  BY ThrottleAssumption, FS_EmptySet, FS_CardinalityType
<1> QED
  BY <1>1, ThrottleAssumption

\* A power of two is a positive number.
LEMMA PowerOfTwo == ASSUME NEW s \in Nat PROVE 2 ^ s \in Nat /\ 2 ^ s > 0
<1>1. IsFiniteSet(1..s) /\ Cardinality(1..s) = s
  BY FS_Interval
<1>2. IsFiniteSet(SUBSET (1..s)) /\ Cardinality(SUBSET (1..s)) = 2 ^ s
  BY <1>1, FS_SUBSET
<1>3. ASSUME NEW n \in Nat, n # 0, n = 2 ^ s
      PROVE  2 ^ s \in Nat /\ 2 ^ s > 0
  BY <1>3
<1>4. Cardinality(SUBSET (1..s)) \in Nat
  BY <1>2, FS_CardinalityType
<1>5. Cardinality(SUBSET (1..s)) # 0
  <2>1. SUBSET (1..s) # {}
    OBVIOUS
  <2> QED
    BY <1>2, <2>1, FS_EmptySet
<1> QED
  BY <1>2, <1>3, <1>4, <1>5, Zenon

\* There is a penalty past the free failures only, and it has a longest.
LEMMA PenaltyRange ==
  ASSUME NEW n \in Nat
  PROVE  /\ n <= Free => penalty(n) = 0
         /\ n > Free => penalty(n) \in 1..MaxDelay
         /\ penalty(n) \in 0..MaxDelay
<1> DEFINE shift == IF n - Free - 1 < 20 THEN n - Free - 1 ELSE 20
<1>1. CASE n <= Free
  BY <1>1, ThrottleBounds DEF penalty
<1>2. CASE n > Free
  <2>1. shift \in Nat
    BY <1>2, ThrottleBounds
  <2>2. 2 ^ shift \in Nat /\ 2 ^ shift > 0
    BY <2>1, PowerOfTwo
  <2>3. penalty(n) = IF 2 ^ shift < MaxDelay THEN 2 ^ shift ELSE MaxDelay
    BY <1>2, ThrottleBounds DEF penalty
  <2> HIDE DEF shift
  <2> QED
    BY <1>2, <2>2, <2>3, ThrottleBounds
<1> QED
  BY <1>1, <1>2, ThrottleBounds

\* A blocked key has an entry of its own that no sweep removes.
LEMMA BlockedIsLive ==
  ASSUME LoginTyped, NEW k \in Key, Blocked(k)
  PROVE  failures[k] > Free /\ age[k] < EntryTTL /\ Swept[k] = failures[k] /\ Live(k)
<1>1. failures[k] \in 0..MaxFailures /\ age[k] \in 0..EntryTTL /\ failures[k] \in Nat
  BY ThrottleBounds DEF LoginTyped
<1>2. penalty(failures[k]) > age[k] /\ penalty(failures[k]) \in 0..MaxDelay
      /\ (failures[k] <= Free => penalty(failures[k]) = 0)
  BY <1>1, PenaltyRange DEF Blocked
<1>3. failures[k] > Free /\ age[k] < EntryTTL
  BY <1>1, <1>2, ThrottleBounds
<1> QED
  BY <1>1, <1>3, ThrottleBounds DEF Swept, Live

\* A sweep drops entries and changes none.
LEMMA SweptFacts ==
  ASSUME LoginTyped
  PROVE  /\ Swept \in [Key -> 0..MaxFailures]
         /\ \A k \in Key : Swept[k] \in {0, failures[k]}
  BY ThrottleBounds DEF Swept, LoginTyped

\* The requests under way are finitely many.
LEMMA InFlightFinite ==
  ASSUME NEW k
  PROVE  /\ IsFiniteSet(InFlight(k)) /\ Cardinality(InFlight(k)) \in Nat
         /\ Cardinality(InFlight(k)) <= Cardinality(Req)
         /\ \A r \in InFlight(k) : /\ Cardinality(InFlight(k) \ {r}) = Cardinality(InFlight(k)) - 1
                                   /\ Cardinality(InFlight(k)) > 0
         /\ \A r \in Req : /\ Cardinality(InFlight(k) \ {r}) \in Nat
                           /\ Cardinality(InFlight(k) \ {r}) <= Cardinality(InFlight(k))
<1>1. InFlight(k) \in SUBSET Req
  BY DEF InFlight
<1>2. IsFiniteSet(InFlight(k)) /\ Cardinality(InFlight(k)) <= Cardinality(Req)
      /\ Cardinality(InFlight(k)) \in Nat
  BY <1>1, ThrottleBounds, FS_Subset, FS_CardinalityType
<1>3. ASSUME NEW r
      PROVE  /\ Cardinality(InFlight(k) \ {r}) = IF r \in InFlight(k)
                  THEN Cardinality(InFlight(k)) - 1 ELSE Cardinality(InFlight(k))
             /\ Cardinality(InFlight(k) \ {r}) \in Nat
  <2>1. IsFiniteSet(InFlight(k) \ {r})
    BY <1>2, FS_RemoveElement
  <2>2. Cardinality(InFlight(k) \ {r}) \in Nat
    BY <2>1, FS_CardinalityType
  <2> QED
    BY <1>2, <2>2, FS_RemoveElement
<1>4. ASSUME NEW r
      PROVE  /\ Cardinality(InFlight(k) \ {r}) \in Nat
             /\ Cardinality(InFlight(k) \ {r}) <= Cardinality(InFlight(k))
             /\ r \in InFlight(k) =>
                  /\ Cardinality(InFlight(k) \ {r}) = Cardinality(InFlight(k)) - 1
                  /\ Cardinality(InFlight(k)) > 0
  BY <1>2, <1>3
<1> QED
  BY <1>2, <1>4

\* The same for the checks that run.
LEMMA CheckingFinite ==
  /\ IsFiniteSet(Checking) /\ Cardinality(Checking) \in Nat
  /\ \A r : /\ Cardinality(Checking \ {r}) =
                 IF r \in Checking THEN Cardinality(Checking) - 1 ELSE Cardinality(Checking)
            /\ Cardinality(Checking \cup {r}) =
                 IF r \in Checking THEN Cardinality(Checking) ELSE Cardinality(Checking) + 1
<1>1. Checking \in SUBSET Req
  BY DEF Checking
<1>2. IsFiniteSet(Checking) /\ Cardinality(Checking) \in Nat
  BY <1>1, ThrottleBounds, FS_Subset, FS_CardinalityType
<1> QED
  BY <1>2, FS_RemoveElement, FS_AddElement

\* One that ends is one fewer.
LEMMA LeavesFlight ==
  ASSUME LoginTyped, NEW r \in Req, Gone(r)
  PROVE  /\ \A k : InFlight(k)' = InFlight(k) \ {r}
         /\ Checking' = Checking \ {r}
         /\ state' \in [Req -> HandlerStates] /\ who' \in [Req -> Who]
<1>1. /\ state' = [state EXCEPT ![r] = "idle"] /\ state'[r] = "idle"
      /\ \A q \in Req \ {r} : state'[q] = state[q] /\ who'[q] = who[q]
  BY DEF Gone, LoginTyped
<1>2. Nobody \in Who
  BY DEF Nobody, Who
<1>3. who' \in [Req -> Who]
  BY <1>2 DEF Gone, LoginTyped
<1>4. state' \in [Req -> HandlerStates]
  BY <1>1 DEF LoginTyped, HandlerStates
<1>5. Checking' = Checking \ {r}
  BY <1>1 DEF Checking
<1>6. ASSUME NEW k PROVE InFlight(k)' = InFlight(k) \ {r}
  BY <1>1 DEF InFlight
<1> QED
  BY <1>3, <1>4, <1>5, <1>6

\* A failure is counted: on a blocked key it is one of the requests that were
\* in flight, and the key stays blocked.
LEMMA FailureStep ==
  ASSUME LoginInv, NEW r \in Req, state[r] = "checking", record_failure(who[r]), Gone(r)
  PROVE  /\ LateInFlight'
         /\ failures' \in [Key -> 0..MaxFailures] /\ age' \in [Key -> 0..EntryTTL]
         /\ late' \in [Key -> Nat]
<1>0. LoginTyped
  BY DEF LoginInv
<1>1. ASSUME NEW k \in Key
      PROVE  Counted(k) \in 1..MaxFailures
  <2>1. Swept[k] \in 0..MaxFailures
    BY <1>0, SweptFacts
  <2> QED
    BY <2>1, ThrottleBounds DEF Counted
<1>2. failures' \in [Key -> 0..MaxFailures] /\ age' \in [Key -> 0..EntryTTL]
  BY <1>0, <1>1, SweptFacts, ThrottleBounds DEF record_failure, LoginTyped
<1>3. late' \in [Key -> Nat]
  BY <1>0 DEF record_failure, LoginTyped
<1>4. ASSUME NEW k \in Key
      PROVE  IF Blocked(k)' THEN late'[k] + Cardinality(InFlight(k)') < Cardinality(Req)
                            ELSE late'[k] = 0
  <2> DEFINE n == Cardinality(InFlight(k))
  <2>1. InFlight(k)' = InFlight(k) \ {r}
    BY <1>0, LeavesFlight
  <2>2. /\ failures'[k] = IF k \in Keys(who[r]) THEN Counted(k) ELSE Swept[k]
        /\ age'[k] = IF k \in Keys(who[r]) THEN 0 ELSE age[k]
        /\ late'[k] = IF k \in Keys(who[r]) /\ Blocked(k) /\ late[k] < LateBound
                        THEN late[k] + 1 ELSE late[k]
    BY DEF record_failure
  <2>3. /\ n \in Nat /\ late[k] \in Nat /\ n <= Cardinality(Req) /\ Cardinality(Req) \in Nat
        /\ Cardinality(Req) > 0
        /\ Cardinality(InFlight(k) \ {r}) \in Nat /\ Cardinality(InFlight(k) \ {r}) <= n
        /\ r \in InFlight(k) => Cardinality(InFlight(k) \ {r}) = n - 1 /\ n > 0
    BY <1>0, InFlightFinite, ThrottleBounds DEF LoginTyped
  <2>4. IF Blocked(k) THEN late[k] + n < Cardinality(Req) ELSE late[k] = 0
    BY DEF LoginInv, LateInFlight
  <2>5. k \in Keys(who[r]) => r \in InFlight(k)
    BY DEF InFlight
  <2> HIDE DEF n
  <2>6. CASE k \in Keys(who[r])
    <3>1. Cardinality(InFlight(k) \ {r}) = n - 1 /\ n > 0
      BY <2>3, <2>5, <2>6
    <3>2. CASE ~Blocked(k)
      BY <2>1, <2>2, <2>3, <2>4, <2>6, <3>1, <3>2
    <3>3. CASE Blocked(k)
      <4>1. failures[k] > Free /\ age[k] < EntryTTL /\ Swept[k] = failures[k]
        BY <1>0, <3>3, BlockedIsLive
      <4>2. failures[k] \in 0..MaxFailures
        BY <1>0 DEF LoginTyped
      <4>3. Counted(k) > Free /\ Counted(k) \in Nat
        BY <1>0, <4>1, <4>2, ThrottleBounds DEF Counted, LoginTyped
      <4>4. penalty(failures'[k]) \in 1..MaxDelay /\ age'[k] = 0
        BY <2>2, <2>6, <4>3, PenaltyRange
      <4>5. Blocked(k)'
        BY <4>4, ThrottleBounds DEF Blocked
      <4> QED
        BY <2>1, <2>2, <2>3, <2>4, <2>6, <3>1, <3>3, <4>5 DEF LateBound
    <3> QED
      BY <3>2, <3>3
  <2>7. CASE k \notin Keys(who[r])
    <3>1. late'[k] = late[k] /\ age'[k] = age[k] /\ failures'[k] = Swept[k]
      BY <2>2, <2>7
    <3>2. CASE Blocked(k)
      <4>1. Swept[k] = failures[k]
        BY <1>0, <3>2, BlockedIsLive
      <4>2. Blocked(k)'
        BY <3>1, <3>2, <4>1 DEF Blocked
      <4> QED
        BY <2>1, <2>3, <2>4, <3>1, <3>2, <4>2
    <3>3. CASE ~Blocked(k)
      <4>1. ~Blocked(k)'
        <5>1. /\ Swept[k] \in {0, failures[k]}
              /\ age[k] \in Nat /\ penalty(0) = 0
          BY <1>0, SweptFacts, PenaltyRange, ThrottleBounds DEF LoginTyped
        <5>2. CASE Swept[k] = failures[k]
          BY <3>1, <3>3, <5>2 DEF Blocked
        <5>3. CASE Swept[k] = 0
          BY <3>1, <5>1, <5>3 DEF Blocked
        <5> QED
          BY <5>1, <5>2, <5>3
      <4> QED
        BY <2>4, <3>1, <3>3, <4>1
    <3> QED
      BY <3>2, <3>3
  <2> QED
    BY <2>6, <2>7
<1>5. LateInFlight'
  BY <1>4, Zenon DEF LateInFlight
<1> QED
  BY <1>2, <1>3, <1>5

\* What no request records: the keys are as blocked as they were.
LEMMA SameKeys ==
  ASSUME LoginInv, UNCHANGED <<failures, age, late>>,
         \A k \in Key : \/ Cardinality(InFlight(k)') = Cardinality(InFlight(k))
                        \/ ~Blocked(k)
                        \/ /\ Cardinality(InFlight(k)') \in Nat
                           /\ Cardinality(InFlight(k)') <= Cardinality(InFlight(k))
  PROVE  LateInFlight'
<1>1. ASSUME NEW k \in Key
      PROVE  IF Blocked(k)' THEN late'[k] + Cardinality(InFlight(k)') < Cardinality(Req)
                            ELSE late'[k] = 0
  <2>1. Blocked(k)' <=> Blocked(k)
    BY DEF Blocked
  <2>2. IF Blocked(k) THEN late[k] + Cardinality(InFlight(k)) < Cardinality(Req)
                      ELSE late[k] = 0
    BY DEF LoginInv, LateInFlight
  <2>3. Cardinality(InFlight(k)) \in Nat /\ late[k] \in Nat /\ Cardinality(Req) \in Nat
    BY InFlightFinite, ThrottleBounds DEF LoginInv, LoginTyped
  <2> QED
    BY <2>1, <2>2, <2>3
<1> QED
  BY <1>1, Zenon DEF LateInFlight

\* The clock keeps the invariant of the login.
LEMMA TickStep == ASSUME LoginInv, LoginTick PROVE LoginInv'
<1>0. LoginTyped
  BY DEF LoginInv
<1>1. LoginTyped'
  BY <1>0, ThrottleBounds DEF LoginTick, LoginTyped
<1>2. PermitsHeld'
  BY DEF LoginTick, LoginInv, PermitsHeld, Checking
<1>3. ASSUME NEW k \in Key
      PROVE  IF Blocked(k)' THEN late'[k] + Cardinality(InFlight(k)') < Cardinality(Req)
                            ELSE late'[k] = 0
  <2>1. /\ failures'[k] = failures[k] /\ InFlight(k)' = InFlight(k)
        /\ late'[k] = IF penalty(failures[k]) > age'[k] THEN late[k] ELSE 0
        /\ age'[k] = IF age[k] < EntryTTL THEN age[k] + 1 ELSE EntryTTL
    BY DEF LoginTick, InFlight
  <2>2. age[k] \in 0..EntryTTL /\ penalty(failures[k]) \in 0..MaxDelay
    BY <1>0, PenaltyRange, ThrottleBounds DEF LoginTyped
  <2>3. Blocked(k)' => Blocked(k)
    BY <2>1, <2>2, ThrottleBounds DEF Blocked
  <2>4. Blocked(k) => late[k] + Cardinality(InFlight(k)) < Cardinality(Req)
    BY DEF LoginInv, LateInFlight
  <2> QED
    BY <2>1, <2>3, <2>4 DEF Blocked
<1>4. LateInFlight'
  BY <1>3, Zenon DEF LateInFlight
<1> QED
  BY <1>1, <1>2, <1>4 DEF LoginInv

\* So does a request that is let past the throttle, or refused.
LEMMA CheckStep == ASSUME LoginInv, NEW r \in Req, NEW w \in Who, Check(r, w) PROVE LoginInv'
<1>0. LoginTyped
  BY DEF LoginInv
<1>1. /\ state[r] = "idle" /\ state' = [state EXCEPT ![r] = "query"]
      /\ who' = [who EXCEPT ![r] = w]
      /\ UNCHANGED <<failures, age, late, orphans, permits>>
      /\ \A k \in Keys(w) : ~Blocked(k)
  BY DEF Check, Passes, throttleVars
<1>2. LoginTyped'
  BY <1>0, <1>1 DEF LoginTyped, HandlerStates
<1>3. Checking' = Checking
  BY <1>0, <1>1 DEF Checking, LoginTyped
<1>4. ASSUME NEW k \in Key, k \notin Keys(w)
      PROVE  InFlight(k)' = InFlight(k)
  BY <1>0, <1>1, <1>4 DEF InFlight, LoginTyped
<1>5. LateInFlight'
  BY <1>1, <1>4, SameKeys
<1> QED
  BY <1>1, <1>2, <1>3, <1>5 DEF LoginInv, PermitsHeld

\* So does one that waits for the verifier.
LEMMA WaitStep == ASSUME LoginInv, NEW r \in Req, Found(r) \/ StartCheck(r) PROVE LoginInv'
<1>0. LoginTyped
  BY DEF LoginInv
<1>1. /\ state[r] \in {"query", "waiting"}
      /\ \/ state' = [state EXCEPT ![r] = "waiting"] /\ permits' = permits
         \/ state' = [state EXCEPT ![r] = "checking"] /\ permits > 0 /\ permits' = permits - 1
      /\ UNCHANGED <<failures, age, late, who, orphans>>
  BY DEF Found, StartCheck, throttleVars
<1>2. LoginTyped'
  BY <1>0, <1>1 DEF LoginTyped, HandlerStates
<1>3. \A k : InFlight(k)' = InFlight(k)
  BY <1>0, <1>1 DEF InFlight, LoginTyped
<1>4. LateInFlight'
  BY <1>1, <1>3, SameKeys
<1>5. PermitsHeld'
  <2>1. r \notin Checking
    BY <1>1 DEF Checking
  <2>2. CASE state' = [state EXCEPT ![r] = "waiting"] /\ permits' = permits
    <3>1. Checking' = Checking
      BY <1>0, <1>1, <2>2 DEF Checking, LoginTyped
    <3> QED
      BY <1>1, <2>2, <3>1 DEF LoginInv, PermitsHeld
  <2>3. CASE state' = [state EXCEPT ![r] = "checking"] /\ permits > 0 /\ permits' = permits - 1
    <3>1. Checking' = Checking \cup {r}
      BY <1>0, <1>1, <2>3 DEF Checking, LoginTyped
    <3>2. Cardinality(Checking') = Cardinality(Checking) + 1 /\ Cardinality(Checking) \in Nat
      BY <2>1, <3>1, CheckingFinite
    <3> QED
      BY <1>0, <1>1, <2>3, <3>2, ThrottleBounds DEF LoginInv, PermitsHeld, LoginTyped
  <2> QED
    BY <1>1, <2>2, <2>3
<1> QED
  BY <1>2, <1>4, <1>5 DEF LoginInv

\* So does the verifier's answer.
LEMMA CheckedStep ==
  ASSUME LoginInv, NEW r \in Req, NEW right \in BOOLEAN, Checked(r, right)
  PROVE  LoginInv'
<1>0. LoginTyped
  BY DEF LoginInv
<1>1. /\ state[r] = "checking" /\ permits' = permits + 1 /\ Gone(r) /\ orphans' = orphans
      /\ record_success(who[r]) \/ record_failure(who[r])
  BY DEF Checked
<1>2. PermitsHeld'
  <2>1. Checking' = Checking \ {r} /\ r \in Checking
    BY <1>0, <1>1, LeavesFlight DEF Checking
  <2>2. Cardinality(Checking') = Cardinality(Checking) - 1 /\ Cardinality(Checking) \in Nat
    BY <2>1, CheckingFinite
  <2> QED
    BY <1>0, <1>1, <2>2, ThrottleBounds DEF LoginInv, PermitsHeld, LoginTyped
<1>3. CASE record_failure(who[r])
  BY <1>0, <1>1, <1>2, <1>3, FailureStep, LeavesFlight DEF LoginInv, LoginTyped
<1>4. CASE record_success(who[r])
  <2>1. LoginTyped'
    BY <1>0, <1>1, <1>4, LeavesFlight, ThrottleBounds DEF record_success, LoginTyped
  <2>2. ASSUME NEW k \in Key
        PROVE  IF Blocked(k)' THEN late'[k] + Cardinality(InFlight(k)') < Cardinality(Req)
                              ELSE late'[k] = 0
    <3>1. CASE k \in Keys(who[r])
      <4>1. failures'[k] = 0 /\ late'[k] = 0 /\ age'[k] = age[k] /\ age[k] \in Nat
        BY <1>0, <1>4, <3>1, ThrottleBounds DEF record_success, LoginTyped
      <4>2. ~Blocked(k)'
        BY <4>1, PenaltyRange, ThrottleBounds DEF Blocked
      <4> QED
        BY <4>1, <4>2
    <3>2. CASE k \notin Keys(who[r])
      <4>1. failures'[k] = failures[k] /\ late'[k] = late[k] /\ age'[k] = age[k]
        BY <1>4, <3>2 DEF record_success
      <4>2. Blocked(k)' <=> Blocked(k)
        BY <4>1 DEF Blocked
      <4>3. InFlight(k)' = InFlight(k) \ {r}
        BY <1>0, <1>1, LeavesFlight
      <4>4. /\ Cardinality(InFlight(k)') \in Nat /\ Cardinality(InFlight(k)) \in Nat
            /\ Cardinality(InFlight(k)') <= Cardinality(InFlight(k))
            /\ Cardinality(Req) \in Nat /\ late[k] \in Nat
        BY <1>0, <4>3, InFlightFinite, ThrottleBounds DEF LoginTyped
      <4>5. IF Blocked(k) THEN late[k] + Cardinality(InFlight(k)) < Cardinality(Req)
                          ELSE late[k] = 0
        BY DEF LoginInv, LateInFlight
      <4> QED
        BY <4>1, <4>2, <4>4, <4>5
    <3> QED
      BY <3>1, <3>2
  <2>3. LateInFlight'
    BY <2>2, Zenon DEF LateInFlight
  <2> QED
    BY <1>2, <2>1, <2>3 DEF LoginInv
<1> QED
  BY <1>1, <1>3, <1>4

\* So does a client that goes away.
LEMMA HangUpStep == ASSUME LoginInv, NEW r \in Req, HangUp(r) PROVE LoginInv'
<1>0. LoginTyped
  BY DEF LoginInv
<1>1. /\ Gone(r) /\ UNCHANGED <<failures, age, late, permits>>
      /\ orphans' = orphans + (IF state[r] = "checking" THEN 1 ELSE 0)
  BY DEF HangUp, throttleVars
<1>2. LoginTyped'
  BY <1>0, <1>1, LeavesFlight DEF LoginTyped
<1>3. ASSUME NEW k \in Key
      PROVE  /\ Cardinality(InFlight(k)') \in Nat
             /\ Cardinality(InFlight(k)') <= Cardinality(InFlight(k))
  <2>1. InFlight(k)' = InFlight(k) \ {r}
    BY <1>0, <1>1, LeavesFlight
  <2> QED
    BY <2>1, InFlightFinite
<1>4. LateInFlight'
  BY <1>1, <1>3, SameKeys
<1>5. PermitsHeld'
  <2>1. Checking' = Checking \ {r} /\ (r \in Checking <=> state[r] = "checking")
    BY <1>0, <1>1, LeavesFlight DEF Checking
  <2>2. /\ Cardinality(Checking) \in Nat
        /\ Cardinality(Checking') = IF state[r] = "checking" THEN Cardinality(Checking) - 1
                                                             ELSE Cardinality(Checking)
    BY <2>1, CheckingFinite
  <2> QED
    BY <1>0, <1>1, <2>2, ThrottleBounds DEF LoginInv, PermitsHeld, LoginTyped
<1> QED
  BY <1>2, <1>4, <1>5 DEF LoginInv

\* So does the verifier that outlived its request.
LEMMA OrphanStep == ASSUME LoginInv, OrphanDone PROVE LoginInv'
<1>0. LoginTyped
  BY DEF LoginInv
<1>1. /\ orphans > 0 /\ orphans' = orphans - 1 /\ permits' = permits + 1
      /\ UNCHANGED <<failures, age, late, state, who>>
  BY DEF OrphanDone, throttleVars
<1>2. LoginTyped'
  BY <1>0, <1>1 DEF LoginTyped
<1>3. \A k : InFlight(k)' = InFlight(k)
  BY <1>1 DEF InFlight
<1>4. LateInFlight'
  BY <1>1, <1>3, SameKeys
<1>5. Checking' = Checking /\ Cardinality(Checking) \in Nat
  BY <1>1, CheckingFinite DEF Checking
<1>6. PermitsHeld'
  BY <1>0, <1>1, <1>5, ThrottleBounds DEF LoginInv, PermitsHeld, LoginTyped
<1> QED
  BY <1>2, <1>4, <1>6 DEF LoginInv

\* The invariant of the login holds when the agent starts.
LEMMA LoginInvInit == LoginInit => LoginInv
<1> SUFFICES ASSUME LoginInit PROVE LoginInv
  OBVIOUS
<1>1. LoginTyped
  BY ThrottleBounds DEF LoginInit, LoginTyped, HandlerStates, Nobody, Who
<1>2. Checking = {}
  BY DEF LoginInit, Checking
<1>3. PermitsHeld
  BY <1>2, FS_EmptySet, ThrottleBounds DEF LoginInit, PermitsHeld
<1>4. ASSUME NEW k \in Key PROVE ~Blocked(k) /\ late[k] = 0
  BY PenaltyRange, ThrottleBounds DEF LoginInit, Blocked
<1>5. LateInFlight
  BY <1>4 DEF LateInFlight
<1> QED
  BY <1>1, <1>3, <1>5 DEF LoginInv

\* A step of the login keeps it.
LEMMA LoginInvStep == LoginInv /\ [LoginNext]_loginVars => LoginInv'
<1>1. LoginInv /\ UNCHANGED loginVars => LoginInv'
  BY DEF loginVars, LoginInv, LoginTyped, PermitsHeld, Checking, LateInFlight, Blocked, InFlight
<1> QED
  BY <1>1, TickStep, CheckStep, WaitStep, CheckedStep, HangUpStep, OrphanStep DEF LoginNext

\* What is said of the login follows from it.
LEMMA LoginFollow == LoginInv => LoginTypeOK /\ VerifierBounded /\ LateBounded
<1> SUFFICES ASSUME LoginInv PROVE LoginTypeOK /\ VerifierBounded /\ LateBounded
  OBVIOUS
<1>1. LoginTyped /\ PermitsHeld /\ Cardinality(Checking) \in Nat
  BY CheckingFinite DEF LoginInv
<1>2. VerifierBounded /\ orphans \in 0..Permits /\ permits \in 0..Permits
  BY <1>1, ThrottleBounds DEF LoginTyped, PermitsHeld, VerifierBounded
<1>3. ASSUME NEW k \in Key PROVE late[k] \in Nat /\ late[k] < Cardinality(Req)
  <2>1. /\ late[k] \in Nat /\ Cardinality(InFlight(k)) \in Nat /\ Cardinality(Req) \in Nat
        /\ Cardinality(Req) > 0
    BY <1>1, InFlightFinite, ThrottleBounds DEF LoginTyped
  <2>2. IF Blocked(k) THEN late[k] + Cardinality(InFlight(k)) < Cardinality(Req)
                      ELSE late[k] = 0
    BY DEF LoginInv, LateInFlight
  <2> QED
    BY <2>1, <2>2
<1>4. late \in [Key -> 0..LateBound]
  BY <1>1, <1>3, ThrottleBounds DEF LoginTyped, LateBound
<1> QED
  BY <1>1, <1>2, <1>3, <1>4 DEF LoginTyped, HandlerStates, LoginTypeOK, LateBounded

\* No more passwords are checked at once than there are permits, abandoned
\* checks included, and a blocked key collects fewer late failures than there
\* are requests, for any limits and any number of requests.
THEOREM LoginTheorem == LoginSpec => [](VerifierBounded /\ LateBounded)
  BY LoginInvInit, LoginInvStep, LoginFollow, PTL DEF LoginSpec

-----------------------------------------------------------------------------
(* A local shell.  What counts is not the channel alone: what is shown and *)
(* what waits behind it are one sequence, whose length follows what was    *)
(* read from the PTY as long as neither thread has given up.               *)

USE DEF Exit

ShellFlags == {heldOpen, readerDone, closed, closing, cutOff} \subseteq BOOLEAN

ShellPlaces ==
  /\ shell \in {"waiting", "printing", "exited"}
  /\ readerAt \in {"read", "lock", "send", "ending", "done"}
  /\ reaperAt \in {"poll", "wait", "lock", "send", "done"}
  /\ gate \in {"free", "reader", "reaper"} /\ driver \in {"select", "write", "done"}

ShellCounts ==
  /\ printed \in 0..PrintBound /\ drawn \in 0..printed /\ inBuf \in 0..PtyIn
  /\ events \in Seq(0..PrintBound) /\ Len(events) <= Channel
  /\ shown \in Seq(0..PrintBound) /\ pending \in 0..typed /\ typed \in 0..TypeBound

\* The threads agree on who is where: reader_done is the reader's end, the
\* lock's holder is at its send, and the reaper has closed the delivery before
\* it sends.
ShellControl ==
  /\ readerDone <=> readerAt = "done"
  /\ gate = "reader" <=> readerAt = "send"
  /\ gate = "reaper" <=> reaperAt = "send"
  /\ closed <=> (reaperAt \in {"send", "done"})
  /\ readerAt = "send" => reaperAt \notin {"send", "done"}

\* Output is shown, and waits behind what is shown, in order; the exit is last
\* in the channel until it ends the driver.
InOrder ==
  /\ \A i \in 1..Len(shown) : shown[i] = i \/ (shown[i] = Exit /\ i = Len(shown) /\ driver = "done")
  /\ \A i \in 1..Len(events) : events[i] = Len(shown) + i \/ (events[i] = Exit /\ i = Len(events))
  /\ driver = "done" => events = <<>>

ExitShown == shown # <<>> /\ shown[Len(shown)] = Exit
ExitWaits == events # <<>> /\ events[Len(events)] = Exit

\* While the driver runs, the exit is in the channel once the reaper is done.
ExitSent ==
  /\ ExitShown \/ ExitWaits => reaperAt = "done"
  /\ reaperAt = "done" /\ driver # "done" => ExitWaits

Sent == Len(shown) + Len(events)

\* While nobody has given up, all that was drawn is sent, but for the chunk in
\* the reader's hands.
SentAll ==
  driver # "done" /\ reaperAt # "done" =>
    /\ readerAt = "read" => Sent = drawn
    /\ readerAt \in {"lock", "send"} => Sent = drawn - 1

\* Nothing is printed any more and all of it was drawn.
Quiet == drawn = printed /\ ~Slave

\* The reader ended at the end of the output.
EndedWhole ==
  readerAt \in {"ending", "done"} /\ reaperAt \notin {"send", "done"} /\ driver # "done"
    => Quiet /\ Sent = printed

WaitedWhole ==
  reaperAt \in {"lock", "send", "done"} /\ cutOff = FALSE =>
    /\ readerAt = "done"
    /\ driver # "done" => Quiet /\ Sent = printed + (IF reaperAt = "done" THEN 1 ELSE 0)
    /\ ExitShown => Quiet /\ Len(shown) = printed + 1

ShellInv == /\ ShellFlags /\ ShellPlaces /\ ShellCounts /\ ShellControl
            /\ InOrder /\ ExitSent /\ SentAll /\ EndedWhole /\ WaitedWhole


\* The shell's bounds are natural numbers.
LEMMA ShellNats ==
  /\ Channel \in Nat \ {0} /\ PtyOut \in Nat \ {0} /\ PtyIn \in Nat \ {0}
  /\ PrintBound \in Nat \ {0} /\ TypeBound \in Nat \ {0}
  BY ShellAssumption

\* The shell's invariant holds before it runs.
LEMMA ShellInvInit == ShellInit => ShellInv
<1> SUFFICES ASSUME ShellInit PROVE ShellInv
    OBVIOUS
<1>1. ShellFlags
  BY DEF ShellInit, ShellFlags
<1>2. ShellPlaces
  BY DEF ShellInit, ShellPlaces
<1>3. ShellCounts
  BY ShellNats DEF ShellInit, ShellCounts
<1>4. ShellControl
  <2>1. /\ readerDone = FALSE /\ closed = FALSE /\ readerAt = "read" /\ reaperAt = "poll"
        /\ gate = "free"
    BY Zenon DEF ShellInit
  <2>2. readerAt \notin {"done", "send"} /\ reaperAt \notin {"send", "done"}
    BY <2>1
  <2> QED BY <2>1, <2>2, Zenon DEF ShellControl
<1>5. InOrder /\ ExitSent
  BY DEF ShellInit, InOrder, ExitSent, ExitShown, ExitWaits
<1>6. SentAll /\ EndedWhole /\ WaitedWhole
  BY DEF ShellInit, SentAll, EndedWhole, WaitedWhole, Sent
<1> QED BY <1>1, <1>2, <1>3, <1>4, <1>5, <1>6 DEF ShellInv

\* The reader's steps.
LEMMA ShellReaderStep == ASSUME ShellInv, Reader PROVE ShellInv'
<1> USE DEF ShellInv
<1>1. CASE ReadPty
  <2>1. ShellFlags' /\ ShellPlaces' /\ ShellControl'
    BY <1>1, Zenon DEF ReadPty, ShellFlags, ShellPlaces, ShellControl
  <2>2. ShellCounts'
    BY <1>1, ShellNats DEF ReadPty, ShellCounts
  <2>3. Slave' <=> Slave
    BY <1>1, Zenon DEF ReadPty, Slave
  <2>4. InOrder' /\ ExitSent'
    BY <1>1 DEF ReadPty, InOrder, ExitSent, ExitShown, ExitWaits
  <2>5. SentAll' /\ EndedWhole'
    BY <1>1, <2>3 DEF ReadPty, SentAll, EndedWhole, Sent, ShellCounts, Quiet
  <2>6. WaitedWhole'
    BY <1>1, <2>3 DEF ReadPty, WaitedWhole, Sent, ShellCounts, ExitShown, Quiet
  <2> QED BY <2>1, <2>2, <2>4, <2>5, <2>6
<1>2. CASE ReaderLocks
  <2>1. ShellFlags' /\ ShellPlaces' /\ ShellControl'
    BY <1>2, Zenon DEF ReaderLocks, ShellFlags, ShellPlaces, ShellControl
  <2>2. ShellCounts'
    BY <1>2 DEF ReaderLocks, ShellCounts
  <2>3. Slave' <=> Slave
    BY <1>2, Zenon DEF ReaderLocks, Slave
  <2>4. InOrder' /\ ExitSent'
    BY <1>2 DEF ReaderLocks, InOrder, ExitSent, ExitShown, ExitWaits
  <2>5. SentAll' /\ EndedWhole'
    BY <1>2, <2>3 DEF ReaderLocks, SentAll, EndedWhole, Sent, ShellCounts, Quiet, ShellControl
  <2>6. WaitedWhole'
    BY <1>2, <2>3 DEF ReaderLocks, WaitedWhole, Sent, ShellCounts, ExitShown, Quiet
  <2> QED BY <2>1, <2>2, <2>4, <2>5, <2>6
<1>3. CASE ReaderSends
  <2>1. /\ UNCHANGED <<shell, heldOpen, printed, drawn, inBuf, reaperAt, readerDone, closed,
                      driver, typed, pending, closing, shown, cutOff>>
        /\ readerAt = "send" /\ readerAt' # "send" /\ readerAt' # "done" /\ gate' = "free"
        /\ readerAt' \in {"read", "ending"}
    BY <1>3, Zenon DEF ReaderSends, FreeGate
  <2>2. ShellFlags' /\ ShellPlaces' /\ ShellControl'
    BY <2>1, Zenon DEF ShellFlags, ShellPlaces, ShellControl
  <2>3. Slave' <=> Slave
    BY <2>1, Zenon DEF Slave
  <2>4. WaitedWhole'
    BY <2>1, <2>3 DEF WaitedWhole
  <2>5. CASE driver = "done"
    <3>1. events' = events /\ readerAt' = "ending"
      BY <1>3, <2>5 DEF ReaderSends
    <3>2. ShellCounts'
      BY <2>1, <3>1 DEF ShellCounts
    <3>3. InOrder' /\ ExitSent' /\ SentAll' /\ EndedWhole'
      BY <2>1, <2>5, <3>1 DEF InOrder, ExitSent, ExitShown, ExitWaits, SentAll, EndedWhole
    <3> QED BY <2>2, <2>4, <3>2, <3>3
  <2>6. CASE driver # "done"
    <3>1. Len(events) < Channel /\ events' = Append(events, drawn) /\ readerAt' = "read"
      BY <1>3, <2>6 DEF ReaderSends, Space
    <3>2. ShellCounts'
      BY <2>1, <3>1, ShellNats DEF ShellCounts
    <3>3. reaperAt \notin {"send", "done"}
      BY <2>1 DEF ShellControl
    <3>4. Len(shown) + Len(events) = drawn - 1
      BY <2>1, <2>6, <3>3 DEF SentAll, Sent
    <3>5. /\ Len(events') = Len(events) + 1 /\ events'[Len(events')] = drawn
          /\ \A i \in 1..Len(events) : events'[i] = events[i]
      BY <3>1 DEF ShellCounts
    <3>6. Len(shown) \in Nat /\ Len(events) \in Nat
      BY DEF ShellCounts
    <3>7. ~ExitWaits
      BY <3>3 DEF ExitSent
    <3>8. \A i \in 1..Len(events) : events[i] = Len(shown) + i
      BY <3>6, <3>7 DEF InOrder, ExitWaits, ShellCounts
    <3>11. \A i \in 1..Len(events') : events'[i] = Len(shown) + i
      <4>1. drawn \in Nat
        BY ShellNats DEF ShellCounts
      <4>2. TAKE i \in 1..Len(events')
      <4>3. CASE i = Len(events) + 1
        BY <4>1, <4>3, <3>4, <3>5, <3>6
      <4>4. CASE i # Len(events) + 1
        BY <4>4, <3>5, <3>6, <3>8
      <4> QED BY <4>3, <4>4
    <3>12. InOrder'
      BY <2>1, <2>6, <3>11 DEF InOrder
    <3>9. ExitSent'
      BY <2>1, <2>6, <3>3, <3>4, <3>5, <3>6 DEF ExitSent, ExitShown, ExitWaits, ShellCounts
    <3>10. SentAll' /\ EndedWhole'
      BY <2>1, <2>6, <3>1, <3>4, <3>5, <3>6 DEF SentAll, EndedWhole, Sent, ShellCounts
    <3> QED BY <2>2, <2>4, <3>2, <3>12, <3>9, <3>10
  <2> QED BY <2>5, <2>6
<1>4. CASE ReaderEnds
  <2>1. ShellFlags' /\ ShellPlaces' /\ ShellControl'
    BY <1>4, Zenon DEF ReaderEnds, ShellFlags, ShellPlaces, ShellControl
  <2>2. ShellCounts'
    BY <1>4 DEF ReaderEnds, ShellCounts
  <2>3. Slave' <=> Slave
    BY <1>4, Zenon DEF ReaderEnds, Slave
  <2>4. InOrder' /\ ExitSent'
    BY <1>4 DEF ReaderEnds, InOrder, ExitSent, ExitShown, ExitWaits
  <2>5. SentAll' /\ EndedWhole'
    BY <1>4, <2>3 DEF ReaderEnds, SentAll, EndedWhole, Sent, ShellCounts, Quiet
  <2>6. WaitedWhole'
    BY <1>4, <2>3 DEF ReaderEnds, WaitedWhole, Sent, ShellCounts, ExitShown, Quiet
  <2> QED BY <2>1, <2>2, <2>4, <2>5, <2>6
<1> QED BY <1>1, <1>2, <1>3, <1>4 DEF Reader

\* The reaper's steps.
LEMMA ShellReaperStep == ASSUME ShellInv, Reaper PROVE ShellInv'
<1> USE DEF ShellInv
<1>1. CASE Reap
  <2>1. ShellFlags' /\ ShellPlaces' /\ ShellControl'
    BY <1>1, Zenon DEF Reap, ShellFlags, ShellPlaces, ShellControl
  <2>2. ShellCounts'
    BY <1>1, ShellNats DEF Reap, ShellCounts
  <2>3. Slave' <=> Slave
    BY <1>1, Zenon DEF Reap, Slave
  <2>4. InOrder' /\ ExitSent'
    BY <1>1 DEF Reap, InOrder, ExitSent, ExitShown, ExitWaits
  <2>5. SentAll' /\ EndedWhole'
    BY <1>1, <2>3 DEF Reap, SentAll, EndedWhole, Sent, ShellCounts, Quiet
  <2>6. WaitedWhole'
    BY <1>1, <2>3 DEF Reap, WaitedWhole, Sent, ShellCounts, ExitShown, Quiet
  <2> QED BY <2>1, <2>2, <2>4, <2>5, <2>6
<1>2. CASE StopWaiting
  <2>1. /\ UNCHANGED <<shell, heldOpen, printed, drawn, inBuf, readerAt, readerDone, gate, closed,
                      events, driver, typed, pending, closing, shown>>
        /\ reaperAt = "wait" /\ reaperAt' = "lock"
    BY <1>2, Zenon DEF StopWaiting
  <2>2. cutOff' \in BOOLEAN /\ (cutOff' = FALSE => readerAt = "done")
    BY <1>2, Zenon DEF StopWaiting, Wake, ShellControl, ShellFlags
  <2>3. ShellFlags' /\ ShellPlaces' /\ ShellControl'
    BY <2>1, <2>2, Zenon DEF ShellFlags, ShellPlaces, ShellControl
  <2>4. Slave' <=> Slave
    BY <2>1, Zenon DEF Slave
  <2>5. ShellCounts'
    BY <2>1 DEF ShellCounts
  <2>6. InOrder' /\ ExitSent'
    BY <2>1 DEF InOrder, ExitSent, ExitShown, ExitWaits
  <2>7. SentAll' /\ EndedWhole'
    BY <2>1, <2>4 DEF SentAll, EndedWhole, Sent, Quiet
  <2>8. WaitedWhole'
    BY <2>1, <2>2, <2>4 DEF WaitedWhole, EndedWhole, ExitSent, ExitShown, Sent, Quiet
  <2> QED BY <2>3, <2>5, <2>6, <2>7, <2>8
<1>3. CASE ReaperLocks
  <2>1. ShellFlags' /\ ShellPlaces' /\ ShellControl'
    BY <1>3, Zenon DEF ReaperLocks, ShellFlags, ShellPlaces, ShellControl
  <2>2. ShellCounts'
    BY <1>3, ShellNats DEF ReaperLocks, ShellCounts
  <2>3. Slave' <=> Slave
    BY <1>3, Zenon DEF ReaperLocks, Slave
  <2>4. InOrder' /\ ExitSent'
    BY <1>3 DEF ReaperLocks, InOrder, ExitSent, ExitShown, ExitWaits
  <2>5. SentAll' /\ EndedWhole'
    BY <1>3, <2>3 DEF ReaperLocks, SentAll, EndedWhole, Sent, ShellCounts, Quiet
  <2>6. WaitedWhole'
    BY <1>3, <2>3 DEF ReaperLocks, WaitedWhole, Sent, ShellCounts, ExitShown, Quiet
  <2> QED BY <2>1, <2>2, <2>4, <2>5, <2>6
<1>4. CASE ReaperSends
  <2>1. /\ UNCHANGED <<shell, heldOpen, printed, drawn, inBuf, readerAt, readerDone, closed,
                      driver, typed, pending, closing, shown, cutOff>>
        /\ reaperAt = "send" /\ reaperAt' = "done" /\ gate' = "free"
    BY <1>4, Zenon DEF ReaperSends
  <2>2. ShellFlags' /\ ShellPlaces' /\ ShellControl'
    BY <2>1, Zenon DEF ShellFlags, ShellPlaces, ShellControl
  <2>3. Slave' <=> Slave
    BY <2>1, Zenon DEF Slave
  <2>4. SentAll' /\ EndedWhole'
    BY <2>1 DEF SentAll, EndedWhole
  <2>5. ~ExitShown /\ ~ExitWaits
    BY <2>1 DEF ExitSent
  <2>6. CASE driver = "done"
    <3>1. events' = events
      BY <1>4, <2>6 DEF ReaperSends
    <3>2. ShellCounts'
      BY <2>1, <3>1 DEF ShellCounts
    <3>3. InOrder' /\ ExitSent'
      BY <2>1, <2>6, <3>1 DEF InOrder, ExitSent, ExitShown, ExitWaits
    <3>4. WaitedWhole'
      BY <2>1, <2>5, <2>6 DEF WaitedWhole, ExitShown
    <3> QED BY <2>2, <2>4, <3>2, <3>3, <3>4
  <2>7. CASE driver # "done"
    <3>1. Len(events) < Channel /\ events' = Append(events, Exit)
      BY <1>4, <2>7 DEF ReaperSends, Space
    <3>2. ShellCounts'
      BY <2>1, <3>1, ShellNats DEF ShellCounts
    <3>3. /\ Len(events') = Len(events) + 1 /\ events'[Len(events')] = Exit
          /\ \A i \in 1..Len(events) : events'[i] = events[i]
      BY <3>1 DEF ShellCounts
    <3>4. Len(shown) \in Nat /\ Len(events) \in Nat
      BY DEF ShellCounts
    <3>5. \A i \in 1..Len(events) : events[i] = Len(shown) + i
      BY <2>5, <3>4 DEF InOrder, ExitWaits, ShellCounts
    <3>6. \A i \in 1..Len(events') :
            events'[i] = Len(shown) + i \/ (events'[i] = Exit /\ i = Len(events'))
      BY <3>3, <3>4, <3>5
    <3>7. InOrder'
      BY <2>1, <2>7, <3>6 DEF InOrder
    <3>8. ExitSent'
      BY <2>1, <2>7, <3>3, <3>4, ShellCounts' DEF ExitSent, ExitWaits, ShellCounts
    <3>9. WaitedWhole'
      BY <2>1, <2>3, <2>5, <2>7, <3>3, <3>4, ShellNats
      DEF WaitedWhole, ExitShown, Sent, Quiet, ShellCounts
    <3> QED BY <2>2, <2>4, <3>2, <3>7, <3>8, <3>9
  <2> QED BY <2>6, <2>7
<1> QED BY <1>1, <1>2, <1>3, <1>4 DEF Reaper

\* The driver's end without an exit: what waits in the channel is dropped.
LEMMA DriverEndStep ==
  ASSUME ShellInv, driver # "done", Ended,
         UNCHANGED <<shell, heldOpen, printed, drawn, inBuf, readerAt, reaperAt, readerDone, gate,
                     closed, typed, pending, closing, shown, cutOff>>
  PROVE  ShellInv'
<1> USE DEF ShellInv
<1>1. driver' = "done" /\ events' = <<>>
  BY DEF Ended
<1>2. ShellFlags' /\ ShellPlaces' /\ ShellControl'
  BY <1>1, Zenon DEF ShellFlags, ShellPlaces, ShellControl
<1>3. ShellCounts'
  BY <1>1, ShellNats DEF ShellCounts
<1>4. InOrder'
  BY <1>1 DEF InOrder
<1>5. ~ExitShown'
  BY DEF InOrder, ExitShown, ShellCounts
<1>6. ExitSent' /\ SentAll' /\ EndedWhole' /\ WaitedWhole'
  BY <1>1, <1>5 DEF ExitSent, ExitWaits, SentAll, EndedWhole, WaitedWhole
<1> QED BY <1>2, <1>3, <1>4, <1>6

\* The driver's steps.
LEMMA ShellDriverStep == ASSUME ShellInv, Driver PROVE ShellInv'
<1> USE DEF ShellInv
<1>1. CASE TakeInput
  <2>1. ShellFlags' /\ ShellPlaces' /\ ShellControl'
    BY <1>1, Zenon DEF TakeInput, ShellFlags, ShellPlaces, ShellControl
  <2>2. ShellCounts'
    BY <1>1, ShellNats DEF TakeInput, ShellCounts
  <2>3. Slave' <=> Slave
    BY <1>1, Zenon DEF TakeInput, Slave
  <2>4. InOrder' /\ ExitSent'
    BY <1>1 DEF TakeInput, InOrder, ExitSent, ExitShown, ExitWaits
  <2>5. SentAll' /\ EndedWhole'
    BY <1>1, <2>3 DEF TakeInput, SentAll, EndedWhole, Sent, ShellCounts, Quiet
  <2>6. WaitedWhole'
    BY <1>1, <2>3 DEF TakeInput, WaitedWhole, Sent, ShellCounts, ExitShown, Quiet
  <2> QED BY <2>1, <2>2, <2>4, <2>5, <2>6
<1>2. CASE WriteInput
  <2>1. CASE Ended
    <3>1. inBuf' = inBuf
      BY <1>2, <2>1 DEF WriteInput, Ended
    <3> QED BY <1>2, <2>1, <3>1, DriverEndStep DEF WriteInput
  <2>2. CASE ~Ended
    <3>1. /\ UNCHANGED <<shell, heldOpen, printed, drawn, readerAt, reaperAt, readerDone, gate,
                        closed, typed, pending, closing, shown, cutOff, events>>
          /\ inBuf < PtyIn /\ inBuf' = inBuf + 1 /\ driver = "write" /\ driver' = "select"
      BY <1>2, <2>2, Zenon DEF WriteInput
    <3>2. ShellFlags' /\ ShellPlaces' /\ ShellControl'
      BY <3>1, Zenon DEF ShellFlags, ShellPlaces, ShellControl
    <3>3. ShellCounts'
      BY <3>1, ShellNats DEF ShellCounts
    <3>4. Slave' <=> Slave
      BY <3>1, Zenon DEF Slave
    <3>5. InOrder' /\ ExitSent'
      BY <3>1 DEF InOrder, ExitSent, ExitShown, ExitWaits
    <3>6. SentAll' /\ EndedWhole' /\ WaitedWhole'
      BY <3>1, <3>4 DEF SentAll, EndedWhole, WaitedWhole, Sent, ExitShown, Quiet
    <3> QED BY <3>2, <3>3, <3>5, <3>6
  <2> QED BY <2>1, <2>2
<1>3. CASE TakeClose
  BY <1>3, DriverEndStep DEF TakeClose
<1>4. CASE TakeEvent
  <2>1. /\ UNCHANGED <<shell, heldOpen, printed, drawn, inBuf, readerAt, reaperAt, readerDone,
                      gate, closed, typed, pending, closing, cutOff>>
        /\ driver = "select" /\ events # <<>> /\ shown' = Append(shown, Head(events))
    BY <1>4, Zenon DEF TakeEvent
  <2>2. Slave' <=> Slave
    BY <2>1, Zenon DEF Slave
  <2>3. /\ Len(events) \in Nat \ {0} /\ Len(shown) \in Nat /\ Head(events) = events[1]
        /\ events[1] \in 0..PrintBound
    <3>1. events \in Seq(0..PrintBound) /\ events # <<>> /\ shown \in Seq(0..PrintBound)
      BY <2>1 DEF ShellCounts
    <3>2. Len(events) \in Nat \ {0}
      BY <3>1
    <3>3. events[1] \in 0..PrintBound
      <4> DEFINE Told == 0..PrintBound
      <4>1. events \in Seq(Told) /\ 1 \in 1..Len(events)
        BY <3>1, <3>2
      <4> HIDE DEF Told
      <4>2. events[1] \in Told
        BY <4>1
      <4> QED BY <4>2 DEF Told
    <3>4. Len(shown) \in Nat
      BY <3>1
    <3>5. Head(events) = events[1]
      OBVIOUS
    <3> QED BY <3>2, <3>3, <3>4, <3>5
  <2>4. shown' \in Seq(0..PrintBound)
    BY <2>1, <2>3 DEF ShellCounts
  <2>5. /\ Len(shown') = Len(shown) + 1 /\ shown'[Len(shown')] = events[1]
        /\ \A i \in 1..Len(shown) : shown'[i] = shown[i]
    BY <2>1, <2>3 DEF ShellCounts
  <2>6. \A i \in 1..Len(shown) : shown[i] = i
    BY <2>1 DEF InOrder
  <2>7. CASE events[1] = Exit
    <3>1. driver' = "done" /\ events' = <<>>
      BY <1>4, <2>3, <2>7 DEF TakeEvent, Ended
    <3>2. Len(events) = 1
      <4>1. 1 \in 1..Len(events) /\ Len(shown) + 1 # Exit
        BY <2>3
      <4> QED BY <2>7, <4>1 DEF InOrder
    <3>3. ExitWaits /\ reaperAt = "done"
      BY <2>1, <2>7, <3>2 DEF ExitWaits, ExitSent
    <3>4. ShellFlags' /\ ShellPlaces' /\ ShellControl'
      BY <2>1, <3>1, Zenon DEF ShellFlags, ShellPlaces, ShellControl
    <3>5. ShellCounts'
      BY <2>1, <2>4, <3>1, ShellNats DEF ShellCounts
    <3>6. InOrder'
      BY <2>3, <2>5, <2>6, <2>7, <3>1 DEF InOrder
    <3>7. ExitSent' /\ SentAll' /\ EndedWhole'
      BY <2>1, <3>1, <3>3 DEF ExitSent, ExitWaits, SentAll, EndedWhole
    <3>8. WaitedWhole'
      BY <2>1, <2>2, <2>3, <2>5, <3>1, <3>2, <3>3, ShellNats
      DEF WaitedWhole, Sent, Quiet, ShellCounts
    <3> QED BY <3>4, <3>5, <3>6, <3>7, <3>8
  <2>8. CASE events[1] # Exit
    <3>1. driver' = driver /\ events' = Tail(events)
      BY <1>4, <2>3, <2>8 DEF TakeEvent
    <3>2. /\ events' \in Seq(0..PrintBound) /\ Len(events') = Len(events) - 1
          /\ \A i \in 1..Len(events') : events'[i] = events[i + 1]
      BY <2>1, <2>3, <3>1 DEF ShellCounts
    <3>3. ShellFlags' /\ ShellPlaces' /\ ShellControl'
      BY <2>1, <3>1, Zenon DEF ShellFlags, ShellPlaces, ShellControl
    <3>4. ShellCounts'
      BY <2>1, <2>3, <2>4, <3>2, ShellNats DEF ShellCounts
    <3>5. events[1] = Len(shown) + 1
      BY <2>3, <2>8 DEF InOrder
    <3>6. \A i \in 1..Len(shown') : shown'[i] = i
      BY <2>3, <2>5, <2>6, <3>5
    <3>7. \A i \in 1..Len(events') :
            events'[i] = Len(shown') + i \/ (events'[i] = Exit /\ i = Len(events'))
      BY <2>3, <2>5, <3>2 DEF InOrder
    <3>8. InOrder'
      BY <2>1, <3>1, <3>6, <3>7 DEF InOrder
    <3>9. ~ExitShown'
      BY <2>3, <2>5, <3>6 DEF ExitShown
    <3>10. ExitWaits' <=> ExitWaits
      BY <2>1, <2>3, <2>8, <3>2 DEF ExitWaits
    <3>11. ExitSent'
      BY <2>1, <3>1, <3>9, <3>10 DEF ExitSent
    <3>12. Sent' = Sent
      BY <2>3, <2>5, <3>2 DEF Sent
    <3>13. SentAll' /\ EndedWhole' /\ WaitedWhole'
      BY <2>1, <2>2, <3>1, <3>9, <3>12 DEF SentAll, EndedWhole, WaitedWhole, Quiet
    <3> QED BY <3>3, <3>4, <3>8, <3>11, <3>13
  <2> QED BY <2>7, <2>8
<1> QED BY <1>1, <1>2, <1>3, <1>4 DEF Driver

\* The shell's and the browser's steps: what still prints has the PTY open, so
\* no reader has ended at the end of the output.
LEMMA ShellOutsideStep ==
  ASSUME ShellInv, Speaks \/ ReadLine \/ ShellExits \/ LetsGo \/ Browser PROVE ShellInv'
<1> USE DEF ShellInv
<1>1. CASE Speaks
  <2>1. /\ UNCHANGED <<drawn, readerAt, reaperAt, readerDone, gate, closed, events, driver,
                      shown, cutOff>>
        /\ Slave
    BY <1>1, Zenon DEF Speaks, Slave
  <2>2. ShellFlags' /\ ShellPlaces' /\ ShellControl'
    BY <1>1, Zenon DEF Speaks, ShellFlags, ShellPlaces, ShellControl
  <2>3. ShellCounts'
    BY <1>1, ShellNats DEF Speaks, ShellCounts
  <2>4. InOrder' /\ ExitSent' /\ SentAll'
    BY <2>1 DEF InOrder, ExitSent, ExitShown, ExitWaits, SentAll, Sent
  <2>5. EndedWhole' /\ WaitedWhole'
    BY <2>1 DEF EndedWhole, WaitedWhole, ExitShown, Quiet
  <2> QED BY <2>2, <2>3, <2>4, <2>5
<1>2. CASE ReadLine
  <2>1. /\ UNCHANGED <<drawn, readerAt, reaperAt, readerDone, gate, closed, events, driver,
                      shown, cutOff>>
        /\ Slave
    BY <1>2, Zenon DEF ReadLine, Slave
  <2>2. ShellFlags' /\ ShellPlaces' /\ ShellControl'
    BY <1>2, Zenon DEF ReadLine, ShellFlags, ShellPlaces, ShellControl
  <2>3. ShellCounts'
    BY <1>2, ShellNats DEF ReadLine, ShellCounts
  <2>4. InOrder' /\ ExitSent' /\ SentAll'
    BY <2>1 DEF InOrder, ExitSent, ExitShown, ExitWaits, SentAll, Sent
  <2>5. EndedWhole' /\ WaitedWhole'
    BY <2>1 DEF EndedWhole, WaitedWhole, ExitShown, Quiet
  <2> QED BY <2>2, <2>3, <2>4, <2>5
<1>3. CASE ShellExits
  <2>1. /\ UNCHANGED <<drawn, readerAt, reaperAt, readerDone, gate, closed, events, driver,
                      shown, cutOff>>
        /\ Slave
    BY <1>3, Zenon DEF ShellExits, Slave
  <2>2. ShellFlags' /\ ShellPlaces' /\ ShellControl'
    BY <1>3, Zenon DEF ShellExits, ShellFlags, ShellPlaces, ShellControl
  <2>3. ShellCounts'
    BY <1>3, ShellNats DEF ShellExits, ShellCounts
  <2>4. InOrder' /\ ExitSent' /\ SentAll'
    BY <2>1 DEF InOrder, ExitSent, ExitShown, ExitWaits, SentAll, Sent
  <2>5. EndedWhole' /\ WaitedWhole'
    BY <2>1 DEF EndedWhole, WaitedWhole, ExitShown, Quiet
  <2> QED BY <2>2, <2>3, <2>4, <2>5
<1>4. CASE LetsGo
  <2>1. /\ UNCHANGED <<drawn, readerAt, reaperAt, readerDone, gate, closed, events, driver,
                      shown, cutOff>>
        /\ Slave
    BY <1>4, Zenon DEF LetsGo, Slave
  <2>2. ShellFlags' /\ ShellPlaces' /\ ShellControl'
    BY <1>4, Zenon DEF LetsGo, ShellFlags, ShellPlaces, ShellControl
  <2>3. ShellCounts'
    BY <1>4, ShellNats DEF LetsGo, ShellCounts
  <2>4. InOrder' /\ ExitSent' /\ SentAll'
    BY <2>1 DEF InOrder, ExitSent, ExitShown, ExitWaits, SentAll, Sent
  <2>5. EndedWhole' /\ WaitedWhole'
    BY <2>1 DEF EndedWhole, WaitedWhole, ExitShown, Quiet
  <2> QED BY <2>2, <2>3, <2>4, <2>5
<1>5. CASE Browser
  <2>1. ShellFlags' /\ ShellPlaces' /\ ShellControl'
    BY <1>5, Zenon DEF Browser, ShellFlags, ShellPlaces, ShellControl
  <2>2. ShellCounts'
    BY <1>5, ShellNats DEF Browser, ShellCounts
  <2>3. Slave' <=> Slave
    BY <1>5, Zenon DEF Browser, Slave
  <2>4. InOrder' /\ ExitSent'
    BY <1>5 DEF Browser, InOrder, ExitSent, ExitShown, ExitWaits
  <2>5. SentAll' /\ EndedWhole'
    BY <1>5, <2>3 DEF Browser, SentAll, EndedWhole, Sent, ShellCounts, Quiet
  <2>6. WaitedWhole'
    BY <1>5, <2>3 DEF Browser, WaitedWhole, Sent, ShellCounts, ExitShown, Quiet
  <2> QED BY <2>1, <2>2, <2>4, <2>5, <2>6
<1> QED BY <1>1, <1>2, <1>3, <1>4, <1>5

\* The shell's invariant is about its variables only.
LEMMA ShellStutter == ASSUME ShellInv, UNCHANGED shellVars PROVE ShellInv'
<1> USE DEF ShellInv, shellVars
<1>1. ShellFlags' /\ ShellPlaces' /\ ShellControl'
  BY Zenon DEF ShellFlags, ShellPlaces, ShellControl
<1>2. ShellCounts' /\ InOrder' /\ ExitSent'
  BY DEF ShellCounts, InOrder, ExitSent, ExitShown, ExitWaits
<1>3. Slave' <=> Slave
  BY Zenon DEF Slave
<1>4. SentAll' /\ EndedWhole' /\ WaitedWhole'
  BY <1>3 DEF SentAll, EndedWhole, WaitedWhole, Sent, ExitShown, Quiet
<1> QED BY <1>1, <1>2, <1>4

\* A step of the shell keeps it.
LEMMA ShellInvStep == ShellInv /\ [ShellNext]_shellVars => ShellInv'
  BY ShellReaderStep, ShellReaperStep, ShellDriverStep, ShellOutsideStep, ShellStutter, Zenon DEF ShellNext

\* What is said of the shell follows from it.
LEMMA ShellFollow == ShellInv => ShellTypeOK /\ ExitComesLast
<1> SUFFICES ASSUME ShellInv PROVE ShellTypeOK /\ ExitComesLast
    OBVIOUS
<1> USE DEF ShellInv
<1>1. ShellTypeOK
  BY Zenon DEF ShellFlags, ShellPlaces, ShellCounts, ShellTypeOK
<1>2. shown \in Seq(0..PrintBound) /\ events \in Seq(0..PrintBound)
  BY DEF ShellCounts
<1>3. Len(shown) \in Nat /\ Len(events) \in Nat
  BY <1>2
<1>4. /\ Len(Delivered) = Len(shown) + Len(events)
      /\ \A i \in 1..Len(shown) : Delivered[i] = shown[i]
      /\ \A i \in 1..Len(events) : Delivered[Len(shown) + i] = events[i]
  BY <1>2, <1>3 DEF Delivered
<1>5. ASSUME NEW i \in 1..Len(Delivered)
      PROVE  Delivered[i] = i \/ (Delivered[i] = Exit /\ i = Len(Delivered))
  <2>1. CASE i <= Len(shown)
    <3>1. i \in 1..Len(shown) /\ Delivered[i] = shown[i]
      BY <1>3, <1>4, <2>1
    <3>2. CASE shown[i] = Exit /\ i = Len(shown) /\ driver = "done"
      BY <1>4, <3>1, <3>2 DEF InOrder
    <3> QED BY <3>1, <3>2 DEF InOrder
  <2>2. CASE i > Len(shown)
    <3> DEFINE j == i - Len(shown)
    <3>1. j \in 1..Len(events) /\ i = Len(shown) + j
      BY <1>3, <1>4, <2>2
    <3> QED BY <1>3, <1>4, <3>1 DEF InOrder
  <2> QED BY <1>3, <1>4, <2>1, <2>2
<1>6. ASSUME Delivered # <<>>, Delivered[Len(Delivered)] = Exit, cutOff = FALSE
      PROVE  Len(Delivered) = printed + 1
  <2>1. Len(Delivered) # 0
    BY <1>2, <1>6 DEF Delivered
  <2>2. CASE events = <<>>
    <3>1. Len(events) = 0 /\ Len(Delivered) = Len(shown) /\ shown # <<>>
      BY <1>3, <1>4, <2>1, <2>2
    <3>2. ExitShown
      BY <1>3, <1>4, <1>6, <2>1, <3>1 DEF ExitShown
    <3> QED BY <1>6, <3>1, <3>2 DEF ExitSent, WaitedWhole
  <2>3. CASE events # <<>>
    <3>1. Len(events) # 0
      BY <1>2, <2>3
    <3>2. ExitWaits /\ driver # "done"
      BY <1>3, <1>4, <1>6, <2>3, <3>1 DEF ExitWaits, InOrder
    <3>3. reaperAt = "done"
      BY <3>2 DEF ExitSent
    <3> QED BY <1>4, <1>6, <3>2, <3>3 DEF WaitedWhole, Sent
  <2> QED BY <2>2, <2>3
<1>7. cutOff = FALSE <=> ~cutOff
  BY Zenon DEF ShellFlags
<1>8. ExitComesLast
  BY <1>5, <1>6, <1>7, Zenon DEF ExitComesLast
<1> QED BY <1>1, <1>8

\* Output reaches the session in order, the exit comes once and last, and it
\* comes after everything that was printed unless the wait for the reader ran
\* out (the two threads of local_pty.rs and drive_local_shell), for every
\* capacity of the channel and of the PTY.
THEOREM ExitTheorem == ShellSpec => []ExitComesLast
<1>1. ShellSpec => []ShellInv
  BY ShellInvInit, ShellInvStep, PTL DEF ShellSpec
<1> QED BY <1>1, ShellFollow, PTL

-----------------------------------------------------------------------------
(* Side by side.                                                           *)

\* A step of the whole is a step of one and none of the others.
LEMMA AccessInits ==
  Init => TunnelInit /\ RelayInit /\ LoginInit /\ ShellInit /\ AccessInit
  BY DEF Init

\* A step of them all is a step of each, or leaves it alone.
LEMMA AccessSteps ==
  [Next]_vars => /\ [TunnelNext]_tunnelVars /\ [RelayNext]_relayVars /\ [LoginNext]_loginVars
                 /\ [ShellNext]_shellVars /\ [AccessNext]_accessVars
  BY Zenon DEF Next, vars, Rules_, Doors_, Relay_, Login_, Shell_

\* All the invariants always hold.
LEMMA AllInvs == Spec => [](TunnelInv /\ RelayInv /\ LoginInv /\ ShellInv /\ AccessInv)
  BY AccessInits, AccessSteps, InvInit, InvStep, RelayInvInit, RelayInvStep, LoginInvInit,
     LoginInvStep, ShellInvInit, ShellInvStep, AccessInvInit, AccessInvStep, PTL DEF Spec

\* Every variable of the ways in has its type, for every instance.
THEOREM AccessTypes == Spec => []TypeOK
<1>1. TunnelInv /\ RelayInv /\ LoginInv /\ ShellInv /\ AccessInv => TypeOK
  BY RelayFollow, LoginFollow, ShellFollow, InvTyped DEF TypeOK, TunnelInv
<1> QED
  BY <1>1, AllInvs, PTL

\* What is passed on arrives whole, in order and before the end is told: a
\* client's bytes to sshd, a local shell's output to its session.
THEOREM NothingCutOffTheorem == Spec => []NothingCutOff
<1>1. RelayInv /\ ShellInv => NothingCutOff
  BY RelayFollow, ShellFollow DEF NothingCutOff
<1> QED
  BY <1>1, AllInvs, PTL

\* The tunnel's slots are counted exactly, no more password checks run than
\* there are permits, and what a blocked key still collects is bounded by the
\* requests in flight.
THEOREM LimitsTheorem == Spec => []LimitsHold
<1>1. TunnelInv /\ LoginInv => LimitsHold
  BY LoginFollow DEF LimitsHold, TunnelInv
<1> QED
  BY <1>1, AllInvs, PTL

\* What a caller is told of the doors is what they do, in every part, for every
\* configuration, host and order of requests (RemoteAccess::resolve and the
\* doors' own checks).
THEOREM DoorsTheorem == Spec => []DoorsAgree
<1>1. AccessInv => DoorsAgree
  BY InvTold, InvClosed, InvCapacities DEF DoorsAgree
<1> QED
  BY <1>1, AllInvs, PTL

\* Step by step: no tunnel is closed on a client that spoke in time, and the
\* doors admit as an atomic doorkeeper would.
THEOREM AccessStepsTheorem == Spec => KeepaliveIsFair /\ Admits
<1>1. TunnelInit => Doorway!Init
  BY DEF TunnelInit, Doorway!Init, Holders, Guarded
<1>2. TunnelInv /\ [TunnelNext]_tunnelVars => [Doorway!Next]_<<Spent, Waiting, Holders>>
  BY RefinementStep
<1>3. Spec => Admits
  BY <1>1, <1>2, AccessInits, AccessSteps, AllInvs, PTL
     DEF Spec, Admits, Doorway!Spec, Spent, Waiting
<1>4. Spec => KeepaliveIsFair
  BY KeeperCloses, AccessInits, AccessSteps, AllInvs, PTL DEF Spec, KeepaliveIsFair
<1> QED
  BY <1>3, <1>4
=============================================================================
