----------------------- MODULE TerminalSessionsProofs -----------------------
(***************************************************************************)
(* Proofs about TerminalSessions, for any set of connections, frames,      *)
(* sessions and accounts, and any cap, queue length and timeout.           *)
(***************************************************************************)
EXTENDS TerminalSessions, FiniteSetTheorems, TLAPS

-----------------------------------------------------------------------------
(* Types.  An attach between its two locks has a session to attach to.     *)

GotHasSession == \A k \in Frame : jobPc[k] = "got" => chanSid[k] # None

TypeInv == TypeOK /\ GotHasSession

\* The types hold in every initial state.
LEMMA TypeInit == Init => TypeInv
  BY DEF Init, TypeInv, TypeOK, GotHasSession, Chan

USE DEF Chan

\* Installing a channel and entering Phase::Running preserves the types.
LEMMA TypeAttach ==
  ASSUME TypeInv, NEW k \in Frame, NEW s \in Sid, NEW c \in Conn, s # None,
         Install(k, s), SetRunning(c, s), JobGoes(k, "ready"),
         UNCHANGED <<store, shell, owner, input, sock, closeJob, detaching, queue>>
  PROVE  TypeInv'
<1> USE DEF TypeInv, TypeOK, GotHasSession
<1>1. /\ attached' \in [Sid -> Chan \cup {None}]
      /\ detachedAge' \in [Sid -> 0..Timeout \cup {None}]
      /\ chanSid' \in [Chan -> Sid \cup {None}]
      /\ pump' \in [Chan -> {"none", "held", "on", "off"}]
      /\ ousted' \subseteq Chan
  BY DEF Install
<1>2. /\ phase' \in [Conn -> {"idle", "auth", "running", "done"}]
      /\ current' \in [Conn -> Sid \cup {None}]
      /\ \A d \in Conn : phase'[d] = "running" <=> current'[d] # None
  BY DEF SetRunning
<1>3. /\ jobPc' \in [Chan -> {"free", "dial", "got", "ready"}]
      /\ GotHasSession'
  BY DEF JobGoes, Install
<1> QED
  BY <1>1, <1>2, <1>3

\* Publishing leaves every channel a sequence of items.
LEMMA PublishType ==
  ASSUME TypeInv, NEW s \in Sid, NEW item \in {"data", "exit"}, Publish(s, item)
  PROVE  queue' \in [Chan -> Seq({"data", "exit"})]
<1> DEFINE k == attached[s]
<1>1. /\ k \in Chan \cup {None}
      /\ queue \in [Chan -> Seq({"data", "exit"})]
  BY DEF TypeInv, TypeOK
<1>2. CASE k # None /\ pump[k] # "off" /\ Len(queue[k]) < OutputQueue
  <2>1. queue' = [queue EXCEPT ![k] = Append(queue[k], item)]
    BY <1>2 DEF Publish
  <2>2. Append(queue[k], item) \in Seq({"data", "exit"})
    BY <1>1, <1>2
  <2> QED
    BY <1>1, <2>1, <2>2
<1>3. CASE ~(k # None /\ pump[k] # "off" /\ Len(queue[k]) < OutputQueue)
  BY <1>1, <1>3 DEF Publish
<1> QED
  BY <1>2, <1>3

\* A send leaves every input queue a sequence of what is sent.
LEMMA SendsType ==
  ASSUME TypeInv, NEW s \in Sid, NEW item \in {"data", "close"}, Sends(s, item)
  PROVE  input' \in [Sid -> Seq({"data", "close"})]
<1>1. input \in [Sid -> Seq({"data", "close"})]
  BY DEF TypeInv, TypeOK
<1>2. Append(input[s], item) \in Seq({"data", "close"})
  BY <1>1
<1> QED
  BY <1>1, <1>2 DEF Sends

\* Every step preserves the types.
LEMMA TypeStep == TypeInv /\ [Next]_vars => TypeInv'
<1> SUFFICES ASSUME TypeInv, [Next]_vars PROVE TypeInv'
  OBVIOUS
<1> USE DEF TypeInv, TypeOK, GotHasSession
<1>1. ASSUME NEW k \in Frame, Open(k) PROVE TypeInv'
  BY <1>1 DEF Open, MayStart, JobGoes, sess, conn
<1>2. ASSUME NEW k \in Frame, OpenFails(k) PROVE TypeInv'
  BY <1>2 DEF OpenFails, JobGoes, sess, conn
<1>3. ASSUME NEW k \in Frame, NeedsAnswers(k) PROVE TypeInv'
  BY <1>3, FrameAssumption DEF NeedsAnswers, SetPhase, JobGoes, sess
<1>4. ASSUME NEW k \in Frame, Answer(k) PROVE TypeInv'
  BY <1>4, FrameAssumption DEF Answer, SetPhase, JobGoes, sess
<1>5. ASSUME NEW k \in Frame, AtCapacity(k) PROVE TypeInv'
  BY <1>5 DEF AtCapacity, JobGoes, sess, conn
<1>6. ASSUME NEW k \in Frame, AttachTake(k) PROVE TypeInv'
  <2> DEFINE s == chanSid[k]
             c == ConnOf[k]
  <2>1. s \in Sid /\ s # None /\ c \in Conn
    BY <1>6, FrameAssumption DEF AttachTake
  <2>2. Install(k, s) /\ SetRunning(c, s) /\ JobGoes(k, "ready")
    BY <1>6 DEF AttachTake
  <2> HIDE DEF s, c
  <2>3. UNCHANGED <<store, shell, owner, input, sock, closeJob, detaching, queue>>
    BY <1>6 DEF AttachTake
  <2> QED
    BY <2>1, <2>2, <2>3, TypeAttach
<1>7. ASSUME NEW k \in Frame, SpawnPump(k) PROVE TypeInv'
  BY <1>7 DEF SpawnPump, JobGoes, sess, conn
<1>8. ASSUME NEW k \in Frame, NEW s \in Sid, Start(k, s) PROVE TypeInv'
  <2>1. s # None /\ ConnOf[k] \in Conn
    BY FrameAssumption, SidAssumption
  <2> QED
    BY <2>1, <1>8, SubjectAssumption DEF Start, Install, SetRunning, JobGoes
<1>9. ASSUME NEW k \in Frame, NEW s \in Sid, AttachGet(k, s) PROVE TypeInv'
  BY <1>9, SidAssumption DEF AttachGet, MayStart, JobGoes, sess, conn
<1>10. ASSUME NEW c \in Conn, EndDetach(c) PROVE TypeInv'
  BY <1>10, BoundAssumption DEF EndDetach, chan
<1>11. ASSUME NEW c \in Conn, PeerClose(c) PROVE TypeInv'
  BY <1>11 DEF PeerClose, DetachCurrent, BeginDetach, sess, chan
<1>12. ASSUME NEW c \in Conn, Lose(c) PROVE TypeInv'
  BY <1>12 DEF Lose, sess, chan
<1>13. ASSUME NEW c \in Conn, IoClosed(c) PROVE TypeInv'
  BY <1>13 DEF IoClosed, sess, chan
<1>14. ASSUME NEW c \in Conn, OnDisconnect(c) PROVE TypeInv'
  BY <1>14 DEF OnDisconnect, DetachCurrent, BeginDetach, sess, chan
<1>15. ASSUME NEW c \in Conn, CloseFrame(c) PROVE TypeInv'
  BY <1>15 DEF CloseFrame, chan
<1>16. ASSUME NEW c \in Conn, CloseSent(c) PROVE TypeInv'
  <2>1. closeJob[c] \in Sid
    BY <1>16 DEF CloseSent
  <2>2. input' \in [Sid -> Seq({"data", "close"})]
    BY <1>16, <2>1, SendsType DEF CloseSent, SendFails
  <2> QED
    BY <1>16, <2>2 DEF CloseSent, SetPhase, SendClose, chan
<1>17. ASSUME NEW c \in Conn, CloseIdle(c) PROVE TypeInv'
  BY <1>17 DEF CloseIdle, SetPhase, SendClose, sess, chan
<1>18. ASSUME NEW s \in Sid, ShellData(s) PROVE TypeInv'
  <2>1. queue' \in [Chan -> Seq({"data", "exit"})]
    BY <1>18, PublishType DEF ShellData
  <2> QED
    BY <1>18, <2>1 DEF ShellData, sess, conn
<1>19. ASSUME NEW s \in Sid, ShellExit(s) PROVE TypeInv'
  <2>1. shell' \in [Sid -> {"none", "running", "writing", "ending", "ended"}]
    BY <1>19 DEF ShellExit
  <2>2. queue' \in [Chan -> Seq({"data", "exit"})]
    BY <1>19, PublishType DEF ShellExit
  <2> QED
    BY <1>19, <2>1, <2>2 DEF ShellExit, conn
<1>20. ASSUME NEW s \in Sid, ShellLost(s) PROVE TypeInv'
  BY <1>20 DEF ShellLost, conn, chan
<1>21. ASSUME NEW s \in Sid, DriverStops(s) PROVE TypeInv'
  BY <1>21 DEF DriverStops, conn, chan
<1>30. ASSUME NEW c \in Conn, Input(c) PROVE TypeInv'
  <2>1. current[c] \in Sid
    BY <1>30 DEF Input
  <2>2. input' \in [Sid -> Seq({"data", "close"})]
    BY <1>30, <2>1, SendsType DEF Input
  <2> QED
    BY <1>30, <2>2 DEF Input, conn, chan
<1>31. ASSUME NEW s \in Sid, DriverTakes(s) PROVE TypeInv'
  <2>1. Tail(input[s]) \in Seq({"data", "close"})
    BY <1>31 DEF DriverTakes
  <2>2. input' \in [Sid -> Seq({"data", "close"})]
    BY <1>31, <2>1 DEF DriverTakes
  <2> QED
    BY <1>31, <2>2 DEF DriverTakes, conn, chan
<1>32. ASSUME NEW s \in Sid, WriteDone(s) PROVE TypeInv'
  BY <1>32 DEF WriteDone, conn, chan
<1>22. ASSUME NEW s \in Sid, DriverEnds(s) PROVE TypeInv'
  BY <1>22 DEF DriverEnds, conn, chan
<1>23. ASSUME NEW k \in Chan, PumpData(k) PROVE TypeInv'
  BY <1>23 DEF PumpData, sess, conn
<1>24. ASSUME NEW k \in Chan, PumpBreaks(k) PROVE TypeInv'
  BY <1>24 DEF PumpBreaks, PumpEnds, sess, conn
<1>25. ASSUME NEW k \in Chan, PumpExit(k) PROVE TypeInv'
  <2>1. sock' \in [Conn -> {"open", "shut", "closed", "gone"}]
    BY <1>25, FrameAssumption DEF PumpExit, SendClose
  <2> QED
    BY <1>25, <2>1 DEF PumpExit, PumpEnds, sess
<1>26. ASSUME NEW k \in Chan, PumpSuperseded(k) PROVE TypeInv'
  BY <1>26, FrameAssumption DEF PumpSuperseded, PumpEnds, SendClose, sess
<1>27. CASE Tick
  BY <1>27, BoundAssumption DEF Tick, Counting, conn, chan
<1>28. CASE Reap
  BY <1>28 DEF Reap, conn, chan
<1>29. CASE UNCHANGED vars
  BY <1>29 DEF vars, sess, conn, chan
<1> QED
  BY <1>1, <1>2, <1>3, <1>4, <1>5, <1>6, <1>7, <1>8, <1>9, <1>10, <1>11, <1>12, <1>13,
     <1>14, <1>15, <1>16, <1>17, <1>18, <1>19, <1>20, <1>21, <1>22, <1>23, <1>24, <1>25,
     <1>26, <1>27, <1>28, <1>29, <1>30, <1>31, <1>32
  DEF Next, FrameStep, LeaveStep, ShellStep, PumpStep, StartShell, OpenLocal

\* The state of the terminal server is well typed in every behaviour.
THEOREM TypeCorrect == Spec => []TypeOK
<1>1. TypeInv => TypeOK
  BY DEF TypeInv
<1> QED
  BY <1>1, TypeInit, TypeStep, PTL DEF Spec

-----------------------------------------------------------------------------
(* Sessions, shells and accounts.  Only opening a session and the two      *)
(* halves of an attach give a connection or a channel a session; every     *)
(* other step takes something away or moves a shell towards its end.       *)

ShellGoesOn(s) ==
  \/ shell'[s] = shell[s]
  \/ shell[s] \in {"running", "writing"} /\ shell'[s] \in {"running", "writing", "ending"}
  \/ shell[s] = "ending" /\ shell'[s] = "ended" /\ s \notin store'

Winds ==
  /\ UNCHANGED <<owner, chanSid>>
  /\ store' \subseteq store
  /\ \A c \in Conn : current'[c] \in {current[c], None}
  /\ \A s \in Sid : ShellGoesOn(s)

\* Every step opens, attaches or only winds down.
LEMMA StepKinds ==
  ASSUME TypeInv, [Next]_vars
  PROVE  \/ \E k \in Frame, s \in Sid : Start(k, s) \/ AttachGet(k, s)
         \/ \E k \in Frame : AttachTake(k)
         \/ Winds
<1> USE DEF TypeInv, TypeOK, Winds, ShellGoesOn
<1>1. ASSUME NEW k \in Frame,
             Open(k) \/ OpenFails(k) \/ AtCapacity(k) \/ SpawnPump(k)
      PROVE  Winds
  BY <1>1 DEF Open, OpenFails, AtCapacity, SpawnPump, sess, conn
<1>2. ASSUME NEW k \in Frame, NeedsAnswers(k) \/ Answer(k) PROVE Winds
  BY <1>2, FrameAssumption DEF NeedsAnswers, Answer, SetPhase, sess
<1>3. ASSUME NEW c \in Conn, EndDetach(c) \/ Lose(c) \/ IoClosed(c) PROVE Winds
  BY <1>3 DEF EndDetach, Lose, IoClosed, sess, chan
<1>4. ASSUME NEW c \in Conn, PeerClose(c) \/ OnDisconnect(c) PROVE Winds
  BY <1>4 DEF PeerClose, OnDisconnect, DetachCurrent, BeginDetach, sess, chan
<1>5. ASSUME NEW c \in Conn, CloseFrame(c) PROVE Winds
  BY <1>5 DEF CloseFrame, chan
<1>6. ASSUME NEW c \in Conn, CloseSent(c) \/ CloseIdle(c) \/ Input(c) PROVE Winds
  BY <1>6 DEF CloseSent, CloseIdle, Input, SetPhase, sess, conn, chan
<1>7. ASSUME NEW s \in Sid, ShellData(s) PROVE Winds
  BY <1>7 DEF ShellData, sess, conn
<1>8. ASSUME NEW s \in Sid, ShellExit(s) \/ ShellLost(s) \/ DriverStops(s) PROVE Winds
  BY <1>8 DEF ShellExit, ShellLost, DriverStops, conn, chan
<1>14. ASSUME NEW s \in Sid, DriverTakes(s) \/ WriteDone(s) PROVE Winds
  BY <1>14 DEF DriverTakes, WriteDone, conn, chan
<1>9. ASSUME NEW s \in Sid, DriverEnds(s) PROVE Winds
  BY <1>9 DEF DriverEnds, conn, chan
<1>10. ASSUME NEW k \in Chan, PumpData(k) \/ PumpBreaks(k) PROVE Winds
  BY <1>10 DEF PumpData, PumpBreaks, sess, conn
<1>11. ASSUME NEW k \in Chan, PumpExit(k) \/ PumpSuperseded(k) PROVE Winds
  BY <1>11 DEF PumpExit, PumpSuperseded, sess
<1>12. CASE Tick \/ Reap
  BY <1>12 DEF Tick, Reap, conn, chan
<1>13. CASE UNCHANGED vars
  BY <1>13 DEF vars, sess, conn, chan
<1> QED
  BY <1>1, <1>2, <1>3, <1>4, <1>5, <1>6, <1>7, <1>8, <1>9, <1>10, <1>11, <1>12, <1>13, <1>14
  DEF Next, FrameStep, LeaveStep, ShellStep, PumpStep, StartShell, OpenLocal

\* A handle in anybody's hands belongs to a session that was started.  Without
\* this OwnAccountOnly is not inductive: Start assigns the owner.
HeldMeansStarted ==
  /\ \A c \in Conn : current[c] # None => shell[current[c]] # "none"
  /\ \A k \in Chan : chanSid[k] # None => shell[chanSid[k]] # "none"

AccountInv == StoredMeansShell /\ OwnAccountOnly /\ HeldMeansStarted

\* At start nothing is stored, run or held by an attach.
LEMMA AccountInit == Init => AccountInv
  BY DEF Init, AccountInv, StoredMeansShell, OwnAccountOnly, HeldMeansStarted

\* No step breaks the three parts: what takes a session away from its shell
\* also takes it out of the store, and what hands one out compares the accounts.
LEMMA AccountStep == TypeInv /\ AccountInv /\ [Next]_vars => AccountInv'
<1> SUFFICES ASSUME TypeInv, AccountInv, [Next]_vars PROVE AccountInv'
  OBVIOUS
<1>t. /\ store \subseteq Sid
      /\ shell \in [Sid -> {"none", "running", "writing", "ending", "ended"}]
      /\ owner \in [Sid -> Subject \cup {None}]
      /\ current \in [Conn -> Sid \cup {None}]
      /\ chanSid \in [Chan -> Sid \cup {None}]
      /\ GotHasSession
  BY DEF TypeInv, TypeOK
<1> USE DEF AccountInv, StoredMeansShell, Driven, OwnAccountOnly, HeldMeansStarted
<1>1. ASSUME NEW k \in Frame, NEW s \in Sid, Start(k, s) PROVE AccountInv'
  <2>1. /\ ConnOf[k] \in Conn /\ s # None /\ shell[s] = "none"
        /\ store' = store \cup {s}
        /\ owner' = [owner EXCEPT ![s] = SubjectOf[ConnOf[k]]]
        /\ shell' = [shell EXCEPT ![s] = "running"]
        /\ chanSid' = [chanSid EXCEPT ![k] = s]
        /\ current' = [current EXCEPT ![ConnOf[k]] = s]
    BY <1>1, FrameAssumption, SidAssumption DEF Start, Install, SetRunning
  <2>2. StoredMeansShell' /\ HeldMeansStarted'
    BY <1>t, <2>1
  <2>3. OwnAccountOnly'
    <3>1. ASSUME NEW c \in Conn, current'[c] # None
          PROVE  owner'[current'[c]] = SubjectOf[c]
      BY <1>t, <2>1, <3>1
    <3>2. ASSUME NEW j \in Chan, chanSid'[j] # None
          PROVE  owner'[chanSid'[j]] = SubjectOf[ConnOf[j]]
      BY <1>t, <2>1, <3>2
    <3> QED
      BY <3>1, <3>2
  <2> QED
    BY <2>2, <2>3
<1>2. ASSUME NEW k \in Frame, NEW s \in Sid, AttachGet(k, s) PROVE AccountInv'
  <2>1. /\ s \in store /\ owner[s] = SubjectOf[ConnOf[k]]
        /\ UNCHANGED <<store, shell, owner, current>>
        /\ chanSid' = [chanSid EXCEPT ![k] = s]
    BY <1>2 DEF AttachGet, sess, conn
  <2>2. shell[s] # "none"
    BY <1>t, <2>1
  <2> QED
    BY <1>t, <2>1, <2>2
<1>3. ASSUME NEW k \in Frame, AttachTake(k) PROVE AccountInv'
  <2>1. /\ ConnOf[k] \in Conn /\ chanSid[k] \in Sid /\ chanSid[k] # None
        /\ UNCHANGED <<store, shell, owner>>
        /\ chanSid' = [chanSid EXCEPT ![k] = chanSid[k]]
        /\ current' = [current EXCEPT ![ConnOf[k]] = chanSid[k]]
    BY <1>t, <1>3, FrameAssumption DEF AttachTake, Install, SetRunning, GotHasSession
  <2>2. chanSid' = chanSid
    BY <1>t, <2>1
  <2> QED
    BY <1>t, <2>1, <2>2
<1>4. CASE Winds
  <2>1. \A s \in Sid : shell[s] # "none" => shell'[s] # "none"
    BY <1>4 DEF Winds, ShellGoesOn
  <2>2. \A s \in store' : s \in store /\ shell'[s] # "ended"
    BY <1>t, <1>4 DEF Winds, ShellGoesOn
  <2>3. \A s \in Sid : Driven(s) => Driven(s)' \/ shell'[s] = "ended"
    BY <1>4 DEF Winds, ShellGoesOn
  <2>4. StoredMeansShell'
    BY <1>t, <2>2, <2>3
  <2>5. OwnAccountOnly'
    BY <1>4 DEF Winds
  <2>6. HeldMeansStarted'
    BY <1>t, <1>4, <2>1 DEF Winds
  <2> QED
    BY <2>4, <2>5, <2>6
<1> QED
  BY <1>1, <1>2, <1>3, <1>4, StepKinds

\* A handle that can be attached to has a live shell, in every behaviour.
THEOREM StoredMeansShellTheorem == Spec => []StoredMeansShell
<1>1. AccountInv => StoredMeansShell
  BY DEF AccountInv
<1> QED
  BY <1>1, TypeInit, TypeStep, AccountInit, AccountStep, PTL DEF Spec

\* Sessions are only run by the account that opened them, in every behaviour.
THEOREM OwnAccountTheorem == Spec => []OwnAccountOnly
<1>1. AccountInv => OwnAccountOnly
  BY DEF AccountInv
<1> QED
  BY <1>1, TypeInit, TypeStep, AccountInit, AccountStep, PTL DEF Spec

-----------------------------------------------------------------------------
(* The cap.                                                                *)

CapInv == IsFiniteSet(store) /\ CapRespected

\* At start the store is empty.
LEMMA CapInit == Init => CapInv
  BY FS_EmptySet, BoundAssumption DEF Init, CapInv, CapRespected

\* Only Start adds a handle, one at a time and only below the cap.
LEMMA CapStep == TypeInv /\ CapInv /\ [Next]_vars => CapInv'
<1> SUFFICES ASSUME TypeInv, CapInv, [Next]_vars PROVE CapInv'
  OBVIOUS
<1>1. ASSUME NEW k \in Frame, NEW s \in Sid, Start(k, s) PROVE CapInv'
  <2>1. store' = store \cup {s} /\ Cardinality(store) < MaxSessions
    BY <1>1 DEF Start, HasRoom
  <2>2. /\ IsFiniteSet(store \cup {s})
        /\ Cardinality(store \cup {s}) <= Cardinality(store) + 1
    <3>1. IsFiniteSet(store) /\ Cardinality(store) \in Nat
      BY FS_CardinalityType DEF CapInv
    <3>2. /\ IsFiniteSet(store \cup {s})
          /\ Cardinality(store \cup {s})
               = IF s \in store THEN Cardinality(store) ELSE Cardinality(store) + 1
      BY <3>1, FS_AddElement
    <3> QED
      BY <3>1, <3>2
  <2>3. Cardinality(store) \in Nat /\ Cardinality(store \cup {s}) \in Nat
    BY <2>2, FS_CardinalityType DEF CapInv
  <2> QED
    BY <2>1, <2>2, <2>3, BoundAssumption DEF CapInv, CapRespected
<1>2. CASE store' \subseteq store
  BY <1>2, FS_Subset, FS_CardinalityType, BoundAssumption DEF CapInv, CapRespected
<1>3. ASSUME NEW k \in Frame, AttachTake(k) \/ \E s \in Sid : AttachGet(k, s)
      PROVE  store' \subseteq store
  BY <1>3 DEF AttachTake, AttachGet, sess
<1> QED
  BY <1>1, <1>2, <1>3, StepKinds DEF Winds

\* No interleaving of opens, attaches and ends puts more than MaxSessions
\* handles in the store.
THEOREM CapTheorem == Spec => []CapRespected
<1>1. CapInv => CapRespected
  BY DEF CapInv
<1> QED
  BY <1>1, TypeInit, TypeStep, CapInit, CapStep, PTL DEF Spec

-----------------------------------------------------------------------------
(* The reaper's clock.  A detach is two steps, and attaches and other      *)
(* detaches of the same session fall between them.                         *)

\* What the steps do that neither install a channel nor detach.
ClockKept ==
  /\ UNCHANGED <<attached, detaching>>
  /\ \A s \in Sid : /\ detachedAge'[s] = None => detachedAge[s] = None
                    /\ shell'[s] # "none" => shell[s] # "none"

Installs(s) ==
  /\ \E k \in Frame : attached' = [attached EXCEPT ![s] = k]
  /\ detachedAge' = [detachedAge EXCEPT ![s] = None]
  /\ UNCHANGED detaching
  /\ \A r \in Sid \ {s} : shell'[r] = shell[r]

Detaches(c) ==
  /\ detaching[c] = None
  /\ attached' = [attached EXCEPT ![current[c]] = None]
  /\ detaching' = [detaching EXCEPT ![c] = current[c]]
  /\ UNCHANGED <<detachedAge, shell>>

\* Every step installs a channel, does half a detach or keeps the clocks.
LEMMA ClockKinds ==
  ASSUME TypeInv, [Next]_vars
  PROVE  \/ \E s \in Sid : Installs(s)
         \/ \E c \in Conn : Detaches(c) \/ EndDetach(c)
         \/ ClockKept
<1>t. /\ shell \in [Sid -> {"none", "running", "writing", "ending", "ended"}]
      /\ detachedAge \in [Sid -> 0..Timeout \cup {None}]
      /\ chanSid \in [Chan -> Sid \cup {None}]
      /\ GotHasSession
  BY DEF TypeInv, TypeOK
<1> USE DEF ClockKept
<1>1. ASSUME NEW k \in Frame, NEW s \in Sid, Start(k, s) PROVE Installs(s)
  BY <1>t, <1>1 DEF Start, Install, Installs
<1>2. ASSUME NEW k \in Frame, AttachTake(k) PROVE \E s \in Sid : Installs(s)
  <2>1. chanSid[k] \in Sid
    BY <1>t, <1>2 DEF AttachTake, GotHasSession
  <2>2. Installs(chanSid[k])
    BY <1>2 DEF AttachTake, Install, Installs
  <2> QED
    BY <2>1, <2>2
<1>3. ASSUME NEW k \in Frame,
             \/ Open(k) \/ OpenFails(k) \/ AtCapacity(k) \/ SpawnPump(k)
             \/ NeedsAnswers(k) \/ Answer(k) \/ \E s \in Sid : AttachGet(k, s)
      PROVE  ClockKept
  BY <1>3 DEF Open, OpenFails, AtCapacity, SpawnPump, NeedsAnswers, Answer, AttachGet, sess, conn
<1>4. ASSUME NEW c \in Conn, PeerClose(c) \/ OnDisconnect(c)
      PROVE  Detaches(c) \/ ClockKept
  BY <1>4 DEF PeerClose, OnDisconnect, DetachCurrent, BeginDetach, Steady, Detaches, sess
<1>5. ASSUME NEW c \in Conn,
             \/ Lose(c) \/ IoClosed(c) \/ CloseFrame(c) \/ CloseSent(c) \/ CloseIdle(c)
             \/ Input(c)
      PROVE  ClockKept
  BY <1>5 DEF Lose, IoClosed, CloseFrame, CloseSent, CloseIdle, Input, sess, conn
<1>6. ASSUME NEW s \in Sid, ShellData(s) PROVE ClockKept
  BY <1>6 DEF ShellData, sess, conn
<1>7. ASSUME NEW s \in Sid,
             \/ ShellExit(s) \/ ShellLost(s) \/ DriverTakes(s) \/ WriteDone(s)
             \/ DriverStops(s) \/ DriverEnds(s)
      PROVE  ClockKept
  BY <1>t, <1>7
  DEF ShellExit, ShellLost, DriverTakes, WriteDone, DriverStops, DriverEnds, conn
<1>8. ASSUME NEW k \in Chan,
             PumpData(k) \/ PumpBreaks(k) \/ PumpExit(k) \/ PumpSuperseded(k)
      PROVE  ClockKept
  BY <1>8 DEF PumpData, PumpBreaks, PumpExit, PumpSuperseded, sess, conn
<1>9. CASE Tick
  <2>1. \A s \in Sid : Counting(s) => detachedAge[s] + 1 # None
    BY BoundAssumption DEF Counting
  <2> QED
    BY <1>9, <2>1 DEF Tick, conn
<1>10. CASE Reap
  BY <1>10 DEF Reap, conn
<1>11. CASE UNCHANGED vars
  BY <1>11 DEF vars, sess, conn
<1> QED
  BY <1>1, <1>2, <1>3, <1>4, <1>5, <1>6, <1>7, <1>8, <1>9, <1>10, <1>11
  DEF Next, FrameStep, LeaveStep, ShellStep, PumpStep, StartShell, OpenLocal

\* At start no session has been opened.
LEMMA ClockInit == Init => UnattachedCountsDown
  BY DEF Init, UnattachedCountsDown

\* Only a detach takes the sender away, and it stays one step from the clock;
\* only an attach stops the clock, and it installs a sender.
LEMMA ClockStep == TypeInv /\ UnattachedCountsDown /\ [Next]_vars => UnattachedCountsDown'
<1> SUFFICES ASSUME TypeInv, UnattachedCountsDown, [Next]_vars,
                    NEW r \in Sid, shell'[r] # "none", attached'[r] = None
             PROVE  \/ detachedAge'[r] # None
                    \/ \E d \in Conn : detaching'[d] = r
  BY DEF UnattachedCountsDown
<1>t. /\ attached \in [Sid -> Chan \cup {None}]
      /\ detachedAge \in [Sid -> 0..Timeout \cup {None}]
      /\ detaching \in [Conn -> Sid \cup {None}]
      /\ current \in [Conn -> Sid \cup {None}]
  BY DEF TypeInv, TypeOK
<1>1. ASSUME NEW s \in Sid, Installs(s)
      PROVE  detachedAge'[r] # None \/ \E d \in Conn : detaching'[d] = r
  <2>1. r # s
    BY <1>t, <1>1, ChanAssumption DEF Installs
  <2>2. /\ attached[r] = None /\ shell[r] # "none"
        /\ detachedAge'[r] = detachedAge[r] /\ detaching' = detaching
    BY <1>t, <1>1, <2>1 DEF Installs
  <2> QED
    BY <2>2 DEF UnattachedCountsDown
<1>2. ASSUME NEW c \in Conn, Detaches(c)
      PROVE  detachedAge'[r] # None \/ \E d \in Conn : detaching'[d] = r
  <2>1. CASE r = current[c]
    BY <1>t, <1>2, <2>1 DEF Detaches
  <2>2. CASE r # current[c]
    <3>1. /\ attached[r] = None /\ shell[r] # "none" /\ detachedAge' = detachedAge
      BY <1>t, <1>2, <2>2 DEF Detaches
    <3>2. \A d \in Conn : detaching[d] = r => detaching'[d] = r
      BY <1>t, <1>2, SidAssumption DEF Detaches
    <3> QED
      BY <3>1, <3>2 DEF UnattachedCountsDown
  <2> QED
    BY <2>1, <2>2
<1>3. ASSUME NEW c \in Conn, EndDetach(c)
      PROVE  detachedAge'[r] # None \/ \E d \in Conn : detaching'[d] = r
  <2>1. CASE r = detaching[c]
    BY <1>t, <1>3, <2>1, BoundAssumption DEF EndDetach
  <2>2. CASE r # detaching[c]
    <3>1. /\ attached[r] = None /\ shell[r] # "none" /\ detachedAge'[r] = detachedAge[r]
      BY <1>t, <1>3, <2>2 DEF EndDetach
    <3>2. \A d \in Conn : detaching[d] = r => detaching'[d] = r
      BY <1>t, <1>3, <2>2 DEF EndDetach
    <3> QED
      BY <3>1, <3>2 DEF UnattachedCountsDown
  <2> QED
    BY <2>1, <2>2
<1>4. CASE ClockKept
  BY <1>4 DEF ClockKept, UnattachedCountsDown
<1> QED
  BY <1>1, <1>2, <1>3, <1>4, ClockKinds

\* No order of detaches and attaches leaves a session with neither a sender nor
\* a running clock, unless a thread is about to start it.
THEOREM ClockTheorem == Spec => []UnattachedCountsDown
  BY TypeInit, TypeStep, ClockInit, ClockStep, PTL DEF Spec
=============================================================================
