-------------------------- MODULE TerminalSessions --------------------------
(***************************************************************************)
(* The agent's terminal server: src/monitor/src/api/ws/terminal.rs and the *)
(* session store of src/monitor/src/api/ws/session.rs.                     *)
(*                                                                         *)
(* A shell session outlives the WebSocket that drives it.  Connections     *)
(* open sessions, attach to them by handle and detach; one driver task per *)
(* session moves bytes between the shell and whichever channel is          *)
(* attached; one pump task per attach moves that channel's queue into its  *)
(* socket; the reaper drops sessions nobody came back for.                 *)
(*                                                                         *)
(* Grain.  A step ends at every await.  ntex runs several worker threads,  *)
(* and a session is shared between them behind mutexes, so what one        *)
(* connection does under two separate lock acquisitions is two steps       *)
(* (detach: session.rs 218-221; get then attach: terminal.rs 684 and 708). *)
(* A connection's own tasks share one thread: none of them runs between    *)
(* the two halves (Steady).                                                *)
(*                                                                         *)
(* Abstracted: payload bytes (TerminalResume has them), cols/rows/term,    *)
(* the audit log, and the text of errors.  An error answer that changes    *)
(* no state is a stutter.                                                  *)
(***************************************************************************)
EXTENDS Integers, Sequences, FiniteSets

CONSTANTS
  Conn,         \* WebSocket connections
  Frame,        \* the Open, Attach and Answer frames they send
  ConnOf,       \* the connection of each; one may have several in flight
  Sid,          \* session handles; random, so never minted twice
  Subject,      \* panel accounts
  Typists,      \* the connections that send input besides control frames
  SubjectOf,    \* the account each connection's ticket was issued to
  MaxSessions,  \* terminal.max_sessions
  OutputQueue,  \* OUTPUT_QUEUE, terminal.rs 52
  InputQueue,   \* INPUT_QUEUE, terminal.rs 56
  Timeout,      \* detached_timeout, in ticks of the model's clock
  None

Chan == Frame    \* an attach's mpsc channel, named by the frame whose handler made it

ASSUME FrameAssumption   == ConnOf \in [Frame -> Conn]
ASSUME SidAssumption     == IsFiniteSet(Sid) /\ None \notin Sid
ASSUME ChanAssumption    == None \notin Chan
ASSUME TypistsAssumption == Typists \subseteq Conn
ASSUME SubjectAssumption == SubjectOf \in [Conn -> Subject]
ASSUME BoundAssumption   == /\ MaxSessions \in Nat \ {0}
                            /\ OutputQueue \in Nat \ {0}
                            /\ InputQueue \in Nat \ {0}
                            /\ Timeout \in Nat \ {0}
                            /\ None \notin 0..Timeout

VARIABLES
  store,       \* SessionStore.sessions
  shell,       \* the driver task: "running" (in its select!), "writing" (inside a
               \* write to the shell), "ending" (left its loop), "ended"
  owner,       \* Session.subject
  attached,    \* Session.attached: the channel whose sender is installed
  detachedAge, \* Session.detached_at, as the time elapsed since
  input,       \* the session's input queue: "data" (or a resize) and "close"
  sock,        \* "shut": no more frames will come, a Close went either way or the
               \* peer is lost; "closed": the io object is; "gone": on_disconnect ran
  phase,       \* Phase, without its payload
  current,     \* the session of Phase::Running
  closeJob,    \* a Close frame awaiting input.send, with its session
  detaching,   \* the session this connection's thread is half way through detaching
  jobPc,       \* where an in-flight Open, Attach or Answer frame stands
  chanSid,     \* the session a channel was created on
  queue,       \* what the channel holds
  pump,        \* its pump task: "held" is a receiver whose pump is not spawned yet
  ousted       \* history: channels whose sender another attach replaced

sess == <<store, shell, owner, attached, detachedAge, input>>
conn == <<sock, phase, current, closeJob, detaching>>
chan == <<jobPc, chanSid, queue, pump, ousted>>
vars == <<sess, conn, chan>>

-----------------------------------------------------------------------------

Init ==
  /\ store = {}
  /\ shell = [s \in Sid |-> "none"]
  /\ owner = [s \in Sid |-> None]
  /\ attached = [s \in Sid |-> None]
  /\ detachedAge = [s \in Sid |-> None]
  /\ input = [s \in Sid |-> <<>>]
  /\ sock = [c \in Conn |-> "open"]
  /\ phase = [c \in Conn |-> "idle"]
  /\ current = [c \in Conn |-> None]
  /\ closeJob = [c \in Conn |-> None]
  /\ detaching = [c \in Conn |-> None]
  /\ jobPc = [k \in Chan |-> "free"]
  /\ chanSid = [k \in Chan |-> None]
  /\ queue = [k \in Chan |-> <<>>]
  /\ pump = [k \in Chan |-> "none"]
  /\ ousted = {}

\* The connection's thread is between two tasks, not inside one.
Steady(c) ==
  /\ detaching[c] = None
  /\ \A k \in Frame : ConnOf[k] = c => jobPc[k] # "got"

\* Frames of this socket still reach the handler.
Readable(c) == sock[c] = "open"

\* sock after the agent sends a Close message on it.
SendClose(c) ==
  sock' = [sock EXCEPT ![c] = IF @ = "open" THEN "shut" ELSE @]

\* The driver task has the session and the receiver of its input.
Driven(s) == shell[s] \in {"running", "writing", "ending"}

\* An Arc<Session> is held: by the map, the driver task, a phase or a handler.
Referenced(s) ==
  \/ s \in store
  \/ Driven(s)
  \/ \E c \in Conn : s \in {current[c], closeJob[c], detaching[c]}
  \/ \E k \in Chan : chanSid[k] = s /\ jobPc[k] \in {"got", "ready"}

\* MUTANT: a takeover leaves the old sender alive.
SenderKept(k) == Referenced(chanSid[k])

\* The channel's sender still exists, so its receiver can still wait.
SenderLive(k) == attached[chanSid[k]] = k /\ Referenced(chanSid[k])

\* Session::attach: the old sender is dropped, the new one installed and the
\* reaper's clock stopped.
Install(k, s) ==
  /\ attached' = [attached EXCEPT ![s] = k]
  /\ detachedAge' = [detachedAge EXCEPT ![s] = None]
  /\ ousted' = ousted \cup ({attached[s]} \ {None})
  /\ chanSid' = [chanSid EXCEPT ![k] = s]
  /\ pump' = [pump EXCEPT ![k] = "held"]

\* *phase.borrow_mut() = Phase::Running { session, handle }
SetRunning(c, s) ==
  /\ phase' = [phase EXCEPT ![c] = "running"]
  /\ current' = [current EXCEPT ![c] = s]

\* MUTANT: the phase moves on and the connection keeps its session.
SetPhaseKeeps(c, p) ==
  /\ phase' = [phase EXCEPT ![c] = p]
  /\ UNCHANGED current

\* *phase.borrow_mut() = one of the phases that hold no session
SetPhase(c, p) ==
  /\ phase' = [phase EXCEPT ![c] = p]
  /\ current' = [current EXCEPT ![c] = None]

JobGoes(k, pc) == jobPc' = [jobPc EXCEPT ![k] = pc]

-----------------------------------------------------------------------------
(* Opening a session.                                                      *)

\* The two guards of Open and Attach frames: only Phase::Idle is looked at, so
\* a second frame passes while the first one still awaits.
MayStart(k) ==
  /\ Readable(ConnOf[k]) /\ Steady(ConnOf[k])
  /\ phase[ConnOf[k]] = "idle"
  /\ jobPc[k] = "free" /\ pump[k] = "none"

Open(k) ==
  /\ MayStart(k)
  /\ JobGoes(k, "dial")
  /\ UNCHANGED <<sess, conn, chanSid, queue, pump, ousted>>

\* connect, authenticate, answer_prompts or open_shell failed: an error frame,
\* and the phase stays what it was when the handler let go of it.
OpenFails(k) ==
  /\ Steady(ConnOf[k])
  /\ jobPc[k] = "dial"
  /\ JobGoes(k, "free")
  /\ UNCHANGED <<sess, conn, chanSid, queue, pump, ousted>>

\* AuthStep::NeedsAnswers, from open or from answer.
NeedsAnswers(k) ==
  /\ Steady(ConnOf[k])
  /\ jobPc[k] = "dial"
  /\ SetPhase(ConnOf[k], "auth")
  /\ JobGoes(k, "free")
  /\ UNCHANGED <<sess, sock, closeJob, detaching, chanSid, queue, pump, ousted>>

\* The phase is taken out and Idle left in its place while the answer is awaited.
Answer(k) ==
  /\ Readable(ConnOf[k]) /\ Steady(ConnOf[k])
  /\ phase[ConnOf[k]] = "auth"
  /\ jobPc[k] = "free" /\ pump[k] = "none"
  /\ SetPhase(ConnOf[k], "idle")
  /\ JobGoes(k, "dial")
  /\ UNCHANGED <<sess, sock, closeJob, detaching, chanSid, queue, pump, ousted>>

\* MUTANT: off by one at the cap.
HasRoomPlusOne == Cardinality(store) <= MaxSessions

HasRoom == Cardinality(store) < MaxSessions

\* SessionStore::insert, attach(0), spawning the driver and Phase::Running: no
\* await among them, and nobody else can know the handle yet.
Start(k, s) ==
  /\ shell[s] = "none"
  /\ HasRoom
  /\ store' = store \cup {s}
  /\ owner' = [owner EXCEPT ![s] = SubjectOf[ConnOf[k]]]
  /\ shell' = [shell EXCEPT ![s] = "running"]
  /\ Install(k, s)
  /\ SetRunning(ConnOf[k], s)
  /\ JobGoes(k, "ready")
  /\ UNCHANGED <<input, sock, closeJob, detaching, queue>>

\* AuthStep::Authenticated, and open_shell resolved.
StartShell(k, s) == Steady(ConnOf[k]) /\ jobPc[k] = "dial" /\ Start(k, s)

\* open_local: no credentials, nothing to await before the insert.
OpenLocal(k, s) == MayStart(k) /\ Start(k, s)

\* insert answers None at the cap; it never reaps first.
AtCapacity(k) ==
  /\ Steady(ConnOf[k])
  /\ jobPc[k] = "dial"
  /\ ~HasRoom
  /\ JobGoes(k, "free")
  /\ UNCHANGED <<sess, conn, chanSid, queue, pump, ousted>>

-----------------------------------------------------------------------------
(* Reattaching.                                                            *)

\* MUTANT: the account is not compared.
AttachGetAny(k, s) ==
  /\ MayStart(k)
  /\ s \in store
  /\ JobGoes(k, "got")
  /\ chanSid' = [chanSid EXCEPT ![k] = s]
  /\ UNCHANGED <<sess, conn, queue, pump, ousted>>

\* SessionStore::get.  A miss is answered session_gone and changes nothing.
AttachGet(k, s) ==
  /\ MayStart(k)
  /\ s \in store
  /\ owner[s] = SubjectOf[ConnOf[k]]
  /\ JobGoes(k, "got")
  /\ chanSid' = [chanSid EXCEPT ![k] = s]
  /\ UNCHANGED <<sess, conn, queue, pump, ousted>>

\* Session::attach on the session found, which another thread may have removed
\* or reaped meanwhile, and Phase::Running before the first await.
AttachTake(k) ==
  LET s == chanSid[k]
  IN /\ jobPc[k] = "got"
     /\ Install(k, s)
     /\ SetRunning(ConnOf[k], s)
     /\ JobGoes(k, "ready")
     /\ UNCHANGED <<store, shell, owner, input, sock, closeJob, detaching, queue>>

\* Ready, and for an attach the replay, have been written; the pump is spawned.
SpawnPump(k) ==
  /\ Steady(ConnOf[k])
  /\ jobPc[k] = "ready"
  /\ JobGoes(k, "free")
  /\ pump' = [pump EXCEPT ![k] = "on"]
  /\ UNCHANGED <<sess, conn, chanSid, queue, ousted>>

-----------------------------------------------------------------------------
(* Leaving.                                                                *)

\* Session::detach, first half: the sender is dropped.
BeginDetach(c, s) ==
  /\ attached' = [attached EXCEPT ![s] = None]
  /\ detaching' = [detaching EXCEPT ![c] = s]
  /\ UNCHANGED <<store, shell, owner, detachedAge, input>>

\* MUTANT: detach forgets the clock.
EndDetachNoClock(c) ==
  /\ detaching[c] # None
  /\ detaching' = [detaching EXCEPT ![c] = None]
  /\ UNCHANGED <<sess, sock, phase, current, closeJob, chan>>

\* Session::detach, second half, under a lock of its own: the clock starts.
EndDetach(c) ==
  /\ detaching[c] # None
  /\ detachedAge' = [detachedAge EXCEPT ![detaching[c]] = 0]
  /\ detaching' = [detaching EXCEPT ![c] = None]
  /\ UNCHANGED <<store, shell, owner, attached, input, sock, phase, current, closeJob, chan>>

\* What both ways out of a connection do: whatever session the phase names is
\* detached, whoever is attached to it by now.
DetachCurrent(c) ==
  IF current[c] # None
  THEN BeginDetach(c, current[c])
  ELSE UNCHANGED <<sess, detaching>>

\* Frame::Close from the peer.
PeerClose(c) ==
  /\ Readable(c) /\ Steady(c)
  /\ sock' = [sock EXCEPT ![c] = "shut"]
  /\ DetachCurrent(c)
  /\ UNCHANGED <<phase, current, closeJob, chan>>

\* The network takes the peer away; nothing tells the agent.
Lose(c) ==
  /\ sock[c] = "open"
  /\ sock' = [sock EXCEPT ![c] = "shut"]
  /\ UNCHANGED <<sess, phase, current, closeJob, detaching, chan>>

\* The io object closes: after a close handshake, or when TCP gives up.
IoClosed(c) ==
  /\ sock[c] = "shut"
  /\ sock' = [sock EXCEPT ![c] = "closed"]
  /\ UNCHANGED <<sess, phase, current, closeJob, detaching, chan>>

\* The task that awaited on_disconnect.
OnDisconnect(c) ==
  /\ sock[c] = "closed" /\ Steady(c)
  /\ sock' = [sock EXCEPT ![c] = "gone"]
  /\ DetachCurrent(c)
  /\ UNCHANGED <<phase, current, closeJob, chan>>

\* ClientMsg::Close up to its await: out of the store first.  (A second Close
\* frame during the await would only repeat this.)
CloseFrame(c) ==
  /\ Readable(c) /\ Steady(c)
  /\ closeJob[c] = None
  /\ current[c] # None
  /\ store' = store \ {current[c]}
  /\ closeJob' = [closeJob EXCEPT ![c] = current[c]]
  /\ UNCHANGED <<shell, owner, attached, detachedAge, input, sock, phase, current, detaching, chan>>

\* MUTANT: leaving the store is taken to be enough.
CloseOnlyRemoves(c) ==
  /\ Steady(c)
  /\ closeJob[c] # None
  /\ closeJob' = [closeJob EXCEPT ![c] = None]
  /\ SetPhase(c, "done")
  /\ SendClose(c)
  /\ UNCHANGED <<sess, detaching, chan>>

\* input.send: room in the queue, and a receiver at its other end.
Sends(s, item) ==
  /\ Driven(s) /\ Len(input[s]) < InputQueue
  /\ input' = [input EXCEPT ![s] = Append(@, item)]

\* ... which fails at once when the driver and its receiver are gone.
SendFails(s) == ~Driven(s) /\ UNCHANGED input

\* Keystrokes, a Resize frame or the resize an attach ends with found room.
\* The handler may have waited for it, and its socket may be gone by now.
Input(c) ==
  /\ c \in Typists
  /\ Steady(c)
  /\ current[c] # None
  /\ Sends(current[c], "data")
  /\ UNCHANGED <<store, shell, owner, attached, detachedAge, conn, chan>>

\* input.send(Close) resolved; whatever the phase has become, it is Done now.
CloseSent(c) ==
  /\ Steady(c)
  /\ closeJob[c] # None
  /\ Sends(closeJob[c], "close") \/ SendFails(closeJob[c])
  /\ closeJob' = [closeJob EXCEPT ![c] = None]
  /\ SetPhase(c, "done")
  /\ SendClose(c)
  /\ UNCHANGED <<store, shell, owner, attached, detachedAge, detaching, chan>>

\* ClientMsg::Close with nothing running: Done at once, an open in flight or not.
CloseIdle(c) ==
  /\ Readable(c) /\ Steady(c)
  /\ closeJob[c] = None
  /\ current[c] = None
  /\ SetPhase(c, "done")
  /\ SendClose(c)
  /\ UNCHANGED <<sess, closeJob, detaching, chan>>

-----------------------------------------------------------------------------
(* The driver task of a session.                                           *)

\* Session::publish towards the attached channel: try_send drops the live copy
\* when the queue is full or the receiver is gone.
Publish(s, item) ==
  LET k == attached[s]
  IN IF k # None /\ pump[k] # "off" /\ Len(queue[k]) < OutputQueue
     THEN queue' = [queue EXCEPT ![k] = Append(@, item)]
     ELSE UNCHANGED queue

ShellData(s) ==
  /\ shell[s] = "running"
  /\ Publish(s, "data")
  /\ UNCHANGED <<sess, conn, jobPc, chanSid, pump, ousted>>

ShellExit(s) ==
  /\ shell[s] = "running"
  /\ Publish(s, "exit")
  /\ shell' = [shell EXCEPT ![s] = "ending"]
  /\ UNCHANGED <<store, owner, attached, detachedAge, input, conn, jobPc, chanSid, pump, ousted>>

\* A write failed or the event stream ended: the loop breaks, nothing published.
ShellLost(s) ==
  /\ shell[s] \in {"running", "writing"}
  /\ shell' = [shell EXCEPT ![s] = "ending"]
  /\ UNCHANGED <<store, owner, attached, detachedAge, input, conn, chan>>

\* input_rx.recv() answered data or a resize.  While the write is awaited, or
\* blocks, neither the input nor the shell's events are looked at.
DriverTakes(s) ==
  /\ shell[s] = "running"
  /\ input[s] # <<>> /\ Head(input[s]) = "data"
  /\ input' = [input EXCEPT ![s] = Tail(@)]
  /\ shell' = [shell EXCEPT ![s] = "writing"]
  /\ UNCHANGED <<store, owner, attached, detachedAge, conn, chan>>

\* The shell, or sshd's window, took what was written.
WriteDone(s) ==
  /\ shell[s] = "writing"
  /\ shell' = [shell EXCEPT ![s] = "running"]
  /\ UNCHANGED <<store, owner, attached, detachedAge, input, conn, chan>>

\* input_rx.recv() answers Close, or None once every sender is gone.  The
\* sender is a field of Session, and the driver holds an Arc of it.
InputEnds(s) ==
  \/ input[s] # <<>> /\ Head(input[s]) = "close"
  \/ ~Referenced(s)

DriverStops(s) ==
  /\ shell[s] = "running"
  /\ InputEnds(s)
  /\ shell' = [shell EXCEPT ![s] = "ending"]
  /\ UNCHANGED <<store, owner, attached, detachedAge, input, conn, chan>>

\* MUTANT: a dead shell's handle waits for the reaper.
DriverEndsStored(s) ==
  /\ shell[s] = "ending"
  /\ shell' = [shell EXCEPT ![s] = "ended"]
  /\ input' = [input EXCEPT ![s] = <<>>]
  /\ UNCHANGED <<store, owner, attached, detachedAge, conn, chan>>

\* eof and disconnect, or kill, are over: the handle stops working
\* and the receiver goes with what was queued.
DriverEnds(s) ==
  /\ shell[s] = "ending"
  /\ shell' = [shell EXCEPT ![s] = "ended"]
  /\ store' = store \ {s}
  /\ input' = [input EXCEPT ![s] = <<>>]
  /\ UNCHANGED <<owner, attached, detachedAge, conn, chan>>

-----------------------------------------------------------------------------
(* The pump task of a channel.                                             *)

Pumping(k) == pump[k] = "on" /\ Steady(ConnOf[k])

\* The receiver goes with its task.
PumpEnds(k) ==
  /\ pump' = [pump EXCEPT ![k] = "off"]
  /\ queue' = [queue EXCEPT ![k] = <<>>]

PumpData(k) ==
  /\ Pumping(k)
  /\ queue[k] # <<>> /\ Head(queue[k]) = "data"
  /\ sock[ConnOf[k]] \notin {"closed", "gone"}
  /\ queue' = [queue EXCEPT ![k] = Tail(@)]
  /\ UNCHANGED <<sess, conn, jobPc, chanSid, pump, ousted>>

\* sink.send failed.
PumpBreaks(k) ==
  /\ Pumping(k)
  /\ queue[k] # <<>> /\ Head(queue[k]) = "data"
  /\ sock[ConnOf[k]] \in {"closed", "gone"}
  /\ PumpEnds(k)
  /\ UNCHANGED <<sess, conn, jobPc, chanSid, ousted>>

PumpExit(k) ==
  /\ Pumping(k)
  /\ queue[k] # <<>> /\ Head(queue[k]) = "exit"
  /\ PumpEnds(k)
  /\ SendClose(ConnOf[k])
  /\ UNCHANGED <<sess, phase, current, closeJob, detaching, jobPc, chanSid, ousted>>

\* rx.recv() answers None: "superseded", and a Close.
PumpSuperseded(k) ==
  /\ Pumping(k)
  /\ queue[k] = <<>> /\ ~SenderLive(k)
  /\ PumpEnds(k)
  /\ SendClose(ConnOf[k])
  /\ UNCHANGED <<sess, phase, current, closeJob, detaching, jobPc, chanSid, ousted>>

-----------------------------------------------------------------------------
(* Time and the reaper.                                                    *)

Counting(s) == detachedAge[s] \in 0..(Timeout - 1)

\* Only a stored session's clock is ever read.
Tick ==
  /\ \E s \in store : Counting(s)
  /\ detachedAge' = [s \in Sid |-> IF s \in store /\ Counting(s)
                                   THEN detachedAge[s] + 1 ELSE detachedAge[s]]
  /\ UNCHANGED <<store, shell, owner, attached, input, conn, chan>>

Expired(s) == detachedAge[s] = Timeout

\* MUTANT: the reaper spares what a connection still points at.
ReapUnreferenced ==
  LET going == {s \in store : Expired(s) /\ \A c \in Conn : current[c] # s}
  IN /\ going # {}
     /\ store' = store \ going
     /\ UNCHANGED <<shell, owner, attached, detachedAge, input, conn, chan>>

Reap ==
  /\ \E s \in store : Expired(s)
  /\ store' = {s \in store : ~Expired(s)}
  /\ UNCHANGED <<shell, owner, attached, detachedAge, input, conn, chan>>

-----------------------------------------------------------------------------

FrameStep ==
  \E k \in Frame :
    \/ Open(k) \/ OpenFails(k) \/ NeedsAnswers(k) \/ Answer(k)
    \/ AtCapacity(k) \/ AttachTake(k) \/ SpawnPump(k)
    \/ \E s \in Sid : StartShell(k, s) \/ OpenLocal(k, s) \/ AttachGet(k, s)

LeaveStep ==
  \E c \in Conn :
    \/ EndDetach(c) \/ PeerClose(c) \/ Lose(c) \/ IoClosed(c)
    \/ OnDisconnect(c) \/ CloseFrame(c) \/ CloseSent(c) \/ CloseIdle(c)
    \/ Input(c)

ShellStep ==
  \E s \in Sid :
    \/ ShellData(s) \/ ShellExit(s) \/ ShellLost(s) \/ DriverTakes(s) \/ WriteDone(s)
    \/ DriverStops(s) \/ DriverEnds(s)

PumpStep ==
  \E k \in Chan :
    \/ PumpData(k) \/ PumpBreaks(k) \/ PumpExit(k) \/ PumpSuperseded(k)

Next == FrameStep \/ LeaveStep \/ ShellStep \/ PumpStep \/ Tick \/ Reap

Spec == Init /\ [][Next]_vars

\* What a connection's thread does of itself, its pumps aside.
Task(c) ==
  \/ EndDetach(c) \/ IoClosed(c) \/ OnDisconnect(c)
  \/ \E k \in Frame : ConnOf[k] = c /\ (AttachTake(k) \/ SpawnPump(k))

PumpTask(k) == PumpData(k) \/ PumpBreaks(k) \/ PumpExit(k) \/ PumpSuperseded(k)

\* The agent's own tasks get to run; time passes; TCP gives up on a dead peer,
\* because the heartbeat of terminal.rs 877-886 keeps bytes outstanding.  A
\* driver in its select! comes to the input that is ready, and whoever waits for
\* room in a queue gets it if there is room again and again: tokio hands it out
\* in the order it was asked for.  A write is never promised to come back: it is
\* the shell, or sshd, that has to read.  (The write to a local shell's PTY
\* blocks its thread, and then nothing else on that thread runs either: that
\* cycle is LocalShell's Jammed.)  What clients do is left to them.
Fairness ==
  /\ WF_vars(Tick) /\ WF_vars(Reap)
  /\ \A c \in Conn : WF_vars(Task(c)) /\ SF_vars(CloseSent(c))
  /\ \A s \in Sid : WF_vars(DriverTakes(s) \/ DriverStops(s) \/ DriverEnds(s))
  /\ \A k \in Chan : WF_vars(PumpTask(k))

FairSpec == Spec /\ Fairness

-----------------------------------------------------------------------------
(* What the terminal server promises.                                      *)

TypeOK ==
  /\ store \subseteq Sid
  /\ shell \in [Sid -> {"none", "running", "writing", "ending", "ended"}]
  /\ owner \in [Sid -> Subject \cup {None}]
  /\ attached \in [Sid -> Chan \cup {None}]
  /\ detachedAge \in [Sid -> 0..Timeout \cup {None}]
  /\ input \in [Sid -> Seq({"data", "close"})]
  /\ sock \in [Conn -> {"open", "shut", "closed", "gone"}]
  /\ phase \in [Conn -> {"idle", "auth", "running", "done"}]
  /\ current \in [Conn -> Sid \cup {None}]
  /\ closeJob \in [Conn -> Sid \cup {None}]
  /\ detaching \in [Conn -> Sid \cup {None}]
  /\ jobPc \in [Chan -> {"free", "dial", "got", "ready"}]
  /\ chanSid \in [Chan -> Sid \cup {None}]
  /\ queue \in [Chan -> Seq({"data", "exit"})]
  /\ pump \in [Chan -> {"none", "held", "on", "off"}]
  /\ ousted \subseteq Chan
  /\ \A c \in Conn : phase[c] = "running" <=> current[c] # None

\* The cap bounds the handles a client can attach to at every moment, however
\* many opens raced through start_shell (SessionStore::insert, session.rs 258).
CapRespected == Cardinality(store) <= MaxSessions

\* A stored handle always has a shell behind it: a session is removed before
\* its driver is gone and never put back (terminal.rs 806-809).
StoredMeansShell == \A s \in store : Driven(s)

\* Whoever runs a session, or is one step from doing so, was authenticated as
\* the account that opened it, whatever raced with the lookup (session.rs 282).
OwnAccountOnly ==
  /\ \A c \in Conn : current[c] # None => owner[current[c]] = SubjectOf[c]
  /\ \A k \in Chan : chanSid[k] # None => owner[chanSid[k]] = SubjectOf[ConnOf[k]]

\* A session nobody is attached to is counting down, or a thread is one step
\* from starting its clock: none is left in the store with no sender and no
\* clock, whatever order the halves of detaches and the attaches came in.
UnattachedCountsDown ==
  \A s \in Sid : /\ shell[s] # "none"
                 /\ attached[s] = None
                 => \/ detachedAge[s] # None
                    \/ \E c \in Conn : detaching[c] = s

\* A session without a sender does not stay in the store: somebody reattaches,
\* or the reaper or the end of the shell removes it.
AbandonedLeaves ==
  \A s \in Sid : (s \in store /\ attached[s] = None)
                   ~> (s \notin store \/ attached[s] # None)

\* A takeover releases the old connection: its pump ends, with what was queued
\* delivered or its socket closed (session.rs 211-212).
TakeoverReleases ==
  \A k \in Chan : k \in ousted ~> pump[k] = "off"

\* An explicit close ends the shell, whatever happens to the connection
\* meanwhile and however full the queue the Close waits for is (terminal.rs
\* 362-375), unless the driver stays for ever in a write nobody reads
\* (terminal.rs 501 and 780): then the Close is never looked at.
CloseEndsShell ==
  \A s \in Sid :
    \/ <>[](shell[s] = "writing")
    \/ (\E c \in Conn : closeJob[c] = s) ~> shell[s] = "ended"

(* What the comments say and the code does not do.                         *)

\* "Another connection attached, or the session was reaped" (terminal.rs 851):
\* an open connection is told superseded only for one of these reasons.
SupersededHasCause ==
  [][\A k \in Chan :
       /\ PumpSuperseded(k)
       /\ sock[ConnOf[k]] = "open"
       => k \in ousted \/ chanSid[k] \notin store]_vars

\* "Terminal state; further frames are ignored rather than acted on"
\* (terminal.rs 251): nothing that was in flight when a Close made the phase
\* Done gives the connection a session, or a prompt, again.
DoneIsFinal ==
  [][\A c \in Conn : phase[c] = "done" => phase'[c] = "done"]_vars

\* "an attached session is never reaped" (session.rs 466).
AttachedNeverReaped ==
  [][Reap => \A s \in store \ store' : attached[s] = None]_vars

\* "Every sender gone: the session was reaped" (terminal.rs 788): the driver of
\* a session that left the store comes to its end.
RemovedShellEnds ==
  \A s \in Sid : (shell[s] = "running" /\ s \notin store) ~> ~Driven(s)

\* "until it is taken over, the shell exits, or the socket dies" (terminal.rs
\* 811-812): the pump of a session whose shell is gone comes to its end.
PumpEndsWithShell ==
  \A k \in Chan :
    (pump[k] = "on" /\ shell[chanSid[k]] = "ended") ~> pump[k] = "off"
=============================================================================
