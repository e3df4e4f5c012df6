--------------------------- MODULE TerminalResume ---------------------------
(***************************************************************************)
(* One terminal session's output, from the shell to the user's screen,     *)
(* across lost links: Session::publish and attach (session.rs), the attach *)
(* handler and its pump (terminal.rs), and the browser client              *)
(* src/monitor/frontend/src/lib/terminal.svelte.ts.                        *)
(*                                                                         *)
(* Bytes are their positions in the output.  Who may attach, takeovers,    *)
(* reaping and the end of the shell are TerminalSessions'; here one client *)
(* loses its link and comes back, as often as it likes.                    *)
(***************************************************************************)
EXTENDS Scrollback, FiniteSets

CONSTANTS
  OutputQueue,  \* OUTPUT_QUEUE
  ResetLen,     \* RESET.len(): the escape sequence before a truncated replay
  MaxBytes,     \* bound: bytes the shell prints in a behaviour
  MaxChunk,     \* bound: bytes of one read from the shell
  WireCap,      \* bound: messages the socket takes before sink.send waits
  WriteCap      \* bound: writes the renderer has accepted and not drawn

ASSUME ResumeAssumption ==
  /\ OutputQueue \in Nat \ {0} /\ ResetLen \in Nat
  /\ MaxBytes \in Nat /\ MaxChunk \in Nat \ {0}
  /\ WireCap \in Nat \ {0} /\ WriteCap \in Nat \ {0}

VARIABLES
  sb,        \* Session.scrollback
  attached,  \* Session.attached holds the sender of the client's current link
  queue,     \* that channel: chunks of bytes
  pumping,   \* pump_output runs for it; the handler is done writing the replay
  wire,      \* agent to client, in order, lost with the link
  link,      \* "down", "asked" (attach sent), "up"
  since,     \* the `since` of the attach in flight
  rendered,  \* TerminalSession.rendered
  saved,     \* the copy of it in sessionStorage
  writes,    \* the renderer's write buffer
  screen,    \* the positions drawn since the screen was last reset
  base,      \* history: what the agent or a reload declared out of reach
  seen,      \* history: the position the next byte of this link should have
  dropped,   \* history: this link's channel dropped a live copy
  lossy,     \* history: some link dropped a live copy
  cut,       \* history: some attach was truncated
  overlap    \* history: a write of one link was still undrawn at the next Ready

agent   == <<sb, attached, queue, pumping>>
client  == <<rendered, saved, writes, screen>>
history == <<base, seen, dropped, lossy, cut, overlap>>
vars    == <<agent, wire, link, since, client, history>>

\* Messages: Ready{since}, a binary frame, and the gap_truncated error.
Ready(at, trunc) == [type |-> "ready", since |-> at, trunc |-> trunc]
Binary(reset, b) == [type |-> "binary", reset |-> reset, bytes |-> b]
GapTruncated     == [type |-> "gap_truncated"]

FrameLen(m) == Len(m.bytes) + (IF m.reset THEN ResetLen ELSE 0)

\* Session::new, attach(0) and the Ready of the opening connection.
Init ==
  /\ sb = EmptyScrollback
  /\ attached = TRUE /\ queue = <<>> /\ pumping = TRUE
  /\ wire = <<>> /\ link = "up" /\ since = 0
  /\ rendered = 0 /\ saved = 0 /\ writes = <<>> /\ screen = {}
  /\ base = 0 /\ seen = 0 /\ dropped = FALSE
  /\ lossy = FALSE /\ cut = FALSE /\ overlap = FALSE

-----------------------------------------------------------------------------
(* The agent.                                                              *)

\* MUTANT: the queue is not bounded.
PublishUnbounded(n) ==
  LET data == Bytes(sb.next_seq, sb.next_seq + n)
  IN /\ sb.next_seq + n <= MaxBytes
     /\ sb' = Push(sb, data)
     /\ queue' = IF attached THEN Append(queue, data) ELSE queue
     /\ UNCHANGED <<attached, pumping, wire, link, since, client, history>>

\* Session::publish: always into the scrollback, and a try_send under the same
\* lock, whose failure on a full queue is ignored.
Publish(n) ==
  LET data == Bytes(sb.next_seq, sb.next_seq + n)
      full == Len(queue) >= OutputQueue
  IN /\ sb.next_seq + n <= MaxBytes
     /\ sb' = Push(sb, data)
     /\ queue' = IF attached /\ ~full THEN Append(queue, data) ELSE queue
     /\ dropped' = (dropped \/ (attached /\ full))
     /\ lossy' = (lossy \/ (attached /\ full))
     /\ UNCHANGED <<attached, pumping, wire, link, since, client, base, seen, cut, overlap>>

\* What the attach handler writes before the pump starts, for a replay.
ReplayFrames(replay) ==
  CASE replay.kind = "truncated" ->
         <<Ready(StartSeq(sb), TRUE), Binary(TRUE, replay.bytes), GapTruncated>>
    [] replay.kind = "gap" /\ replay.bytes = <<>> -> <<Ready(since, FALSE)>>
    [] OTHER -> <<Ready(since, FALSE), Binary(FALSE, replay.bytes)>>

\* Session::attach: the replay is read and the new sender installed as one step.
Attach ==
  LET replay == ReplayFrom(sb, since)
  IN /\ link = "asked"
     /\ link' = "up"
     /\ attached' = TRUE /\ queue' = <<>> /\ pumping' = FALSE
     /\ wire' = ReplayFrames(replay)
     /\ seen' = IF replay.kind = "truncated" THEN StartSeq(sb)
                ELSE IF since < sb.next_seq THEN since ELSE sb.next_seq
     /\ dropped' = FALSE
     /\ cut' = (cut \/ replay.kind = "truncated")
     /\ UNCHANGED <<sb, since, client, base, lossy, overlap>>

\* The handler's sends are done.
SpawnPump ==
  /\ attached /\ ~pumping
  /\ pumping' = TRUE
  /\ UNCHANGED <<sb, attached, queue, wire, link, since, client, history>>

Pump ==
  /\ pumping /\ queue # <<>> /\ Len(wire) < WireCap
  /\ wire' = Append(wire, Binary(FALSE, Head(queue)))
  /\ queue' = Tail(queue)
  /\ UNCHANGED <<sb, attached, pumping, link, since, client, history>>

-----------------------------------------------------------------------------
(* The link.                                                               *)

\* The socket is gone: what was on the wire, and what the old channel holds or
\* gets from now on, reaches nobody.  onDisconnect flushes the resume point.
LinkLost ==
  /\ link # "down"
  /\ link' = "down"
  /\ attached' = FALSE /\ queue' = <<>> /\ pumping' = FALSE /\ wire' = <<>>
  /\ saved' = rendered
  /\ UNCHANGED <<sb, since, rendered, writes, screen, history>>

\* connect() and its onopen.
Reconnect ==
  /\ link = "down"
  /\ link' = "asked"
  /\ since' = rendered
  /\ UNCHANGED <<agent, wire, client, history>>

\* The tab is reloaded, or restored after a crash: a new page, a blank screen,
\* and the resume point that sessionStorage has.
Reload ==
  /\ link' = "down"
  /\ attached' = FALSE /\ queue' = <<>> /\ pumping' = FALSE /\ wire' = <<>>
  /\ rendered' = saved /\ writes' = <<>> /\ screen' = {}
  /\ base' = saved
  /\ UNCHANGED <<sb, since, saved, seen, dropped, lossy, cut, overlap>>

-----------------------------------------------------------------------------
(* The client.                                                             *)

Received(type) == wire # <<>> /\ Head(wire).type = type /\ wire' = Tail(wire)

\* onControl 'ready': the counter is set, not added to.  Writes of an earlier
\* link that the renderer has yet to draw will add to it all the same.
OnReady ==
  /\ Received("ready")
  /\ rendered' = Head(wire).since
  /\ saved' = rendered'
  /\ base' = IF Head(wire).trunc THEN Head(wire).since ELSE base
  /\ overlap' = (overlap \/ writes # <<>>)
  /\ UNCHANGED <<agent, link, since, writes, screen, seen, dropped, lossy, cut>>

\* MUTANT: counts what has arrived instead of what has been drawn.
OnOutputCounts ==
  /\ Received("binary")
  /\ Len(writes) < WriteCap
  /\ writes' = Append(writes, Head(wire))
  /\ rendered' = rendered + FrameLen(Head(wire))
  /\ UNCHANGED <<agent, link, since, saved, screen, history>>

\* onOutput
OnOutput ==
  /\ Received("binary")
  /\ Len(writes) < WriteCap
  /\ writes' = Append(writes, Head(wire))
  /\ seen' = LET b == Head(wire).bytes IN IF b = <<>> THEN seen ELSE b[Len(b)] + 1
  /\ UNCHANGED <<agent, link, since, rendered, saved, screen, base, dropped, lossy, cut, overlap>>

\* onError gap_truncated: an immediate reset, ahead of writes still buffered.
OnGapTruncated ==
  /\ Received("gap_truncated")
  /\ screen' = {}
  /\ UNCHANGED <<agent, link, since, rendered, saved, writes, history>>

BytesOf(s) == {s[i] : i \in DOMAIN s}

\* MUTANT: the renderer waits for its buffer to fill.
DrawWhenFull ==
  /\ Len(writes) = WriteCap
  /\ LET m == Head(writes)
     IN /\ screen' = (IF m.reset THEN {} ELSE screen) \cup BytesOf(m.bytes)
        /\ rendered' = rendered + FrameLen(m)
  /\ writes' = Tail(writes)
  /\ saved' = rendered'
  /\ UNCHANGED <<agent, wire, link, since, history>>

\* The renderer draws a write and calls back; persist is throttled, so the
\* stored copy may or may not follow.
Draw ==
  /\ writes # <<>>
  /\ LET m == Head(writes)
     IN /\ screen' = (IF m.reset THEN {} ELSE screen) \cup BytesOf(m.bytes)
        /\ rendered' = rendered + FrameLen(m)
  /\ writes' = Tail(writes)
  /\ saved' \in {saved, rendered'}
  /\ UNCHANGED <<agent, wire, link, since, history>>

-----------------------------------------------------------------------------

Next ==
  \/ \E n \in 1..MaxChunk : Publish(n)
  \/ Attach \/ SpawnPump \/ Pump
  \/ LinkLost \/ Reconnect \/ Reload
  \/ OnReady \/ OnOutput \/ OnGapTruncated \/ Draw

Spec == Init /\ [][Next]_vars

\* Agent tasks, the client's handlers and the renderer run; a client whose link
\* is down tries again (scheduleReconnect).  Shells and networks are free.
Fairness ==
  /\ WF_vars(Attach) /\ WF_vars(SpawnPump) /\ WF_vars(Pump) /\ WF_vars(Reconnect)
  /\ WF_vars(OnReady) /\ WF_vars(OnOutput) /\ WF_vars(OnGapTruncated) /\ WF_vars(Draw)

FairSpec == Spec /\ Fairness

-----------------------------------------------------------------------------
(* What resuming promises.                                                 *)

Frame ==
  [type : {"ready"}, since : Nat, trunc : BOOLEAN]
    \cup [type : {"binary"}, reset : BOOLEAN, bytes : Seq(Nat)]
    \cup [type : {"gap_truncated"}]

TypeOK ==
  /\ sb \in [buf : Seq(Nat), next_seq : Nat]
  /\ attached \in BOOLEAN /\ pumping \in BOOLEAN
  /\ queue \in Seq(Seq(Nat)) /\ Len(queue) <= OutputQueue
  /\ wire \in Seq(Frame)
  /\ link \in {"down", "asked", "up"}
  /\ since \in Nat /\ rendered \in Nat /\ saved \in Nat
  /\ writes \in Seq([type : {"binary"}, reset : BOOLEAN, bytes : Seq(Nat)])
  /\ screen \subseteq Nat
  /\ base \in Nat /\ seen \in Nat
  /\ {dropped, lossy, cut, overlap} \subseteq BOOLEAN

\* The scrollback is the newest Capacity bytes, contiguous and in order,
\* whatever the sizes of the writes (session.rs 68-82).
ScrollbackHoldsTail == HoldsTail(sb)
=============================================================================
