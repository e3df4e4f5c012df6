----------------------------- MODULE TunnelRelay -----------------------------
(***************************************************************************)
(* One open tunnel (spawn_relay in src/monitor/src/api/ws/tunnel.rs): the  *)
(* task that reads sshd, the task that writes to it from a bounded queue,  *)
(* the keepalive, and the service the frames come in by.  The slot of the  *)
(* tunnel is held by the reader and by the service.                        *)
(*                                                                         *)
(* External: sshd, which reads what it is sent and closes when it has read *)
(* the end of it; the client, which sends frames, may stop reading and may *)
(* vanish without a word; ntex, which hands over one frame at a time and   *)
(* drops the service once the connection is closed and the frame it was    *)
(* handling is done.                                                       *)
(*                                                                         *)
(* Abstracted: bytes to counts of chunks; a keepalive interval to a tick.  *)
(***************************************************************************)
EXTENDS Naturals

CONSTANTS
  QueueBound,  \* TO_SSHD_QUEUE
  Rounds,      \* PONG_TIMEOUT / PING_INTERVAL
  ChunkBound   \* bound of the model: chunks the client sends

ASSUME RelayAssumption == QueueBound \in Nat \ {0} /\ Rounds \in Nat \ {0} /\ ChunkBound \in Nat

VARIABLES
  io,        \* sink.io(): "open" or "closed"
  client,    \* "here", "stalled" (reads nothing) or "lost"
  full,      \* is_wr_backpressure
  sshd,      \* "open", "ended" (has read our FIN) or "closed"
  alive,     \* the cell frames set and the keepalive clears
  silent,    \* the keepalive's count
  keeper,    \* "running" or "done"
  reader,    \* "reading", "waiting" (await_write_capacity) or "done"
  writer,    \* "running", "draining", "shutdown" or "done"
  service,   \* "idle", "sending" (a chunk waits for a place), "refused" or "dropped"
  queue,     \* chunks in to_sshd
  taken,     \* chunks the service answered None for
  written,   \* chunks written to sshd
  broken,    \* a write to sshd failed
  quiet      \* history: ticks since the last frame was handled

relayVars == <<io, client, full, sshd, alive, silent, keeper, reader, writer,
               service, queue, taken, written, broken, quiet>>

Held == reader # "done" \/ service # "dropped"

RelayInit ==
  /\ io = "open" /\ client = "here" /\ full = FALSE /\ sshd = "open"
  /\ alive = TRUE /\ silent = 0 /\ keeper = "running"
  /\ reader = "reading" /\ writer = "running" /\ service = "idle"
  /\ queue = 0 /\ taken = 0 /\ written = 0 /\ broken = FALSE /\ quiet = 0

-----------------------------------------------------------------------------
\* The service.

Handled == alive' = TRUE /\ quiet' = 0

\* Pong, ping and empty frames.
AnyFrame ==
  /\ io = "open" /\ client # "lost" /\ service = "idle"
  /\ Handled
  /\ UNCHANGED <<io, client, full, sshd, silent, keeper, reader, writer, service,
                 queue, taken, written, broken>>

\* A close, a text frame: answered with a close frame, and ntex closes.
CloseFrame ==
  /\ io = "open" /\ client # "lost" /\ service = "idle"
  /\ Handled
  /\ io' = "closed"
  /\ UNCHANGED <<client, full, sshd, silent, keeper, reader, writer, service,
                 queue, taken, written, broken>>

\* Data: to_sshd.send awaits a place.
DataFrame ==
  /\ io = "open" /\ client # "lost" /\ service = "idle"
  /\ taken < ChunkBound
  /\ Handled
  /\ service' = "sending"
  /\ UNCHANGED <<io, client, full, sshd, silent, keeper, reader, writer,
                 queue, taken, written, broken>>

Place ==
  /\ service = "sending"
  /\ IF writer = "running"
     THEN /\ queue < QueueBound
          /\ queue' = queue + 1
          /\ taken' = taken + 1
          /\ service' = "idle"
          /\ UNCHANGED io
     ELSE service' = "refused" /\ io' = "closed" /\ UNCHANGED <<queue, taken>>
  /\ UNCHANGED <<client, full, sshd, alive, silent, keeper, reader, writer,
                 written, broken, quiet>>

\* ntex drops the service, and with it the sender of the queue.
DropService ==
  /\ io = "closed" /\ service \in {"idle", "refused"}
  /\ service' = "dropped"
  /\ UNCHANGED <<io, client, full, sshd, alive, silent, keeper, reader, writer,
                 queue, taken, written, broken, quiet>>

-----------------------------------------------------------------------------
\* The writer: ends when the queue is empty and its sender gone, or a write
\* fails; then FIN and close.

\* MUTANT: the writer stops as soon as the connection is closed.
StopsEarly == io = "closed"

\* recv answers None.
NothingMore == queue = 0 /\ service = "dropped"

Write ==
  /\ writer = "running" /\ queue > 0
  /\ queue' = queue - 1
  /\ \/ written' = written + 1 /\ UNCHANGED <<writer, broken>>
     \/ sshd = "closed" /\ writer' = "draining" /\ broken' = TRUE /\ UNCHANGED written
  /\ UNCHANGED <<io, client, full, sshd, alive, silent, keeper, reader, service,
                 taken, quiet>>

WriterEnds ==
  /\ writer = "running" /\ NothingMore
  /\ writer' = "draining"
  /\ UNCHANGED <<io, client, full, sshd, alive, silent, keeper, reader, service,
                 queue, taken, written, broken, quiet>>

\* MUTANT: the writer drops its half without shutting it down.
CloseOnly ==
  /\ writer = "draining"
  /\ writer' = "done"
  /\ io' = "closed"
  /\ UNCHANGED <<client, full, sshd, alive, silent, keeper, reader, service,
                 queue, taken, written, broken, quiet>>

\* writer.shutdown() and sink.io().close().
Shutdown ==
  /\ writer = "draining"
  /\ writer' = "done"
  /\ sshd' = IF sshd = "open" THEN "ended" ELSE sshd
  /\ io' = "closed"
  /\ UNCHANGED <<client, full, alive, silent, keeper, reader, service, queue,
                 taken, written, broken, quiet>>

-----------------------------------------------------------------------------
\* The reader.

\* MUTANT: the reader's end is not mirrored to the client.
EndUnsaid ==
  /\ reader = "reading" /\ sshd = "closed"
  /\ reader' = "done"
  /\ UNCHANGED <<io, client, full, sshd, alive, silent, keeper, writer, service,
                 queue, taken, written, broken, quiet>>

\* Closing sshd's end of the connection gives Ok(0); reading more fails.
ReadEnd ==
  /\ reader = "reading" /\ sshd = "closed"
  /\ reader' = "done"
  /\ io' = "closed"
  /\ UNCHANGED <<client, full, sshd, alive, silent, keeper, writer, service,
                 queue, taken, written, broken, quiet>>

\* A chunk for the client: sending to a closed sink fails.
ReadChunk ==
  /\ reader = "reading" /\ sshd # "closed"
  /\ IF io = "closed"
     THEN reader' = "done" /\ UNCHANGED full
     ELSE reader' = "waiting" /\ full' \in {full, client # "here"}
  /\ UNCHANGED <<io, client, sshd, alive, silent, keeper, writer, service, queue,
                 taken, written, broken, quiet>>

\* await_write_capacity.
Capacity ==
  /\ reader = "waiting"
  /\ ~full \/ io = "closed"
  /\ reader' = IF io = "closed" THEN "done" ELSE "reading"
  /\ UNCHANGED <<io, client, full, sshd, alive, silent, keeper, writer, service,
                 queue, taken, written, broken, quiet>>

-----------------------------------------------------------------------------
\* The keepalive.

\* MUTANT: a frame does not set the count back.
CountNeverReset == silent' = IF alive THEN silent ELSE silent + 1

Count == silent' = IF alive THEN 0 ELSE silent + 1

Interval ==
  /\ keeper = "running"
  /\ quiet' = IF quiet <= Rounds THEN quiet + 1 ELSE quiet
  /\ IF io = "closed"
     THEN keeper' = "done" /\ UNCHANGED <<io, alive, silent>>
     ELSE /\ alive' = FALSE
          /\ Count
          /\ IF silent' >= Rounds
             THEN io' = "closed" /\ keeper' = "done"
             ELSE UNCHANGED <<io, keeper>>
  /\ UNCHANGED <<client, full, sshd, reader, writer, service, queue, taken,
                 written, broken>>

-----------------------------------------------------------------------------
\* The client and sshd.

ClientChanges ==
  /\ client # "lost"
  /\ client' \in {"here", "stalled", "lost"} \ {client}
  /\ UNCHANGED <<io, full, sshd, alive, silent, keeper, reader, writer, service,
                 queue, taken, written, broken, quiet>>

ClientReads ==
  /\ client = "here" /\ full
  /\ full' = FALSE
  /\ UNCHANGED <<io, client, sshd, alive, silent, keeper, reader, writer, service,
                 queue, taken, written, broken, quiet>>

\* The transport tells of a broken connection, when it can.
TransportFails ==
  /\ io = "open"
  /\ io' = "closed"
  /\ UNCHANGED <<client, full, sshd, alive, silent, keeper, reader, writer, service,
                 queue, taken, written, broken, quiet>>

SshdCloses ==
  /\ sshd # "closed"
  /\ sshd' = "closed"
  /\ UNCHANGED <<io, client, full, alive, silent, keeper, reader, writer, service,
                 queue, taken, written, broken, quiet>>

-----------------------------------------------------------------------------
ServiceStep == AnyFrame \/ CloseFrame \/ DataFrame \/ Place \/ DropService
WriterStep  == Write \/ WriterEnds \/ Shutdown
ReaderStep  == ReadEnd \/ ReadChunk \/ Capacity
Outside     == ClientChanges \/ ClientReads \/ TransportFails \/ SshdCloses

RelayNext == ServiceStep \/ WriterStep \/ ReaderStep \/ Interval \/ Outside

\* The tasks are scheduled, and time passes; ntex goes on with a frame once
\* there is room and drops the service of a closed connection; sshd closes
\* when it has read the end of its input.  Nothing is owed by the client, and
\* sshd owes no output.
SshdHangsUp == sshd = "ended" /\ SshdCloses

RelaySpec ==
  /\ RelayInit /\ [][RelayNext]_relayVars
  /\ WF_relayVars(Place) /\ WF_relayVars(DropService)
  /\ WF_relayVars(WriterStep) /\ WF_relayVars(ReadEnd \/ Capacity)
  /\ WF_relayVars(Interval) /\ WF_relayVars(SshdHangsUp)

RelayTypeOK ==
  /\ io \in {"open", "closed"} /\ client \in {"here", "stalled", "lost"}
  /\ full \in BOOLEAN /\ sshd \in {"open", "ended", "closed"}
  /\ alive \in BOOLEAN /\ silent \in 0..Rounds /\ keeper \in {"running", "done"}
  /\ reader \in {"reading", "waiting", "done"}
  /\ writer \in {"running", "draining", "done"}
  /\ service \in {"idle", "sending", "refused", "dropped"}
  /\ queue \in 0..QueueBound /\ taken \in 0..ChunkBound /\ written \in 0..ChunkBound
  /\ broken \in BOOLEAN /\ quiet \in 0..Rounds + 1

\* The keepalive closes a tunnel only after Rounds whole intervals in which
\* no frame at all was handled: one frame, however late in an interval, buys
\* the whole time again (PONG_TIMEOUT over PING_INTERVAL, "any traffic at all
\* counts as proof of life").
KeepaliveIsFair ==
  [][io = "open" /\ io' = "closed" /\ keeper = "running" /\ keeper' = "done"
       => quiet' > Rounds]_relayVars

\* What the service took from a client reaches sshd before the FIN, also when
\* the client has closed behind it, unless a write failed.
TakenIsWritten == writer = "done" /\ ~broken => written = taken

\* A client that vanishes gives its slot back, whatever it left in the queue
\* and whether or not its end of the connection was ever heard of again.
SlotComesBack == client = "lost" ~> ~Held

\* When sshd closes, every task of the relay ends and the slot is free, for
\* any client that does not leave its output unread for ever: the reader
\* polls for room before it looks at sshd again.
RelayEndsWithSshd ==
  <>[]~full => (sshd = "closed" ~> io = "closed" /\ ~Held /\ writer = "done")
=============================================================================
