-------------------------- MODULE MCTerminalResume --------------------------
(* The properties of TerminalResume that speak of whole byte streams, and   *)
(* its instances for TLC.                                                   *)
EXTENDS TerminalResume, SequencesExt

\* The bytes this link has still to deliver: on the wire, then in the queue.
Stream ==
  FlattenSeq([i \in DOMAIN wire |-> IF wire[i].type = "binary" THEN wire[i].bytes ELSE <<>>])
    \o FlattenSeq(queue)

\* What an attach replays and what its channel gets afterwards meet exactly:
\* no byte the shell prints around an attach is lost between the two or sent
\* twice, as long as the queue had room (session.rs 176-180 and 194-199).
ReplayMeetsLive ==
  attached /\ ~dropped => Stream = Bytes(seen, sb.next_seq)

\* Even a link that dropped live copies only ever skips: what it delivers is in
\* order and nothing comes twice on one link.
StreamAscends ==
  attached => /\ \A i, j \in DOMAIN Stream : i < j => Stream[i] < Stream[j]
              /\ \A i \in DOMAIN Stream : Stream[i] >= seen

clean == ~lossy /\ ~cut /\ ~overlap

Drained == attached /\ wire = <<>> /\ queue = <<>> /\ writes = <<>>

UpToDate == base..(sb.next_seq - 1) \subseteq screen

Drawn == base..(rendered - 1) \subseteq screen

\* The counter never leads what was drawn in any behaviour whose queues had
\* room, whose outages fit the buffer and whose renderer was idle at each
\* attach; lost links, reloads and lagging saves included.
NeverLeadsWhenClean == clean => Drawn

\* In those behaviours a client with nothing left in flight has drawn
\* everything the shell printed since its page was loaded.
SeamlessWhenClean == clean /\ Drained => UpToDate

\* A link delivers what it should, and the client counts what it drew.
LinkIsExact ==
  /\ ReplayMeetsLive /\ StreamAscends
  /\ NeverLeadsWhenClean /\ SeamlessWhenClean

\* A link that stays up brings the client up to date, if nothing was dropped:
\* no message waits for ever between the shell and the screen.
CatchesUp ==
  <>[](link = "up" /\ clean)
    => <>[](rendered = sb.next_seq /\ UpToDate)

\* "allowed to lag, never to lead" (terminal.svelte.ts 16-19): every position
\* the counter has passed is on the screen or was declared lost.
CounterNeverLeads == Drawn

\* "the scrollback already has the bytes, so dropping the live copy loses
\* nothing that a reattach can't recover" (session.rs 186-188): once a client
\* has reattached inside the buffer and nothing is left in flight, what an
\* earlier link dropped is on its screen.
DropIsRecovered ==
  ~cut /\ ~overlap /\ ~dropped /\ Drained => UpToDate
=============================================================================
