----------------------------- MODULE Scrollback -----------------------------
(***************************************************************************)
(* struct Scrollback of src/monitor/src/api/ws/session.rs: the last        *)
(* Capacity bytes of a session's output and the count of all of them.      *)
(*                                                                         *)
(* A byte is abstracted to its absolute position in the output, so that    *)
(* "which bytes" can be asked of a buffer; the operators never look at     *)
(* what a byte is.                                                         *)
(***************************************************************************)
EXTENDS Integers, Sequences

CONSTANT Capacity  \* scrollback_bytes; 0 is a buffer that keeps nothing

ASSUME CapacityAssumption == Capacity \in Nat

\* The bytes at positions from .. to-1.
Bytes(from, to) == [i \in 1..(to - from) |-> from + i - 1]

EmptyScrollback == [buf |-> <<>>, next_seq |-> 0]

\* The last n elements of s, all of them when there are fewer.
Newest(s, n) == IF Len(s) > n THEN SubSeq(s, Len(s) - n + 1, Len(s)) ELSE s

\* usize::saturating_sub
SaturatingSub(a, b) == IF a > b THEN a - b ELSE 0

\* MUTANT: makes room at the wrong end.
PushDropsNewest(sb, data) ==
  LET kept     == Newest(data, Capacity)
      overflow == SaturatingSub(Len(sb.buf) + Len(kept), Capacity)
  IN [buf      |-> SubSeq(sb.buf, 1, Len(sb.buf) - overflow) \o kept,
      next_seq |-> sb.next_seq + Len(data)]

Push(sb, data) ==
  LET kept     == Newest(data, Capacity)
      overflow == SaturatingSub(Len(sb.buf) + Len(kept), Capacity)
  IN [buf      |-> SubSeq(sb.buf, overflow + 1, Len(sb.buf)) \o kept,
      next_seq |-> sb.next_seq + Len(data)]

\* Position of the oldest byte still held.
StartSeq(sb) == sb.next_seq - Len(sb.buf)

\* MUTANT: skips one byte too many.
ReplaySkipsOne(sb, since) ==
  IF since >= sb.next_seq
  THEN [kind |-> "gap", bytes |-> <<>>]
  ELSE IF since < StartSeq(sb)
  THEN [kind |-> "truncated", bytes |-> sb.buf]
  ELSE [kind |-> "gap", bytes |-> SubSeq(sb.buf, since - StartSeq(sb) + 2, Len(sb.buf))]

\* MUTANT: a gap is answered with all there is.
ReplayWhole(sb, since) ==
  IF since >= sb.next_seq
  THEN [kind |-> "gap", bytes |-> <<>>]
  ELSE [kind |-> IF since < StartSeq(sb) THEN "truncated" ELSE "gap", bytes |-> sb.buf]

\* MUTANT: a client one byte behind is taken to be up to date.
ReplayFromLate(sb, since) ==
  IF since + 1 >= sb.next_seq
  THEN [kind |-> "gap", bytes |-> <<>>]
  ELSE IF since < StartSeq(sb)
  THEN [kind |-> "truncated", bytes |-> sb.buf]
  ELSE [kind |-> "gap", bytes |-> SubSeq(sb.buf, since - StartSeq(sb) + 1, Len(sb.buf))]

\* What a client that has rendered `since` bytes is sent.  Gap splices onto its
\* screen; Truncated must be drawn on an empty one.
ReplayFrom(sb, since) ==
  IF since >= sb.next_seq
  THEN [kind |-> "gap", bytes |-> <<>>]
  ELSE IF since < StartSeq(sb)
  THEN [kind |-> "truncated", bytes |-> sb.buf]
  ELSE [kind |-> "gap", bytes |-> SubSeq(sb.buf, since - StartSeq(sb) + 1, Len(sb.buf))]

\* What the doc comment of Scrollback promises: the newest bytes, no more than
\* Capacity of them, none missing and none out of place.
HoldsTail(sb) ==
  LET held == IF sb.next_seq < Capacity THEN sb.next_seq ELSE Capacity
  IN sb.buf = Bytes(sb.next_seq - held, sb.next_seq)
=============================================================================
