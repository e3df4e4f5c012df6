------------------------ MODULE TerminalResumeProofs ------------------------
(***************************************************************************)
(* Proofs about TerminalResume, for every capacity, queue and wire size    *)
(* and every number of lost links and reloads: the buffer is the newest    *)
(* bytes, a link delivers what its attach and its channel owe it, once and *)
(* in order, and as long as nothing was dropped, truncated or overlapped,  *)
(* the client's counter is what it drew.                                   *)
(*                                                                         *)
(* First what Scrollback's operators return: push keeps the newest bytes   *)
(* in order, replay_from answers the bytes a client missed and nothing     *)
(* else.  Then what the streams of a link are made of: chunks of bytes,    *)
(* joined and flattened, and the runs of ascending positions in them.      *)
(* Flattening is a fold, so its lemmas go by induction, over the set of    *)
(* the lengths for which they hold (SetInduction).                         *)
(***************************************************************************)
EXTENDS MCTerminalResume, SequenceTheorems, WellFoundedInduction, TLAPS

-----------------------------------------------------------------------------
(* The scrollback ring.                                                    *)

\* A run of bytes is a sequence of positions of the length it says.
LEMMA BytesType ==
  ASSUME NEW a \in Nat, NEW b \in Nat, a <= b
  PROVE  /\ Bytes(a, b) \in Seq(Nat)
         /\ Len(Bytes(a, b)) = b - a
         /\ DOMAIN Bytes(a, b) = 1..(b - a)
         /\ \A i \in 1..(b - a) : Bytes(a, b)[i] = a + i - 1
<1>1. b - a \in Nat /\ \A i \in 1..(b - a) : a + i - 1 \in Nat
  OBVIOUS
<1> QED
  BY <1>1 DEF Bytes

\* The rest of a run from its k-th byte on is the run from there.
LEMMA BytesSuffix ==
  ASSUME NEW a \in Nat, NEW b \in Nat, a <= b, NEW k \in Nat, k <= b - a
  PROVE  SubSeq(Bytes(a, b), k + 1, b - a) = Bytes(a + k, b)
<1>1. /\ Bytes(a, b) \in Seq(Nat)
      /\ Len(Bytes(a, b)) = b - a
      /\ \A i \in 1..(b - a) : Bytes(a, b)[i] = a + i - 1
  BY BytesType
<1>2. SubSeq(Bytes(a, b), k + 1, b - a)
        = [i \in 1..(b - a - k) |-> Bytes(a, b)[i + k]]
  BY <1>1
<1>3. \A i \in 1..(b - a - k) : Bytes(a, b)[i + k] = (a + k) + i - 1
  BY <1>1
<1>4. b - (a + k) = b - a - k
  OBVIOUS
<1> QED
  BY <1>2, <1>3, <1>4 DEF Bytes

\* Two runs that meet are one.
LEMMA BytesJoin ==
  ASSUME NEW a \in Nat, NEW b \in Nat, NEW c \in Nat, a <= b, b <= c
  PROVE  Bytes(a, b) \o Bytes(b, c) = Bytes(a, c)
<1> DEFINE s == Bytes(a, b)
           t == Bytes(b, c)
<1>1. /\ s \in Seq(Nat) /\ Len(s) = b - a
      /\ \A i \in 1..(b - a) : s[i] = a + i - 1
      /\ t \in Seq(Nat) /\ Len(t) = c - b
      /\ \A i \in 1..(c - b) : t[i] = b + i - 1
  BY BytesType
<1> HIDE DEF s, t
<1>2. s \o t \in Seq(Nat) /\ Len(s \o t) = c - a
  <2>1. Len(s \o t) = Len(s) + Len(t)
    BY <1>1, ConcatProperties
  <2>2. s \o t \in Seq(Nat)
    BY <1>1, ConcatProperties
  <2> QED
    BY <1>1, <2>1, <2>2
<1>3. \A i \in 1..(c - a) : (s \o t)[i] = a + i - 1
  <2> SUFFICES ASSUME NEW i \in 1..(c - a)
               PROVE  (s \o t)[i] = a + i - 1
    OBVIOUS
  <2>1. i \in 1..(Len(s) + Len(t))
    BY <1>1
  <2>2. (s \o t)[i] = IF i <= Len(s) THEN s[i] ELSE t[i - Len(s)]
    BY <1>1, <2>1, ConcatProperties
  <2>3. CASE i <= b - a
    BY <1>1, <2>2, <2>3
  <2>4. CASE ~(i <= b - a)
    <3>1. i - (b - a) \in 1..(c - b)
      BY <2>4
    <3> QED
      BY <1>1, <2>2, <2>4, <3>1
  <2> QED
    BY <2>3, <2>4
<1>4. /\ Bytes(a, c) \in Seq(Nat) /\ Len(Bytes(a, c)) = c - a
      /\ \A i \in 1..(c - a) : Bytes(a, c)[i] = a + i - 1
  <2>1. a <= c
    OBVIOUS
  <2> QED
    BY <2>1, BytesType
<1>5. s \o t = Bytes(a, c)
  BY <1>2, <1>3, <1>4, SeqEqual
<1> QED
  BY <1>5 DEF s, t

ScrollbackType == [buf : Seq(Nat), next_seq : Nat]

\* push keeps the newest Capacity bytes and counts all of them, whether the
\* write fits, overflows the buffer or is larger than all of it.
THEOREM PushHoldsTail ==
  ASSUME NEW ring \in ScrollbackType, HoldsTail(ring), NEW n \in Nat
  PROVE  LET pushed == Push(ring, Bytes(ring.next_seq, ring.next_seq + n))
         IN  /\ pushed \in ScrollbackType
             /\ pushed.next_seq = ring.next_seq + n
             /\ HoldsTail(pushed)
<1> DEFINE N    == ring.next_seq
           h    == IF N < Capacity THEN N ELSE Capacity
           data == Bytes(N, N + n)
           m    == IF n < Capacity THEN n ELSE Capacity
           h2   == IF N + n < Capacity THEN N + n ELSE Capacity
           over == SaturatingSub(h + m, Capacity)
<1>1. N \in Nat /\ h \in Nat /\ h <= N /\ m \in Nat /\ m <= n /\ h2 \in Nat /\ h2 <= N + n
  BY CapacityAssumption DEF ScrollbackType
<1>2. over \in Nat /\ over <= h
  BY <1>1, CapacityAssumption DEF SaturatingSub
<1>3. ring.buf = Bytes(N - h, N) /\ Len(ring.buf) = h
  <2>1. ring.buf = Bytes(N - h, N)
    BY DEF HoldsTail
  <2>2. N - h \in Nat /\ N - h <= N
    BY <1>1
  <2>3. Len(Bytes(N - h, N)) = N - (N - h)
    BY <1>1, <2>2, BytesType
  <2> QED
    BY <1>1, <2>1, <2>3
<1>4. Newest(data, Capacity) = Bytes(N + n - m, N + n)
  <2>1. Len(data) = n
    <3>1. N + n \in Nat /\ N <= N + n
      BY <1>1
    <3>2. Len(Bytes(N, N + n)) = (N + n) - N
      BY <1>1, <3>1, BytesType
    <3> QED
      BY <1>1, <3>2
  <2>2. CASE n > Capacity
    <3>1. SubSeq(data, (n - m) + 1, n) = Bytes(N + (n - m), N + n)
      <4>1. N <= N + n /\ N + n \in Nat /\ n - m \in Nat /\ n - m <= (N + n) - N
        BY <1>1
      <4>2. SubSeq(Bytes(N, N + n), (n - m) + 1, (N + n) - N) = Bytes(N + (n - m), N + n)
        BY <1>1, <4>1, BytesSuffix
      <4> QED
        BY <1>1, <4>2
    <3>2. m = Capacity /\ N + (n - m) = N + n - m
      BY <1>1, <2>2, CapacityAssumption
    <3> QED
      BY <2>1, <2>2, <3>1, <3>2 DEF Newest
  <2>3. CASE ~(n > Capacity)
    <3>1. m = n /\ N + n - m = N
      BY <1>1, <2>3, CapacityAssumption
    <3> QED
      BY <2>1, <2>3, <3>1 DEF Newest
  <2> QED
    BY <2>2, <2>3
<1>5. Len(Newest(data, Capacity)) = m
  <2>1. N + n - m \in Nat /\ N + n \in Nat /\ N + n - m <= N + n
    BY <1>1
  <2>2. Len(Bytes(N + n - m, N + n)) = (N + n) - (N + n - m)
    BY <2>1, BytesType
  <2> QED
    BY <1>1, <1>4, <2>2
<1>6. SubSeq(ring.buf, over + 1, Len(ring.buf)) = Bytes(N - h + over, N)
  <2>1. N - h \in Nat /\ N - h <= N /\ over <= N - (N - h) /\ N - (N - h) = h
    BY <1>1, <1>2
  <2>2. SubSeq(Bytes(N - h, N), over + 1, N - (N - h)) = Bytes(N - h + over, N)
    BY <1>1, <1>2, <2>1, BytesSuffix
  <2> QED
    BY <1>3, <2>1, <2>2
<1>7. Bytes(N - h + over, N) \o Bytes(N + n - m, N + n) = Bytes(N + n - h2, N + n)
  <2>1. CASE n < Capacity
    <3>1. m = n /\ N - h + over = N + n - h2
      BY <1>1, <2>1, CapacityAssumption DEF SaturatingSub
    <3>2. N - h + over \in Nat /\ N - h + over <= N /\ N + n - m = N
      BY <1>1, <1>2, <3>1
    <3>3. N + n \in Nat /\ N <= N + n
      BY <1>1
    <3>4. Bytes(N - h + over, N) \o Bytes(N, N + n) = Bytes(N - h + over, N + n)
      BY <1>1, <3>2, <3>3, BytesJoin
    <3> QED
      BY <3>1, <3>2, <3>4
  <2>2. CASE ~(n < Capacity)
    <3>1. m = Capacity /\ h2 = Capacity /\ over = h
      BY <1>1, <2>2, CapacityAssumption DEF SaturatingSub
    <3>2. N - h + over = N /\ N + n - m = N + n - h2
      BY <1>1, <3>1
    <3>3. Bytes(N, N) = <<>>
      <4>1. 1..(N - N) = {}
        BY <1>1
      <4> QED
        BY <4>1 DEF Bytes
    <3>4. Bytes(N + n - h2, N + n) \in Seq(Nat)
      <4>1. N + n - h2 \in Nat /\ N + n \in Nat /\ N + n - h2 <= N + n
        BY <1>1
      <4> QED
        BY <4>1, BytesType
    <3> QED
      BY <3>2, <3>3, <3>4
  <2> QED
    BY <2>1, <2>2
<1> DEFINE pushed == Push(ring, data)
<1>8. pushed = [buf |-> Bytes(N + n - h2, N + n), next_seq |-> N + n]
  <2>1. Len(data) = n
    <3>1. N + n \in Nat /\ N <= N + n
      BY <1>1
    <3>2. Len(Bytes(N, N + n)) = (N + n) - N
      BY <1>1, <3>1, BytesType
    <3> QED
      BY <1>1, <3>2
  <2> QED
    BY <2>1, <1>3, <1>4, <1>5, <1>6, <1>7 DEF Push
<1>9. Bytes(N + n - h2, N + n) \in Seq(Nat)
  <2>1. N + n - h2 \in Nat /\ N + n \in Nat /\ N + n - h2 <= N + n
    BY <1>1
  <2> QED
    BY <2>1, BytesType
<1> QED
  BY <1>1, <1>8, <1>9 DEF HoldsTail, ScrollbackType

\* replay_from answers a gap exactly when the client's position is still in the
\* buffer or past its end, and then with all it missed and nothing else.
THEOREM ReplayIsExact ==
  ASSUME NEW ring \in ScrollbackType, HoldsTail(ring), NEW from \in Nat
  PROVE  /\ ReplayFrom(ring, from).kind = "truncated" <=> from < StartSeq(ring)
         /\ StartSeq(ring) <= from /\ from <= ring.next_seq
              => ReplayFrom(ring, from).bytes = Bytes(from, ring.next_seq)
         /\ from < StartSeq(ring)
              => ReplayFrom(ring, from).bytes = Bytes(StartSeq(ring), ring.next_seq)
<1> DEFINE N == ring.next_seq
           h == IF N < Capacity THEN N ELSE Capacity
<1>1. N \in Nat /\ h \in Nat /\ h <= N
  BY CapacityAssumption DEF ScrollbackType
<1>2. ring.buf = Bytes(N - h, N) /\ Len(ring.buf) = h
  <2>1. ring.buf = Bytes(N - h, N)
    BY DEF HoldsTail
  <2>2. N - h \in Nat /\ N - h <= N
    BY <1>1
  <2>3. Len(Bytes(N - h, N)) = N - (N - h)
    BY <1>1, <2>2, BytesType
  <2> QED
    BY <1>1, <2>1, <2>3
<1>3. StartSeq(ring) = N - h /\ N - h \in Nat
  BY <1>1, <1>2 DEF StartSeq
<1>4. CASE from >= N
  <2>1. ReplayFrom(ring, from) = [kind |-> "gap", bytes |-> <<>>]
    BY <1>4 DEF ReplayFrom
  <2>2. Bytes(N, N) = <<>>
    <3>1. 1..(N - N) = {}
      BY <1>1
    <3> QED
      BY <3>1 DEF Bytes
  <2>3. from <= N => from = N
    BY <1>1, <1>4
  <2>4. ~(from < StartSeq(ring))
    BY <1>1, <1>3, <1>4
  <2> QED
    BY <2>1, <2>2, <2>3, <2>4
<1>5. CASE ~(from >= N) /\ from < StartSeq(ring)
  <2>1. ReplayFrom(ring, from) = [kind |-> "truncated", bytes |-> ring.buf]
    BY <1>5 DEF ReplayFrom
  <2> QED
    BY <2>1, <1>1, <1>2, <1>3, <1>5
<1>6. CASE ~(from >= N) /\ ~(from < StartSeq(ring))
  <2>1. ReplayFrom(ring, from)
          = [kind |-> "gap", bytes |-> SubSeq(ring.buf, from - (N - h) + 1, Len(ring.buf))]
    BY <1>3, <1>6 DEF ReplayFrom
  <2>2. /\ from - (N - h) \in Nat /\ from - (N - h) <= N - (N - h)
        /\ N - (N - h) = h /\ N - h <= N
    BY <1>1, <1>3, <1>6
  <2>3. SubSeq(Bytes(N - h, N), from - (N - h) + 1, N - (N - h))
          = Bytes(N - h + (from - (N - h)), N)
    BY <1>1, <1>3, <2>2, BytesSuffix
  <2>4. N - h + (from - (N - h)) = from
    BY <1>1
  <2>5. ReplayFrom(ring, from) = [kind |-> "gap", bytes |-> Bytes(from, N)]
    BY <1>2, <2>1, <2>2, <2>3, <2>4
  <2> QED
    BY <2>5, <1>6
<1> QED
  BY <1>4, <1>5, <1>6

-----------------------------------------------------------------------------
(* Chunks, joined and flattened.                                           *)

\* Induction over the positive numbers, for a set of them.
LEMMA SetInduction ==
  ASSUME NEW S, 1 \in S, \A n \in Nat \ {0} : n \in S => n + 1 \in S
  PROVE  \A n \in Nat \ {0} : n \in S
<1> DEFINE Missing == {n \in Nat : n # 0 /\ n \notin S}
<1>1. SUFFICES ASSUME Missing # {} PROVE FALSE
  OBVIOUS
<1>2. Missing \subseteq Nat
  OBVIOUS
<1> HIDE DEF Missing
<1>3. PICK x \in Missing : \A y \in Missing : ~(<<y, x>> \in OpToRel(<, Nat))
  BY <1>1, <1>2, NatLessThanWellFounded, WFMin, Zenon
<1>4. \A y \in Missing : ~(y < x)
  BY <1>2, <1>3, Zenon DEF OpToRel
<1>5. x \in Nat /\ x # 0 /\ x \notin S /\ x # 1
  BY DEF Missing
<1>6. x - 1 \in Nat \ {0} /\ x - 1 < x
  BY <1>5
<1>7. x - 1 \in S
  BY <1>4, <1>6 DEF Missing
<1> QED
  BY <1>5, <1>6, <1>7

Join(a, b) == a \o b

\* f holds the partial results of flattening the first n elements of s.
Flattening(s, n, f) == f = [i \in 1..n |-> IF i = 1 THEN s[i] ELSE Join(f[i-1], s[i])]

\* What partial results say of one element and the next.
LEMMA FlatteningIs ==
  ASSUME NEW s, NEW n \in Nat \ {0}, NEW f, Flattening(s, n, f)
  PROVE  f[1] = s[1] /\ \A i \in 1..n : i # 1 => f[i] = Join(f[i - 1], s[i])
<1>1. 1 \in 1..n
  OBVIOUS
<1> QED BY <1>1, Zenon DEF Flattening

\* There are partial results for any number of elements.
LEMMA FlatteningExists ==
  ASSUME NEW s, NEW n \in Nat \ {0} PROVE \E f : Flattening(s, n, f)
<1> DEFINE S == {k \in Nat : \E f : Flattening(s, k, f)}
<1>1. 1 \in S
  <2> DEFINE f == [i \in 1..1 |-> s[1]]
  <2>1. Flattening(s, 1, f)
    BY DEF Flattening
  <2> QED BY <2>1
<1>2. ASSUME NEW k \in Nat \ {0}, k \in S PROVE k + 1 \in S
  <2>1. PICK f : Flattening(s, k, f)
    BY <1>2
  <2> DEFINE g == [i \in 1..(k + 1) |-> IF i <= k THEN f[i] ELSE Join(f[k], s[k + 1])]
  <2>2. \A i \in 1..k : g[i] = f[i] /\ f[i] = IF i = 1 THEN s[i] ELSE Join(f[i-1], s[i])
    BY <2>1 DEF Flattening
  <2>3. g[k + 1] = Join(f[k], s[k + 1]) /\ g = [i \in 1..(k + 1) |-> g[i]]
    OBVIOUS
  <2> HIDE DEF g
  <2>4. ASSUME NEW i \in 1..(k + 1)
        PROVE  g[i] = IF i = 1 THEN s[i] ELSE Join(g[i-1], s[i])
    <3>1. CASE i = k + 1
      BY <2>2, <2>3, <3>1
    <3>2. CASE i \in 1..k
      <4>1. i # 1 => i - 1 \in 1..k
        BY <3>2
      <4> QED BY <2>2, <3>2, <4>1
    <3> QED BY <3>1, <3>2
  <2>5. Flattening(s, k + 1, g)
    BY <2>3, <2>4 DEF Flattening
  <2> QED BY <2>5
<1> HIDE DEF S
<1>3. n \in S
  BY <1>1, <1>2, SetInduction
<1> QED
  BY <1>3 DEF S

Chunk == Seq(Nat)

\* Joining chunks gives a chunk, in whatever order it is done.
LEMMA ChunksJoin ==
  /\ \A a, b \in Chunk : Join(a, b) \in Chunk
  /\ \A a, b, c \in Chunk : Join(Join(a, b), c) = Join(a, Join(b, c))
  BY ConcatProperties, ConcatAssociative DEF Join, Chunk

\* The partial results are sequences too.
LEMMA FlatteningType ==
  ASSUME NEW s, NEW n \in Nat \ {0}, \A i \in 1..n : s[i] \in Chunk, NEW f, Flattening(s, n, f)
  PROVE  \A i \in 1..n : f[i] \in Chunk
<1>1. f[1] = s[1] /\ \A i \in 1..n : i # 1 => f[i] = Join(f[i - 1], s[i])
  BY FlatteningIs, Zenon
<1> DEFINE S == {k \in Nat : k <= n => f[k] \in Chunk}
<1>2. 1 \in S
  BY <1>1
<1>3. ASSUME NEW k \in Nat \ {0}, k \in S PROVE k + 1 \in S
  <2>1. CASE k + 1 <= n
    <3>1. k + 1 \in 1..n /\ k + 1 # 1 /\ (k + 1) - 1 = k /\ f[k] \in Chunk
      BY <1>3, <2>1
    <3>2. f[k + 1] = Join(f[k], s[k + 1]) /\ s[k + 1] \in Chunk
      BY <1>1, <3>1
    <3>3. f[k + 1] \in Chunk
      BY <3>1, <3>2, ChunksJoin, Zenon
    <3> QED BY <3>3
  <2> QED BY <2>1
<1> HIDE DEF S
<1>4. \A k \in Nat \ {0} : k \in S
  BY <1>2, <1>3, SetInduction
<1> QED
  BY <1>4 DEF S

\* Flattening a longer sequence starts with the same results.
LEMMA FlatteningPrefix ==
  ASSUME NEW s, NEW t, NEW n \in Nat \ {0}, NEW m \in Nat, n <= m,
         \A i \in 1..n : t[i] = s[i],
         NEW f, Flattening(s, n, f), NEW g, Flattening(t, m, g)
  PROVE  g[n] = f[n]
<1>1. f[1] = s[1] /\ \A i \in 1..n : i # 1 => f[i] = Join(f[i - 1], s[i])
  BY FlatteningIs, Zenon
<1>2. g[1] = t[1] /\ \A i \in 1..m : i # 1 => g[i] = Join(g[i - 1], t[i])
  <2>1. m \in Nat \ {0}
    OBVIOUS
  <2> QED BY <2>1, FlatteningIs, Zenon
<1> DEFINE S == {k \in Nat : k <= n => g[k] = f[k]}
<1>3. 1 \in S
  BY <1>1, <1>2
<1>4. ASSUME NEW k \in Nat \ {0}, k \in S PROVE k + 1 \in S
  <2>1. CASE k + 1 <= n
    <3>1. k + 1 \in 1..n /\ k + 1 \in 1..m /\ k + 1 # 1 /\ (k + 1) - 1 = k /\ g[k] = f[k]
      BY <1>4, <2>1
    <3> QED BY <1>1, <1>2, <3>1
  <2> QED BY <2>1
<1> HIDE DEF S
<1>5. n \in S
  BY <1>3, <1>4, SetInduction
<1> QED
  BY <1>5 DEF S

AllChunks(s, n) == \A i \in 1..n : s[i] \in Chunk
IsRest(t, s, n) == \A i \in 1..n : t[i] = s[i + 1]

\* Flattening the rest and putting the head before it is flattening the whole.
LEMMA FlatteningShift ==
  ASSUME NEW s, NEW t, NEW n \in Nat \ {0}, NEW m \in Nat, m = n + 1,
         AllChunks(s, m), IsRest(t, s, n), NEW f, Flattening(s, m, f), NEW g, Flattening(t, n, g)
  PROVE  f[m] = Join(s[1], g[n])
<1> USE DEF AllChunks, IsRest
<1>1. f[1] = s[1] /\ \A i \in 1..n + 1 : i # 1 => f[i] = Join(f[i - 1], s[i])
  <2>1. m \in Nat \ {0}
    OBVIOUS
  <2>2. Flattening(s, m, f)
    OBVIOUS
  <2> HIDE DEF AllChunks, IsRest
  <2>3. f[1] = s[1] /\ \A i \in 1..m : i # 1 => f[i] = Join(f[i - 1], s[i])
    BY ONLY <2>1, <2>2, FlatteningIs
  <2> QED BY <2>3, Zenon
<1>2. g[1] = t[1] /\ \A i \in 1..n : i # 1 => g[i] = Join(g[i - 1], t[i])
  BY FlatteningIs, Zenon
<1>3. \A i \in 1..n : g[i] \in Chunk
  <2>1. \A i \in 1..n : t[i] \in Chunk
    <3> TAKE i \in 1..n
    <3>1. i + 1 \in 1..n + 1
      OBVIOUS
    <3> QED BY <3>1
  <2> QED BY <2>1, FlatteningType
<1> DEFINE S == {k \in Nat : k <= n => f[k + 1] = Join(s[1], g[k])}
<1>4. 1 \in S
  <2>1. 2 \in 1..n + 1 /\ 1 \in 1..n
    OBVIOUS
  <2>2. f[2] = Join(f[1], s[2]) /\ t[1] = s[2]
    BY <1>1, <2>1
  <2> QED BY <1>1, <1>2, <2>2
<1>5. ASSUME NEW k \in Nat \ {0}, k \in S PROVE k + 1 \in S
  <2>1. CASE k + 1 <= n
    <3>1. /\ k + 2 \in 1..n + 1 /\ k + 2 # 1 /\ (k + 2) - 1 = k + 1 /\ (k + 1) + 1 = k + 2
          /\ k + 1 \in 1..n /\ k + 1 # 1 /\ (k + 1) - 1 = k /\ k \in 1..n /\ 1 \in 1..n + 1
          /\ f[k + 1] = Join(s[1], g[k])
      BY <1>5, <2>1
    <3>2. f[k + 2] = Join(f[k + 1], s[k + 2]) /\ g[k + 1] = Join(g[k], s[k + 2])
      BY <1>1, <1>2, <3>1
    <3>3. s[1] \in Chunk /\ g[k] \in Chunk /\ s[k + 2] \in Chunk
      BY <1>3, <3>1
    <3>4. f[k + 2] = Join(s[1], g[k + 1])
      <4>1. Join(Join(s[1], g[k]), s[k + 2]) = Join(s[1], Join(g[k], s[k + 2]))
        BY <3>3, ChunksJoin, Zenon
      <4> QED BY <3>1, <3>2, <4>1, Zenon
    <3> QED BY <3>1, <3>4
  <2> QED BY <2>1
<1> HIDE DEF S
<1>6. n \in S
  BY <1>4, <1>5, SetInduction
<1> QED
  BY <1>6 DEF S

-----------------------------------------------------------------------------
SeqsOfSeqs == Seq(Chunk)

\* A sequence of chunks by its elements.
LEMMA SeqsElements ==
  ASSUME NEW s \in SeqsOfSeqs
  PROVE  Len(s) \in Nat /\ (s # <<>> <=> Len(s) # 0) /\ \A i \in 1..Len(s) : s[i] \in Chunk
  BY DEF SeqsOfSeqs

\* Nothing flattened is nothing.
LEMMA FlattenOfNone == FlattenSeq(<<>>) = <<>>
  BY DEF FlattenSeq

\* What FlattenSeq is: the last of the partial results.
LEMMA FlattenIsLast ==
  ASSUME NEW s \in SeqsOfSeqs, s # <<>>
  PROVE  \E f : Flattening(s, Len(s), f) /\ FlattenSeq(s) = f[Len(s)]
<1> DEFINE n == Len(s)
           f == CHOOSE f : Flattening(s, n, f)
<1>1. n \in Nat \ {0}
  BY SeqsElements
<1>2. Flattening(s, n, f)
  BY <1>1, FlatteningExists
<1>3. FlattenSeq(s) = f[n]
  BY <1>1, Zenon DEF FlattenSeq, Flattening, Join
<1> QED
  BY <1>2, <1>3

\* Chunks flatten to a chunk.
LEMMA FlattenType ==
  ASSUME NEW s \in SeqsOfSeqs PROVE FlattenSeq(s) \in Chunk
<1>1. CASE s = <<>>
  <2>1. FlattenSeq(s) = <<>>
    BY <1>1, FlattenOfNone, Zenon
  <2>2. <<>> \in Chunk
    BY DEF Chunk
  <2> QED BY <2>1, <2>2, Zenon
<1>2. CASE s # <<>>
  <2>1. PICK f : Flattening(s, Len(s), f) /\ FlattenSeq(s) = f[Len(s)]
    BY <1>2, FlattenIsLast
  <2>2. Len(s) \in Nat \ {0} /\ Len(s) \in 1..Len(s) /\ \A i \in 1..Len(s) : s[i] \in Chunk
    BY <1>2, SeqsElements
  <2>3. \A i \in 1..Len(s) : f[i] \in Chunk
    BY <2>1, <2>2, FlatteningType, Zenon
  <2> QED BY <2>1, <2>2, <2>3
<1> QED BY <1>1, <1>2

\* Flattening runs from the head: the first element, then the rest flattened.
LEMMA FlattenHead ==
  ASSUME NEW s \in SeqsOfSeqs, s # <<>>
  PROVE  /\ s[1] \in Chunk /\ Tail(s) \in SeqsOfSeqs
         /\ FlattenSeq(s) = s[1] \o FlattenSeq(Tail(s))
<1> DEFINE n == Len(s) - 1
           t == Tail(s)
<1>1. Len(s) \in Nat \ {0} /\ \A i \in 1..Len(s) : s[i] \in Chunk
  BY SeqsElements
<1>2. t \in SeqsOfSeqs /\ Len(t) = n /\ \A i \in 1..n : t[i] = s[i + 1]
  BY DEF SeqsOfSeqs
<1>3. PICK f : Flattening(s, Len(s), f) /\ FlattenSeq(s) = f[Len(s)]
  BY FlattenIsLast
<1>4. s[1] \in Chunk
  BY <1>1
<1> HIDE DEF t
<1>5. CASE n = 0
  <2>1. f[1] = s[1] /\ Len(s) = 1
    BY <1>1, <1>3, <1>5 DEF Flattening
  <2>2. t = <<>>
    BY <1>2, <1>5, SeqsElements
  <2>3. s[1] \o <<>> = s[1]
    BY <1>4 DEF Chunk
  <2> QED BY <1>2, <1>3, <1>4, <2>1, <2>2, <2>3, FlattenOfNone, Zenon DEF t
<1>6. CASE n # 0
  <2>1. n \in Nat \ {0} /\ n + 1 = Len(s) /\ t # <<>>
    BY <1>1, <1>2, <1>6, SeqsElements
  <2>2. PICK g : Flattening(t, Len(t), g) /\ FlattenSeq(t) = g[Len(t)]
    BY <1>2, <2>1, FlattenIsLast
  <2>3. \A i \in 1..n + 1 : s[i] \in Chunk
    BY <1>1, <2>1
  <2>4. Flattening(s, n + 1, f) /\ Flattening(t, n, g)
    BY <1>2, <1>3, <2>1, <2>2
  <2> HIDE DEF n
  <2>5. PICK m \in Nat : m = n + 1
    BY <2>1
  <2>6. AllChunks(s, m) /\ IsRest(t, s, n)
    BY <1>2, <2>3, <2>5 DEF AllChunks, IsRest
  <2>7. Flattening(s, m, f)
    BY <2>4, <2>5
  <2>8. f[m] = Join(s[1], g[n])
    BY <2>1, <2>4, <2>5, <2>6, <2>7, FlatteningShift, SMTT(30)
  <2> QED BY <1>2, <1>3, <1>4, <2>1, <2>2, <2>5, <2>8 DEF Join, t
<1> QED BY <1>5, <1>6

\* And to the end: the others flattened, then the last element.
LEMMA FlattenLast ==
  ASSUME NEW s \in SeqsOfSeqs, NEW x \in Chunk
  PROVE  /\ Append(s, x) \in SeqsOfSeqs
         /\ FlattenSeq(Append(s, x)) = FlattenSeq(s) \o x
<1> DEFINE t == Append(s, x)
           n == Len(s)
<1>1. n \in Nat /\ (s # <<>> <=> n # 0)
  BY SeqsElements
<1>2. t \in SeqsOfSeqs /\ Len(t) = n + 1 /\ t[n + 1] = x /\ \A i \in 1..n : t[i] = s[i]
  BY DEF SeqsOfSeqs
<1> HIDE DEF t
<1>3. t # <<>>
  BY <1>1, <1>2, SeqsElements
<1>4. PICK g : Flattening(t, n + 1, g) /\ FlattenSeq(t) = g[n + 1]
  BY <1>2, <1>3, FlattenIsLast
<1>5. CASE n = 0
  <2>1. g[1] = t[1]
    BY <1>4, <1>5 DEF Flattening
  <2>2. s = <<>> /\ <<>> \o x = x
    BY <1>1, <1>5 DEF Chunk
  <2>3. FlattenSeq(t) = x /\ FlattenSeq(s) = <<>>
    BY <1>2, <1>4, <1>5, <2>1, <2>2, FlattenOfNone
  <2> QED BY <1>2, <2>2, <2>3, Zenon DEF t
<1>6. CASE n # 0
  <2>1. PICK f : Flattening(s, n, f) /\ FlattenSeq(s) = f[n]
    BY <1>1, <1>6, FlattenIsLast
  <2>2. n \in Nat \ {0} /\ n + 1 \in Nat /\ n <= n + 1
    BY <1>1, <1>6
  <2>3. g[n + 1] = Join(g[n], t[n + 1])
    <3>1. n + 1 \in 1..(n + 1) /\ n + 1 # 1 /\ (n + 1) - 1 = n
      BY <2>2
    <3> HIDE DEF n
    <3> QED BY <1>4, <3>1 DEF Flattening
  <2> HIDE DEF n
  <2>4. g[n] = f[n]
    <3>1. PICK m \in Nat : m = n + 1
      BY <2>2
    <3>2. Flattening(t, m, g) /\ n <= m
      BY <1>4, <2>2, <3>1
    <3> QED BY <1>2, <2>1, <2>2, <3>1, <3>2, FlatteningPrefix, SMTT(30)
  <2> QED BY <1>2, <1>4, <2>1, <2>3, <2>4 DEF Join, t
<1> QED BY <1>5, <1>6

\* The empty chunk adds nothing on either side.
LEMMA ChunkNone == <<>> \in Chunk /\ \A x \in Chunk : Join(x, <<>>) = x /\ Join(<<>>, x) = x
  BY DEF Chunk, Join

\* FlattenHead and FlattenLast in terms of Join.
LEMMA FlatHead ==
  ASSUME NEW s \in SeqsOfSeqs, s # <<>>
  PROVE  /\ s[1] \in Chunk /\ Tail(s) \in SeqsOfSeqs /\ FlattenSeq(Tail(s)) \in Chunk
         /\ FlattenSeq(s) = Join(s[1], FlattenSeq(Tail(s)))
  BY FlattenHead, FlattenType, Zenon DEF Join

\* Flattening a sequence with one chunk more.
LEMMA FlatLast ==
  ASSUME NEW s \in SeqsOfSeqs, NEW x \in Chunk
  PROVE  /\ Append(s, x) \in SeqsOfSeqs /\ FlattenSeq(s) \in Chunk
         /\ FlattenSeq(Append(s, x)) = Join(FlattenSeq(s), x)
  BY FlattenLast, FlattenType, Zenon DEF Join

\* Join is associative.
LEMMA JoinAgain ==
  ASSUME NEW a \in Chunk, NEW b \in Chunk, NEW c \in Chunk
  PROVE  Join(Join(a, b), c) = Join(a, Join(b, c))
  BY ChunksJoin, Zenon

-----------------------------------------------------------------------------
(* Runs of ascending positions.                                            *)

Between(s, lo, hi) == \A i \in 1..Len(s) : lo <= s[i] /\ s[i] < hi
Ascends(s)         == \A i, j \in 1..Len(s) : i < j => s[i] < s[j]
Runs(s, lo, hi)    == Ascends(s) /\ Between(s, lo, hi)

\* A chunk by its elements.
LEMMA ChunkIs ==
  ASSUME NEW x \in Chunk
  PROVE  /\ Len(x) \in Nat /\ (x = <<>> <=> Len(x) = 0) /\ DOMAIN x = 1..Len(x)
         /\ \A i \in 1..Len(x) : x[i] \in Nat
  BY DEF Chunk

\* The elements of two chunks that were joined.
LEMMA JoinIs ==
  ASSUME NEW x \in Chunk, NEW y \in Chunk
  PROVE  /\ Join(x, y) \in Chunk /\ Len(Join(x, y)) = Len(x) + Len(y)
         /\ \A i \in 1..Len(x) : Join(x, y)[i] = x[i]
         /\ \A i \in 1..Len(y) : Join(x, y)[Len(x) + i] = y[i]
<1>1. /\ x \o y \in Seq(Nat) /\ Len(x \o y) = Len(x) + Len(y)
      /\ \A i \in 1..(Len(x) + Len(y)) :
           (x \o y)[i] = IF i <= Len(x) THEN x[i] ELSE y[i - Len(x)]
  BY ConcatProperties DEF Chunk
<1>2. Len(x) \in Nat /\ Len(y) \in Nat
  BY ChunkIs
<1>3. \A i \in 1..Len(x) : (x \o y)[i] = x[i]
  BY <1>1, <1>2
<1>4. \A i \in 1..Len(y) : (x \o y)[Len(x) + i] = y[i]
  <2> TAKE i \in 1..Len(y)
  <2>1. Len(x) + i \in 1..(Len(x) + Len(y)) /\ ~(Len(x) + i <= Len(x)) /\ (Len(x) + i) - Len(x) = i
    BY <1>2
  <2> QED BY <1>1, <2>1
<1> QED BY <1>1, <1>3, <1>4 DEF Join, Chunk

\* Two ascending runs one above the other make one.
LEMMA RunsJoin ==
  ASSUME NEW x \in Chunk, NEW y \in Chunk, NEW lo \in Nat, NEW mid \in Nat, NEW hi \in Nat,
         lo <= mid, mid <= hi, Runs(x, lo, mid), Runs(y, mid, hi)
  PROVE  Runs(Join(x, y), lo, hi)
<1> DEFINE z == Join(x, y)  m == Len(x)  n == Len(y)
<1>1. /\ m \in Nat /\ n \in Nat /\ Len(z) = m + n
      /\ \A i \in 1..m : z[i] = x[i] /\ x[i] \in Nat
      /\ \A i \in 1..n : z[m + i] = y[i] /\ y[i] \in Nat
  BY JoinIs, ChunkIs
<1>2. \A i \in 1..m : lo <= x[i] /\ x[i] < mid
  BY DEF Runs, Between
<1>3. \A i \in 1..n : mid <= y[i] /\ y[i] < hi
  BY DEF Runs, Between
<1>4. /\ \A i, j \in 1..m : i < j => x[i] < x[j]
      /\ \A i, j \in 1..n : i < j => y[i] < y[j]
  BY DEF Runs, Ascends
<1> HIDE DEF z, m, n
<1>5. ASSUME NEW i \in 1..(m + n)
      PROVE  \/ i \in 1..m /\ z[i] = x[i]
             \/ i - m \in 1..n /\ z[i] = y[i - m]
  <2>1. CASE i <= m
    BY <1>1, <2>1
  <2>2. CASE ~(i <= m)
    <3>1. i - m \in 1..n /\ m + (i - m) = i
      BY <1>1, <2>2
    <3> QED BY <1>1, <3>1
  <2> QED BY <2>1, <2>2
<1>6. ASSUME NEW i \in 1..(m + n) PROVE lo <= z[i] /\ z[i] < hi
  <2>1. CASE i \in 1..m /\ z[i] = x[i]
    <3>1. x[i] \in Nat /\ lo <= x[i] /\ x[i] < mid
      BY <1>1, <1>2, <2>1
    <3> QED BY <2>1, <3>1
  <2>2. CASE i - m \in 1..n /\ z[i] = y[i - m]
    <3>1. y[i - m] \in Nat /\ mid <= y[i - m] /\ y[i - m] < hi
      BY <1>1, <1>3, <2>2
    <3> QED BY <2>2, <3>1
  <2> QED BY <1>5, <2>1, <2>2
<1>7. ASSUME NEW i \in 1..(m + n), NEW j \in 1..(m + n), i < j PROVE z[i] < z[j]
  <2>1. CASE i \in 1..m /\ j \in 1..m
    BY <1>1, <1>4, <1>7, <2>1
  <2>2. CASE i \in 1..m /\ ~(j \in 1..m)
    <3>1. j - m \in 1..n /\ z[j] = y[j - m]
      BY <1>5, <2>2
    <3>2. y[j - m] \in Nat /\ mid <= y[j - m]
      BY <1>1, <1>3, <3>1
    <3>3. x[i] \in Nat /\ x[i] < mid /\ z[i] = x[i]
      BY <1>1, <1>2, <2>2
    <3> QED BY <3>1, <3>2, <3>3
  <2>3. CASE ~(i \in 1..m)
    <3>1. i - m \in 1..n /\ z[i] = y[i - m]
      BY <1>5, <2>3
    <3>2. j - m \in 1..n /\ z[j] = y[j - m] /\ i - m < j - m
      BY <1>1, <1>5, <1>7, <2>3
    <3> QED BY <1>4, <3>1, <3>2
  <2> QED BY <2>1, <2>2, <2>3
<1> QED
  BY <1>1, <1>6, <1>7 DEF Runs, Ascends, Between, z

\* An ascending run stays one under a higher bound.
LEMMA RunsWiden ==
  ASSUME NEW x \in Chunk, NEW lo \in Nat, NEW hi \in Nat, NEW to \in Nat, hi <= to, Runs(x, lo, hi)
  PROVE  Runs(x, lo, to)
<1>1. \A i \in 1..Len(x) : x[i] \in Nat
  BY ChunkIs
<1> QED BY <1>1 DEF Runs, Between

\* What is left of an ascending run starts above what was taken off it.
LEMMA RunsSplit ==
  ASSUME NEW x \in Chunk, NEW y \in Chunk, NEW lo \in Nat, NEW hi \in Nat,
         Runs(Join(x, y), lo, hi), x # <<>>
  PROVE  /\ x[Len(x)] \in Nat /\ lo <= x[Len(x)] /\ x[Len(x)] + 1 <= hi
         /\ Runs(y, x[Len(x)] + 1, hi)
<1> DEFINE z == Join(x, y)  m == Len(x)  n == Len(y)
<1>1. /\ m \in Nat \ {0} /\ n \in Nat /\ Len(z) = m + n
      /\ \A i \in 1..m : z[i] = x[i] /\ x[i] \in Nat
      /\ \A i \in 1..n : z[m + i] = y[i] /\ y[i] \in Nat
  BY JoinIs, ChunkIs
<1>2. /\ \A i \in 1..(m + n) : lo <= z[i] /\ z[i] < hi
      /\ \A i, j \in 1..(m + n) : i < j => z[i] < z[j]
  BY <1>1 DEF Runs, Between, Ascends
<1> HIDE DEF z, m, n
<1>3. m \in 1..m /\ m \in 1..(m + n)
  BY <1>1
<1>4. x[m] \in Nat /\ lo <= x[m] /\ x[m] + 1 <= hi /\ z[m] = x[m]
  BY <1>1, <1>2, <1>3
<1>5. ASSUME NEW i \in 1..n PROVE x[m] + 1 <= y[i] /\ y[i] < hi
  <2>1. m + i \in 1..(m + n) /\ m < m + i /\ z[m + i] = y[i] /\ y[i] \in Nat
    BY <1>1
  <2>2. z[m] < z[m + i] /\ z[m + i] < hi
    BY <1>2, <1>3, <2>1
  <2> QED BY <1>4, <2>1, <2>2
<1>6. ASSUME NEW i \in 1..n, NEW j \in 1..n, i < j PROVE y[i] < y[j]
  <2>1. m + i \in 1..(m + n) /\ m + j \in 1..(m + n) /\ m + i < m + j
    BY <1>1, <1>6
  <2> QED BY <1>1, <1>2, <2>1
<1> QED
  BY <1>4, <1>5, <1>6 DEF Runs, Between, Ascends, m, n

\* The bytes from a to b are an ascending run.
LEMMA BytesAre ==
  ASSUME NEW a \in Nat, NEW b \in Nat, a <= b
  PROVE  /\ Bytes(a, b) \in Chunk /\ Len(Bytes(a, b)) = b - a
         /\ \A i \in 1..(b - a) : Bytes(a, b)[i] = a + i - 1
         /\ Runs(Bytes(a, b), a, b)
<1>1. /\ Bytes(a, b) \in Chunk /\ Len(Bytes(a, b)) = b - a
      /\ \A i \in 1..(b - a) : Bytes(a, b)[i] = a + i - 1
  BY BytesType DEF Chunk
<1>2. Runs(Bytes(a, b), a, b)
  BY <1>1 DEF Runs, Between, Ascends
<1> QED BY <1>1, <1>2

\* There are no bytes between a position and itself.
LEMMA BytesNone == \A a \in Nat : Bytes(a, a) = <<>>
<1> TAKE a \in Nat
<1>1. Bytes(a, a) \in Chunk /\ Len(Bytes(a, a)) = 0
  BY BytesAre
<1> QED BY <1>1, ChunkIs

\* BytesJoin in terms of Join.
LEMMA BytesMeet ==
  ASSUME NEW a \in Nat, NEW b \in Nat, NEW c \in Nat, a <= b, b <= c
  PROVE  Join(Bytes(a, b), Bytes(b, c)) = Bytes(a, c)
  BY BytesJoin DEF Join

\* A chunk whose elements count up is a run of bytes.
LEMMA IsBytes ==
  ASSUME NEW s \in Chunk, NEW a \in Nat, \A i \in 1..Len(s) : s[i] = a + i - 1
  PROVE  s = Bytes(a, a + Len(s))
<1> DEFINE n == Len(s)  t == Bytes(a, a + n)
<1>1. n \in Nat /\ a + n \in Nat /\ a <= a + n /\ (a + n) - a = n
  BY ChunkIs
<1>2. t \in Chunk /\ Len(t) = n /\ \A i \in 1..n : t[i] = a + i - 1
  BY <1>1, BytesAre
<1> HIDE DEF t
<1> QED BY <1>2, SeqEqual DEF Chunk, t

\* A run of bytes in two parts is two runs that meet.
LEMMA BytesSplit ==
  ASSUME NEW x \in Chunk, NEW y \in Chunk, NEW a \in Nat, NEW b \in Nat, a <= b,
         Join(x, y) = Bytes(a, b)
  PROVE  /\ Len(x) \in Nat /\ a + Len(x) <= b
         /\ x = Bytes(a, a + Len(x)) /\ y = Bytes(a + Len(x), b)
         /\ x # <<>> => x[Len(x)] + 1 = a + Len(x)
<1> DEFINE z == Join(x, y)  m == Len(x)  n == Len(y)
<1>1. /\ m \in Nat /\ n \in Nat /\ Len(z) = m + n
      /\ \A i \in 1..m : z[i] = x[i] /\ x[i] \in Nat
      /\ \A i \in 1..n : z[m + i] = y[i] /\ y[i] \in Nat
  BY JoinIs, ChunkIs
<1>2. Len(z) = b - a /\ \A i \in 1..(m + n) : z[i] = a + i - 1
  <2>1. Len(z) = b - a /\ \A i \in 1..(b - a) : z[i] = a + i - 1
    BY BytesAre
  <2> QED BY <1>1, <2>1
<1>3. x # <<>> => m # 0
  BY ChunkIs
<1> HIDE DEF z, m, n
<1>4. a + m + n = b
  BY <1>1, <1>2
<1>5. \A i \in 1..m : x[i] = a + i - 1
  BY <1>1, <1>2
<1>6. \A i \in 1..n : y[i] = (a + m) + i - 1
  <2> TAKE i \in 1..n
  <2>1. m + i \in 1..(m + n)
    BY <1>1
  <2> QED BY <1>1, <1>2, <2>1
<1>7. x = Bytes(a, a + m)
  BY <1>5, IsBytes DEF m
<1>8. y = Bytes(a + m, (a + m) + n)
  <2>1. PICK c \in Nat : c = a + m
    BY <1>1
  <2>2. \A i \in 1..Len(y) : y[i] = c + i - 1
    BY <1>6, <2>1 DEF n
  <2> QED BY <2>1, <2>2, IsBytes DEF n
<1>9. x # <<>> => x[m] + 1 = a + m
  BY <1>1, <1>3, <1>5
<1> QED
  BY <1>1, <1>4, <1>7, <1>8, <1>9 DEF m

\* Where a replay comes from, and what it holds.
Start(s, at) == IF ReplayFrom(s, at).kind = "truncated" THEN StartSeq(s)
                ELSE IF at < s.next_seq THEN at ELSE s.next_seq

\* A replay is the bytes from where it starts to the end, and starts in the
\* buffer.
LEMMA ReplayIs ==
  ASSUME NEW s \in ScrollbackType, HoldsTail(s), NEW at \in Nat
  PROVE  /\ s.next_seq \in Nat /\ StartSeq(s) \in Nat /\ StartSeq(s) <= s.next_seq
         /\ Start(s, at) \in Nat /\ Start(s, at) <= s.next_seq
         /\ ReplayFrom(s, at).kind \in {"gap", "truncated"}
         /\ ReplayFrom(s, at).bytes \in Chunk
         /\ ReplayFrom(s, at).bytes = Bytes(Start(s, at), s.next_seq)
<1> DEFINE N == s.next_seq  h == IF N < Capacity THEN N ELSE Capacity  r == ReplayFrom(s, at)
<1>1. N \in Nat /\ h \in Nat /\ h <= N /\ N - h \in Nat /\ N - h <= N /\ N - (N - h) = h
  BY CapacityAssumption DEF ScrollbackType
<1>2. s.buf = Bytes(N - h, N)
  BY DEF HoldsTail
<1>3. StartSeq(s) = N - h
  <2>1. Len(Bytes(N - h, N)) = N - (N - h)
    BY <1>1, BytesType
  <2> QED BY <1>1, <1>2, <2>1 DEF StartSeq
<1>4. /\ r.kind = "truncated" <=> at < StartSeq(s)
      /\ StartSeq(s) <= at /\ at <= N => r.bytes = Bytes(at, N)
      /\ at < StartSeq(s) => r.bytes = Bytes(StartSeq(s), N)
  BY ReplayIsExact
<1>5. r.kind \in {"gap", "truncated"} /\ (at >= N => r.bytes = <<>>)
  BY DEF ReplayFrom
<1> HIDE DEF N, h, r
<1>6. Start(s, at) = IF at < StartSeq(s) THEN StartSeq(s) ELSE IF at < N THEN at ELSE N
  BY <1>4 DEF Start, r, N
<1>7. r.bytes = Bytes(Start(s, at), N)
  <2>1. CASE at < StartSeq(s)
    BY <1>4, <1>6, <2>1
  <2>2. CASE ~(at < StartSeq(s)) /\ at < N
    BY <1>1, <1>3, <1>4, <1>6, <2>2
  <2>3. CASE ~(at < StartSeq(s)) /\ ~(at < N)
    <3>1. r.bytes = <<>> /\ Start(s, at) = N
      BY <1>1, <1>5, <1>6, <2>3
    <3> QED BY <1>1, <3>1, BytesNone
  <2> QED BY <2>1, <2>2, <2>3
<1>8. Start(s, at) \in Nat /\ Start(s, at) <= N
  BY <1>1, <1>3, <1>6
<1>9. r.bytes \in Chunk
  BY <1>1, <1>7, <1>8, BytesAre
<1> QED BY <1>1, <1>3, <1>5, <1>7, <1>8, <1>9 DEF N, r

-----------------------------------------------------------------------------
(* Frames and the bytes they carry.                                        *)

\* The bytes of a frame, and of the frames of a wire.
Payload(m) == IF m.type = "binary" THEN m.bytes ELSE <<>>
PayloadsOf(w) == [i \in DOMAIN w |-> IF w[i].type = "binary" THEN w[i].bytes ELSE <<>>]

\* What a frame of each kind holds.
LEMMA PayloadType ==
  ASSUME NEW m \in Frame
  PROVE  /\ Payload(m) \in Chunk /\ m.type \in {"ready", "binary", "gap_truncated"}
         /\ m.type = "binary" => m.bytes \in Seq(Nat) /\ m.reset \in BOOLEAN
         /\ m.type = "ready" => m.since \in Nat /\ m.trunc \in BOOLEAN
  BY DEF Frame, Payload, Chunk

\* The payloads of a wire are chunks, one for each frame.
LEMMA PayloadsAre ==
  ASSUME NEW w \in Seq(Frame)
  PROVE  /\ PayloadsOf(w) \in SeqsOfSeqs /\ Len(PayloadsOf(w)) = Len(w)
         /\ \A i \in 1..Len(w) : PayloadsOf(w)[i] = Payload(w[i])
<1>1. \A i \in 1..Len(w) : w[i] \in Frame
  OBVIOUS
<1>2. \A i \in 1..Len(w) : Payload(w[i]) \in Chunk
  BY <1>1, PayloadType
<1>3. PayloadsOf(w) = [i \in 1..Len(w) |-> Payload(w[i])]
  BY DEF PayloadsOf, Payload
<1>4. Len(w) \in Nat
  OBVIOUS
<1> QED
  BY <1>2, <1>3, <1>4 DEF SeqsOfSeqs

\* Taking the first frame takes its payload.
LEMMA PayloadsTail ==
  ASSUME NEW w \in Seq(Frame), w # <<>>
  PROVE  PayloadsOf(Tail(w)) = Tail(PayloadsOf(w))
<1>1. /\ Tail(w) \in Seq(Frame) /\ Len(Tail(w)) = Len(w) - 1 /\ Len(w) \in Nat \ {0}
      /\ \A i \in 1..Len(Tail(w)) : Tail(w)[i] = w[i + 1]
  OBVIOUS
<1>2. PayloadsOf(w) # <<>> /\ PayloadsOf(w) \in SeqsOfSeqs /\ Len(PayloadsOf(w)) = Len(w)
  BY <1>1, PayloadsAre, SeqsElements
<1>3. /\ Tail(PayloadsOf(w)) \in SeqsOfSeqs /\ Len(Tail(PayloadsOf(w))) = Len(w) - 1
      /\ \A i \in 1..Len(w) - 1 : Tail(PayloadsOf(w))[i] = PayloadsOf(w)[i + 1]
  BY <1>2 DEF SeqsOfSeqs
<1>4. PayloadsOf(Tail(w)) \in SeqsOfSeqs /\ Len(PayloadsOf(Tail(w))) = Len(w) - 1
  BY <1>1, PayloadsAre
<1>5. ASSUME NEW i \in 1..Len(w) - 1
      PROVE  PayloadsOf(Tail(w))[i] = Tail(PayloadsOf(w))[i]
  <2>1. i \in 1..Len(Tail(w)) /\ i + 1 \in 1..Len(w)
    BY <1>1
  <2>2. PayloadsOf(Tail(w))[i] = Payload(w[i + 1]) /\ PayloadsOf(w)[i + 1] = Payload(w[i + 1])
    BY <1>1, <2>1, PayloadsAre
  <2> QED BY <1>3, <2>2
<1> QED
  BY <1>3, <1>4, <1>5, SeqEqual DEF SeqsOfSeqs

\* A frame more is a payload more.
LEMMA PayloadsAppend ==
  ASSUME NEW w \in Seq(Frame), NEW m \in Frame
  PROVE  PayloadsOf(Append(w, m)) = Append(PayloadsOf(w), Payload(m))
<1>1. /\ Append(w, m) \in Seq(Frame) /\ Len(Append(w, m)) = Len(w) + 1 /\ Len(w) \in Nat
      /\ Append(w, m)[Len(w) + 1] = m /\ \A i \in 1..Len(w) : Append(w, m)[i] = w[i]
  OBVIOUS
<1> DEFINE p == PayloadsOf(w)  q == Append(p, Payload(m))  r == PayloadsOf(Append(w, m))
<1>2. p \in Seq(Chunk) /\ Len(p) = Len(w) /\ \A i \in 1..Len(w) : p[i] = Payload(w[i])
  BY PayloadsAre DEF SeqsOfSeqs
<1>3. Payload(m) \in Chunk
  BY PayloadType
<1> HIDE DEF p
<1>4. q \in Seq(Chunk) /\ Len(q) = Len(w) + 1 /\ q[Len(w) + 1] = Payload(m)
      /\ \A i \in 1..Len(w) : q[i] = p[i]
  BY <1>2, <1>3
<1> HIDE DEF q
<1>5. /\ r \in Seq(Chunk) /\ Len(r) = Len(w) + 1
      /\ \A i \in 1..Len(w) + 1 : r[i] = Payload(Append(w, m)[i])
  BY <1>1, PayloadsAre DEF SeqsOfSeqs
<1> HIDE DEF r
<1>6. ASSUME NEW i \in 1..Len(w) + 1 PROVE r[i] = q[i]
  <2>1. CASE i = Len(w) + 1
    BY <1>1, <1>4, <1>5, <2>1
  <2>2. CASE i \in 1..Len(w)
    BY <1>1, <1>2, <1>4, <1>5, <2>2
  <2> QED BY <1>1, <2>1, <2>2
<1>7. r = q
  BY <1>1, <1>4, <1>5, <1>6, SeqEqual
<1> QED
  BY <1>7 DEF p, q, r

-----------------------------------------------------------------------------
\* What is under way: the bytes of the wire, then those of the queue.
StreamOf(w, q) == Join(FlattenSeq(PayloadsOf(w)), FlattenSeq(q))

\* The stream of the model is the stream of its wire and queue.
LEMMA StreamIs == Stream = StreamOf(wire, queue)
  BY DEF Stream, StreamOf, PayloadsOf, Join

\* A stream is a chunk.
LEMMA StreamType ==
  ASSUME NEW w \in Seq(Frame), NEW q \in SeqsOfSeqs PROVE StreamOf(w, q) \in Chunk
  BY PayloadsAre, FlattenType, ChunksJoin DEF StreamOf

\* Nothing is under way on an empty wire with an empty queue.
LEMMA StreamNone == StreamOf(<<>>, <<>>) = <<>>
<1>1. PayloadsOf(<<>>) = <<>>
  BY DEF PayloadsOf
<1> QED BY <1>1, FlattenOfNone, ChunkNone DEF StreamOf

\* What is queued comes last.
LEMMA StreamPublish ==
  ASSUME NEW w \in Seq(Frame), NEW q \in SeqsOfSeqs, NEW x \in Chunk
  PROVE  StreamOf(w, Append(q, x)) = Join(StreamOf(w, q), x)
<1>1. FlattenSeq(Append(q, x)) = Join(FlattenSeq(q), x) /\ FlattenSeq(q) \in Chunk
  BY FlatLast, Zenon
<1>2. FlattenSeq(PayloadsOf(w)) \in Chunk
  BY PayloadsAre, FlattenType, Zenon
<1>3. Join(Join(FlattenSeq(PayloadsOf(w)), FlattenSeq(q)), x)
        = Join(FlattenSeq(PayloadsOf(w)), Join(FlattenSeq(q), x))
  BY <1>1, <1>2, JoinAgain, Zenon
<1> QED BY <1>1, <1>3, Zenon DEF StreamOf

\* What is put on a wire comes last on it.
LEMMA WireAppend ==
  ASSUME NEW w \in Seq(Frame), NEW m \in Frame
  PROVE  /\ FlattenSeq(PayloadsOf(w)) \in Chunk /\ Payload(m) \in Chunk
         /\ FlattenSeq(PayloadsOf(Append(w, m))) = Join(FlattenSeq(PayloadsOf(w)), Payload(m))
<1>1. PayloadsOf(w) \in SeqsOfSeqs /\ Payload(m) \in Chunk
  BY PayloadsAre, PayloadType, Zenon
<1>2. PayloadsOf(Append(w, m)) = Append(PayloadsOf(w), Payload(m))
  BY PayloadsAppend, Zenon
<1>3. FlattenSeq(Append(PayloadsOf(w), Payload(m)))
        = Join(FlattenSeq(PayloadsOf(w)), Payload(m))
  BY <1>1, FlatLast, Zenon
<1> QED BY <1>1, <1>2, <1>3, FlattenType, Zenon

\* Moving a chunk from the queue to the wire changes nothing.
LEMMA StreamPump ==
  ASSUME NEW w \in Seq(Frame), NEW q \in SeqsOfSeqs, q # <<>>, NEW m \in Frame,
         Payload(m) = q[1]
  PROVE  Tail(q) \in SeqsOfSeqs /\ StreamOf(Append(w, m), Tail(q)) = StreamOf(w, q)
<1>1. /\ q[1] \in Chunk /\ Tail(q) \in SeqsOfSeqs /\ FlattenSeq(Tail(q)) \in Chunk
      /\ FlattenSeq(q) = Join(q[1], FlattenSeq(Tail(q)))
  BY FlatHead, Zenon
<1>2. /\ FlattenSeq(PayloadsOf(w)) \in Chunk
      /\ FlattenSeq(PayloadsOf(Append(w, m))) = Join(FlattenSeq(PayloadsOf(w)), q[1])
  BY WireAppend, Zenon
<1>3. Join(Join(FlattenSeq(PayloadsOf(w)), q[1]), FlattenSeq(Tail(q)))
        = Join(FlattenSeq(PayloadsOf(w)), Join(q[1], FlattenSeq(Tail(q))))
  BY <1>1, <1>2, JoinAgain, Zenon
<1> QED BY <1>1, <1>2, <1>3, Zenon DEF StreamOf

\* The first frame of the wire is the front of the stream.
LEMMA StreamReceive ==
  ASSUME NEW w \in Seq(Frame), w # <<>>, NEW q \in SeqsOfSeqs
  PROVE  /\ StreamOf(Tail(w), q) \in Chunk /\ Payload(w[1]) \in Chunk
         /\ StreamOf(w, q) = Join(Payload(w[1]), StreamOf(Tail(w), q))
<1>1. PayloadsOf(w) \in SeqsOfSeqs /\ PayloadsOf(w) # <<>> /\ PayloadsOf(w)[1] = Payload(w[1])
  BY PayloadsAre, SeqsElements
<1>2. /\ Payload(w[1]) \in Chunk /\ FlattenSeq(Tail(PayloadsOf(w))) \in Chunk
      /\ FlattenSeq(PayloadsOf(w)) = Join(Payload(w[1]), FlattenSeq(Tail(PayloadsOf(w))))
  BY <1>1, FlatHead
<1>3. PayloadsOf(Tail(w)) = Tail(PayloadsOf(w))
  BY PayloadsTail, Zenon
<1>4. FlattenSeq(q) \in Chunk
  BY FlattenType, Zenon
<1>5. Join(Join(Payload(w[1]), FlattenSeq(Tail(PayloadsOf(w)))), FlattenSeq(q))
        = Join(Payload(w[1]), Join(FlattenSeq(Tail(PayloadsOf(w))), FlattenSeq(q)))
  BY <1>2, <1>4, JoinAgain, Zenon
<1>6. Join(FlattenSeq(Tail(PayloadsOf(w))), FlattenSeq(q)) \in Chunk
  BY <1>2, <1>4, ChunksJoin, Zenon
<1> QED BY <1>2, <1>3, <1>5, <1>6, Zenon DEF StreamOf

\* A frame that carries no bytes adds none, at either end.
LEMMA StreamOfNone ==
  ASSUME NEW w \in Seq(Frame), NEW m \in Frame, Payload(m) = <<>>
  PROVE  StreamOf(Append(w, m), <<>>) = StreamOf(w, <<>>)
<1>1. FlattenSeq(PayloadsOf(Append(w, m))) = FlattenSeq(PayloadsOf(w))
  BY WireAppend, ChunkNone
<1> QED BY <1>1, Zenon DEF StreamOf

\* A wire that carries one frame carries its bytes.
LEMMA StreamOfOne ==
  ASSUME NEW m \in Frame
  PROVE  StreamOf(<<m>>, <<>>) = Payload(m)
<1>1. <<>> \in SeqsOfSeqs
  BY DEF SeqsOfSeqs
<1>2. Tail(<<m>>) = <<>> /\ <<m>> # <<>> /\ <<m>> \in Seq(Frame) /\ <<m>>[1] = m
  OBVIOUS
<1>3. StreamOf(<<m>>, <<>>) = Join(Payload(m), StreamOf(<<>>, <<>>))
  BY <1>1, <1>2, StreamReceive
<1> QED BY <1>3, StreamNone, ChunkNone, PayloadType

-----------------------------------------------------------------------------
(* The link and its stream; when a behaviour is clean.                     *)

Linked ==
  /\ attached <=> link = "up"
  /\ pumping => link = "up"
  /\ link # "up" => wire = <<>> /\ queue = <<>>

Clean == lossy = FALSE /\ cut = FALSE /\ overlap = FALSE

Write == [type : {"binary"}, reset : BOOLEAN, bytes : Seq(Nat)]
WriteBuffer == Seq(Write)
Wire == Seq(Frame)

Flags ==
  /\ attached \in BOOLEAN /\ pumping \in BOOLEAN
  /\ dropped \in BOOLEAN /\ lossy \in BOOLEAN /\ cut \in BOOLEAN /\ overlap \in BOOLEAN

Shapes ==
  /\ queue \in SeqsOfSeqs /\ Len(queue) <= OutputQueue
  /\ wire \in Wire /\ writes \in WriteBuffer
  /\ link \in {"down", "asked", "up"}
  /\ screen \subseteq Nat

Counters == since \in Nat /\ rendered \in Nat /\ saved \in Nat /\ base \in Nat /\ seen \in Nat

\* The type invariant in parts the provers can take one at a time.
LEMMA TypesSplit == TypeOK <=> sb \in ScrollbackType /\ Flags /\ Shapes /\ Counters
<1>1. {dropped, lossy, cut, overlap} \subseteq BOOLEAN
        <=> dropped \in BOOLEAN /\ lossy \in BOOLEAN /\ cut \in BOOLEAN /\ overlap \in BOOLEAN
  BY Zenon
<1> QED
  BY <1>1, Zenon DEF TypeOK, Flags, Shapes, Counters, ScrollbackType, SeqsOfSeqs, Chunk, Wire, WriteBuffer, Write

\* What a write of the renderer holds.
LEMMA WriteType ==
  ASSUME NEW m \in Write
  PROVE  /\ m.bytes \in Chunk /\ m.reset \in BOOLEAN /\ m \in Frame /\ Payload(m) = m.bytes
         /\ m.type = "binary"
  BY DEF Write, Frame, Payload, Chunk

\* The write buffer is a sequence of frames like the wire.
LEMMA WritesAreFrames == \A w \in WriteBuffer : w \in Wire
<1> TAKE w \in WriteBuffer
<1>1. Len(w) \in Nat /\ w = [i \in 1..Len(w) |-> w[i]] /\ \A i \in 1..Len(w) : w[i] \in Write
  BY DEF WriteBuffer
<1>2. \A i \in 1..Len(w) : w[i] \in Frame
  BY <1>1, WriteType
<1> QED BY <1>1, <1>2 DEF Wire

\* An output frame carries its bytes.
LEMMA BinaryType ==
  ASSUME NEW r \in BOOLEAN, NEW b \in Chunk
  PROVE  Binary(r, b) \in Frame /\ Payload(Binary(r, b)) = b
  BY DEF Binary, Frame, Chunk, Payload

\* A Ready carries none.
LEMMA ReadyType ==
  ASSUME NEW r \in BOOLEAN, NEW at \in Nat
  PROVE  Ready(at, r) \in Frame /\ Payload(Ready(at, r)) = <<>>
  BY DEF Ready, Frame, Payload

\* Nor does the gap_truncated error.
LEMMA GapType == GapTruncated \in Frame /\ Payload(GapTruncated) = <<>>
  BY DEF GapTruncated, Frame, Payload

\* What a sequence of frames has at its head and after it.
LEMMA WireHead ==
  ASSUME NEW w \in Wire, w # <<>>
  PROVE  /\ Head(w) = w[1] /\ w[1] \in Frame /\ Tail(w) \in Wire
         /\ Len(w) \in Nat \ {0} /\ Len(Tail(w)) = Len(w) - 1
         /\ \A i \in 1..Len(w) - 1 : Tail(w)[i] = w[i + 1]
  BY DEF Wire

\* What the write buffer has at its head and after it.
LEMMA WritesHead ==
  ASSUME NEW w \in WriteBuffer, w # <<>>
  PROVE  /\ Head(w) = w[1] /\ w[1] \in Write /\ Tail(w) \in WriteBuffer
         /\ Len(w) \in Nat \ {0} /\ Len(Tail(w)) = Len(w) - 1
         /\ \A i \in 1..Len(w) - 1 : Tail(w)[i] = w[i + 1]
  BY DEF WriteBuffer

\* An output frame is what the renderer writes.
LEMMA FrameIsWrite ==
  ASSUME NEW m \in Frame, m.type = "binary" PROVE m \in Write
  BY DEF Frame, Write

\* The frames of a replay carry its bytes and nothing else.
LEMMA ReplayFramesAre ==
  ASSUME sb \in ScrollbackType, HoldsTail(sb), since \in Nat,
         NEW r, r = ReplayFrom(sb, since)
  PROVE  /\ ReplayFrames(r) \in Wire /\ ReplayFrames(r) # <<>>
         /\ StreamOf(ReplayFrames(r), <<>>) = r.bytes
         /\ ReplayFrames(r)[1].type = "ready"
         /\ \A i \in 2..Len(ReplayFrames(r)) : ReplayFrames(r)[i].type # "ready"
         /\ r.kind # "truncated" =>
              /\ ReplayFrames(r)[1] = Ready(since, FALSE)
              /\ \A i \in 2..Len(ReplayFrames(r)) : ReplayFrames(r)[i] = Binary(FALSE, r.bytes)
<1>1. r.bytes \in Chunk /\ StartSeq(sb) \in Nat /\ r.kind \in {"gap", "truncated"}
  BY ReplayIs
<1>2. <<>> \in Wire /\ <<>> \in SeqsOfSeqs
  BY DEF Wire, SeqsOfSeqs
<1> DEFINE a == Ready(StartSeq(sb), TRUE)  b == Binary(TRUE, r.bytes)
           c == Ready(since, FALSE)        d == Binary(FALSE, r.bytes)
<1>3. /\ a \in Frame /\ c \in Frame /\ Payload(a) = <<>> /\ Payload(c) = <<>>
      /\ b \in Frame /\ d \in Frame /\ Payload(b) = r.bytes /\ Payload(d) = r.bytes
      /\ GapTruncated \in Frame /\ Payload(GapTruncated) = <<>>
  BY <1>1, BinaryType, ReadyType, GapType
<1>4. /\ a.type = "ready" /\ c.type = "ready" /\ b.type # "ready" /\ d.type # "ready"
      /\ GapTruncated.type # "ready"
  BY DEF Ready, Binary, GapTruncated
<1> HIDE DEF a, b, c, d
<1>5. ASSUME NEW x \in Frame, NEW y \in Frame, Payload(x) = <<>>, Payload(y) = r.bytes
      PROVE  <<x, y>> \in Wire /\ <<x, y>> # <<>> /\ StreamOf(<<x, y>>, <<>>) = r.bytes
  <2>1. /\ <<x, y>> \in Wire /\ <<x, y>> # <<>> /\ <<x, y>>[1] = x /\ Tail(<<x, y>>) = <<y>>
    BY DEF Wire
  <2>2. StreamOf(<<x, y>>, <<>>) = Join(Payload(x), StreamOf(<<y>>, <<>>))
    BY <1>2, <2>1, StreamReceive, Zenon DEF Wire
  <2>3. StreamOf(<<y>>, <<>>) = r.bytes
    BY <1>5, StreamOfOne, Zenon
  <2> QED BY <1>1, <1>5, <2>1, <2>2, <2>3, ChunkNone, Zenon
<1>6. CASE r.kind = "truncated"
  <2>1. ReplayFrames(r) = <<a, b, GapTruncated>>
    BY <1>6 DEF ReplayFrames, a, b
  <2>2. <<a, b, GapTruncated>> = Append(<<a, b>>, GapTruncated) /\ <<a, b>> \in Seq(Frame)
    BY <1>3
  <2>3. StreamOf(<<a, b, GapTruncated>>, <<>>) = StreamOf(<<a, b>>, <<>>)
    BY <1>3, <2>2, StreamOfNone, Zenon
  <2>4. StreamOf(<<a, b>>, <<>>) = r.bytes
    BY <1>3, <1>5, Zenon
  <2>5. /\ <<a, b, GapTruncated>> \in Wire /\ <<a, b, GapTruncated>> # <<>>
        /\ <<a, b, GapTruncated>>[1].type = "ready"
        /\ \A i \in 2..Len(<<a, b, GapTruncated>>) : <<a, b, GapTruncated>>[i].type # "ready"
    BY <1>3, <1>4 DEF Wire
  <2> QED BY <1>6, <2>1, <2>3, <2>4, <2>5, Zenon
<1>7. CASE r.kind = "gap" /\ r.bytes = <<>>
  <2>1. ReplayFrames(r) = <<c>>
    BY <1>7 DEF ReplayFrames, c
  <2>2. StreamOf(<<c>>, <<>>) = r.bytes
    BY <1>3, <1>7, StreamOfOne, Zenon
  <2>3. /\ <<c>> \in Wire /\ <<c>> # <<>> /\ <<c>>[1] = c /\ 2..Len(<<c>>) = {}
    BY <1>3 DEF Wire
  <2> QED BY <1>4, <2>1, <2>2, <2>3, Zenon DEF c
<1>8. CASE r.kind = "gap" /\ r.bytes # <<>>
  <2>1. ReplayFrames(r) = <<c, d>>
    BY <1>8 DEF ReplayFrames, c, d
  <2>2. <<c, d>> \in Wire /\ <<c, d>> # <<>> /\ StreamOf(<<c, d>>, <<>>) = r.bytes
    BY <1>3, <1>5, Zenon
  <2>3. <<c, d>>[1] = c /\ \A i \in 2..Len(<<c, d>>) : <<c, d>>[i] = d
    OBVIOUS
  <2> QED BY <1>4, <2>1, <2>2, <2>3, Zenon DEF c, d
<1> QED BY <1>1, <1>6, <1>7, <1>8

-----------------------------------------------------------------------------
(* Types.                                                                  *)

Typed == sb \in ScrollbackType /\ Flags /\ Shapes /\ Counters

\* A new session is well typed.
LEMMA TypesInit == Init => Typed
<1> SUFFICES ASSUME Init PROVE Typed
  OBVIOUS
<1>1. sb \in ScrollbackType
  BY DEF Init, EmptyScrollback, ScrollbackType
<1>2. Flags
  BY Zenon DEF Init, Flags
<1>3. Shapes /\ Counters
  BY ResumeAssumption DEF Init, Shapes, Counters, SeqsOfSeqs, Wire, WriteBuffer
<1> QED BY <1>1, <1>2, <1>3 DEF Typed

\* What publish pushes and what becomes of the scrollback.
LEMMA PublishData ==
  ASSUME sb \in ScrollbackType, HoldsTail(sb), NEW n \in 1..MaxChunk
  PROVE  /\ n \in Nat /\ sb.next_seq \in Nat
         /\ Bytes(sb.next_seq, sb.next_seq + n) \in Chunk
         /\ Push(sb, Bytes(sb.next_seq, sb.next_seq + n)) \in ScrollbackType
         /\ Push(sb, Bytes(sb.next_seq, sb.next_seq + n)).next_seq = sb.next_seq + n
         /\ HoldsTail(Push(sb, Bytes(sb.next_seq, sb.next_seq + n)))
<1>1. n \in Nat /\ sb.next_seq \in Nat
  BY ResumeAssumption DEF ScrollbackType
<1>2. PICK N \in Nat : N = sb.next_seq
  BY <1>1
<1>3. N + n \in Nat /\ N <= N + n
  BY <1>1
<1>4. Bytes(N, N + n) \in Chunk
  BY <1>3, BytesAre
<1>5. LET pushed == Push(sb, Bytes(N, N + n))
      IN  pushed \in ScrollbackType /\ pushed.next_seq = N + n /\ HoldsTail(pushed)
  BY <1>1, <1>2, PushHoldsTail, Zenon
<1> QED BY <1>1, <1>2, <1>4, <1>5, Zenon

\* A wire with one frame more.
LEMMA WireGrows ==
  ASSUME NEW w \in Wire, NEW m \in Frame
  PROVE  /\ Append(w, m) \in Wire /\ Len(w) \in Nat /\ Len(Append(w, m)) = Len(w) + 1
         /\ Append(w, m)[Len(w) + 1] = m /\ \A i \in 1..Len(w) : Append(w, m)[i] = w[i]
  BY DEF Wire

\* What a write adds to the counter is a natural number.
LEMMA FrameLenType == \A m \in Write : FrameLen(m) \in Nat
<1> TAKE m \in Write
<1> DEFINE k == IF m.reset THEN ResetLen ELSE 0
<1>1. k \in Nat
  <2>1. ResetLen \in Nat /\ 0 \in Nat
    BY ResumeAssumption
  <2> QED BY <2>1, Zenon
<1>2. Len(m.bytes) \in Nat
  BY WriteType, ChunkIs
<1> HIDE DEF k
<1>3. Len(m.bytes) + k \in Nat
  BY <1>1, <1>2
<1> QED BY <1>3, Zenon DEF FrameLen, k

\* publish keeps every type.
LEMMA TypesPublish ==
  ASSUME Typed, HoldsTail(sb), NEW n \in 1..MaxChunk, Publish(n)
  PROVE  Typed'
<1> DEFINE data == Bytes(sb.next_seq, sb.next_seq + n)
<1> USE DEF Typed
<1>1. data \in Chunk /\ sb' \in ScrollbackType
  BY PublishData DEF Publish
<1>2. Flags'
  BY Zenon DEF Publish, Flags, client
<1>3. Shapes'
  <2>1. \/ queue' = queue
        \/ ~(Len(queue) >= OutputQueue) /\ queue' = Append(queue, data)
    BY Zenon DEF Publish
  <2>2. UNCHANGED <<wire, writes, link, screen>>
    BY DEF Publish, client
  <2> HIDE DEF data
  <2>3. queue' \in SeqsOfSeqs /\ Len(queue') <= OutputQueue
    <3>1. queue \in Seq(Chunk) /\ Len(queue) <= OutputQueue /\ OutputQueue \in Nat
      BY ResumeAssumption DEF Shapes, SeqsOfSeqs
    <3> QED BY <1>1, <2>1, <3>1 DEF SeqsOfSeqs
  <2> QED BY <2>2, <2>3 DEF Shapes
<1>4. Counters'
  BY DEF Publish, client, Counters
<1> QED BY <1>1, <1>2, <1>3, <1>4

\* attach does.
LEMMA TypesAttach ==
  ASSUME Typed, HoldsTail(sb), Attach
  PROVE  Typed'
<1> USE DEF Typed
<1>1. since \in Nat
  BY DEF Counters
<1>2. PICK r : r = ReplayFrom(sb, since)
  OBVIOUS
<1>3. wire' = ReplayFrames(r) /\ seen' = Start(sb, since) /\ UNCHANGED <<sb, since>>
  BY <1>2 DEF Attach, Start
<1>4. ReplayFrames(r) \in Wire /\ Start(sb, since) \in Nat
  BY <1>1, <1>2, ReplayFramesAre, ReplayIs
<1>5. Flags'
  BY Zenon DEF Attach, Flags, client
<1>6. Shapes'
  BY <1>3, <1>4, ResumeAssumption DEF Attach, client, Shapes, SeqsOfSeqs
<1>7. Counters'
  BY <1>3, <1>4 DEF Attach, client, Counters
<1> QED BY <1>3, <1>5, <1>6, <1>7

\* pump_output does.
LEMMA TypesPump ==
  ASSUME Typed, Pump
  PROVE  Typed'
<1> USE DEF Typed
<1>1. queue # <<>> /\ wire' = Append(wire, Binary(FALSE, Head(queue))) /\ queue' = Tail(queue)
  BY DEF Pump
<1>2. queue \in Seq(Chunk) /\ wire \in Seq(Frame) /\ Len(queue) <= OutputQueue /\ OutputQueue \in Nat
  BY ResumeAssumption DEF Shapes, SeqsOfSeqs, Wire
<1>3. Head(queue) \in Chunk /\ Tail(queue) \in Seq(Chunk) /\ Len(Tail(queue)) <= OutputQueue
  BY <1>1, <1>2
<1>4. wire' \in Wire
  <2>1. Binary(FALSE, Head(queue)) \in Frame
    BY <1>3, BinaryType
  <2> QED BY <1>1, <2>1, WireGrows, Zenon DEF Shapes
<1>5. Flags'
  BY Zenon DEF Pump, Flags, history
<1>6. Shapes'
  BY <1>1, <1>3, <1>4 DEF Pump, Shapes, client, SeqsOfSeqs
<1>7. Counters' /\ sb' = sb
  BY DEF Pump, client, history, Counters
<1> QED BY <1>5, <1>6, <1>7

\* The steps of the link do.
LEMMA TypesLink ==
  ASSUME Typed, SpawnPump \/ LinkLost \/ Reconnect \/ Reload
  PROVE  Typed'
<1> USE DEF Typed
<1>1. Flags'
  BY Zenon DEF SpawnPump, LinkLost, Reconnect, Reload, Flags, agent, history
<1>2. sb' = sb /\ Counters'
  BY DEF SpawnPump, LinkLost, Reconnect, Reload, agent, client, history, Counters
<1>3. Shapes'
  <2>1. /\ queue' = queue \/ queue' = <<>>
        /\ wire' = wire \/ wire' = <<>>
        /\ writes' = writes \/ writes' = <<>>
        /\ screen' = screen \/ screen' = {}
    BY DEF SpawnPump, LinkLost, Reconnect, Reload, agent, client
  <2>2. link' \in {"down", "asked", "up"}
    BY DEF SpawnPump, LinkLost, Reconnect, Reload, agent, client, Shapes
  <2>3. <<>> \in SeqsOfSeqs /\ Len(<<>>) <= OutputQueue /\ <<>> \in Wire /\ <<>> \in WriteBuffer
    BY ResumeAssumption DEF SeqsOfSeqs, Wire, WriteBuffer
  <2> QED BY <2>1, <2>2, <2>3, Zenon DEF Shapes
<1> QED BY <1>1, <1>2, <1>3

\* The client at a Ready does.
LEMMA TypesReady ==
  ASSUME Typed, OnReady
  PROVE  Typed'
<1> USE DEF Typed
<1>1. wire # <<>> /\ wire \in Wire /\ wire' = Tail(wire) /\ Head(wire).type = "ready"
  BY DEF OnReady, Received, Shapes
<1>2. Head(wire).since \in Nat /\ Tail(wire) \in Wire
  BY <1>1, WireHead, PayloadType
<1>3. Flags'
  BY Zenon DEF OnReady, Flags, agent
<1>4. Counters'
  BY <1>2 DEF OnReady, Counters
<1>5. Shapes' /\ sb' = sb
  BY <1>1, <1>2 DEF OnReady, Shapes, agent
<1> QED BY <1>3, <1>4, <1>5

\* The client at output does.
LEMMA TypesOutput ==
  ASSUME Typed, OnOutput
  PROVE  Typed'
<1> USE DEF Typed
<1>1. wire # <<>> /\ wire \in Wire /\ wire' = Tail(wire) /\ Head(wire).type = "binary"
  BY DEF OnOutput, Received, Shapes
<1>2. Head(wire) \in Write /\ Tail(wire) \in Wire
  BY <1>1, WireHead, FrameIsWrite
<1>3. Head(wire).bytes \in Chunk
  BY <1>2, WriteType
<1>4. Flags'
  BY Zenon DEF OnOutput, Flags, agent
<1>5. seen' \in Nat
  <2> DEFINE b == Head(wire).bytes
  <2>1. seen' = IF b = <<>> THEN seen ELSE b[Len(b)] + 1
    BY DEF OnOutput
  <2>2. b \in Chunk
    BY <1>3
  <2> HIDE DEF b
  <2>3. b # <<>> => b[Len(b)] \in Nat
    BY <2>2 DEF Chunk
  <2> QED BY <2>1, <2>3 DEF Counters
<1>6. Counters'
  BY <1>5 DEF OnOutput, Counters
<1>7. writes' \in WriteBuffer
  <2>1. writes' = Append(writes, Head(wire)) /\ writes \in Seq(Write)
    BY DEF OnOutput, Shapes, WriteBuffer
  <2> QED BY <1>2, <2>1 DEF WriteBuffer
<1>8. Shapes' /\ sb' = sb
  BY <1>1, <1>2, <1>7 DEF OnOutput, Shapes, agent
<1> QED BY <1>4, <1>6, <1>8

\* The client at a truncated gap does.
LEMMA TypesGap ==
  ASSUME Typed, OnGapTruncated
  PROVE  Typed'
<1> USE DEF Typed
<1>1. wire # <<>> /\ wire \in Wire /\ wire' = Tail(wire)
  BY DEF OnGapTruncated, Received, Shapes
<1>2. Tail(wire) \in Wire
  BY <1>1, WireHead
<1>3. Flags'
  BY Zenon DEF OnGapTruncated, Flags, agent, history
<1>4. Counters' /\ Shapes' /\ sb' = sb
  BY <1>1, <1>2 DEF OnGapTruncated, Shapes, Counters, agent, history
<1> QED BY <1>3, <1>4

\* The bytes of a chunk are positions.
LEMMA BytesOfType == \A b \in Chunk : BytesOf(b) \subseteq Nat
  BY ChunkIs DEF BytesOf

\* The renderer does.
LEMMA TypesDraw ==
  ASSUME Typed, Draw
  PROVE  Typed'
<1> USE DEF Typed
<1>1. writes # <<>> /\ writes \in WriteBuffer /\ writes' = Tail(writes)
  BY DEF Draw, Shapes
<1>2. Head(writes) \in Write /\ Tail(writes) \in WriteBuffer
  BY <1>1, WritesHead
<1>3. Head(writes).bytes \in Chunk /\ Head(writes).reset \in BOOLEAN
  BY <1>2, WriteType
<1>4. BytesOf(Head(writes).bytes) \subseteq Nat
  BY <1>3, BytesOfType
<1>5. FrameLen(Head(writes)) \in Nat
  BY <1>2, FrameLenType
<1>6. Flags'
  BY Zenon DEF Draw, Flags, agent, history
<1>7. rendered' \in Nat /\ saved' \in Nat
  <2>1. rendered' = rendered + FrameLen(Head(writes)) /\ saved' \in {saved, rendered'}
    BY DEF Draw
  <2> QED BY <1>5, <2>1 DEF Counters
<1>8. Counters' /\ sb' = sb
  BY <1>7 DEF Draw, Counters, agent, history
<1>9. screen' \subseteq Nat
  <2>1. screen' = (IF Head(writes).reset THEN {} ELSE screen) \cup BytesOf(Head(writes).bytes)
    BY DEF Draw
  <2> QED BY <1>4, <2>1 DEF Shapes
<1>10. Shapes'
  BY <1>1, <1>2, <1>9 DEF Draw, Shapes, agent
<1> QED BY <1>6, <1>8, <1>10

\* So does doing nothing.
LEMMA TypesStill ==
  ASSUME Typed, UNCHANGED vars
  PROVE  Typed'
<1>1. /\ UNCHANGED <<sb, attached, queue, pumping, wire, link, since, rendered, saved, writes>>
      /\ UNCHANGED <<screen, base, seen, dropped, lossy, cut, overlap>>
  BY DEF vars, agent, client, history
<1>2. Flags'
  BY <1>1, Zenon DEF Typed, Flags
<1> QED BY <1>1, <1>2 DEF Typed, Shapes, Counters

\* Every step keeps every type.
LEMMA TypesStep ==
  ASSUME Typed, HoldsTail(sb), [Next]_vars PROVE Typed'
<1>1. CASE \E n \in 1..MaxChunk : Publish(n)
  BY <1>1, TypesPublish, Zenon
<1>2. CASE Attach \/ Pump \/ OnReady \/ OnOutput \/ OnGapTruncated \/ Draw
  BY <1>2, TypesAttach, TypesPump, TypesReady, TypesOutput, TypesGap, TypesDraw, Zenon
<1>3. CASE SpawnPump \/ LinkLost \/ Reconnect \/ Reload
  BY <1>3, TypesLink, Zenon
<1>4. CASE UNCHANGED vars
  BY <1>4, TypesStill, Zenon
<1> QED BY <1>1, <1>2, <1>3, <1>4, Zenon DEF Next

-----------------------------------------------------------------------------
\* The opening connection is attached and pumping.
LEMMA LinkedInit == Init => Linked
  BY Zenon DEF Init, Linked

\* A session is attached exactly while the link is up, and only then is there
\* anything on the wire or in the queue.
LEMMA LinkedStep ==
  ASSUME Linked, [Next]_vars PROVE Linked'
<1>1. CASE \E n \in 1..MaxChunk : Publish(n)
  <2>1. PICK n \in 1..MaxChunk : Publish(n)
    BY <1>1
  <2>2. UNCHANGED <<attached, pumping, wire, link>> /\ (~attached => queue' = queue)
    BY <2>1, Zenon DEF Publish
  <2> QED BY <2>2, Zenon DEF Linked
<1>2. CASE Attach
  BY <1>2, Zenon DEF Attach, Linked
<1>3. CASE SpawnPump
  BY <1>3, Zenon DEF SpawnPump, Linked
<1>4. CASE Pump
  BY <1>4, Zenon DEF Pump, Linked
<1>5. CASE LinkLost
  <2>1. "down" # "up"
    OBVIOUS
  <2> QED BY <1>5, <2>1, Zenon DEF LinkLost, Linked
<1>6. CASE Reconnect
  <2>1. "down" # "up" /\ "asked" # "up"
    OBVIOUS
  <2> QED BY <1>6, <2>1, Zenon DEF Reconnect, Linked, agent
<1>7. CASE Reload
  <2>1. "down" # "up"
    OBVIOUS
  <2> QED BY <1>7, <2>1, Zenon DEF Reload, Linked
<1>8. CASE OnReady \/ OnOutput \/ OnGapTruncated
  <2>1. wire # <<>> /\ UNCHANGED <<attached, queue, pumping, link>>
    BY <1>8, Zenon DEF OnReady, OnOutput, OnGapTruncated, Received, agent
  <2> QED BY <2>1, Zenon DEF Linked
<1>9. CASE Draw
  BY <1>9, Zenon DEF Draw, Linked, agent
<1>10. CASE UNCHANGED vars
  BY <1>10, Zenon DEF Linked, vars, agent
<1> QED BY <1>1, <1>2, <1>3, <1>4, <1>5, <1>6, <1>7, <1>8, <1>9, <1>10, Zenon DEF Next

-----------------------------------------------------------------------------
(* The stream of a link.                                                   *)

Coming == StreamOf(wire, queue)

StreamRuns ==
  link = "up" =>
    /\ seen <= sb.next_seq
    /\ Runs(Coming, seen, sb.next_seq)
    /\ dropped = FALSE => Coming = Bytes(seen, sb.next_seq)

Basis == Typed /\ HoldsTail(sb) /\ Linked

\* What is typed, held and linked, as the lemmas below need it.
LEMMA BasisIs ==
  ASSUME Basis
  PROVE  /\ sb \in ScrollbackType /\ HoldsTail(sb) /\ sb.next_seq \in Nat
         /\ queue \in SeqsOfSeqs /\ wire \in Wire /\ writes \in WriteBuffer /\ writes \in Wire
         /\ since \in Nat /\ rendered \in Nat /\ saved \in Nat /\ base \in Nat /\ seen \in Nat
         /\ Coming \in Chunk
         /\ link # "up" => wire = <<>> /\ queue = <<>>
<1>1. /\ sb \in ScrollbackType /\ HoldsTail(sb)
      /\ queue \in SeqsOfSeqs /\ wire \in Wire /\ writes \in WriteBuffer
      /\ since \in Nat /\ rendered \in Nat /\ saved \in Nat /\ base \in Nat /\ seen \in Nat
      /\ link # "up" => wire = <<>> /\ queue = <<>>
  BY Zenon DEF Basis, Typed, Shapes, Counters, Linked
<1>2. sb.next_seq \in Nat
  BY <1>1 DEF ScrollbackType
<1>3. Coming \in Chunk
  BY <1>1, StreamType, Zenon DEF Coming, Wire
<1>4. writes \in Wire
  BY <1>1, WritesAreFrames, Zenon
<1> QED BY <1>1, <1>2, <1>3, <1>4, Zenon

\* A new link owes nothing.
LEMMA StreamInit == Init => StreamRuns
<1> SUFFICES ASSUME Init PROVE StreamRuns
  OBVIOUS
<1>1. sb.next_seq = 0 /\ seen = 0 /\ wire = <<>> /\ queue = <<>>
  BY DEF Init, EmptyScrollback
<1>2. Coming = <<>>
  BY <1>1, StreamNone DEF Coming
<1>3. Bytes(0, 0) = <<>> /\ Runs(Bytes(0, 0), 0, 0)
  BY BytesNone, BytesAre
<1> QED BY <1>1, <1>2, <1>3 DEF StreamRuns

\* How publish treats the queue of the link.
LEMMA PublishQueue ==
  ASSUME Basis, NEW n \in 1..MaxChunk, Publish(n)
  PROVE  LET data == Bytes(sb.next_seq, sb.next_seq + n)
         IN  \/ queue' = Append(queue, data) /\ (dropped' = FALSE => dropped = FALSE)
             \/ queue' = queue /\ dropped' = TRUE
             \/ link # "up"
<1> DEFINE data == Bytes(sb.next_seq, sb.next_seq + n)
<1>1. /\ queue' = IF attached /\ ~(Len(queue) >= OutputQueue) THEN Append(queue, data) ELSE queue
      /\ dropped' = (dropped \/ (attached /\ Len(queue) >= OutputQueue))
  BY Zenon DEF Publish
<1>2. (attached <=> link = "up") /\ dropped \in BOOLEAN
  BY Zenon DEF Basis, Linked, Typed, Flags
<1> HIDE DEF data
<1>3. CASE link = "up" /\ Len(queue) >= OutputQueue
  <2>1. queue' = queue /\ dropped' = TRUE
    BY <1>1, <1>2, <1>3, Zenon
  <2> QED BY <2>1
<1>4. CASE link = "up" /\ ~(Len(queue) >= OutputQueue)
  <2>1. queue' = Append(queue, data) /\ (dropped' = FALSE => dropped = FALSE)
    BY <1>1, <1>2, <1>4, Zenon
  <2> QED BY <2>1, Zenon DEF data
<1>5. CASE link # "up"
  BY <1>5
<1> QED BY <1>3, <1>4, <1>5, Zenon

\* publish adds to the end of the stream what it adds to the scrollback, or
\* drops it and says so.
LEMMA StreamPublishes ==
  ASSUME Basis, StreamRuns, NEW n \in 1..MaxChunk, Publish(n)
  PROVE  StreamRuns'
<1> DEFINE data == Bytes(sb.next_seq, sb.next_seq + n)
<1>1. sb' = Push(sb, data) /\ UNCHANGED <<wire, link, seen>>
  BY DEF Publish
<1>2. /\ n \in Nat /\ sb.next_seq \in Nat /\ data \in Chunk /\ sb'.next_seq = sb.next_seq + n
  BY <1>1, BasisIs, PublishData
<1>3. /\ queue \in SeqsOfSeqs /\ wire \in Seq(Frame) /\ seen \in Nat /\ Coming \in Chunk
  BY BasisIs DEF Wire
<1> SUFFICES ASSUME link = "up" 
             PROVE  /\ seen <= sb'.next_seq /\ Runs(Coming', seen, sb'.next_seq)
                    /\ dropped' = FALSE => Coming' = Bytes(seen, sb'.next_seq)
  BY <1>1 DEF StreamRuns
<1>4. /\ seen <= sb.next_seq /\ Runs(Coming, seen, sb.next_seq)
      /\ dropped = FALSE => Coming = Bytes(seen, sb.next_seq)
  BY DEF StreamRuns
<1>5. PICK N \in Nat, M \in Nat : N = sb.next_seq /\ M = sb.next_seq + n
  BY <1>2
<1>6. N <= M /\ seen <= N /\ seen <= M /\ data = Bytes(N, M) /\ Runs(data, N, M)
  <2>1. data = Bytes(N, M)
    BY <1>5, Zenon
  <2>2. N <= M /\ seen <= N /\ seen <= M
    BY <1>2, <1>3, <1>4, <1>5
  <2> QED BY <2>1, <2>2, BytesAre
<1> HIDE DEF data
<1>7. CASE queue' = Append(queue, data) /\ (dropped' = FALSE => dropped = FALSE)
  <2>1. Coming' = Join(Coming, data)
    BY <1>1, <1>2, <1>3, <1>7, StreamPublish, Zenon DEF Coming
  <2>2. Runs(Join(Coming, data), seen, M)
    BY <1>2, <1>3, <1>4, <1>5, <1>6, RunsJoin
  <2>3. Join(Bytes(seen, N), Bytes(N, M)) = Bytes(seen, M)
    BY <1>3, <1>6, BytesMeet
  <2> QED BY <1>2, <1>4, <1>5, <1>6, <1>7, <2>1, <2>2, <2>3
<1>8. CASE queue' = queue /\ dropped' = TRUE
  <2>1. Coming' = Coming
    BY <1>1, <1>8, Zenon DEF Coming
  <2>2. Runs(Coming, seen, M)
    BY <1>3, <1>4, <1>5, <1>6, RunsWiden
  <2> QED BY <1>2, <1>5, <1>6, <1>8, <2>1, <2>2
<1> QED BY <1>7, <1>8, PublishQueue DEF data

\* attach leaves on the wire exactly the bytes from where the replay starts.
LEMMA StreamAttach ==
  ASSUME Basis, Attach
  PROVE  /\ StreamRuns' /\ seen' = Start(sb, since) /\ seen' \in Nat /\ sb' = sb
         /\ Coming' = Bytes(seen', sb.next_seq)
<1>1. sb \in ScrollbackType /\ HoldsTail(sb) /\ since \in Nat
  BY BasisIs
<1>2. PICK r : r = ReplayFrom(sb, since)
  OBVIOUS
<1>3. wire' = ReplayFrames(r) /\ seen' = Start(sb, since) /\ sb' = sb /\ queue' = <<>>
  BY <1>2 DEF Attach, Start
<1>4. /\ Start(sb, since) \in Nat /\ Start(sb, since) <= sb.next_seq /\ sb.next_seq \in Nat
      /\ r.bytes = Bytes(Start(sb, since), sb.next_seq)
  BY <1>1, <1>2, ReplayIs
<1>5. Coming' = r.bytes
  <2>1. StreamOf(ReplayFrames(r), <<>>) = r.bytes
    BY <1>1, <1>2, ReplayFramesAre
  <2> QED BY <1>3, <2>1 DEF Coming
<1>6. Runs(Bytes(Start(sb, since), sb.next_seq), Start(sb, since), sb.next_seq)
  BY <1>4, BytesAre
<1> QED BY <1>3, <1>4, <1>5, <1>6 DEF StreamRuns

\* pump_output leaves the stream as it is.
LEMMA StreamPumps ==
  ASSUME Basis, StreamRuns, Pump
  PROVE  StreamRuns'
<1>1. /\ queue # <<>> /\ wire' = Append(wire, Binary(FALSE, Head(queue))) /\ queue' = Tail(queue)
      /\ UNCHANGED <<sb, link, seen, dropped>>
  BY DEF Pump, history
<1>2. queue \in SeqsOfSeqs /\ wire \in Seq(Frame)
  BY BasisIs DEF Wire
<1>3. Head(queue) = queue[1] /\ queue[1] \in Chunk
  BY <1>1, <1>2, FlatHead DEF SeqsOfSeqs
<1>4. Binary(FALSE, Head(queue)) \in Frame /\ Payload(Binary(FALSE, Head(queue))) = queue[1]
  BY <1>3, BinaryType
<1>5. Coming' = Coming
  BY <1>1, <1>2, <1>4, StreamPump, Zenon DEF Coming
<1> QED BY <1>1, <1>5 DEF StreamRuns

\* A frame without bytes that arrives leaves the stream as it was.
LEMMA StreamControls ==
  ASSUME Basis, StreamRuns, OnReady \/ OnGapTruncated
  PROVE  StreamRuns'
<1>1. /\ wire # <<>> /\ wire' = Tail(wire) /\ Head(wire).type # "binary"
      /\ UNCHANGED <<sb, link, seen, dropped, queue>>
  BY DEF OnReady, OnGapTruncated, Received, agent, history
<1>2. queue \in SeqsOfSeqs /\ wire \in Seq(Frame)
  BY BasisIs DEF Wire
<1>3. Payload(wire[1]) = <<>>
  BY <1>1, <1>2, WireHead DEF Payload, Wire
<1>4. Coming = Join(<<>>, StreamOf(Tail(wire), queue)) /\ StreamOf(Tail(wire), queue) \in Chunk
  BY <1>1, <1>2, <1>3, StreamReceive DEF Coming
<1>5. Coming' = Coming
  BY <1>1, <1>4, ChunkNone, Zenon DEF Coming
<1> QED BY <1>1, <1>5 DEF StreamRuns

\* What the client receives is the front of the stream.
LEMMA OutputIs ==
  ASSUME Basis, OnOutput
  PROVE  /\ wire # <<>> /\ wire' = Tail(wire) /\ UNCHANGED <<sb, link, dropped, queue>>
         /\ Head(wire) = wire[1] /\ wire[1] \in Write /\ wire[1].bytes \in Chunk
         /\ writes' = Append(writes, wire[1])
         /\ seen' = (IF wire[1].bytes = <<>> THEN seen ELSE wire[1].bytes[Len(wire[1].bytes)] + 1)
         /\ Coming' \in Chunk /\ Coming = Join(wire[1].bytes, Coming')
         /\ link = "up"
<1>1. /\ wire # <<>> /\ wire' = Tail(wire) /\ Head(wire).type = "binary"
      /\ UNCHANGED <<sb, link, dropped, queue>>
      /\ writes' = Append(writes, Head(wire))
      /\ seen' = LET b == Head(wire).bytes IN IF b = <<>> THEN seen ELSE b[Len(b)] + 1
  BY DEF OnOutput, Received, agent
<1>2. queue \in SeqsOfSeqs /\ wire \in Wire /\ (link # "up" => wire = <<>>)
  BY BasisIs
<1>3. Head(wire) = wire[1] /\ wire[1] \in Frame
  BY <1>1, <1>2, WireHead
<1>4. wire[1] \in Write
  BY <1>1, <1>3, FrameIsWrite
<1>5. wire[1].bytes \in Chunk /\ Payload(wire[1]) = wire[1].bytes
  BY <1>4, WriteType
<1>6. /\ Coming = Join(wire[1].bytes, StreamOf(Tail(wire), queue))
      /\ StreamOf(Tail(wire), queue) \in Chunk
  BY <1>1, <1>2, <1>5, StreamReceive DEF Coming, Wire
<1>7. Coming' = StreamOf(Tail(wire), queue)
  BY <1>1, Zenon DEF Coming
<1> QED BY <1>1, <1>2, <1>3, <1>4, <1>5, <1>6, <1>7

\* The client takes the bytes that follow what it had.
LEMMA StreamOutput ==
  ASSUME Basis, StreamRuns, OnOutput
  PROVE  /\ StreamRuns'
         /\ dropped = FALSE => /\ seen' = seen + Len(wire[1].bytes) /\ seen' <= sb.next_seq
                               /\ wire[1].bytes = Bytes(seen, seen')
<1> DEFINE b == wire[1].bytes
<1>1. /\ UNCHANGED <<sb, link, dropped>> /\ b \in Chunk /\ link = "up"
      /\ seen' = (IF b = <<>> THEN seen ELSE b[Len(b)] + 1)
      /\ Coming' \in Chunk /\ Coming = Join(b, Coming')
  BY OutputIs
<1>2. seen \in Nat /\ sb.next_seq \in Nat
  BY BasisIs
<1>3. /\ seen <= sb.next_seq /\ Runs(Coming, seen, sb.next_seq)
      /\ dropped = FALSE => Coming = Bytes(seen, sb.next_seq)
  BY <1>1 DEF StreamRuns
<1> HIDE DEF b
<1>4. PICK t \in Chunk : t = Coming'
  BY <1>1
<1>5. PICK N \in Nat : N = sb.next_seq
  BY <1>2
<1>6. seen' <= N /\ Runs(t, seen', N)
  <2>1. CASE b = <<>>
    <3>1. Coming = t
      BY <1>1, <1>4, <2>1, ChunkNone
    <3> QED BY <1>1, <1>3, <1>5, <2>1, <3>1
  <2>2. CASE b # <<>>
    BY <1>1, <1>2, <1>3, <1>4, <1>5, <2>2, RunsSplit
  <2> QED BY <2>1, <2>2
<1>7. ASSUME dropped = FALSE
      PROVE  seen' = seen + Len(b) /\ b = Bytes(seen, seen') /\ t = Bytes(seen', N)
  <2>1. Join(b, t) = Bytes(seen, N) /\ seen <= N
    BY <1>1, <1>3, <1>4, <1>5, <1>7
  <2>2. /\ Len(b) \in Nat /\ b = Bytes(seen, seen + Len(b)) /\ t = Bytes(seen + Len(b), N)
        /\ b # <<>> => b[Len(b)] + 1 = seen + Len(b)
    BY <1>1, <1>2, <2>1, BytesSplit
  <2>3. b = <<>> => Len(b) = 0
    BY <1>1, ChunkIs
  <2>4. seen' = seen + Len(b)
    BY <1>1, <1>2, <2>2, <2>3
  <2> QED BY <2>2, <2>4
<1> QED BY <1>1, <1>3, <1>4, <1>5, <1>6, <1>7 DEF StreamRuns, b

\* Every step keeps the stream in order, and whole if nothing was dropped.
LEMMA StreamStep ==
  ASSUME Basis, StreamRuns, [Next]_vars PROVE StreamRuns'
<1>1. CASE \E n \in 1..MaxChunk : Publish(n)
  BY <1>1, StreamPublishes, Zenon
<1>2. CASE Attach \/ Pump \/ OnReady \/ OnGapTruncated \/ OnOutput
  BY <1>2, StreamAttach, StreamPumps, StreamControls, StreamOutput, Zenon
<1>3. CASE LinkLost \/ Reconnect \/ Reload
  BY <1>3 DEF LinkLost, Reconnect, Reload, StreamRuns
<1>4. CASE SpawnPump \/ Draw \/ UNCHANGED vars
  <2>1. UNCHANGED <<sb, wire, queue, link, seen, dropped>>
    BY <1>4 DEF SpawnPump, Draw, vars, agent, history
  <2>2. Coming' = Coming
    BY <2>1, Zenon DEF Coming
  <2> QED BY <2>1, <2>2 DEF StreamRuns
<1> QED BY <1>1, <1>2, <1>3, <1>4, Zenon DEF Next

-----------------------------------------------------------------------------
(* Frames.                                                                 *)

\* A wire that follows w: shorter by its head, or longer by one output frame.
Shorter(w, v) == w # <<>> /\ v = Tail(w)
Longer(w, v)  == \E b \in Chunk : v = Append(w, Binary(FALSE, b))

\* What a step may do to the wire.
LEMMA WireStep ==
  ASSUME Basis, [Next]_vars
  PROVE  \/ Attach \/ OnOutput
         \/ wire' = <<>> /\ UNCHANGED seen
         \/ wire' = wire /\ UNCHANGED seen
         \/ Shorter(wire, wire') /\ UNCHANGED seen
         \/ Longer(wire, wire') /\ UNCHANGED seen
<1>1. CASE \E n \in 1..MaxChunk : Publish(n)
  BY <1>1, Zenon DEF Publish
<1>2. CASE Pump
  <2>1. /\ queue # <<>> /\ wire' = Append(wire, Binary(FALSE, Head(queue))) /\ UNCHANGED seen
    BY <1>2, Zenon DEF Pump, history
  <2>2. Head(queue) \in Chunk
    BY <2>1, BasisIs DEF SeqsOfSeqs
  <2> QED BY <2>1, <2>2, Zenon DEF Longer
<1>3. CASE OnReady \/ OnGapTruncated
  BY <1>3, Zenon DEF OnReady, OnGapTruncated, Received, Shorter, history
<1>4. CASE LinkLost \/ Reload
  BY <1>4, Zenon DEF LinkLost, Reload, history
<1>5. CASE SpawnPump \/ Reconnect \/ Draw \/ UNCHANGED vars
  BY <1>5, Zenon DEF SpawnPump, Reconnect, Draw, vars, history
<1> QED BY <1>1, <1>2, <1>3, <1>4, <1>5, Zenon DEF Next

\* Output takes the first frame.
LEMMA OutputShortens == ASSUME OnOutput PROVE Shorter(wire, wire')
  BY Zenon DEF OnOutput, Received, Shorter

\* A shorter wire is the old one moved by one, a longer one has an output last.
LEMMA ShorterIs ==
  ASSUME NEW w \in Wire, NEW v, Shorter(w, v)
  PROVE  /\ Len(v) \in Nat /\ Len(w) \in Nat /\ w # <<>>
         /\ \A i \in 1..Len(v) : i + 1 \in 2..Len(w) /\ v[i] = w[i + 1]
  BY WireHead DEF Shorter

\* A wire with one output frame more, by its frames.
LEMMA LongerIs ==
  ASSUME NEW w \in Wire, NEW v, Longer(w, v)
  PROVE  /\ Len(v) \in Nat /\ Len(w) \in Nat /\ Len(v) = Len(w) + 1
         /\ v[Len(v)].type = "binary" /\ v[Len(v)].reset = FALSE
         /\ \A i \in 1..Len(w) : v[i] = w[i]
<1>1. PICK b \in Chunk : v = Append(w, Binary(FALSE, b))
  BY DEF Longer
<1>2. Binary(FALSE, b) \in Frame
  BY BinaryType
<1>3. Binary(FALSE, b).type = "binary" /\ Binary(FALSE, b).reset = FALSE
  BY DEF Binary
<1>4. PICK m \in Frame : m = Binary(FALSE, b)
  BY <1>2
<1>5. /\ Len(w) \in Nat /\ Len(v) = Len(w) + 1
      /\ v[Len(w) + 1] = m /\ \A i \in 1..Len(w) : v[i] = w[i]
  BY <1>1, <1>4, WireGrows
<1>6. v[Len(v)] = Binary(FALSE, b)
  BY <1>4, <1>5
<1>7. Len(v) \in Nat
  BY <1>5
<1> QED BY <1>3, <1>5, <1>6, <1>7, Zenon

\* At most the first frame of a wire is a Ready.
NoReadyAfter(w) == \A i \in 2..Len(w) : w[i].type # "ready"

\* The opening wire is empty.
LEMMA ReadyFirstInit == Init => NoReadyAfter(wire)
  BY DEF Init, NoReadyAfter

\* A Ready is only ever the first frame of a wire.
LEMMA ReadyFirstStep ==
  ASSUME Basis, NoReadyAfter(wire), [Next]_vars PROVE NoReadyAfter(wire')
<1>1. wire \in Wire /\ sb \in ScrollbackType /\ HoldsTail(sb) /\ since \in Nat
  BY BasisIs
<1>2. CASE Attach
  <2>1. PICK r : r = ReplayFrom(sb, since)
    OBVIOUS
  <2>2. wire' = ReplayFrames(r)
    BY <1>2, <2>1 DEF Attach
  <2> QED BY <1>1, <2>1, <2>2, ReplayFramesAre DEF NoReadyAfter
<1>3. CASE Shorter(wire, wire')
  <2>1. /\ Len(wire') \in Nat
        /\ \A i \in 1..Len(wire') : i + 1 \in 2..Len(wire) /\ wire'[i] = wire[i + 1]
    BY <1>1, <1>3, ShorterIs
  <2>2. \A i \in 2..Len(wire') : i \in 1..Len(wire')
    BY <2>1
  <2> QED BY <2>1, <2>2, Zenon DEF NoReadyAfter
<1>4. CASE Longer(wire, wire')
  <2>1. /\ Len(wire) \in Nat /\ Len(wire') = Len(wire) + 1 /\ wire'[Len(wire')].type = "binary"
        /\ \A i \in 1..Len(wire) : wire'[i] = wire[i]
    BY <1>1, <1>4, LongerIs
  <2> SUFFICES ASSUME NEW i \in 2..Len(wire') PROVE wire'[i].type # "ready"
    BY DEF NoReadyAfter
  <2>2. CASE i = Len(wire')
    BY <2>1, <2>2
  <2>3. CASE i # Len(wire')
    <3>1. i \in 1..Len(wire) /\ i \in 2..Len(wire)
      BY <2>1, <2>3
    <3>2. wire'[i] = wire[i] /\ wire[i].type # "ready"
      BY <2>1, <3>1 DEF NoReadyAfter
    <3> QED BY <3>2
  <2> QED BY <2>2, <2>3
<1>5. CASE wire' = <<>>
  BY <1>5 DEF NoReadyAfter
<1>6. CASE wire' = wire
  BY <1>6, Zenon
<1> QED BY <1>2, <1>3, <1>4, <1>5, <1>6, WireStep, OutputShortens, Zenon

-----------------------------------------------------------------------------
(* Behaviours without a drop, a truncation or an overlap.                  *)

CleanFrame(m) ==
  /\ m.type # "gap_truncated"
  /\ m.type = "binary" => m.reset = FALSE
  /\ m.type = "ready" => m.trunc = FALSE /\ m.since = seen

AllClean(w) == \A i \in 1..Len(w) : CleanFrame(w[i])
NoResets(w) == \A i \in 1..Len(w) : w[i].reset = FALSE
WaitsReady(w) == w # <<>> /\ w[1].type = "ready"
Draws(lo, hi) == \A i \in Nat : lo <= i /\ i < hi => i \in screen

CleanLink ==
  Clean => dropped = FALSE /\ AllClean(wire) /\ NoResets(writes)

Undrawn == StreamOf(writes, <<>>)

CleanCounts ==
  Clean =>
    /\ Draws(base, rendered)
    /\ Undrawn = Bytes(rendered, rendered + Len(Undrawn))
    /\ rendered + Len(Undrawn) <= sb.next_seq /\ saved <= sb.next_seq
    /\ link = "up" /\ ~WaitsReady(wire) => rendered + Len(Undrawn) = seen
    /\ link = "asked" => since <= sb.next_seq /\ Draws(base, since)
    /\ link = "up" /\ WaitsReady(wire) => Draws(base, seen)

ResumeInvariant ==
  Basis /\ StreamRuns /\ NoReadyAfter(wire) /\ CleanLink /\ CleanCounts

\* Once not clean, never clean.
LEMMA CleanFalls ==
  ASSUME Typed, [Next]_vars PROVE Clean' => Clean
<1> USE DEF Clean, Typed, Flags
<1>1. CASE \E n \in 1..MaxChunk : Publish(n)
  <2>1. PICK n \in 1..MaxChunk : Publish(n)
    BY <1>1
  <2>2. cut' = cut /\ overlap' = overlap
    BY <2>1, Zenon DEF Publish
  <2>3. lossy' = FALSE => lossy = FALSE
    <3>1. lossy' = (lossy \/ (attached /\ Len(queue) >= OutputQueue)) /\ lossy \in BOOLEAN
      BY <2>1, Zenon DEF Publish
    <3> QED BY <3>1, Zenon
  <2> QED BY <2>2, <2>3, Zenon
<1>2. CASE Attach
  BY <1>2, Zenon DEF Attach
<1>3. CASE OnReady
  BY <1>3, Zenon DEF OnReady
<1>4. CASE SpawnPump \/ Pump \/ LinkLost \/ Reconnect \/ Reload \/ OnOutput \/ OnGapTruncated \/ Draw
  BY <1>4, Zenon DEF SpawnPump, Pump, LinkLost, Reconnect, Reload, OnOutput, OnGapTruncated, Draw, history
<1>5. CASE UNCHANGED vars
  BY <1>5, Zenon DEF vars, history
<1> QED BY <1>1, <1>2, <1>3, <1>4, <1>5, Zenon DEF Next

\* A clean step drops nothing.
LEMMA CleanKeeps ==
  ASSUME Typed, [Next]_vars, Clean', dropped = FALSE PROVE dropped' = FALSE
<1>1. CASE \E n \in 1..MaxChunk : Publish(n)
  <2>1. PICK n \in 1..MaxChunk : Publish(n)
    BY <1>1
  <2>2. /\ lossy' = (lossy \/ (attached /\ Len(queue) >= OutputQueue))
        /\ dropped' = (dropped \/ (attached /\ Len(queue) >= OutputQueue))
    BY <2>1, Zenon DEF Publish
  <2>3. ~(attached /\ Len(queue) >= OutputQueue)
    <3>1. lossy' = FALSE
      BY Zenon DEF Clean
    <3> QED BY <2>2, <3>1, Zenon
  <2> QED BY <2>2, <2>3, Zenon
<1>2. CASE Attach
  BY <1>2, Zenon DEF Attach
<1>3. CASE OnReady \/ SpawnPump \/ Pump \/ LinkLost \/ Reconnect \/ Reload
  BY <1>3, Zenon DEF OnReady, SpawnPump, Pump, LinkLost, Reconnect, Reload, history
<1>4. CASE OnOutput \/ OnGapTruncated \/ Draw \/ UNCHANGED vars
  BY <1>4, Zenon DEF OnOutput, OnGapTruncated, Draw, vars, history
<1> QED BY <1>1, <1>2, <1>3, <1>4, Zenon DEF Next

\* A new session is clean.
LEMMA CleanInit == Init => CleanLink /\ CleanCounts
<1> SUFFICES ASSUME Init PROVE CleanLink /\ CleanCounts
  OBVIOUS
<1>1. /\ sb.next_seq = 0 /\ seen = 0 /\ wire = <<>> /\ writes = <<>> /\ base = 0
      /\ rendered = 0 /\ saved = 0 /\ link = "up" /\ dropped = FALSE
  BY DEF Init, EmptyScrollback
<1>2. Undrawn = <<>>
  BY <1>1, StreamNone DEF Undrawn
<1>3. Len(<<>>) = 0 /\ Bytes(0, 0 + 0) = <<>>
  BY BytesNone
<1>4. CleanLink
  BY <1>1 DEF CleanLink, AllClean, NoResets
<1>5. CleanCounts
  BY <1>1, <1>2, <1>3 DEF CleanCounts, Draws, WaitsReady
<1> QED BY <1>4, <1>5

\* What a clean state knows of what the renderer has accepted and not drawn.
LEMMA UndrawnType == ASSUME Basis PROVE Undrawn \in Chunk /\ Len(Undrawn) \in Nat
<1>1. writes \in Wire /\ <<>> \in SeqsOfSeqs
  BY BasisIs DEF SeqsOfSeqs
<1>2. Undrawn \in Chunk
  BY <1>1, StreamType, Zenon DEF Undrawn, Wire
<1> QED BY <1>2, ChunkIs

\* What the invariant says of a clean state.
LEMMA CleanKnows ==
  ASSUME ResumeInvariant, Clean
  PROVE  /\ dropped = FALSE /\ AllClean(wire) /\ NoResets(writes)
         /\ Draws(base, rendered)
         /\ Undrawn = Bytes(rendered, rendered + Len(Undrawn))
         /\ rendered + Len(Undrawn) <= sb.next_seq /\ saved <= sb.next_seq
         /\ link = "up" /\ ~WaitsReady(wire) => rendered + Len(Undrawn) = seen
         /\ link = "asked" => since <= sb.next_seq /\ Draws(base, since)
         /\ link = "up" /\ WaitsReady(wire) => Draws(base, seen)
         /\ link = "up" => seen <= sb.next_seq
  BY Zenon DEF ResumeInvariant, CleanLink, CleanCounts, StreamRuns

-----------------------------------------------------------------------------
(* The steps, from a clean state to a clean state.                         *)

\* publish.
LEMMA CleanPublish ==
  ASSUME ResumeInvariant, Clean, Clean', dropped' = FALSE, NEW n \in 1..MaxChunk, Publish(n)
  PROVE  CleanLink' /\ CleanCounts'
<1>1. /\ UNCHANGED <<wire, link, since, rendered, saved, writes, screen, base, seen>>
      /\ sb' = Push(sb, Bytes(sb.next_seq, sb.next_seq + n))
  BY DEF Publish, client
<1>2. Basis /\ n \in Nat /\ sb.next_seq \in Nat /\ sb'.next_seq = sb.next_seq + n
  BY <1>1, BasisIs, PublishData DEF ResumeInvariant
<1>3. saved \in Nat /\ since \in Nat /\ rendered \in Nat /\ Len(Undrawn) \in Nat
  BY <1>2, BasisIs, UndrawnType
<1>4. Undrawn' = Undrawn
  BY <1>1, Zenon DEF Undrawn
<1>5. CleanLink'
  BY <1>1, CleanKnows, Zenon DEF CleanLink, AllClean, CleanFrame, NoResets
<1>6. \A x \in Nat : x <= sb.next_seq => x <= sb'.next_seq
  BY <1>2
<1>7. rendered + Len(Undrawn) \in Nat
  BY <1>3
<1>8. CleanCounts'
  BY <1>1, <1>3, <1>4, <1>6, <1>7, CleanKnows, Zenon DEF CleanCounts, Draws, WaitsReady
<1> QED BY <1>5, <1>8

\* attach: not truncated, so the Ready repeats the client's own position.
LEMMA CleanAttach ==
  ASSUME ResumeInvariant, Clean, Clean', Attach
  PROVE  CleanLink' /\ CleanCounts'
<1>1. Basis
  BY DEF ResumeInvariant
<1>2. /\ link = "asked" /\ link' = "up"
      /\ UNCHANGED <<sb, since, rendered, saved, writes, screen, base>>
      /\ dropped' = FALSE
  BY DEF Attach, client
<1>3. sb \in ScrollbackType /\ HoldsTail(sb) /\ since \in Nat /\ sb.next_seq \in Nat
  BY <1>1, BasisIs
<1>4. since <= sb.next_seq /\ Draws(base, since)
  BY <1>2, CleanKnows
<1>5. PICK r : r = ReplayFrom(sb, since)
  OBVIOUS
<1>6. wire' = ReplayFrames(r) /\ seen' = Start(sb, since)
  BY <1>5 DEF Attach, Start
<1>7. r.kind # "truncated"
  <2>1. cut' = (cut \/ r.kind = "truncated")
    BY <1>5, Zenon DEF Attach
  <2>2. cut' = FALSE
    BY Zenon DEF Clean
  <2> QED BY <2>1, <2>2, Zenon
<1>8. seen' = since
  BY <1>3, <1>4, <1>5, <1>6, <1>7 DEF Start
<1>9. /\ wire' # <<>> /\ wire'[1] = Ready(since, FALSE)
      /\ \A i \in 2..Len(wire') : wire'[i] = Binary(FALSE, r.bytes)
      /\ wire' \in Wire
  BY <1>3, <1>5, <1>6, <1>7, ReplayFramesAre
<1>10. /\ Ready(since, FALSE).type = "ready" /\ Ready(since, FALSE).trunc = FALSE
       /\ Ready(since, FALSE).since = since
       /\ Binary(FALSE, r.bytes).type = "binary" /\ Binary(FALSE, r.bytes).reset = FALSE
  BY DEF Ready, Binary
<1>11. AllClean(wire)'
  <2> SUFFICES ASSUME NEW i \in 1..Len(wire') PROVE CleanFrame(wire[i])'
    BY DEF AllClean
  <2>1. CASE i = 1
    BY <1>8, <1>9, <1>10, <2>1 DEF CleanFrame
  <2>2. CASE i # 1
    <3>1. i \in 2..Len(wire')
      BY <1>9, <2>2, WireHead
    <3> QED BY <1>9, <1>10, <3>1 DEF CleanFrame
  <2> QED BY <2>1, <2>2
<1>12. CleanLink'
  BY <1>2, <1>11, CleanKnows, Zenon DEF CleanLink, NoResets
<1>13. Undrawn' = Undrawn
  BY <1>2, Zenon DEF Undrawn
<1>14. WaitsReady(wire')
  BY <1>9, <1>10 DEF WaitsReady
<1>15. link' # "asked"
  BY <1>2
<1>16. CleanCounts'
  BY <1>2, <1>4, <1>8, <1>13, <1>14, <1>15, CleanKnows, Zenon DEF CleanCounts, Draws
<1> QED BY <1>12, <1>16

\* pump_output: an output frame behind the others.
LEMMA CleanPump ==
  ASSUME ResumeInvariant, Clean, Clean', dropped' = FALSE, Pump
  PROVE  CleanLink' /\ CleanCounts'
<1>1. UNCHANGED <<sb, link, since, rendered, saved, writes, screen, base, seen>>
  BY DEF Pump, client, history
<1>2. Basis /\ wire \in Wire /\ queue \in SeqsOfSeqs
  BY BasisIs DEF ResumeInvariant
<1>3. Longer(wire, wire')
  <2>1. queue # <<>> /\ wire' = Append(wire, Binary(FALSE, Head(queue)))
    BY DEF Pump
  <2>2. Head(queue) \in Chunk
    BY <1>2, <2>1 DEF SeqsOfSeqs
  <2> QED BY <2>1, <2>2, Zenon DEF Longer
<1>4. /\ Len(wire) \in Nat /\ Len(wire') = Len(wire) + 1
      /\ wire'[Len(wire')].type = "binary" /\ wire'[Len(wire')].reset = FALSE
      /\ \A i \in 1..Len(wire) : wire'[i] = wire[i]
  BY <1>2, <1>3, LongerIs
<1>5. AllClean(wire)'
  <2> SUFFICES ASSUME NEW i \in 1..Len(wire') PROVE CleanFrame(wire[i])'
    BY DEF AllClean
  <2>1. CASE i = Len(wire')
    BY <1>4, <2>1 DEF CleanFrame
  <2>2. CASE i # Len(wire')
    <3>1. i \in 1..Len(wire)
      BY <1>4, <2>2
    <3>2. CleanFrame(wire[i]) /\ wire'[i] = wire[i]
      BY <1>4, <3>1, CleanKnows DEF AllClean
    <3> QED BY <1>1, <3>2 DEF CleanFrame
  <2> QED BY <2>1, <2>2
<1>6. CleanLink'
  BY <1>1, <1>5, CleanKnows, Zenon DEF CleanLink, NoResets
<1>7. WaitsReady(wire') <=> WaitsReady(wire)
  <2>1. wire' # <<>>
    <3>1. Len(<<>>) = 0
      OBVIOUS
    <3> QED BY <1>4, <3>1
  <2>2. CASE wire = <<>>
    <3>1. Len(wire) = 0 /\ Len(wire') = 1 /\ wire'[1].type = "binary"
      BY <1>4, <2>2
    <3> QED BY <2>2, <3>1 DEF WaitsReady
  <2>3. CASE wire # <<>>
    <3>1. 1 \in 1..Len(wire)
      BY <1>2, <2>3, WireHead
    <3> QED BY <1>4, <2>1, <2>3, <3>1 DEF WaitsReady
  <2> QED BY <2>2, <2>3
<1>8. Undrawn' = Undrawn
  BY <1>1, Zenon DEF Undrawn
<1>9. CleanCounts'
  BY <1>1, <1>7, <1>8, CleanKnows, Zenon DEF CleanCounts, Draws
<1> QED BY <1>6, <1>9

\* The link is lost: nothing the client drew is.
LEMMA CleanLost ==
  ASSUME ResumeInvariant, Clean, Clean', dropped' = FALSE, LinkLost
  PROVE  CleanLink' /\ CleanCounts'
<1>1. /\ UNCHANGED <<sb, since, rendered, writes, screen, base, seen>>
      /\ link' = "down" /\ wire' = <<>> /\ saved' = rendered
  BY DEF LinkLost, history
<1>2. AllClean(wire)'
  BY <1>1 DEF AllClean
<1>3. CleanLink'
  BY <1>1, <1>2, CleanKnows, Zenon DEF CleanLink, NoResets
<1>4. Undrawn' = Undrawn
  BY <1>1, Zenon DEF Undrawn
<1>5. rendered <= sb.next_seq
  <2>1. rendered \in Nat /\ sb.next_seq \in Nat /\ Len(Undrawn) \in Nat
    BY BasisIs, UndrawnType DEF ResumeInvariant
  <2> QED BY <2>1, CleanKnows
<1>6. link' # "up" /\ link' # "asked"
  BY <1>1
<1>7. CleanCounts'
  BY <1>1, <1>4, <1>5, <1>6, CleanKnows, Zenon DEF CleanCounts, Draws
<1> QED BY <1>3, <1>7

\* The client asks for what follows what it drew.
LEMMA CleanReconnect ==
  ASSUME ResumeInvariant, Clean, Clean', dropped' = FALSE, Reconnect
  PROVE  CleanLink' /\ CleanCounts'
<1>1. /\ UNCHANGED <<sb, rendered, saved, writes, screen, base, seen, wire>>
      /\ link' = "asked" /\ since' = rendered
  BY DEF Reconnect, history, agent, client
<1>2. CleanLink'
  BY <1>1, CleanKnows, Zenon DEF CleanLink, NoResets, AllClean, CleanFrame
<1>3. Undrawn' = Undrawn
  BY <1>1, Zenon DEF Undrawn
<1>4. rendered <= sb.next_seq
  <2>1. rendered \in Nat /\ sb.next_seq \in Nat /\ Len(Undrawn) \in Nat
    BY BasisIs, UndrawnType DEF ResumeInvariant
  <2> QED BY <2>1, CleanKnows
<1>5. link' # "up"
  BY <1>1
<1>6. CleanCounts'
  BY <1>1, <1>3, <1>4, <1>5, CleanKnows, Zenon DEF CleanCounts, Draws
<1> QED BY <1>2, <1>6

\* A reload starts from what was saved, which is never ahead.
LEMMA CleanReload ==
  ASSUME ResumeInvariant, Clean, Clean', dropped' = FALSE, Reload
  PROVE  CleanLink' /\ CleanCounts'
<1>1. /\ sb' = sb /\ saved' = saved /\ rendered' = saved /\ base' = saved /\ writes' = <<>>
      /\ link' = "down" /\ wire' = <<>>
  BY DEF Reload
<1>2. saved \in Nat /\ saved <= sb.next_seq /\ sb.next_seq \in Nat
  BY BasisIs, CleanKnows DEF ResumeInvariant
<1>3. CleanLink'
  BY <1>1 DEF CleanLink, NoResets, AllClean
<1>4. Undrawn' = <<>>
  BY <1>1, StreamNone, Zenon DEF Undrawn
<1>5. Len(<<>>) = 0 /\ Bytes(saved, saved + 0) = <<>> /\ saved + 0 = saved
  BY <1>2, BytesNone
<1>6. Draws(base, rendered)'
  BY <1>1, <1>2 DEF Draws
<1>7. link' # "up" /\ link' # "asked"
  BY <1>1
<1>8. CleanCounts'
  BY <1>1, <1>2, <1>4, <1>5, <1>6, <1>7 DEF CleanCounts
<1> QED BY <1>3, <1>8

\* After its head is taken, a wire has no Ready left and its frames stay clean.
LEMMA TailClean ==
  ASSUME NEW w \in Wire, NEW v, Shorter(w, v), NoReadyAfter(w), AllClean(w)
  PROVE  /\ ~WaitsReady(v)
         /\ \A i \in 1..Len(v) : CleanFrame(v[i]) /\ v[i].type # "ready"
<1>1. /\ Len(v) \in Nat /\ Len(w) \in Nat
      /\ \A i \in 1..Len(v) : i + 1 \in 2..Len(w) /\ v[i] = w[i + 1]
  BY ShorterIs
<1>2. ASSUME NEW i \in 1..Len(v) PROVE CleanFrame(v[i]) /\ v[i].type # "ready"
  <2>1. i + 1 \in 1..Len(w) /\ i + 1 \in 2..Len(w) /\ v[i] = w[i + 1]
    BY <1>1
  <2> QED BY <2>1, Zenon DEF NoReadyAfter, AllClean
<1>3. ~WaitsReady(v)
  <2>1. v \in Wire
    BY WireHead DEF Shorter
  <2>2. v # <<>> => 1 \in 1..Len(v)
    BY <2>1, WireHead
  <2> QED BY <1>2, <2>2, Zenon DEF WaitsReady
<1> QED BY <1>2, <1>3

\* So the rest of a clean wire is clean.
LEMMA StillClean ==
  ASSUME NEW w \in Wire, NEW v, Shorter(w, v), NoReadyAfter(w), AllClean(w), wire' = v
  PROVE  AllClean(wire)'
<1>1. \A i \in 1..Len(v) : CleanFrame(v[i]) /\ v[i].type # "ready"
  BY TailClean
<1> QED BY <1>1, Zenon DEF AllClean, CleanFrame

\* Ready: the counter is set to where the replay starts, with nothing undrawn.
LEMMA CleanReady ==
  ASSUME ResumeInvariant, Clean, Clean', dropped' = FALSE, OnReady
  PROVE  CleanLink' /\ CleanCounts'
<1>1. /\ wire # <<>> /\ Head(wire).type = "ready" /\ wire' = Tail(wire) /\ Shorter(wire, wire')
      /\ UNCHANGED <<sb, link, since, writes, screen, seen>>
      /\ rendered' = Head(wire).since /\ saved' = rendered'
      /\ base' = IF Head(wire).trunc THEN Head(wire).since ELSE base
      /\ overlap' = (overlap \/ writes # <<>>)
  BY Zenon DEF OnReady, Received, agent, Shorter
<1>2. Basis /\ wire \in Wire /\ NoReadyAfter(wire) /\ AllClean(wire)
  BY BasisIs, CleanKnows DEF ResumeInvariant
<1>3. Head(wire) = wire[1] /\ 1 \in 1..Len(wire)
  BY <1>1, <1>2, WireHead
<1>4. Head(wire).trunc = FALSE /\ Head(wire).since = seen
  BY <1>1, <1>2, <1>3, Zenon DEF AllClean, CleanFrame
<1>5. rendered' = seen /\ saved' = seen /\ base' = base
  BY <1>1, <1>4
<1>6. writes = <<>>
  <2>1. overlap' = FALSE
    BY Zenon DEF Clean
  <2> QED BY <1>1, <2>1, Zenon
<1>7. link = "up" /\ WaitsReady(wire)
  <2>1. wire # <<>> => link = "up"
    BY <1>2, BasisIs
  <2> QED BY <1>1, <1>3, <2>1 DEF WaitsReady
<1>8. Draws(base, seen) /\ seen <= sb.next_seq /\ seen \in Nat
  BY <1>2, <1>7, CleanKnows, BasisIs
<1>9. ~WaitsReady(wire') /\ AllClean(wire)'
  BY <1>1, <1>2, TailClean, StillClean, Zenon
<1>10. CleanLink'
  BY <1>1, <1>9, CleanKnows, Zenon DEF CleanLink, NoResets
<1>11. Undrawn' = <<>>
  BY <1>1, <1>6, StreamNone, Zenon DEF Undrawn
<1>12. Len(<<>>) = 0 /\ Bytes(seen, seen + 0) = <<>> /\ seen + 0 = seen
  BY <1>8, BytesNone
<1>13. Draws(base, seen)'
  BY <1>1, <1>5, <1>8, Zenon DEF Draws
<1>14. link' # "asked" /\ sb' = sb /\ seen' = seen
  BY <1>1, <1>7
<1>15. CleanCounts'
  BY <1>5, <1>8, <1>9, <1>11, <1>12, <1>13, <1>14 DEF CleanCounts
<1> QED BY <1>10, <1>15

\* Output: what is undrawn grows by exactly the bytes that follow.
LEMMA CleanOutput ==
  ASSUME ResumeInvariant, Clean, Clean', dropped' = FALSE, OnOutput
  PROVE  CleanLink' /\ CleanCounts'
<1> DEFINE m == wire[1]
<1>1. Basis /\ StreamRuns /\ wire \in Wire /\ NoReadyAfter(wire) /\ AllClean(wire) /\ dropped = FALSE
  BY BasisIs, CleanKnows DEF ResumeInvariant
<1>2. /\ wire # <<>> /\ wire' = Tail(wire) /\ UNCHANGED <<sb, link>> /\ link = "up"
      /\ m \in Write /\ m.bytes \in Chunk /\ writes' = Append(writes, m) /\ Head(wire) = m
  BY <1>1, OutputIs
<1>3. UNCHANGED <<since, rendered, saved, screen, base>>
  BY DEF OnOutput
<1>4. seen' = seen + Len(m.bytes) /\ seen' <= sb.next_seq /\ m.bytes = Bytes(seen, seen')
  BY <1>1, StreamOutput
<1>5. m.type = "binary" /\ m \in Frame /\ Payload(m) = m.bytes
  BY <1>2, WriteType
<1>6. ~WaitsReady(wire) /\ m.reset = FALSE
  <2>1. 1 \in 1..Len(wire)
    BY <1>1, <1>2, WireHead
  <2> QED BY <1>1, <1>5, <2>1 DEF WaitsReady, AllClean, CleanFrame
<1>7. ~WaitsReady(wire') /\ AllClean(wire)'
  <2>1. Shorter(wire, wire')
    BY <1>2, Zenon DEF Shorter
  <2> QED BY <1>1, <2>1, TailClean, StillClean, Zenon
<1>8. NoResets(writes')
  <2>1. /\ Len(writes) \in Nat /\ Len(writes') = Len(writes) + 1 /\ writes'[Len(writes) + 1] = m
        /\ \A i \in 1..Len(writes) : writes'[i] = writes[i]
    BY <1>1, <1>2, <1>5, BasisIs, WireGrows
  <2>2. \A i \in 1..Len(writes) : writes[i].reset = FALSE
    BY CleanKnows DEF NoResets
  <2> SUFFICES ASSUME NEW i \in 1..Len(writes') PROVE writes'[i].reset = FALSE
    BY DEF NoResets
  <2>3. CASE i = Len(writes) + 1
    BY <1>6, <2>1, <2>3
  <2>4. CASE i # Len(writes) + 1
    <3>1. i \in 1..Len(writes)
      BY <2>1, <2>4
    <3> QED BY <2>1, <2>2, <3>1
  <2> QED BY <2>3, <2>4
<1>9. CleanLink'
  BY <1>7, <1>8, Zenon DEF CleanLink
<1>10. Undrawn' = Join(Undrawn, m.bytes)
  <2>1. writes \in Seq(Frame)
    BY <1>1, BasisIs DEF Wire
  <2>2. /\ FlattenSeq(PayloadsOf(Append(writes, m))) = Join(FlattenSeq(PayloadsOf(writes)), m.bytes)
        /\ FlattenSeq(PayloadsOf(writes)) \in Chunk
    BY <1>5, <2>1, WireAppend, Zenon
  <2>3. Undrawn = FlattenSeq(PayloadsOf(writes))
    BY <2>2, ChunkNone, FlattenOfNone, Zenon DEF Undrawn, StreamOf
  <2>4. Undrawn' = FlattenSeq(PayloadsOf(Append(writes, m)))
    <3>1. Join(FlattenSeq(PayloadsOf(writes)), m.bytes) \in Chunk
      BY <1>2, <2>2, ChunksJoin, Zenon
    <3> QED BY <1>2, <2>2, <3>1, ChunkNone, FlattenOfNone, Zenon DEF Undrawn, StreamOf
  <2> QED BY <2>2, <2>3, <2>4, Zenon
<1>11. /\ Undrawn = Bytes(rendered, seen) /\ rendered + Len(Undrawn) = seen
       /\ Len(Undrawn) \in Nat /\ rendered \in Nat /\ seen \in Nat /\ Len(m.bytes) \in Nat
  BY <1>1, <1>2, <1>6, CleanKnows, UndrawnType, BasisIs, ChunkIs
<1>12. Undrawn' = Bytes(rendered, seen') /\ rendered + Len(Undrawn') = seen'
  <2>1. PICK a \in Nat, b \in Nat, c \in Nat : a = rendered /\ b = seen /\ c = seen'
    <3>1. seen' = seen + Len(m.bytes) /\ seen \in Nat /\ rendered \in Nat /\ Len(m.bytes) \in Nat
      BY <1>4, <1>11, Zenon
    <3> QED BY <3>1
  <2>2. a <= b /\ b <= c
    <3>1. /\ c = b + Len(m.bytes) /\ b = a + Len(Undrawn)
          /\ Len(m.bytes) \in Nat /\ Len(Undrawn) \in Nat
      BY <1>4, <1>11, <2>1, Zenon
    <3>2. PICK k \in Nat, j \in Nat : c = b + k /\ b = a + j
      BY <3>1, Zenon
    <3> QED BY <3>2
  <2>3. Undrawn' = Bytes(a, c)
    BY <1>4, <1>10, <1>11, <2>1, <2>2, BytesMeet
  <2>4. Len(Bytes(a, c)) = c - a
    BY <2>2, BytesAre
  <2>5. Undrawn' = Bytes(rendered, seen') /\ Len(Undrawn') = c - a
    BY <2>1, <2>3, <2>4, Zenon
  <2>6. a + (c - a) = c
    OBVIOUS
  <2> QED BY <2>1, <2>5, <2>6, Zenon
<1>13. Draws(base, rendered)' /\ rendered' = rendered /\ saved' <= sb'.next_seq /\ sb' = sb
  BY <1>2, <1>3, CleanKnows, Zenon DEF Draws
<1>14. link' # "asked"
  BY <1>2
<1>15. CleanCounts'
  BY <1>4, <1>7, <1>12, <1>13, <1>14 DEF CleanCounts
<1> QED BY <1>9, <1>15

\* A clean link has no truncated gap.
LEMMA CleanGap ==
  ASSUME ResumeInvariant, Clean, OnGapTruncated PROVE FALSE
<1>1. wire # <<>> /\ Head(wire).type = "gap_truncated"
  BY DEF OnGapTruncated, Received
<1>2. wire \in Wire /\ AllClean(wire)
  BY BasisIs, CleanKnows DEF ResumeInvariant
<1>3. Head(wire) = wire[1] /\ 1 \in 1..Len(wire)
  BY <1>1, <1>2, WireHead
<1> QED BY <1>1, <1>2, <1>3 DEF AllClean, CleanFrame

\* Draw: the counter moves over exactly what is drawn.
LEMMA CleanDraw ==
  ASSUME ResumeInvariant, Clean, Clean', dropped' = FALSE, Draw
  PROVE  CleanLink' /\ CleanCounts'
<1> DEFINE m == writes[1]
<1>1. /\ writes # <<>> /\ writes' = Tail(writes)
      /\ screen' = (IF Head(writes).reset THEN {} ELSE screen) \cup BytesOf(Head(writes).bytes)
      /\ rendered' = rendered + FrameLen(Head(writes))
      /\ saved' \in {saved, rendered'}
      /\ UNCHANGED <<sb, wire, link, since, base, seen>>
  BY DEF Draw, agent, history
<1>2. Basis /\ writes \in WriteBuffer /\ writes \in Wire /\ NoResets(writes)
  BY BasisIs, CleanKnows DEF ResumeInvariant
<1>3. /\ Head(writes) = m /\ m \in Write /\ Len(writes) \in Nat \ {0}
      /\ Len(writes') = Len(writes) - 1
      /\ \A i \in 1..Len(writes) - 1 : writes'[i] = writes[i + 1]
  BY <1>1, <1>2, WritesHead
<1>4. m.bytes \in Chunk /\ Payload(m) = m.bytes /\ m.reset = FALSE
  BY <1>2, <1>3, WriteType DEF NoResets
<1>5. rendered' = rendered + Len(m.bytes) /\ screen' = screen \cup BytesOf(m.bytes)
  <2>1. FrameLen(m) = Len(m.bytes) + 0
    BY <1>4, Zenon DEF FrameLen
  <2>2. screen' = screen \cup BytesOf(m.bytes)
    BY <1>1, <1>3, <1>4, Zenon
  <2>3. Len(m.bytes) \in Nat
    BY <1>4, ChunkIs
  <2> QED BY <1>1, <1>3, <2>1, <2>2, <2>3
<1>6. NoResets(writes')
  <2>1. \A i \in 1..Len(writes') : i + 1 \in 1..Len(writes)
    BY <1>3
  <2>2. \A i \in 1..Len(writes') : i \in 1..Len(writes) - 1
    BY <1>3
  <2> QED BY <1>2, <1>3, <2>1, <2>2 DEF NoResets
<1>7. CleanLink'
  BY <1>1, <1>6, CleanKnows, Zenon DEF CleanLink, AllClean, CleanFrame
<1>8. Undrawn = Join(m.bytes, Undrawn') /\ Undrawn' \in Chunk
  <2>1. writes \in Seq(Frame) /\ <<>> \in SeqsOfSeqs
    BY <1>2 DEF Wire, SeqsOfSeqs
  <2>2. /\ StreamOf(writes, <<>>) = Join(m.bytes, StreamOf(Tail(writes), <<>>))
        /\ StreamOf(Tail(writes), <<>>) \in Chunk
    BY <1>1, <1>4, <2>1, StreamReceive
  <2> QED BY <1>1, <2>2, Zenon DEF Undrawn
<1>9. /\ rendered \in Nat /\ sb.next_seq \in Nat /\ Len(Undrawn) \in Nat /\ base \in Nat
      /\ Undrawn = Bytes(rendered, rendered + Len(Undrawn))
      /\ rendered + Len(Undrawn) <= sb.next_seq
  BY <1>2, BasisIs, UndrawnType, CleanKnows
<1>10. PICK a \in Nat, b \in Nat, c \in Nat :
          a = rendered /\ b = rendered + Len(m.bytes) /\ c = rendered + Len(Undrawn)
  <2>1. Len(m.bytes) \in Nat
    BY <1>4, ChunkIs
  <2> QED BY <1>9, <2>1
<1>11. a <= b /\ b <= c /\ m.bytes = Bytes(a, b) /\ Undrawn' = Bytes(b, c)
  <2>1. Join(m.bytes, Undrawn') = Bytes(a, c) /\ a <= c
    BY <1>8, <1>9, <1>10
  <2>2. /\ Len(m.bytes) \in Nat /\ a + Len(m.bytes) <= c
        /\ m.bytes = Bytes(a, a + Len(m.bytes)) /\ Undrawn' = Bytes(a + Len(m.bytes), c)
    BY <1>4, <1>8, <2>1, BytesSplit
  <2> QED BY <1>10, <2>2
<1>12. rendered' = b /\ b + Len(Undrawn') = c /\ c <= sb.next_seq /\ rendered' <= sb.next_seq
  <2>1. Len(Bytes(b, c)) = c - b
    BY <1>11, BytesAre
  <2>2. Len(Undrawn') = c - b /\ rendered' = b
    BY <1>5, <1>10, <1>11, <2>1, Zenon
  <2>3. b + (c - b) = c
    OBVIOUS
  <2>4. c <= sb.next_seq /\ sb.next_seq \in Nat
    BY <1>9, <1>10, Zenon
  <2>5. b <= sb.next_seq
    BY <1>11, <2>4
  <2> QED BY <2>2, <2>3, <2>4, <2>5, Zenon
<1>13. Draws(base, b)'
  <2> SUFFICES ASSUME NEW i \in Nat, base <= i, i < b PROVE i \in screen'
    BY <1>1 DEF Draws
  <2>1. CASE i < a
    <3>1. i \in screen
      BY <1>10, <2>1, CleanKnows DEF Draws
    <3> QED BY <1>5, <3>1
  <2>2. CASE ~(i < a)
    <3>1. i - a + 1 \in 1..(b - a) /\ i = a + (i - a + 1) - 1
      BY <2>2
    <3>2. Bytes(a, b)[i - a + 1] = i /\ Len(Bytes(a, b)) = b - a /\ Bytes(a, b) \in Chunk
      BY <1>11, <3>1, BytesAre
    <3>3. i \in BytesOf(m.bytes)
      BY <1>11, <3>1, <3>2, ChunkIs DEF BytesOf
    <3> QED BY <1>5, <3>3
  <2> QED BY <2>1, <2>2
<1>14. saved' <= sb'.next_seq /\ sb' = sb
  <2>1. saved <= sb.next_seq
    BY CleanKnows
  <2> QED BY <1>1, <1>12, <2>1
<1>15. screen \subseteq screen'
  BY <1>5
<1>16. /\ link' = "asked" => since' <= sb'.next_seq /\ Draws(base, since)'
       /\ link' = "up" /\ WaitsReady(wire') => Draws(base, seen)'
       /\ link' = "up" /\ ~WaitsReady(wire') => rendered' + Len(Undrawn') = seen'
  <2>1. /\ link = "asked" => since <= sb.next_seq /\ Draws(base, since)
        /\ link = "up" /\ WaitsReady(wire) => Draws(base, seen)
        /\ link = "up" /\ ~WaitsReady(wire) => c = seen
    BY <1>10, CleanKnows
  <2>2. Draws(base, since) => Draws(base, since)'
    BY <1>1, <1>15, Zenon DEF Draws
  <2>3. Draws(base, seen) => Draws(base, seen)'
    BY <1>1, <1>15, Zenon DEF Draws
  <2> QED BY <1>1, <1>12, <2>1, <2>2, <2>3
<1>17. Draws(base, rendered)' /\ Undrawn' = Bytes(rendered', rendered' + Len(Undrawn'))
  BY <1>11, <1>12, <1>13, Zenon DEF Draws
<1>18. rendered' + Len(Undrawn') <= sb'.next_seq
  BY <1>12, <1>14
<1>19. CleanCounts'
  BY <1>14, <1>16, <1>17, <1>18, Zenon DEF CleanCounts
<1> QED BY <1>7, <1>19

\* Every step keeps what clean states promise.
LEMMA CleanStep ==
  ASSUME ResumeInvariant, [Next]_vars PROVE CleanLink' /\ CleanCounts'
<1>1. Typed
  BY DEF ResumeInvariant, Basis
<1>2. CASE ~Clean'
  BY <1>2, Zenon DEF CleanLink, CleanCounts
<1>3. CASE Clean'
  <2>1. Clean
    BY <1>1, <1>3, CleanFalls
  <2>2. dropped' = FALSE
    BY <1>1, <1>3, <2>1, CleanKeeps, CleanKnows
  <2>3. CASE \E n \in 1..MaxChunk : Publish(n)
    BY <1>3, <2>1, <2>2, <2>3, CleanPublish, Zenon
  <2>4. CASE Attach \/ Pump
    BY <1>3, <2>1, <2>2, <2>4, CleanAttach, CleanPump, Zenon
  <2>5. CASE LinkLost \/ Reconnect \/ Reload
    BY <1>3, <2>1, <2>2, <2>5, CleanLost, CleanReconnect, CleanReload, Zenon
  <2>6. CASE OnReady \/ OnOutput \/ OnGapTruncated \/ Draw
    BY <1>3, <2>1, <2>2, <2>6, CleanReady, CleanOutput, CleanGap, CleanDraw, Zenon
  <2>7. CASE SpawnPump \/ UNCHANGED vars
    <3>1. UNCHANGED <<sb, wire, link, since, rendered, saved, writes, screen, base, seen>>
      BY <2>7 DEF SpawnPump, vars, agent, client, history
    <3>2. AllClean(wire)' /\ NoResets(writes)'
      BY <2>1, <3>1, CleanKnows, Zenon DEF AllClean, CleanFrame, NoResets
    <3>3. Undrawn' = Undrawn
      BY <3>1, Zenon DEF Undrawn
    <3>4. CleanCounts'
      BY <2>1, <3>1, <3>3, CleanKnows, Zenon DEF CleanCounts, Draws, WaitsReady
    <3> QED BY <2>2, <3>2, <3>4, Zenon DEF CleanLink
  <2> QED BY <2>3, <2>4, <2>5, <2>6, <2>7, Zenon DEF Next
<1> QED BY <1>2, <1>3

\* A new session's buffer is empty and has missed nothing.
LEMMA EmptyTail == Init => HoldsTail(sb)
<1> SUFFICES ASSUME Init PROVE HoldsTail(sb)
  OBVIOUS
<1>1. sb.buf = <<>> /\ sb.next_seq = 0
  BY DEF Init, EmptyScrollback
<1>2. (IF 0 < Capacity THEN 0 ELSE Capacity) = 0
  BY CapacityAssumption
<1>3. Bytes(0 - 0, 0) = <<>>
  BY BytesNone
<1> QED
  BY <1>1, <1>2, <1>3 DEF HoldsTail

\* The shell's writes keep the newest bytes; nothing else touches them.
LEMMA TailStep ==
  ASSUME sb \in ScrollbackType, HoldsTail(sb), [Next]_vars PROVE HoldsTail(sb)'
<1>1. CASE \E n \in 1..MaxChunk : Publish(n)
  <2>1. PICK n \in 1..MaxChunk : Publish(n)
    BY <1>1
  <2>2. sb' = Push(sb, Bytes(sb.next_seq, sb.next_seq + n))
    BY <2>1, Zenon DEF Publish
  <2>3. HoldsTail(Push(sb, Bytes(sb.next_seq, sb.next_seq + n)))
    BY PublishData, Zenon
  <2> QED BY <2>2, <2>3, Zenon DEF HoldsTail
<1>2. CASE ~(\E n \in 1..MaxChunk : Publish(n))
  <2>1. sb' = sb
    BY <1>2 DEF Next, Attach, SpawnPump, Pump, LinkLost, Reconnect, Reload, OnReady, OnOutput,
                OnGapTruncated, Draw, vars, agent
  <2> QED BY <2>1, Zenon DEF HoldsTail
<1> QED BY <1>1, <1>2

\* The invariant holds at first,
LEMMA ResumeInit == Init => ResumeInvariant
  BY TypesInit, EmptyTail, LinkedInit, StreamInit, ReadyFirstInit, CleanInit, Zenon
     DEF ResumeInvariant, Basis

\* and every step keeps it.
LEMMA ResumeStep == ResumeInvariant /\ [Next]_vars => ResumeInvariant'
<1> SUFFICES ASSUME ResumeInvariant, [Next]_vars PROVE ResumeInvariant'
  OBVIOUS
<1>1. Basis /\ StreamRuns /\ NoReadyAfter(wire) /\ Typed /\ HoldsTail(sb) /\ Linked
      /\ sb \in ScrollbackType
  BY Zenon DEF ResumeInvariant, Basis, Typed
<1>2. Typed' /\ HoldsTail(sb)' /\ Linked'
  BY <1>1, TypesStep, TailStep, LinkedStep, Zenon
<1>3. StreamRuns'
  BY <1>1, StreamStep, Zenon
<1>4. NoReadyAfter(wire)'
  <2>1. NoReadyAfter(wire')
    BY <1>1, ReadyFirstStep, Zenon
  <2> QED BY <2>1, Zenon DEF NoReadyAfter
<1> QED BY <1>2, <1>3, <1>4, CleanStep, Zenon DEF ResumeInvariant, Basis

\* The invariant says what the runs check.
LEMMA ResumeExact == ResumeInvariant => TypeOK /\ ScrollbackHoldsTail /\ LinkIsExact
<1> SUFFICES ASSUME ResumeInvariant PROVE TypeOK /\ ScrollbackHoldsTail /\ LinkIsExact
  OBVIOUS
<1>1. Basis /\ Typed /\ HoldsTail(sb) /\ (attached <=> link = "up") /\ StreamRuns /\ Flags
  BY Zenon DEF ResumeInvariant, Basis, Typed, Linked
<1>2. TypeOK /\ ScrollbackHoldsTail
  BY <1>1, TypesSplit, Zenon DEF Typed, ScrollbackHoldsTail
<1>3. /\ sb.next_seq \in Nat /\ Stream = Coming /\ Coming \in Chunk
      /\ rendered \in Nat /\ saved \in Nat /\ base \in Nat /\ seen \in Nat
  BY <1>1, BasisIs, StreamIs, Zenon DEF Coming
<1>4. ReplayMeetsLive
  BY <1>1, <1>3, Zenon DEF ReplayMeetsLive, StreamRuns, Flags
<1>5. StreamAscends
  <2> SUFFICES ASSUME link = "up"
               PROVE  /\ \A i, j \in DOMAIN Coming : i < j => Coming[i] < Coming[j]
                      /\ \A i \in DOMAIN Coming : Coming[i] >= seen
    BY <1>1, <1>3, Zenon DEF StreamAscends
  <2>1. Runs(Coming, seen, sb.next_seq)
    BY <1>1 DEF StreamRuns
  <2>2. DOMAIN Coming = 1..Len(Coming) /\ \A i \in 1..Len(Coming) : Coming[i] \in Nat
    BY <1>3, ChunkIs
  <2> QED BY <1>3, <2>1, <2>2 DEF Runs, Ascends, Between
<1>6. clean <=> Clean
  BY <1>1, Zenon DEF clean, Clean, Flags
<1>7. ASSUME Clean PROVE base..(rendered - 1) \subseteq screen
  <2>1. Draws(base, rendered)
    BY <1>7, CleanKnows
  <2> QED BY <1>3, <2>1 DEF Draws
<1>8. ASSUME Clean, Drained PROVE base..(sb.next_seq - 1) \subseteq screen
  <2>1. link = "up" /\ wire = <<>> /\ queue = <<>> /\ writes = <<>>
    BY <1>1, <1>8, Zenon DEF Drained
  <2>2. Coming = <<>> /\ Undrawn = <<>>
    BY <2>1, StreamNone, Zenon DEF Coming, Undrawn
  <2>3. rendered + Len(Undrawn) = seen /\ dropped = FALSE
    <3>1. ~WaitsReady(wire)
      BY <2>1, Zenon DEF WaitsReady
    <3> QED BY <1>8, <2>1, <3>1, CleanKnows, Zenon
  <2>4. seen <= sb.next_seq /\ Coming = Bytes(seen, sb.next_seq)
    BY <1>1, <2>1, <2>3, Zenon DEF StreamRuns
  <2>5. Len(<<>>) = 0 /\ Len(Bytes(seen, sb.next_seq)) = sb.next_seq - seen
    BY <1>3, <2>4, BytesAre
  <2>6. Len(Coming) = 0 /\ Len(Undrawn) = 0
    BY <2>2, <2>5, Zenon
  <2>7. sb.next_seq - seen = 0
    BY <2>4, <2>5, <2>6, Zenon
  <2>8. rendered + 0 = seen
    BY <2>3, <2>6, Zenon
  <2>9. rendered = sb.next_seq
    BY <1>3, <2>7, <2>8
  <2> QED BY <1>7, <1>8, <2>9, Zenon
<1>9. NeverLeadsWhenClean /\ SeamlessWhenClean
  BY <1>6, <1>7, <1>8, Zenon DEF NeverLeadsWhenClean, SeamlessWhenClean, Drawn, UpToDate
<1> QED BY <1>2, <1>4, <1>5, <1>9, Zenon DEF LinkIsExact

\* Every variable of a resumed terminal has its type in every reachable state.
THEOREM ResumeTypes == Spec => []TypeOK
<1>1. ResumeInvariant => TypeOK
  BY ResumeExact
<1> QED BY <1>1, ResumeInit, ResumeStep, PTL DEF Spec

\* In every state of every session the buffer is exactly the newest bytes.
THEOREM ScrollbackTheorem == Spec => []ScrollbackHoldsTail
<1>1. ResumeInvariant => ScrollbackHoldsTail
  BY ResumeExact
<1> QED BY <1>1, ResumeInit, ResumeStep, PTL DEF Spec

\* A link delivers what the replay and the live channel owe it, in order and
\* once; and a client whose links dropped, truncated and overlapped nothing has
\* drawn what its counter says, and everything once it is drained.
THEOREM LinkTheorem == Spec => []LinkIsExact
<1>1. ResumeInvariant => LinkIsExact
  BY ResumeExact
<1> QED BY <1>1, ResumeInit, ResumeStep, PTL DEF Spec
=============================================================================
