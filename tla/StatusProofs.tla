---------------------------- MODULE StatusProofs ----------------------------
(***************************************************************************)
(* Proofs about what a status is made of: the sections of the status       *)
(* script (StatusScript), the fields a platform fills (StatusFields) and   *)
(* the numbers added up from one sample (Aggregates).                      *)
(*                                                                         *)
(* The script, for every manifest, directory and output of a command.      *)
(* Three invariants carry it.  Ordered: what was printed and what is still *)
(* to run is the agenda of the cycle.  LaidOut: the stream is the markers  *)
(* of what was printed, at ascending places, each followed by the output.  *)
(* Parsing: what the parser has found is a section for each marker line it *)
(* has read.  Markers read and markers printed are then two ascending      *)
(* lists of the same lines.                                                *)
(*                                                                         *)
(* The fields, for every machine: FieldsInv, case by case of the platform. *)
(* The numbers, for every list of disks: WalkedTo, row by row of the walk. *)
(***************************************************************************)
EXTENDS StatusScript, StatusFields, Aggregates, FunctionTheorems, SequenceTheorems,
        RetentionProofs

-----------------------------------------------------------------------------
(* The places of a finite set of integers.                                 *)

\* How many elements there are up to n.
Rank(S, n) == Cardinality({m \in S : m <= n})

\* A greater element has a greater rank.
LEMMA RanksGrow ==
  ASSUME NEW S, IsFiniteSet(S), S \subseteq Int
  PROVE  /\ Cardinality(S) \in Nat
         /\ \A n \in S : Rank(S, n) \in 1..Cardinality(S)
         /\ \A m, n \in S : m < n => Rank(S, m) < Rank(S, n)
<1> DEFINE To(n) == {m \in S : m <= n}
<1>1. ASSUME NEW n \in S
      PROVE  IsFiniteSet(To(n)) /\ Cardinality(To(n)) \in Nat /\ To(n) \in SUBSET S /\ n \in To(n)
  <2>1. To(n) \in SUBSET S /\ n \in To(n)
    OBVIOUS
  <2>2. IsFiniteSet(To(n))
    BY <2>1, FS_Subset
  <2> QED BY <2>1, <2>2, FS_CardinalityType
<1>2. ASSUME NEW n \in S PROVE Cardinality(To(n)) \in 1..Cardinality(S)
  <2>1. Cardinality(To(n)) # 0
    BY <1>1, FS_EmptySet
  <2>2. Cardinality(To(n)) <= Cardinality(S) /\ Cardinality(S) \in Nat
    BY <1>1, FS_Subset, FS_CardinalityType
  <2> QED BY <1>1, <2>1, <2>2
<1>3. ASSUME NEW m \in S, NEW n \in S, m < n PROVE Cardinality(To(m)) < Cardinality(To(n))
  <2>1. To(m) \in SUBSET To(n) /\ n \notin To(m) /\ n \in To(n)
    <3>1. m \in Int /\ n \in Int /\ \A x \in S : x \in Int
      OBVIOUS
    <3>2. \A x \in S : x <= m => x <= n
      BY <1>3, <3>1
    <3>3. ~(n <= m) /\ n <= n
      BY <1>3, <3>1
    <3> QED BY <1>3, <3>2, <3>3
  <2>2. Cardinality(To(m)) <= Cardinality(To(n)) /\ (Cardinality(To(n)) = Cardinality(To(m)) => To(n) = To(m))
    BY <1>1, <2>1, FS_Subset
  <2>3. To(n) # To(m)
    BY <2>1
  <2> QED BY <1>1, <2>2, <2>3
<1>4. Cardinality(S) \in Nat
  BY FS_CardinalityType
<1> QED
  BY <1>2, <1>3, <1>4 DEF Rank

\* Each rank up to the cardinality is that of one element, the Nth.
LEMMA NthIs ==
  ASSUME NEW S, IsFiniteSet(S), S \subseteq Int
  PROVE  /\ Cardinality(S) \in Nat
         /\ \A k \in 1..Cardinality(S) : Nth(S, k) \in S /\ Rank(S, Nth(S, k)) = k
         /\ \A i \in S, k \in 1..Cardinality(S) : Rank(S, i) = k => i = Nth(S, k)
<1> DEFINE c == Cardinality(S)
           r == [n \in S |-> Rank(S, n)]
<1>1. /\ c \in Nat /\ \A n \in S : Rank(S, n) \in 1..c
      /\ \A m, n \in S : m < n => Rank(S, m) < Rank(S, n)
  BY RanksGrow
<1>2. ASSUME NEW m \in S, NEW n \in S, Rank(S, m) = Rank(S, n) PROVE m = n
  <2>1. m \in Int /\ n \in Int /\ Rank(S, m) \in Int /\ Rank(S, n) \in Int
    BY <1>1
  <2>2. ~(m < n) /\ ~(n < m)
    BY <1>1, <1>2, <2>1
  <2> QED BY <2>1, <2>2
<1>3. r \in Injection(S, 1..c)
  <2>1. r \in [S -> 1..c]
    BY <1>1
  <2>2. \A m, n \in S : r[m] = r[n] => m = n
    BY <1>2
  <2> QED BY <2>1, <2>2 DEF Injection, IsInjective
<1>4. IsFiniteSet(1..c) /\ Cardinality(1..c) = c
  BY <1>1, FS_Interval
<1>5. r \in Surjection(S, 1..c)
  BY <1>3, <1>4, FS_Injection
<1>6. ASSUME NEW k \in 1..c PROVE \E i \in S : Rank(S, i) = k
  BY <1>5, <1>6 DEF Surjection
<1>7. ASSUME NEW k \in 1..c PROVE Nth(S, k) \in S /\ Rank(S, Nth(S, k)) = k
  BY <1>6 DEF Nth, Rank
<1> QED
  BY <1>1, <1>2, <1>7

\* The places of an interval are its elements one after the other.
LEMMA NthOfInterval ==
  ASSUME NEW a \in Nat, NEW b \in Nat
  PROVE  /\ Cardinality(a + 1..a + b) = b
         /\ \A k \in 1..b : Nth(a + 1..a + b, k) = a + k
<1> DEFINE S == a + 1..a + b
<1>1. IsFiniteSet(S) /\ S \subseteq Int /\ Cardinality(S) = b
  <2>1. a + 1 \in Int /\ a + b \in Int
    OBVIOUS
  <2> QED BY <2>1, FS_Interval
<1>2. ASSUME NEW k \in 1..b PROVE Nth(S, k) = a + k
  <2>1. {m \in S : m <= a + k} = a + 1..a + k
    OBVIOUS
  <2>2. Cardinality(a + 1..a + k) = k
    <3>1. a + 1 \in Int /\ a + k \in Int
      OBVIOUS
    <3> QED BY <3>1, FS_Interval
  <2>3. Rank(S, a + k) = k /\ a + k \in S
    <3>1. Rank(S, a + k) = Cardinality({m \in S : m <= a + k})
      BY DEF Rank
    <3>2. a + k \in S
      OBVIOUS
    <3> QED BY <2>1, <2>2, <3>1, <3>2
  <2> HIDE DEF S
  <2> QED BY <1>1, <2>3, NthIs
<1> QED
  BY <1>1, <1>2

-----------------------------------------------------------------------------
(* What the script prints.                                                 *)

\* Half of the manifest, in order and each command once.
LEMMA SegmentsAre ==
  ASSUME NEW x \in BOOLEAN, NEW off
  PROVE  /\ segment_list(x, off) \in Seq(Job) /\ Len(segment_list(x, off)) \in Nat
         /\ \A k \in 1..Len(segment_list(x, off)) :
              \E i \in DOMAIN Manifest : /\ segment_list(x, off)[k] = Builtin(Manifest[i].key)
                                         /\ Manifest[i].extended = x
         /\ \A j, k \in 1..Len(segment_list(x, off)) :
              segment_list(x, off)[j] = segment_list(x, off)[k] => j = k
<1> DEFINE S == {i \in DOMAIN Manifest : Manifest[i].extended = x /\ Manifest[i].key \notin off}
           c == Cardinality(S)
           seg == segment_list(x, off)
<1>1. S \subseteq DOMAIN Manifest /\ DOMAIN Manifest = 1..Len(Manifest) /\ Len(Manifest) \in Nat
  BY ScriptAssumption
<1>2. IsFiniteSet(S) /\ S \subseteq Int
  <2>1. IsFiniteSet(1..Len(Manifest)) /\ 1..Len(Manifest) \subseteq Int
    <3>1. \A n \in Nat : 1 \in Int /\ n \in Int /\ 1..n \subseteq Int
      OBVIOUS
    <3>2. \A n \in Nat : IsFiniteSet(1..n)
      BY <3>1, FS_Interval
    <3> QED BY <1>1, <3>1, <3>2, Zenon
  <2>2. S \in SUBSET (1..Len(Manifest))
    BY <1>1, Zenon
  <2> QED BY <2>1, <2>2, FS_Subset
<1>3. \A i \in S : i \in DOMAIN Manifest /\ Manifest[i].extended = x
  OBVIOUS
<1>4. seg = [k \in DOMAIN Picked(Manifest, S) |-> Builtin(Picked(Manifest, S)[k].key)]
  BY DEF segment_list
<1> HIDE DEF S
<1>5. /\ c \in Nat
      /\ \A k \in 1..c : Nth(S, k) \in S /\ Rank(S, Nth(S, k)) = k
  BY <1>2, NthIs
<1>6. DOMAIN seg = 1..c /\ \A k \in 1..c : seg[k] = Builtin(Manifest[Nth(S, k)].key)
  <2>1. /\ DOMAIN Picked(Manifest, S) = 1..c
        /\ \A k \in 1..c : Picked(Manifest, S)[k] = Manifest[Nth(S, k)]
    BY DEF Picked
  <2>2. seg = [k \in 1..c |-> Builtin(Picked(Manifest, S)[k].key)]
    BY <1>4, <2>1
  <2> HIDE DEF seg, c
  <2>3. DOMAIN seg = 1..c
    BY <2>2
  <2>4. ASSUME NEW k \in 1..c PROVE seg[k] = Builtin(Manifest[Nth(S, k)].key)
    BY <2>1, <2>2
  <2> QED BY <2>3, <2>4
<1>7. \A k \in 1..c : seg[k] \in Job
  <2>1. ASSUME NEW i \in DOMAIN Manifest PROVE Builtin(Manifest[i].key) \in Job
    BY DEF Job, Keys
  <2> QED BY <1>3, <1>5, <1>6, <2>1, Zenon
<1>8. seg \in Seq(Job) /\ Len(seg) = c
  <2>1. seg = [k \in 1..c |-> seg[k]]
    BY <1>4, <1>6
  <2> HIDE DEF seg, c
  <2>2. \A s, n : n \in Nat /\ s = [k \in 1..n |-> s[k]] /\ (\A k \in 1..n : s[k] \in Job)
                  => s \in Seq(Job) /\ Len(s) = n
    OBVIOUS
  <2> QED BY <1>5, <1>7, <2>1, <2>2, Zenon
<1>9. ASSUME NEW j \in 1..c, NEW k \in 1..c, seg[j] = seg[k] PROVE j = k
  <2>1. Builtin(Manifest[Nth(S, j)].key) = Builtin(Manifest[Nth(S, k)].key)
    BY <1>6, <1>9, Zenon
  <2>2. Manifest[Nth(S, j)].key = Manifest[Nth(S, k)].key
    BY <2>1 DEF Builtin
  <2>3. Nth(S, j) = Nth(S, k)
    BY <1>3, <1>5, <2>2, ScriptAssumption, Zenon
  <2> QED BY <1>5, <2>3, Zenon
<1>10. \A k \in 1..c : \E i \in DOMAIN Manifest : seg[k] = Builtin(Manifest[i].key) /\ Manifest[i].extended = x
  BY <1>3, <1>5, <1>6, Zenon
<1> QED
  BY <1>5, <1>8, <1>9, <1>10, Zenon

\* The two functions a cycle runs, and the number of built-in commands in them.
Extended(off, d) == unix_command("SbStatusExt", off, d)
Status(off, d) == unix_command("SbStatus", off, d)
Agenda(off, d) == Extended(off, d) \o Status(off, d)
Built(off) == Len(segment_list(TRUE, off)) + Len(segment_list(FALSE, off))

\* First what is built in, each once, then the files of the directory.
LEMMA AgendaIs ==
  ASSUME NEW off, NEW d \in Dirs
  PROVE  /\ Extended(off, d) \in Seq(Job) /\ Status(off, d) \in Seq(Job)
         /\ Agenda(off, d) \in Seq(Job)
         /\ Built(off) \in Nat /\ Len(d) \in Nat /\ Len(Extended(off, d)) <= Built(off)
         /\ Len(Agenda(off, d)) = Len(Extended(off, d)) + Len(Status(off, d))
         /\ Len(Agenda(off, d)) = Built(off) + Len(d)
         /\ \A k \in 1..Len(Extended(off, d)) : Agenda(off, d)[k] = Extended(off, d)[k]
         /\ \A k \in 1..Len(Status(off, d)) :
              Agenda(off, d)[Len(Extended(off, d)) + k] = Status(off, d)[k]
         /\ \A k \in 1..Built(off) : Agenda(off, d)[k].sep = "SrvBoxSep"
         /\ \A j, k \in 1..Built(off) : Agenda(off, d)[j] = Agenda(off, d)[k] => j = k
         /\ \A k \in 1..Len(d) : Agenda(off, d)[Built(off) + k] = Custom(d[k])
<1> DEFINE A == segment_list(TRUE, off)
           B == segment_list(FALSE, off)
           C == [i \in DOMAIN d |-> Custom(d[i])]
           E == Extended(off, d)
           F == Status(off, d)
           G == Agenda(off, d)
<1>1. /\ A \in Seq(Job) /\ Len(A) \in Nat
      /\ \A k \in 1..Len(A) : \E i \in DOMAIN Manifest :
           A[k] = Builtin(Manifest[i].key) /\ Manifest[i].extended = TRUE
      /\ \A j, k \in 1..Len(A) : A[j] = A[k] => j = k
  BY SegmentsAre, Zenon
<1>2. /\ B \in Seq(Job) /\ Len(B) \in Nat
      /\ \A k \in 1..Len(B) : \E i \in DOMAIN Manifest :
           B[k] = Builtin(Manifest[i].key) /\ Manifest[i].extended = FALSE
      /\ \A j, k \in 1..Len(B) : B[j] = B[k] => j = k
  BY SegmentsAre, Zenon
<1>3. d \in Seq(STRING) /\ Len(d) \in Nat /\ DOMAIN d = 1..Len(d)
  BY ScriptAssumption
<1>4. C \in Seq(Job) /\ Len(C) = Len(d) /\ \A k \in 1..Len(d) : C[k] = Custom(d[k])
  <2>1. ASSUME NEW k \in DOMAIN d PROVE Custom(d[k]) \in Job
    <3>1. d[k] \in FileNames
      BY DEF FileNames, Range
    <3> QED BY <3>1 DEF Job
  <2> HIDE DEF Job
  <2> QED BY <1>3, <2>1
<1>5. E = A /\ F = B \o C
  <2>1. ("SbStatusExt" = "SbStatusExt") = TRUE /\ ("SbStatus" = "SbStatusExt") = FALSE
    OBVIOUS
  <2>2. custom_cmds("SbStatusExt", d) = <<>> /\ custom_cmds("SbStatus", d) = C
    BY DEF custom_cmds
  <2>3. A \o <<>> = A
    BY <1>1
  <2> HIDE DEF A, B, C
  <2>4. E = A \o <<>>
    BY <2>1, <2>2, Zenon DEF Extended, unix_command, A
  <2>5. F = B \o C
    BY <2>1, <2>2, Zenon DEF Status, unix_command, B
  <2> QED BY <2>3, <2>4, <2>5
<1> HIDE DEF A, B, C, E, F, G
<1>6. /\ F \in Seq(Job) /\ Len(F) = Len(B) + Len(d)
      /\ \A k \in 1..Len(B) : F[k] = B[k]
      /\ \A k \in 1..Len(d) : F[Len(B) + k] = Custom(d[k])
  <2>1. \A s, t \in Seq(Job) : /\ s \o t \in Seq(Job) /\ Len(s \o t) = Len(s) + Len(t)
                               /\ \A k \in 1..Len(s) : (s \o t)[k] = s[k]
                               /\ \A k \in 1..Len(t) : (s \o t)[Len(s) + k] = t[k]
    OBVIOUS
  <2>2. /\ B \o C \in Seq(Job) /\ Len(B \o C) = Len(B) + Len(C)
        /\ \A k \in 1..Len(B) : (B \o C)[k] = B[k]
        /\ \A k \in 1..Len(C) : (B \o C)[Len(B) + k] = C[k]
    BY <1>2, <1>4, <2>1, Zenon
  <2> QED BY <1>4, <1>5, <2>2, Zenon
<1>7. /\ G \in Seq(Job) /\ Len(G) = Len(A) + Len(F)
      /\ \A k \in 1..Len(A) : G[k] = A[k]
      /\ \A k \in 1..Len(F) : G[Len(A) + k] = F[k]
  <2>1. \A s, t \in Seq(Job) : /\ s \o t \in Seq(Job) /\ Len(s \o t) = Len(s) + Len(t)
                               /\ \A k \in 1..Len(s) : (s \o t)[k] = s[k]
                               /\ \A k \in 1..Len(t) : (s \o t)[Len(s) + k] = t[k]
    OBVIOUS
  <2>2. G = A \o F
    BY <1>5 DEF G, Agenda, E, F
  <2> QED BY <1>1, <1>6, <2>1, <2>2, Zenon
<1>8. Built(off) = Len(A) + Len(B)
  BY DEF Built, A, B
<1>9. ASSUME NEW k \in 1..Len(B) PROVE G[Len(A) + k] = B[k]
  <2>1. k \in 1..Len(F)
    BY <1>2, <1>3, <1>6
  <2> QED BY <1>6, <1>7, <2>1
<1>10. ASSUME NEW k \in 1..Len(d) PROVE G[Built(off) + k] = Custom(d[k])
  <2>1. Len(B) + k \in 1..Len(F) /\ Len(A) + (Len(B) + k) = (Len(A) + Len(B)) + k
    BY <1>1, <1>2, <1>3, <1>6
  <2> QED BY <1>6, <1>7, <1>8, <2>1
<1>11. ASSUME NEW k \in 1..Built(off)
       PROVE  \/ k \in 1..Len(A) /\ G[k] = A[k]
              \/ k - Len(A) \in 1..Len(B) /\ G[k] = B[k - Len(A)]
  <2>1. CASE k <= Len(A)
    BY <1>1, <1>2, <1>7, <1>8, <2>1
  <2>2. CASE k > Len(A)
    <3>1. k - Len(A) \in 1..Len(B) /\ Len(A) + (k - Len(A)) = k
      BY <1>1, <1>2, <1>8, <2>2
    <3> QED BY <1>9, <3>1
  <2> QED BY <1>1, <1>2, <1>8, <2>1, <2>2
<1>12. ASSUME NEW k \in 1..Built(off) PROVE G[k].sep = "SrvBoxSep"
  <2>1. \E i \in DOMAIN Manifest : G[k] = Builtin(Manifest[i].key)
    <3>1. CASE k \in 1..Len(A) /\ G[k] = A[k]
      BY <1>1, <3>1, Zenon
    <3>2. CASE k - Len(A) \in 1..Len(B) /\ G[k] = B[k - Len(A)]
      BY <1>2, <3>2, Zenon
    <3> QED BY <1>11, <3>1, <3>2, Zenon
  <2> QED BY <2>1 DEF Builtin
<1>13. ASSUME NEW j \in 1..Len(A), NEW k \in 1..Len(B) PROVE A[j] # B[k]
  <2>1. PICK i \in DOMAIN Manifest : A[j] = Builtin(Manifest[i].key) /\ Manifest[i].extended = TRUE
    BY <1>1
  <2>2. PICK m \in DOMAIN Manifest : B[k] = Builtin(Manifest[m].key) /\ Manifest[m].extended = FALSE
    BY <1>2
  <2>3. SUFFICES ASSUME Builtin(Manifest[i].key) = Builtin(Manifest[m].key) PROVE FALSE
    BY <2>1, <2>2, Zenon
  <2>4. Manifest[i].key = Manifest[m].key
    BY <2>3 DEF Builtin
  <2>5. i = m
    BY <2>4, ScriptAssumption, Zenon
  <2> QED BY <2>1, <2>2, <2>5, Zenon
<1>14. ASSUME NEW j \in 1..Built(off), NEW k \in 1..Built(off), G[j] = G[k] PROVE j = k
  <2>1. CASE j \in 1..Len(A) /\ G[j] = A[j] /\ k \in 1..Len(A) /\ G[k] = A[k]
    BY <1>1, <1>14, <2>1, Zenon
  <2>2. CASE j - Len(A) \in 1..Len(B) /\ G[j] = B[j - Len(A)] /\ k - Len(A) \in 1..Len(B) /\ G[k] = B[k - Len(A)]
    <3>1. j - Len(A) = k - Len(A)
      BY <1>2, <1>14, <2>2, Zenon
    <3> QED BY <1>1, <1>2, <1>8, <3>1
  <2>3. CASE j \in 1..Len(A) /\ G[j] = A[j] /\ k - Len(A) \in 1..Len(B) /\ G[k] = B[k - Len(A)]
    BY <1>13, <1>14, <2>3, Zenon
  <2>4. CASE j - Len(A) \in 1..Len(B) /\ G[j] = B[j - Len(A)] /\ k \in 1..Len(A) /\ G[k] = A[k]
    BY <1>13, <1>14, <2>4, Zenon
  <2> QED BY <1>11, <2>1, <2>2, <2>3, <2>4, Zenon
<1>15. /\ Len(E) <= Built(off) /\ Built(off) \in Nat
       /\ Len(G) = Len(E) + Len(F) /\ Len(G) = Built(off) + Len(d)
  BY <1>1, <1>2, <1>3, <1>5, <1>6, <1>7, <1>8
<1>16. /\ E \in Seq(Job)
       /\ \A k \in 1..Len(E) : G[k] = E[k]
       /\ \A k \in 1..Len(F) : G[Len(E) + k] = F[k]
  BY <1>1, <1>5, <1>7, Zenon
<1> QED
  BY <1>3, <1>6, <1>7, <1>10, <1>12, <1>14, <1>15, <1>16, Zenon DEF E, F, G

\* The pieces of a line, and the stream.
Piece == {Marker(c) : c \in Headings} \cup {Text(t) : t \in STRING}
Line == Seq(Piece)

\* A command's marker ends the open line, its output follows line by line.
LEMMA EmitIs ==
  ASSUME NEW s \in Seq(Line), s # <<>>, NEW c \in Job, NEW out \in Seq(STRING), NEW cut \in BOOLEAN
  PROVE  /\ Emit(s, c, out, cut) \in Seq(Line)
         /\ Len(Emit(s, c, out, cut)) = Len(s) + Len(out) + (IF cut THEN 0 ELSE 1)
         /\ \A i \in 1..Len(s) - 1 : Emit(s, c, out, cut)[i] = s[i]
         /\ Emit(s, c, out, cut)[Len(s)] = Append(s[Len(s)], Marker(c))
         /\ \A i \in 1..Len(out) : Emit(s, c, out, cut)[Len(s) + i] = <<Text(out[i])>>
         /\ ~cut => Emit(s, c, out, cut)[Len(s) + Len(out) + 1] = <<>>
<1> DEFINE L == Len(s)
           H == Put(s, Marker(c))
           T == [i \in DOMAIN out |-> <<Text(out[i])>>]
           R == IF cut THEN <<>> ELSE << <<>> >>
           W == T \o R
           G == Emit(s, c, out, cut)
<1>1. L \in Nat \ {0} /\ s[L] \in Line /\ Len(out) \in Nat /\ DOMAIN out = 1..Len(out)
  BY EmptySeq
<1>2. H \in Seq(Line) /\ Len(H) = L /\ (\A i \in 1..L - 1 : H[i] = s[i])
      /\ H[L] = Append(s[L], Marker(c))
  <2> DEFINE X == Append(s[L], Marker(c))
  <2>1. X \in Line
    <3>1. Marker(c) \in Piece
      BY DEF Piece, Headings
    <3> QED BY <1>1, <3>1 DEF Line
  <2>2. H = SubSeq(s, 1, L - 1) \o <<X>>
    BY DEF Put, Front, Last
  <2> HIDE DEF X, H
  <2>3. SubSeq(s, 1, L - 1) \in Seq(Line) /\ Len(SubSeq(s, 1, L - 1)) = L - 1
        /\ \A i \in 1..L - 1 : SubSeq(s, 1, L - 1)[i] = s[i]
    <3> HIDE DEF Line
    <3>1. \A n \in 0..Len(s) : /\ SubSeq(s, 1, n) \in Seq(Line) /\ Len(SubSeq(s, 1, n)) = n
                               /\ \A i \in 1..n : SubSeq(s, 1, n)[i] = s[i]
      OBVIOUS
    <3>2. L - 1 \in 0..Len(s)
      BY <1>1
    <3> HIDE DEF L
    <3> QED BY <3>1, <3>2, Zenon
  <2>4. \A a \in Seq(Line) : /\ a \o <<X>> \in Seq(Line) /\ Len(a \o <<X>>) = Len(a) + 1
                             /\ \A i \in 1..Len(a) : (a \o <<X>>)[i] = a[i]
                             /\ (a \o <<X>>)[Len(a) + 1] = X
    BY <2>1
  <2>5. /\ H \in Seq(Line) /\ Len(H) = (L - 1) + 1
        /\ \A i \in 1..L - 1 : H[i] = s[i]
        /\ H[(L - 1) + 1] = X
    BY <2>2, <2>3, <2>4, Zenon
  <2>6. (L - 1) + 1 = L
    BY <1>1
  <2> QED BY <2>5, <2>6 DEF X
<1>3. T \in Seq(Line) /\ Len(T) = Len(out) /\ \A i \in 1..Len(out) : T[i] = <<Text(out[i])>>
  <2>1. ASSUME NEW i \in DOMAIN out PROVE <<Text(out[i])>> \in Line
    <3>0. out[i] \in STRING
      BY <1>1
    <3>1. Text(out[i]) \in Piece
      BY <3>0, Zenon DEF Piece
    <3> QED BY <3>1 DEF Line
  <2> HIDE DEF Line
  <2> QED BY <1>1, <2>1
<1>4. R \in Seq(Line) /\ Len(R) = (IF cut THEN 0 ELSE 1) /\ (~cut => R[1] = <<>>)
  <2>1. <<>> \in Line
    BY DEF Line
  <2>2. CASE cut
    BY <2>2
  <2>3. CASE ~cut
    BY <2>1, <2>3
  <2> QED BY <2>2, <2>3
<1>5. G = H \o W
  BY DEF Emit, Lines
<1> HIDE DEF H, T, R, W, G, L, Line
<1>6. \A a, b \in Seq(Line) : /\ a \o b \in Seq(Line) /\ Len(a \o b) = Len(a) + Len(b)
                              /\ \A k \in 1..Len(a) : (a \o b)[k] = a[k]
                              /\ \A k \in 1..Len(b) : (a \o b)[Len(a) + k] = b[k]
  OBVIOUS
<1>7. /\ W \in Seq(Line) /\ Len(W) = Len(T) + Len(R)
      /\ \A k \in 1..Len(T) : W[k] = T[k]
      /\ \A k \in 1..Len(R) : W[Len(T) + k] = R[k]
  BY <1>3, <1>4, <1>6, Zenon DEF W
<1>8. /\ G \in Seq(Line) /\ Len(G) = Len(H) + Len(W)
      /\ \A k \in 1..Len(H) : G[k] = H[k]
      /\ \A k \in 1..Len(W) : G[Len(H) + k] = W[k]
  BY <1>2, <1>5, <1>6, <1>7, Zenon
<1> DEFINE e == IF cut THEN 0 ELSE 1
<1>9. e \in {0, 1} /\ (~cut => e = 1)
  OBVIOUS
<1>10. Len(R) = e
  BY <1>4
<1> HIDE DEF e
<1>11. Len(G) = L + Len(out) + e
  BY <1>1, <1>2, <1>3, <1>7, <1>8, <1>9, <1>10
<1>12. \A i \in 1..L - 1 : G[i] = s[i]
  <2>1. \A i \in 1..L - 1 : i \in 1..L
    BY <1>1
  <2> QED BY <1>2, <1>8, <2>1, Zenon
<1>13. G[L] = Append(s[L], Marker(c))
  <2>1. L \in 1..L
    BY <1>1
  <2> QED BY <1>2, <1>8, <2>1, Zenon
<1>14. \A i \in 1..Len(out) : G[L + i] = <<Text(out[i])>>
  <2>1. \A i \in 1..Len(out) : i \in 1..Len(T) /\ i \in 1..Len(W)
    BY <1>1, <1>3, <1>7, <1>9, <1>10
  <2> QED BY <1>2, <1>3, <1>7, <1>8, <2>1, Zenon
<1>15. ~cut => G[L + Len(out) + 1] = <<>>
  <2>1. SUFFICES ASSUME ~cut PROVE G[L + Len(out) + 1] = <<>>
    OBVIOUS
  <2>2. e = 1 /\ R[1] = <<>>
    BY <1>4, <1>9, <2>1, Zenon
  <2>3. 1 \in 1..Len(R) /\ Len(T) + 1 \in 1..Len(W) /\ L + Len(out) + 1 = L + (Len(T) + 1)
    BY <1>1, <1>3, <1>7, <1>10, <2>2
  <2> QED BY <1>2, <1>7, <1>8, <2>2, <2>3, Zenon
<1> QED
  BY <1>8, <1>11, <1>12, <1>13, <1>14, <1>15, Zenon DEF G, L, e

-----------------------------------------------------------------------------
(* The commands run in the order of the agenda.                            *)

\* What is kept of a command that ran.
Record == [cmd : Job, out : Output, cut : BOOLEAN]
Custom_(p) == p.cmd.sep = "SrvBoxCusCmdSep"

\* What was printed, what is left of the script and what is to follow make up
\* the agenda of the cycle.
Ordered ==
  /\ disabled \in Off /\ dir \in Dirs
  /\ script \in Seq(Job) /\ then \in {<<>>, <<"SbStatus">>}
  /\ stage \in {"run", "parse", "done", "failed"}
  /\ printed \in Seq(Record)
  /\ \A k \in 1..Len(printed) :
       /\ printed[k].cmd = Agenda(disabled, dir)[k]
       /\ printed[k].cut => Custom_(printed[k]) /\ printed[k].out # <<>>
  /\ \A k \in 1..Len(script) : script[k] = Agenda(disabled, dir)[Len(printed) + k]
  /\ then # <<>> => Len(printed) + Len(script) = Len(Extended(disabled, dir))
  /\ then = <<>> => Len(printed) + Len(script) = Len(Agenda(disabled, dir))
  /\ stage # "run" => script = <<>> /\ then = <<>>

\* Nothing is printed yet.
LEMMA OrderedInit == ScriptInit => Ordered
<1> SUFFICES ASSUME ScriptInit PROVE Ordered
  OBVIOUS
<1> DEFINE E == Extended(disabled, dir)
           G == Agenda(disabled, dir)
<1>1. dir \in Dirs /\ disabled \in Off
  BY DEF ScriptInit
<1>2. script = E /\ printed = <<>> /\ then = <<"SbStatus">> /\ stage = "run"
  BY DEF ScriptInit, Extended
<1>3. E \in Seq(Job) /\ \A k \in 1..Len(E) : G[k] = E[k]
  BY <1>1, AgendaIs, Zenon
<1> HIDE DEF E, G
<1>4. printed \in Seq(Record) /\ Len(printed) = 0
  BY <1>2
<1>5. \A k \in 1..Len(script) : script[k] = G[Len(printed) + k]
  BY <1>2, <1>3, <1>4
<1>6. Len(printed) + Len(script) = Len(E)
  BY <1>2, <1>3, <1>4
<1>7. then # <<>>
  BY <1>2
<1>8. \A k \in 1..Len(printed) : FALSE
  BY <1>4
<1> QED
  BY <1>1, <1>2, <1>3, <1>4, <1>5, <1>6, <1>7, <1>8, Zenon DEF Ordered, E, G

\* A command that runs is the next of the agenda.
LEMMA OrderedRun ==
  ASSUME Ordered, RunCommand
  PROVE  Ordered'
<1> DEFINE G == Agenda(disabled, dir)
           n == Len(printed)
<1>1. PICK out \in Output, cut \in BOOLEAN :
        /\ cut => Head(script).sep = "SrvBoxCusCmdSep" /\ out # <<>>
        /\ printed' = Append(printed, [cmd |-> Head(script), out |-> out, cut |-> cut])
  BY DEF RunCommand
<1> DEFINE p == [cmd |-> Head(script), out |-> out, cut |-> cut]
<1>2. /\ script # <<>> /\ script' = Tail(script) /\ stage = "run"
      /\ UNCHANGED <<disabled, dir, then, stage>>
  BY DEF RunCommand
<1>3. /\ disabled \in Off /\ dir \in Dirs /\ script \in Seq(Job) /\ then \in {<<>>, <<"SbStatus">>}
      /\ printed \in Seq(Record) /\ n \in Nat
      /\ \A k \in 1..n : printed[k].cmd = G[k] /\ (printed[k].cut => Custom_(printed[k]) /\ printed[k].out # <<>>)
      /\ \A k \in 1..Len(script) : script[k] = G[n + k]
  BY DEF Ordered
<1>4. Head(script) = script[1] /\ Head(script) \in Job /\ 1 \in 1..Len(script)
  BY <1>2, <1>3
<1>5. p \in Record
  BY <1>4 DEF Record
<1>6. p.cmd = G[n + 1] /\ (p.cut => Custom_(p) /\ p.out # <<>>)
  <2>1. p.cmd = G[n + 1]
    BY <1>3, <1>4, Zenon
  <2>2. p.cut => Custom_(p) /\ p.out # <<>>
    BY <1>1 DEF Custom_
  <2> QED BY <2>1, <2>2
<1> HIDE DEF p, Record, G, Custom_
<1>7. /\ printed' \in Seq(Record) /\ Len(printed') = n + 1
      /\ \A k \in 1..n : printed'[k] = printed[k]
      /\ printed'[n + 1] = p
  <2>1. printed' = Append(printed, p)
    BY <1>1, Zenon DEF p
  <2> QED BY <1>3, <1>5, <2>1
<1>8. \A k \in 1..Len(printed') : printed'[k].cmd = G[k] /\ (printed'[k].cut => Custom_(printed'[k]) /\ printed'[k].out # <<>>)
  <2>1. \A k \in 1..Len(printed') : k \in 1..n \/ k = n + 1
    BY <1>3, <1>7
  <2> QED BY <1>3, <1>6, <1>7, <2>1, Zenon
<1>9. /\ script' \in Seq(Job) /\ Len(script') = Len(script) - 1
      /\ \A k \in 1..Len(script') : script'[k] = script[k + 1]
  BY <1>2, <1>3
<1>10. \A k \in 1..Len(script') : script'[k] = G[Len(printed') + k]
  <2>1. \A k \in 1..Len(script') : k + 1 \in 1..Len(script) /\ Len(printed') + k = n + (k + 1)
    BY <1>3, <1>7, <1>9
  <2> QED BY <1>3, <1>9, <2>1
<1>11. Len(printed') + Len(script') = n + Len(script)
  BY <1>3, <1>7, <1>9
<1>12. G' = G /\ Extended(disabled, dir)' = Extended(disabled, dir)
  BY <1>2 DEF G, Agenda, Extended, Status
<1>13. /\ then # <<>> => n + Len(script) = Len(Extended(disabled, dir))
       /\ then = <<>> => n + Len(script) = Len(G)
  BY DEF Ordered, G
<1>14. /\ then' # <<>> => Len(printed') + Len(script') = Len(Extended(disabled, dir)')
       /\ then' = <<>> => Len(printed') + Len(script') = Len(G')
  BY <1>2, <1>11, <1>12, <1>13, Zenon
<1>15. /\ \A k \in 1..Len(printed') : printed'[k].cmd = G'[k]
                                      /\ (printed'[k].cut => Custom_(printed'[k]) /\ printed'[k].out # <<>>)
       /\ \A k \in 1..Len(script') : script'[k] = G'[Len(printed') + k]
  BY <1>8, <1>10, <1>12, Zenon
<1>16. /\ disabled' \in Off /\ dir' \in Dirs /\ then' \in {<<>>, <<"SbStatus">>} /\ stage' = "run"
  BY <1>2, <1>3
<1> QED
  BY <1>7, <1>9, <1>14, <1>15, <1>16 DEF Ordered, G, Custom_

\* The second function follows the first on the agenda.
LEMMA OrderedNext ==
  ASSUME Ordered, NextFunction
  PROVE  Ordered'
<1> DEFINE G == Agenda(disabled, dir)
           E == Extended(disabled, dir)
           F == Status(disabled, dir)
           n == Len(printed)
<1>1. /\ disabled \in Off /\ dir \in Dirs /\ then \in {<<>>, <<"SbStatus">>}
      /\ printed \in Seq(Record) /\ n \in Nat /\ script = <<>> /\ then # <<>>
      /\ then # <<>> => n + Len(script) = Len(E)
      /\ \A k \in 1..n : printed[k].cmd = G[k] /\ (printed[k].cut => Custom_(printed[k]) /\ printed[k].out # <<>>)
  BY DEF Ordered, NextFunction
<1>2. /\ script' = unix_command(Head(then), disabled, dir) /\ then' = Tail(then) /\ stage = "run"
      /\ UNCHANGED <<disabled, dir, printed, stage>>
  BY DEF NextFunction
<1>3. then = <<"SbStatus">> /\ then' = <<>> /\ script' = F
  <2>1. then = <<"SbStatus">>
    BY <1>1
  <2>2. Head(<<"SbStatus">>) = "SbStatus" /\ Tail(<<"SbStatus">>) = <<>>
    OBVIOUS
  <2> QED BY <1>2, <2>1, <2>2, Zenon DEF Status
<1>4. /\ F \in Seq(Job) /\ Len(G) = Len(E) + Len(F)
      /\ \A k \in 1..Len(F) : G[Len(E) + k] = F[k]
  <2> HIDE DEF n
  <2> QED BY <1>1, AgendaIs
<1>5. n = Len(E)
  BY <1>1, <1>4
<1>6. G' = G
  BY <1>2 DEF Agenda, Extended, Status
<1> HIDE DEF E, F, G, n
<1>7. Len(printed') = n /\ printed' = printed
  BY <1>2 DEF n
<1>8. \A k \in 1..Len(script') : script'[k] = G'[Len(printed') + k]
  BY <1>3, <1>4, <1>5, <1>6, <1>7, Zenon
<1>9. Len(printed') + Len(script') = Len(G')
  BY <1>3, <1>4, <1>5, <1>6, <1>7, Zenon
<1>10. \A k \in 1..Len(printed') : printed'[k].cmd = G'[k]
                                   /\ (printed'[k].cut => Custom_(printed'[k]) /\ printed'[k].out # <<>>)
  BY <1>1, <1>6, <1>7, Zenon
<1>11. /\ disabled' \in Off /\ dir' \in Dirs /\ then' \in {<<>>, <<"SbStatus">>} /\ stage' = "run"
       /\ script' \in Seq(Job) /\ printed' \in Seq(Record)
  BY <1>1, <1>2, <1>3, <1>4
<1> QED
  BY <1>3, <1>8, <1>9, <1>10, <1>11 DEF Ordered, G

\* The other actions leave the agenda alone.
LEMMA OrderedStep == Ordered /\ [ScriptNext]_scriptVars => Ordered'
<1> SUFFICES ASSUME Ordered, [ScriptNext]_scriptVars PROVE Ordered'
  OBVIOUS
<1>1. CASE RunCommand
  BY <1>1, OrderedRun
<1>2. CASE NextFunction
  BY <1>2, OrderedNext
<1>3. CASE Collected
  <2>1. /\ UNCHANGED <<disabled, dir, script, then, printed>> /\ script = <<>> /\ then = <<>>
        /\ stage' \in {"failed", "parse"}
    BY <1>3 DEF Collected
  <2> QED BY <2>1 DEF Ordered, Agenda, Extended, Status, Custom_
<1>4. CASE ParseLine
  BY <1>4 DEF ParseLine, Ordered, Agenda, Extended, Status, Custom_
<1>5. CASE ParseEnd
  BY <1>5 DEF ParseEnd, Ordered, Agenda, Extended, Status, Custom_
<1>6. CASE UNCHANGED scriptVars
  BY <1>6 DEF scriptVars, Ordered, Agenda, Extended, Status, Custom_
<1> QED
  BY <1>1, <1>2, <1>3, <1>4, <1>5, <1>6 DEF ScriptNext

-----------------------------------------------------------------------------
(* Where in the stream the printed commands stand.                         *)

\* The last line with anything of the k-th command, whose marker is on P[k].
EndLine(P, k) == P[k] + Len(printed[k].out)

\* Command after command, the next one on a line of its own unless the one
\* before it was cut off.
Spread(P) ==
  /\ P \in [1..Len(printed) -> Nat]
  /\ \A k \in 1..Len(printed) : /\ 1 <= P[k] /\ P[k] < Len(stream) /\ EndLine(P, k) <= Len(stream)
                                /\ ~printed[k].cut => EndLine(P, k) < Len(stream)
  /\ \A j, k \in 1..Len(printed) : j < k => /\ P[j] < P[k] /\ EndLine(P, j) <= P[k]
                                            /\ ~printed[j].cut => EndLine(P, j) < P[k]

\* A marker is alone on its line, unless a command that was cut off left it open.
Marks(P) ==
  \A k \in 1..Len(printed) :
    \/ stream[P[k]] = <<Marker(printed[k].cmd)>>
    \/ /\ Len(stream[P[k]]) = 2
       /\ \E j \in 1..Len(printed) : j < k /\ printed[j].cut

\* The output follows its marker; a cut off end may carry the next marker.
Texts_(P) ==
  \A k \in 1..Len(printed) : \A i \in 1..Len(printed[k].out) :
    \/ stream[P[k] + i] = <<Text(printed[k].out[i])>>
    \/ Len(stream[P[k] + i]) = 2 /\ printed[k].cut

\* The other lines are blank.
Rest_(P) ==
  \A i \in 1..Len(stream) :
    stream[i] = <<>> \/ \E k \in 1..Len(printed) : P[k] <= i /\ i <= EndLine(P, k)

\* The open line is blank, or the end of a command that was cut off.
Open_ ==
  stage = "run" =>
    stream[Len(stream)] = <<>> \/ (Len(stream[Len(stream)]) = 1 /\ \E j \in 1..Len(printed) : printed[j].cut)

\* The stream has its open line.
Streamed == stream \in Seq(Line) /\ stream # <<>>

\* All of the above, for a layout P of the markers.
Layout(P) == Spread(P) /\ Marks(P) /\ Texts_(P) /\ Rest_(P)

\* There is such a layout.
LaidOut == Streamed /\ Open_ /\ \E P : Layout(P)

\* What was printed, as sequences.
LEMMA OutsAre ==
  ASSUME Ordered
  PROVE  \A k \in 1..Len(printed) : /\ printed[k] \in Record /\ printed[k].out \in Seq(STRING)
                                     /\ Len(printed[k].out) \in Nat
<1> SUFFICES ASSUME NEW k \in 1..Len(printed)
             PROVE  /\ printed[k] \in Record /\ printed[k].out \in Seq(STRING)
                    /\ Len(printed[k].out) \in Nat
  OBVIOUS
<1>1. printed[k] \in Record
  <2>1. printed \in Seq(Record)
    BY DEF Ordered
  <2> HIDE DEF Record
  <2> QED BY <2>1
<1>2. printed[k].out \in Output
  BY <1>1 DEF Record
<1>3. printed[k].out \in Seq(STRING)
  BY <1>2, ScriptAssumption, Zenon
<1>4. \A s \in Seq(STRING) : Len(s) \in Nat
  OBVIOUS
<1> QED
  BY <1>1, <1>3, <1>4, Zenon

\* A blank line more changes nothing.
LEMMA LaidJoin ==
  ASSUME Ordered, LaidOut, stream' = Joined(stream), UNCHANGED printed
  PROVE  LaidOut'
<1> DEFINE L == Len(stream)
           n == Len(printed)
<1>1. stream \in Seq(Line) /\ L \in Nat \ {0} /\ printed \in Seq(Record) /\ n \in Nat
  <2> HIDE DEF Line, Record
  <2> QED BY EmptySeq DEF LaidOut, Streamed, Ordered
<1>2. PICK P : Layout(P)
  BY DEF LaidOut
<1>3. /\ stream' \in Seq(Line) /\ Len(stream') = L + 1
      /\ \A i \in 1..L : stream'[i] = stream[i]
      /\ stream'[L + 1] = <<>>
  <2>1. <<>> \in Line
    BY DEF Line
  <2>2. stream' = Append(stream, <<>>)
    BY DEF Joined
  <2> HIDE DEF Line
  <2> QED BY <1>1, <2>1, <2>2
<1> HIDE DEF L, n, Line, Record
<1>4. \A k \in 1..n : Len(printed[k].out) \in Nat
  BY OutsAre, Zenon DEF n
<1>5. /\ P \in [1..n -> Nat]
      /\ \A k \in 1..n : /\ 1 <= P[k] /\ P[k] < L /\ P[k] + Len(printed[k].out) <= L
                         /\ ~printed[k].cut => P[k] + Len(printed[k].out) < L
      /\ \A j, k \in 1..n : j < k => /\ P[j] < P[k] /\ P[j] + Len(printed[j].out) <= P[k]
                                     /\ ~printed[j].cut => P[j] + Len(printed[j].out) < P[k]
  BY <1>2 DEF Layout, Spread, EndLine, L, n
<1>6. \A k \in 1..n : /\ P[k] \in 1..L /\ P[k] \in Nat /\ EndLine(P, k) \in Nat
                      /\ EndLine(P, k) = P[k] + Len(printed[k].out)
                      /\ \A i \in 1..Len(printed[k].out) : P[k] + i \in 1..L
  <2> SUFFICES ASSUME NEW k \in 1..n
               PROVE  /\ P[k] \in 1..L /\ P[k] \in Nat /\ EndLine(P, k) \in Nat
                      /\ EndLine(P, k) = P[k] + Len(printed[k].out)
                      /\ \A i \in 1..Len(printed[k].out) : P[k] + i \in 1..L
    BY Zenon
  <2>1. EndLine(P, k) = P[k] + Len(printed[k].out)
    BY DEF EndLine
  <2>2. P[k] \in Nat /\ Len(printed[k].out) \in Nat /\ 1 <= P[k] /\ P[k] < L /\ P[k] + Len(printed[k].out) <= L
    BY <1>4, <1>5
  <2> QED BY <1>1, <2>1, <2>2
<1>7. \A k : EndLine(P, k)' = EndLine(P, k)
  BY DEF EndLine
<1>8. Spread(P)'
  <2>1. /\ \A k \in 1..n : /\ P[k] < L + 1 /\ EndLine(P, k) <= L + 1
                           /\ ~printed[k].cut => EndLine(P, k) < L + 1
    <3>1. ASSUME NEW k \in 1..n PROVE P[k] < L + 1 /\ EndLine(P, k) < L + 1
      <4>1. P[k] \in Nat /\ EndLine(P, k) \in Nat /\ P[k] < L /\ EndLine(P, k) <= L
        BY <1>5, <1>6
      <4> QED BY <1>1, <4>1
    <3>2. \A k \in 1..n : EndLine(P, k) <= L + 1
      BY <1>1, <1>6, <3>1
    <3> QED BY <3>1, <3>2, Zenon
  <2>2. \A j, k \in 1..n : j < k => /\ P[j] < P[k] /\ EndLine(P, j) <= P[k]
                                    /\ ~printed[j].cut => EndLine(P, j) < P[k]
    BY <1>2, Zenon DEF Layout, Spread, n
  <2>3. Len(stream') = L + 1 /\ printed' = printed /\ Len(printed') = n
    BY <1>3 DEF n
  <2>4. \A k \in 1..n : 1 <= P[k]
    BY <1>5, Zenon
  <2> QED BY <1>5, <1>7, <2>1, <2>2, <2>3, <2>4, Zenon DEF Spread
<1>9. Marks(P)'
  <2>1. \A k \in 1..n : stream'[P[k]] = stream[P[k]]
    BY <1>3, <1>6, Zenon
  <2>2. printed' = printed /\ Len(printed') = n
    BY DEF n
  <2> QED BY <1>2, <2>1, <2>2, Zenon DEF Layout, Marks, n
<1>10. Texts_(P)'
  <2>1. \A k \in 1..n : \A i \in 1..Len(printed[k].out) : stream'[P[k] + i] = stream[P[k] + i]
    BY <1>3, <1>6, Zenon
  <2>2. printed' = printed /\ Len(printed') = n
    BY DEF n
  <2> QED BY <1>2, <2>1, <2>2, Zenon DEF Layout, Texts_, n
<1>11. Rest_(P)'
  <2>1. \A i \in 1..L + 1 : i \in 1..L \/ i = L + 1
    BY <1>1
  <2>2. printed' = printed /\ Len(printed') = n /\ Len(stream') = L + 1
    BY <1>3 DEF n
  <2>3. \A i \in 1..L : stream[i] = <<>> \/ \E k \in 1..n : P[k] <= i /\ i <= EndLine(P, k)
    BY <1>2, Zenon DEF Layout, Rest_, n, L
  <2>4. \A i \in 1..L + 1 : stream'[i] = <<>> \/ \E k \in 1..n : P[k] <= i /\ i <= EndLine(P, k)'
    BY <1>3, <1>7, <2>1, <2>3, Zenon
  <2> QED BY <2>2, <2>4, Zenon DEF Rest_
<1>12. Open_'
  BY <1>3 DEF Open_
<1>13. Streamed'
  <2>1. stream' # <<>>
    BY <1>1, <1>3
  <2> QED BY <1>3, <2>1 DEF Streamed
<1> QED
  BY <1>8, <1>9, <1>10, <1>11, <1>12, <1>13, Zenon DEF LaidOut, Layout

\* A command is laid out behind the others.
LEMMA LaidRun ==
  ASSUME Ordered, LaidOut, RunCommand
  PROVE  LaidOut'
<1> DEFINE L == Len(stream)
           n == Len(printed)
<1>1. stream \in Seq(Line) /\ stream # <<>> /\ L \in Nat \ {0} /\ printed \in Seq(Record) /\ n \in Nat
  <2> HIDE DEF Line, Record
  <2> QED BY EmptySeq DEF LaidOut, Streamed, Ordered
<1>2. PICK P : Layout(P)
  BY DEF LaidOut
<1>3. /\ stage = "run" /\ stage' = stage /\ script # <<>> /\ script \in Seq(Job)
  BY DEF RunCommand, Ordered
<1>4. PICK out \in Output, cut \in BOOLEAN :
        /\ cut => out # <<>>
        /\ stream' = Emit(stream, Head(script), out, cut)
        /\ printed' = Append(printed, [cmd |-> Head(script), out |-> out, cut |-> cut])
  BY DEF RunCommand
<1> DEFINE c == Head(script)
           p == [cmd |-> c, out |-> out, cut |-> cut]
           m == Len(out)
           e == IF cut THEN 0 ELSE 1
<1>5. c \in Job /\ p \in Record /\ out \in Seq(STRING) /\ m \in Nat
  <2>1. c \in Job
    BY <1>3
  <2>2. out \in Seq(STRING)
    BY ScriptAssumption
  <2> HIDE DEF c, Job
  <2> QED BY <2>1, <2>2 DEF Record
<1>6. e \in {0, 1} /\ (~cut => e = 1) /\ (cut => e = 0)
  OBVIOUS
<1>7. cut => m >= 1
  BY <1>4, <1>5, EmptySeq
<1> DEFINE S == Emit(stream, c, out, cut)
<1>8. /\ S \in Seq(Line) /\ Len(S) = L + m + e
      /\ \A i \in 1..L - 1 : S[i] = stream[i]
      /\ S[L] = Append(stream[L], Marker(c))
      /\ \A i \in 1..m : S[L + i] = <<Text(out[i])>>
      /\ ~cut => S[L + m + 1] = <<>>
  <2> HIDE DEF c, S, Line, Job, Emit, L, m, e
  <2>1. /\ Emit(stream, c, out, cut) \in Seq(Line)
        /\ Len(Emit(stream, c, out, cut)) = Len(stream) + Len(out) + (IF cut THEN 0 ELSE 1)
        /\ \A i \in 1..Len(stream) - 1 : Emit(stream, c, out, cut)[i] = stream[i]
        /\ Emit(stream, c, out, cut)[Len(stream)] = Append(stream[Len(stream)], Marker(c))
        /\ \A i \in 1..Len(out) : Emit(stream, c, out, cut)[Len(stream) + i] = <<Text(out[i])>>
        /\ ~cut => Emit(stream, c, out, cut)[Len(stream) + Len(out) + 1] = <<>>
    BY <1>1, <1>5, EmitIs
  <2> QED BY <2>1, Zenon DEF S, L, m, e
<1>9. stream' = S
  BY <1>4
<1> HIDE DEF c, S, e, m, L, n, Line, Record, p
<1>10. /\ printed' \in Seq(Record) /\ Len(printed') = n + 1
       /\ \A k \in 1..n : printed'[k] = printed[k]
       /\ printed'[n + 1] = p
  <2>1. printed' = Append(printed, p)
    BY <1>4, Zenon DEF p, c
  <2> QED BY <1>1, <1>5, <2>1 DEF n
<1>11. p.cmd = c /\ p.out = out /\ p.cut = cut
  BY DEF p
<1>12. \A k \in 1..n : Len(printed[k].out) \in Nat
  BY OutsAre, Zenon DEF n
<1>13. /\ P \in [1..n -> Nat]
       /\ \A k \in 1..n : /\ 1 <= P[k] /\ P[k] < L /\ EndLine(P, k) <= L
                          /\ ~printed[k].cut => EndLine(P, k) < L
       /\ \A j, k \in 1..n : j < k => /\ P[j] < P[k] /\ EndLine(P, j) <= P[k]
                                      /\ ~printed[j].cut => EndLine(P, j) < P[k]
  BY <1>2 DEF Layout, Spread, L, n
<1>14. \A k \in 1..n : /\ P[k] \in Nat /\ EndLine(P, k) \in Nat
                       /\ EndLine(P, k) = P[k] + Len(printed[k].out)
  BY <1>12, <1>13 DEF EndLine
<1>15. PICK Q : /\ Q \in [1..n + 1 -> Nat]
                /\ \A k \in 1..n : Q[k] = P[k]
                /\ Q[n + 1] = L
  <2> DEFINE R == [k \in 1..n + 1 |-> IF k = n + 1 THEN L ELSE P[k]]
  <2>1. R \in [1..n + 1 -> Nat] /\ (\A k \in 1..n : R[k] = P[k]) /\ R[n + 1] = L
    BY <1>1, <1>13
  <2> QED BY <2>1
<1> DEFINE End(k) == Q[k] + Len(printed'[k].out)
<1>16. \A k \in 1..n + 1 : k \in 1..n \/ k = n + 1
  BY <1>1
<1>17. /\ \A k \in 1..n : End(k) = EndLine(P, k)
       /\ End(n + 1) = L + m
  <2>2. \A k : EndLine(P, k) = P[k] + Len(printed[k].out)
    BY DEF EndLine
  <2>3. printed'[n + 1].out = out
    BY <1>10, <1>11, Zenon
  <2> QED BY <1>10, <1>15, <2>2, <2>3, Zenon DEF m, End
<1> HIDE DEF End
<1>18. Len(S) \in Nat /\ Len(S) > L /\ L + m <= Len(S) /\ (~cut => L + m < Len(S))
  <2>1. CASE cut
    <3>1. e = 0 /\ m >= 1
      BY <1>6, <1>7, <2>1
    <3>2. Len(S) \in Nat /\ Len(S) > L /\ L + m <= Len(S)
      BY <1>1, <1>5, <1>8, <3>1
    <3> QED BY <2>1, <3>2, Zenon
  <2>2. CASE ~cut
    <3>1. e = 1
      BY <1>6, <2>2
    <3>2. Len(S) \in Nat /\ Len(S) > L /\ L + m <= Len(S) /\ L + m < Len(S)
      BY <1>1, <1>5, <1>8, <3>1
    <3> QED BY <3>2, Zenon
  <2> QED BY <2>1, <2>2
<1>19. Spread(Q)'
  <2>1. \A k \in 1..n + 1 : /\ 1 <= Q[k] /\ Q[k] < Len(S) /\ End(k) <= Len(S)
                            /\ ~printed'[k].cut => End(k) < Len(S)
    <3>1. \A k \in 1..n : 1 <= P[k] /\ P[k] < Len(S) /\ EndLine(P, k) < Len(S) /\ EndLine(P, k) <= Len(S)
      BY <1>1, <1>13, <1>14, <1>18
    <3>2. \A k \in 1..n : /\ 1 <= Q[k] /\ Q[k] < Len(S) /\ End(k) <= Len(S)
                          /\ ~printed'[k].cut => End(k) < Len(S)
      BY <1>15, <1>17, <3>1, Zenon
    <3>3. 1 <= L /\ L < Len(S)
      BY <1>1, <1>18
    <3>4. /\ 1 <= Q[n + 1] /\ Q[n + 1] < Len(S) /\ End(n + 1) <= Len(S)
          /\ ~printed'[n + 1].cut => End(n + 1) < Len(S)
      BY <1>10, <1>11, <1>15, <1>17, <1>18, <3>3, Zenon
    <3> QED BY <1>16, <3>2, <3>4, Zenon
  <2>2. \A j, k \in 1..n + 1 : j < k => /\ Q[j] < Q[k] /\ End(j) <= Q[k]
                                        /\ ~printed'[j].cut => End(j) < Q[k]
    <3> SUFFICES ASSUME NEW j \in 1..n + 1, NEW k \in 1..n + 1, j < k
                 PROVE  /\ Q[j] < Q[k] /\ End(j) <= Q[k]
                        /\ ~printed'[j].cut => End(j) < Q[k]
      BY Zenon
    <3>1. j \in 1..n
      BY <1>1
    <3>4. Q[j] = P[j] /\ End(j) = EndLine(P, j) /\ printed'[j] = printed[j]
      BY <1>10, <1>15, <1>17, <3>1, Zenon
    <3>2. CASE k \in 1..n
      <4>1. Q[k] = P[k]
        BY <1>15, <3>2, Zenon
      <4>2. /\ P[j] < P[k] /\ EndLine(P, j) <= P[k]
            /\ ~printed[j].cut => EndLine(P, j) < P[k]
        BY <1>13, <3>1, <3>2, Zenon
      <4> QED BY <3>4, <4>1, <4>2, Zenon
    <3>3. CASE k = n + 1
      <4>1. Q[k] = L
        BY <1>15, <3>3, Zenon
      <4>2. /\ P[j] < L /\ EndLine(P, j) <= L
            /\ ~printed[j].cut => EndLine(P, j) < L
        BY <1>13, <3>1, Zenon
      <4> QED BY <3>4, <4>1, <4>2, Zenon
    <3> QED BY <1>16, <3>2, <3>3, Zenon
  <2> QED BY <1>9, <1>10, <1>15, <2>1, <2>2, Zenon DEF Spread, EndLine, End
<1>20. /\ \A i \in 1..L - 1 : stream'[i] = stream[i]
       /\ stream'[L] = Append(stream[L], Marker(c))
       /\ \A i \in 1..m : stream'[L + i] = <<Text(out[i])>>
       /\ ~cut => stream'[L + m + 1] = <<>>
       /\ Len(stream') = L + m + e
  BY <1>8, <1>9, Zenon
<1>21. \/ stream[L] = <<>>
       \/ Len(stream[L]) = 1 /\ \E j \in 1..n : printed[j].cut
  BY <1>3 DEF LaidOut, Open_, L, n
<1>22. stream[L] \in Line /\ Marker(c) \in Piece
  <2>1. stream[L] \in Line
    BY <1>1 DEF L
  <2> QED BY <1>5, <2>1 DEF Piece, Headings
<1>23. \/ stream[L] = <<>> /\ stream'[L] = <<Marker(c)>>
       \/ Len(stream[L]) = 1 /\ Len(stream'[L]) = 2 /\ \E j \in 1..n : printed[j].cut
  <2>1. CASE stream[L] = <<>>
    <3>1. Append(<<>>, Marker(c)) = <<Marker(c)>>
      OBVIOUS
    <3> QED BY <1>20, <2>1, <3>1, Zenon
  <2>2. CASE Len(stream[L]) = 1 /\ \E j \in 1..n : printed[j].cut
    <3>1. Len(Append(stream[L], Marker(c))) = Len(stream[L]) + 1
      BY <1>22 DEF Line
    <3>2. 1 + 1 = 2
      OBVIOUS
    <3> QED BY <1>20, <2>2, <3>1, <3>2, Zenon
  <2> QED BY <1>21, <2>1, <2>2, Zenon
<1>24. Marks(Q)'
  <2>1. ASSUME NEW k \in 1..n
        PROVE  \/ stream'[Q[k]] = <<Marker(printed'[k].cmd)>>
               \/ Len(stream'[Q[k]]) = 2 /\ \E j \in 1..n + 1 : j < k /\ printed'[j].cut
    <3>1. P[k] \in 1..L - 1
      BY <1>1, <1>13
    <3>2. stream'[Q[k]] = stream[P[k]]
      BY <1>15, <1>20, <3>1, Zenon
    <3>3. \/ stream[P[k]] = <<Marker(printed[k].cmd)>>
          \/ Len(stream[P[k]]) = 2 /\ \E j \in 1..n : j < k /\ printed[j].cut
      BY <1>2 DEF Layout, Marks, n
    <3>4. \A j \in 1..n : j \in 1..n + 1
      BY <1>1
    <3> QED BY <1>10, <3>2, <3>3, <3>4, Zenon
  <2>2. \/ stream'[Q[n + 1]] = <<Marker(printed'[n + 1].cmd)>>
        \/ Len(stream'[Q[n + 1]]) = 2 /\ \E j \in 1..n + 1 : j < n + 1 /\ printed'[j].cut
    <3>1. \A j \in 1..n : j \in 1..n + 1 /\ j < n + 1
      BY <1>1
    <3> QED BY <1>10, <1>11, <1>15, <1>23, <3>1, Zenon
  <2> QED BY <1>10, <1>16, <2>1, <2>2, Zenon DEF Marks
<1>25. Texts_(Q)'
  <2>1. ASSUME NEW k \in 1..n, NEW i \in 1..Len(printed[k].out)
        PROVE  \/ stream'[Q[k] + i] = <<Text(printed[k].out[i])>>
               \/ Len(stream'[Q[k] + i]) = 2 /\ printed[k].cut
    <3>1. P[k] + i <= EndLine(P, k) /\ P[k] + i \in Nat \ {0} /\ P[k] + i <= L
      <4>1. /\ P[k] \in Nat /\ 1 <= P[k] /\ EndLine(P, k) \in Nat /\ EndLine(P, k) <= L
            /\ Len(printed[k].out) \in Nat /\ EndLine(P, k) = P[k] + Len(printed[k].out)
        BY <1>12, <1>13, <1>14, Zenon
      <4> QED BY <1>1, <4>1
    <3>2. \/ stream[P[k] + i] = <<Text(printed[k].out[i])>>
          \/ Len(stream[P[k] + i]) = 2 /\ printed[k].cut
      BY <1>2 DEF Layout, Texts_, n
    <3>3. CASE P[k] + i < L
      <4>1. P[k] + i \in 1..L - 1
        BY <1>1, <3>1, <3>3
      <4> QED BY <1>15, <1>20, <3>2, <4>1, Zenon
    <3>4. CASE P[k] + i = L
      <4>1. ~(EndLine(P, k) < L)
        BY <1>1, <1>14, <3>1, <3>4
      <4>2. printed[k].cut
        BY <1>13, <4>1, Zenon
      <4>3. stream[L] # <<>>
        <5>1. Len(<<>>) # 2 /\ \A x : <<x>> # <<>>
          OBVIOUS
        <5> QED BY <3>2, <3>4, <5>1, Zenon
      <4> QED BY <1>15, <1>23, <3>4, <4>2, <4>3, Zenon
    <3> QED BY <1>1, <3>1, <3>3, <3>4
  <2>2. ASSUME NEW i \in 1..m
        PROVE  stream'[Q[n + 1] + i] = <<Text(out[i])>>
    BY <1>15, <1>20, Zenon
  <2>3. \A k \in 1..n + 1 : \A i \in 1..Len(printed'[k].out) :
          \/ stream'[Q[k] + i] = <<Text(printed'[k].out[i])>>
          \/ Len(stream'[Q[k] + i]) = 2 /\ printed'[k].cut
    <3>1. ASSUME NEW k \in 1..n, NEW i \in 1..Len(printed'[k].out)
          PROVE  \/ stream'[Q[k] + i] = <<Text(printed'[k].out[i])>>
                 \/ Len(stream'[Q[k] + i]) = 2 /\ printed'[k].cut
      <4>1. printed'[k] = printed[k]
        BY <1>10, Zenon
      <4> QED BY <2>1, <3>1, <4>1, Zenon
    <3>2. ASSUME NEW i \in 1..Len(printed'[n + 1].out)
          PROVE  stream'[Q[n + 1] + i] = <<Text(printed'[n + 1].out[i])>>
      <4>1. printed'[n + 1].out = out
        BY <1>10, <1>11, Zenon
      <4> QED BY <2>2, <3>2, <4>1, Zenon DEF m
    <3> QED BY <1>16, <3>1, <3>2, Zenon
  <2> QED BY <1>10, <2>3, Zenon DEF Texts_
<1>26. Rest_(Q)'
  <2>1. ASSUME NEW i \in 1..L + m + e
        PROVE  stream'[i] = <<>> \/ \E k \in 1..n + 1 : Q[k] <= i /\ i <= End(k)
    <3>1. CASE i < L
      <4>1. i \in 1..L - 1 /\ i \in 1..L
        BY <1>1, <3>1
      <4>2. stream[i] = <<>> \/ \E k \in 1..n : P[k] <= i /\ i <= EndLine(P, k)
        BY <1>2, <4>1 DEF Layout, Rest_, n, L
      <4>3. \A k \in 1..n : k \in 1..n + 1
        BY <1>1
      <4> QED BY <1>15, <1>17, <1>20, <4>1, <4>2, <4>3, Zenon
    <3>2. CASE L <= i /\ i <= L + m
      <4>1. n + 1 \in 1..n + 1
        BY <1>1
      <4> QED BY <1>15, <1>17, <3>2, <4>1, Zenon
    <3>3. CASE L + m < i
      <4>1. e = 1 /\ i = L + m + 1
        BY <1>1, <1>5, <1>6, <3>3
      <4>2. ~cut
        BY <1>6, <4>1
      <4> QED BY <1>20, <4>1, <4>2, Zenon
    <3> QED BY <1>1, <1>5, <1>6, <3>1, <3>2, <3>3
  <2> QED BY <1>10, <1>20, <2>1, Zenon DEF Rest_, EndLine, End
<1>27. Open_'
  <2>1. CASE cut
    <3>1. e = 0 /\ m \in 1..m /\ L + m + e = L + m
      BY <1>1, <1>5, <1>6, <1>7, <2>1
    <3>2. stream'[Len(stream')] = <<Text(out[m])>>
      BY <1>20, <3>1, Zenon
    <3>3. \A x : Len(<<x>>) = 1
      OBVIOUS
    <3>4. n + 1 \in 1..n + 1
      BY <1>1
    <3> QED BY <1>10, <1>11, <2>1, <3>2, <3>3, <3>4, Zenon DEF Open_
  <2>2. CASE ~cut
    <3>1. L + m + e = L + m + 1
      BY <1>1, <1>5, <1>6, <2>2
    <3> QED BY <1>20, <2>2, <3>1, Zenon DEF Open_
  <2> QED BY <2>1, <2>2
<1>28. Streamed'
  <2>1. Len(S) # 0
    BY <1>1, <1>18
  <2>2. stream' # <<>>
    <3>1. Len(<<>>) = 0
      OBVIOUS
    <3> QED BY <1>9, <2>1, <3>1, Zenon
  <2> QED BY <1>8, <1>9, <2>2, Zenon DEF Streamed
<1> QED
  BY <1>19, <1>24, <1>25, <1>26, <1>27, <1>28, Zenon DEF LaidOut, Layout

-----------------------------------------------------------------------------
(* Cutting the stream.                                                     *)

\* A heading is its separator and its name.
LEMMA HeadingIs ==
  ASSUME NEW c \in Headings
  PROVE  [sep |-> c.sep, name |-> c.name] = c
<1>1. CASE c \in {Builtin(k) : k \in Keys} \/ c \in {Custom(n) : n \in FileNames}
  BY <1>1 DEF Builtin, Custom
<1>2. CASE c \in {Spelled[t] : t \in DOMAIN Spelled}
  <2>1. c \in [sep : {"SrvBoxSep", "SrvBoxCusCmdSep"}, name : STRING]
    BY <1>2, ScriptAssumption, Zenon
  <2> QED BY <2>1
<1> QED
  BY <1>1, <1>2 DEF Headings, Job

\* A line that is a marker names a heading.
LEMMA MarkerLine ==
  ASSUME NEW line \in Line, IsMarker(line)
  PROVE  KeyOf(line) \in Headings
<1>1. Len(line) = 1 /\ line[1].mark
  BY DEF IsMarker
<1>2. line[1] \in Piece
  BY <1>1 DEF Line
<1>3. PICK c \in Headings : line[1] = Marker(c)
  <2>1. CASE \E c \in Headings : line[1] = Marker(c)
    BY <2>1
  <2>2. CASE \E t \in STRING : line[1] = Text(t)
    <3>1. PICK t \in STRING : line[1] = Text(t)
      BY <2>2
    <3>2. t \in DOMAIN Spelled
      BY <1>1, <3>1 DEF Text
    <3>3. line[1] = Marker(Spelled[t]) /\ Spelled[t] \in Headings
      BY <3>1, <3>2 DEF Text, Headings
    <3> QED BY <3>3
  <2> QED BY <1>2, <2>1, <2>2, Zenon DEF Piece
<1>4. KeyOf(line) = [sep |-> c.sep, name |-> c.name]
  BY <1>1, <1>3 DEF KeyOf, Marker, result_key
<1> QED
  BY <1>4, HeadingIs

\* A marker alone on its line opens the section it names, a text that spells one
\* does too; other texts and blank lines open none.
LEMMA LineIs ==
  /\ \A c \in Headings : IsMarker(<<Marker(c)>>) /\ KeyOf(<<Marker(c)>>) = c
  /\ \A t : t \in DOMAIN Spelled => KeyOf(<<Text(t)>>) = Spelled[t]
  /\ \A t : t \notin DOMAIN Spelled => ~IsMarker(<<Text(t)>>)
  /\ \A line : Len(line) # 1 => ~IsMarker(line)
  /\ ~IsMarker(<<>>)
<1>1. ASSUME NEW c \in Headings PROVE IsMarker(<<Marker(c)>>) /\ KeyOf(<<Marker(c)>>) = c
  <2>1. IsMarker(<<Marker(c)>>)
    BY DEF IsMarker, Marker
  <2>2. KeyOf(<<Marker(c)>>) = [sep |-> c.sep, name |-> c.name]
    BY DEF KeyOf, Marker, result_key
  <2> QED BY <2>1, <2>2, HeadingIs
<1>2. ASSUME NEW t, t \in DOMAIN Spelled PROVE KeyOf(<<Text(t)>>) = Spelled[t]
  <2>1. Text(t) = Marker(Spelled[t]) /\ Spelled[t] \in Headings
    BY <1>2 DEF Text, Headings
  <2> QED BY <1>1, <2>1
<1>3. ASSUME NEW t, t \notin DOMAIN Spelled PROVE ~IsMarker(<<Text(t)>>)
  BY <1>3 DEF IsMarker, Text
<1>4. ASSUME NEW line, Len(line) # 1 PROVE ~IsMarker(line)
  BY <1>4 DEF IsMarker
<1>5. Len(<<>>) # 1
  OBVIOUS
<1> QED
  BY <1>1, <1>2, <1>3, <1>4, <1>5

\* Trimming gives lines.
LEMMA TrimmedType ==
  ASSUME NEW lines \in Seq(Line)
  PROVE  Trimmed(lines) \in Seq(Line)
<1> DEFINE filled == {i \in DOMAIN lines : lines[i] # <<>>}
           a == CHOOSE i \in filled : \A j \in filled : i <= j
           b == CHOOSE i \in filled : \A j \in filled : j <= i
<1>1. Len(lines) \in Nat /\ DOMAIN lines = 1..Len(lines) /\ filled \subseteq 1..Len(lines)
  BY DEF Line
<1>2. CASE filled = {}
  <2>1. Trimmed(lines) = <<>>
    BY <1>2 DEF Trimmed
  <2> QED BY <2>1
<1>3. CASE filled # {}
  <2>1. filled \subseteq Nat /\ filled \subseteq 0..Len(lines)
    BY <1>1
  <2>2. \E i \in filled : \A j \in filled : i <= j
    <3> HIDE DEF filled
    <3> QED BY <1>3, <2>1, LeastOf, Zenon
  <2>3. \E i \in filled : \A j \in filled : j <= i
    <3> HIDE DEF filled
    <3>1. Max(filled) \in filled /\ \A j \in filled : j <= Max(filled)
      BY <1>1, <1>3, <2>1, GreatestOf
    <3> QED BY <3>1, Zenon
  <2> HIDE DEF filled
  <2>4. a \in filled /\ b \in filled
    BY <2>2, <2>3, Zenon
  <2>5. Trimmed(lines) = SubSeq(lines, a, b)
    BY <1>3 DEF Trimmed, filled
  <2> HIDE DEF a, b, Line
  <2>6. a \in 1..Len(lines) /\ b \in 1..Len(lines)
    BY <1>1, <2>4
  <2>7. \A i \in a..b : lines[i] \in Line
    BY <1>1, <2>6
  <2>8. SubSeq(lines, a, b) \in Seq(Line)
    BY <1>1, <2>6, <2>7, SubSeqProperties
  <2> QED BY <2>5, <2>8
<1> QED
  BY <1>2, <1>3

\* Trimming takes away the blank lines at the end.
LEMMA TrimmedIs ==
  ASSUME NEW lines \in Seq(Line), NEW m \in 0..Len(lines),
         \A i \in 1..m : lines[i] # <<>>, \A i \in m + 1..Len(lines) : lines[i] = <<>>
  PROVE  Trimmed(lines) = [i \in 1..m |-> lines[i]]
<1> DEFINE filled == {i \in DOMAIN lines : lines[i] # <<>>}
           a == CHOOSE i \in filled : \A j \in filled : i <= j
           b == CHOOSE i \in filled : \A j \in filled : j <= i
<1>1. Len(lines) \in Nat /\ DOMAIN lines = 1..Len(lines) /\ m \in Nat /\ m <= Len(lines)
  BY DEF Line
<1>2. filled = 1..m
  <2>1. \A i \in 1..Len(lines) : i \in 1..m \/ i \in m + 1..Len(lines)
    BY <1>1
  <2>2. \A i \in 1..m : i \in 1..Len(lines)
    BY <1>1
  <2>3. ASSUME NEW i \in filled PROVE i \in 1..m
    <3>1. i \in 1..Len(lines) /\ lines[i] # <<>>
      BY <1>1, Zenon
    <3> QED BY <2>1, <3>1, Zenon
  <2>4. ASSUME NEW i \in 1..m PROVE i \in filled
    BY <1>1, <2>2, Zenon
  <2> QED BY <2>3, <2>4, Zenon
<1> HIDE DEF filled
<1>3. CASE m = 0
  <2>1. filled = {}
    BY <1>1, <1>2, <1>3
  <2>2. Trimmed(lines) = <<>>
    BY <2>1 DEF Trimmed, filled
  <2>3. [i \in 1..m |-> lines[i]] = <<>>
    BY <1>3
  <2> QED BY <2>2, <2>3
<1>4. CASE m # 0
  <2>1. filled # {} /\ 1 \in filled /\ m \in filled
    <3>1. 1 \in 1..m /\ m \in 1..m
      BY <1>1, <1>4
    <3> QED BY <1>2, <3>1, Zenon
  <2>2. a = 1 /\ b = m
    <3>1. 1 \in filled /\ \A j \in filled : 1 <= j
      BY <1>1, <1>2, <1>4
    <3>2. m \in filled /\ \A j \in filled : j <= m
      BY <1>1, <1>2, <1>4
    <3>3. a \in filled /\ \A j \in filled : a <= j
      BY <3>1
    <3>4. b \in filled /\ \A j \in filled : j <= b
      BY <3>2
    <3> HIDE DEF a, b
    <3>5. a \in Int /\ b \in Int
      BY <1>1, <1>2, <3>3, <3>4
    <3> QED BY <1>1, <3>1, <3>2, <3>3, <3>4, <3>5
  <2>3. Trimmed(lines) = SubSeq(lines, a, b)
    BY <2>1 DEF Trimmed, filled
  <2>4. SubSeq(lines, 1, m) = [i \in 1..m |-> lines[i]]
    <3> HIDE DEF Line
    <3>1. /\ SubSeq(lines, 1, m) \in Seq(Line) /\ Len(SubSeq(lines, 1, m)) = m
          /\ \A i \in 1..m : SubSeq(lines, 1, m)[i] = lines[i]
      BY <1>1
    <3> DEFINE s == SubSeq(lines, 1, m)
    <3> HIDE DEF s
    <3>2. s = [i \in 1..m |-> s[i]]
      BY <1>1, <3>1 DEF s
    <3> QED BY <3>1, <3>2 DEF s
  <2> QED BY <2>2, <2>3, <2>4, Zenon
<1> QED
  BY <1>3, <1>4

-----------------------------------------------------------------------------
(* Reading the stream line by line.                                        *)
\* The lines after lo and before hi, and the section that lo opens on them.
Between(lo, hi) == [i \in 1..hi - lo - 1 |-> stream[lo + i]]
Section(lo, hi) == [key |-> KeyOf(stream[lo]), value |-> Trimmed(Between(lo, hi))]

\* The m marker lines among the first r, in order.
Found(M, m, r) ==
  /\ M \in [1..m -> 1..r]
  /\ \A j, k \in 1..m : j < k => M[j] < M[k]
  /\ \A k \in 1..m : IsMarker(stream[M[k]])
  /\ \A i \in 1..r : IsMarker(stream[i]) => \E k \in 1..m : M[k] = i

\* What the parser finds.
Sections == [key : Headings, value : Seq(Line)]

\* What has been read up to line r, where the last marker's section is open.
ReadTo(M, m, r) ==
  /\ Found(M, m, r)
  /\ m = 0 => parser.current = <<>> /\ result = <<>>
  /\ m # 0 => /\ parser.current = <<KeyOf(stream[M[m]])>>
              /\ parser.buf = Between(M[m], r + 1)
              /\ Len(result) = m - 1
              /\ \A k \in 1..m - 1 : result[k] = Section(M[k], M[k + 1])

\* One section per marker, as long as its lines go.
AllRead(M, m) ==
  /\ Found(M, m, Len(stream))
  /\ Len(result) = m
  /\ \A k \in 1..m : result[k] = Section(M[k], IF k = m THEN Len(stream) + 1 ELSE M[k + 1])

\* The parser, before, in and after its loop over the lines.
Parsing ==
  /\ result \in Seq(Sections) /\ Len(parser.current) \in {0, 1}
  /\ parser = [unread |-> parser.unread, current |-> parser.current, buf |-> parser.buf]
  /\ stage \in {"run", "failed"} => parser.current = <<>> /\ result = <<>>
  /\ stage = "parse" =>
       /\ parser.unread \in Seq(Line) /\ Len(parser.unread) <= Len(stream)
       /\ \A i \in 1..Len(parser.unread) :
            parser.unread[i] = stream[Len(stream) - Len(parser.unread) + i]
       /\ \E m \in Nat : \E M : ReadTo(M, m, Len(stream) - Len(parser.unread))
  /\ stage = "done" => \E m \in Nat : \E M : AllRead(M, m)

\* A section's lines are lines.
LEMMA BetweenType ==
  ASSUME Streamed, NEW lo \in 1..Len(stream), NEW hi \in lo + 1..Len(stream) + 1
  PROVE  /\ Between(lo, hi) \in Seq(Line) /\ Len(Between(lo, hi)) = hi - lo - 1
         /\ \A i \in 1..hi - lo - 1 : lo + i \in 1..Len(stream) /\ Between(lo, hi)[i] = stream[lo + i]
         /\ Trimmed(Between(lo, hi)) \in Seq(Line)
<1>1. stream \in Seq(Line) /\ Len(stream) \in Nat
  <2> HIDE DEF Line
  <2> QED BY DEF Streamed
<1> HIDE DEF Line
<1>2. hi - lo - 1 \in Nat /\ \A i \in 1..hi - lo - 1 : lo + i \in 1..Len(stream)
  BY <1>1
<1>3. \A i \in 1..hi - lo - 1 : stream[lo + i] \in Line
  BY <1>1, <1>2
<1>4. /\ Between(lo, hi) \in Seq(Line) /\ Len(Between(lo, hi)) = hi - lo - 1
      /\ \A i \in 1..hi - lo - 1 : Between(lo, hi)[i] = stream[lo + i]
  BY <1>2, <1>3 DEF Between
<1> QED
  BY <1>2, <1>4, TrimmedType

\* Closing the open section.
LEMMA FlushIs ==
  ASSUME Streamed, result \in Seq(Sections), NEW r \in 0..Len(stream), NEW m \in Nat, NEW M, ReadTo(M, m, r)
  PROVE  /\ Flushed \in Seq(Sections) /\ Len(Flushed) = m
         /\ \A k \in 1..m : Flushed[k] = Section(M[k], IF k = m THEN r + 1 ELSE M[k + 1])
<1>1. Found(M, m, r)
  BY DEF ReadTo
<1>2. stream \in Seq(Line) /\ Len(stream) \in Nat /\ r \in Nat
  <2> HIDE DEF Line
  <2> QED BY DEF Streamed
<1> HIDE DEF Line, Sections, IsMarker
<1>3. CASE m = 0
  <2>1. parser.current = <<>> /\ result = <<>>
    BY <1>3 DEF ReadTo
  <2>2. Flushed = <<>>
    BY <2>1 DEF Flushed
  <2> QED BY <1>3, <2>2
<1>4. CASE m # 0
  <2>1. /\ parser.current = <<KeyOf(stream[M[m]])>>
        /\ parser.buf = Between(M[m], r + 1)
        /\ Len(result) = m - 1
        /\ \A k \in 1..m - 1 : result[k] = Section(M[k], M[k + 1])
    BY <1>4 DEF ReadTo
  <2>2. m \in 1..m /\ M[m] \in 1..r /\ IsMarker(stream[M[m]])
    BY <1>1, <1>4 DEF Found
  <2>3. M[m] \in 1..Len(stream) /\ r + 1 \in M[m] + 1..Len(stream) + 1
    BY <1>2, <2>2
  <2>4. Section(M[m], r + 1) \in Sections
    <3>1. Trimmed(Between(M[m], r + 1)) \in Seq(Line)
      BY <2>3, BetweenType
    <3>2. stream[M[m]] \in Line
      BY <1>2, <2>3
    <3>3. KeyOf(stream[M[m]]) \in Headings
      BY <2>2, <3>2, MarkerLine
    <3> QED BY <3>1, <3>3 DEF Section, Sections
  <2>5. parser.current # <<>> /\ parser.current[1] = KeyOf(stream[M[m]])
    BY <2>1
  <2>6. Flushed = Append(result, Section(M[m], r + 1))
    BY <2>1, <2>5, Zenon DEF Flushed, Section
  <2> HIDE DEF Section
  <2>7. /\ Flushed \in Seq(Sections) /\ Len(Flushed) = m
        /\ \A k \in 1..m - 1 : Flushed[k] = result[k]
        /\ Flushed[m] = Section(M[m], r + 1)
    <3> DEFINE x == Section(M[m], r + 1)
    <3> HIDE DEF x
    <3>1. Flushed = Append(result, x) /\ x \in Sections
      BY <2>4, <2>6 DEF x
    <3>2. /\ Flushed \in Seq(Sections) /\ Len(Flushed) = Len(result) + 1
          /\ \A k \in 1..Len(result) : Flushed[k] = result[k]
          /\ Flushed[Len(result) + 1] = x
      BY <3>1
    <3>3. Len(result) + 1 = m
      BY <2>1
    <3> QED BY <2>1, <3>2, <3>3, Zenon DEF x
  <2>8. \A k \in 1..m : (k = m) \/ (k \in 1..m - 1 /\ k # m)
    BY <1>4
  <2>9. \A k \in 1..m : Flushed[k] = Section(M[k], IF k = m THEN r + 1 ELSE M[k + 1])
    <3> SUFFICES ASSUME NEW k \in 1..m
                 PROVE  Flushed[k] = Section(M[k], IF k = m THEN r + 1 ELSE M[k + 1])
      OBVIOUS
    <3>1. CASE k = m
      BY <2>7, <3>1, Zenon
    <3>2. CASE k \in 1..m - 1 /\ k # m
      BY <2>1, <2>7, <3>2, Zenon
    <3> QED BY <2>8, <3>1, <3>2, Zenon
  <2> QED BY <2>7, <2>9
<1> QED
  BY <1>3, <1>4

\* One line more.
LEMMA ParseStep ==
  ASSUME Streamed, Parsing, ParseLine
  PROVE  Parsing'
<1> DEFINE L == Len(stream)
           u == parser.unread
           r == L - Len(u)
           line == Head(u)
<1>1. stream \in Seq(Line) /\ L \in Nat
  <2> HIDE DEF Line
  <2> QED BY DEF Streamed
<1>2. /\ stage = "parse" /\ u # <<>> /\ stage' = "parse" /\ stream' = stream
      /\ u \in Seq(Line) /\ Len(u) <= L
      /\ \A i \in 1..Len(u) : u[i] = stream[r + i]
      /\ result \in Seq(Sections) /\ Len(parser.current) \in {0, 1}
  <2> HIDE DEF Line, Sections
  <2> QED BY DEF Parsing, ParseLine
<1>3m. PICK m \in Nat : \E M : ReadTo(M, m, r)
  BY <1>2 DEF Parsing
<1>3. PICK M : ReadTo(M, m, r)
  BY <1>3m
<1> HIDE DEF Line, Sections
<1>4. Len(u) \in Nat \ {0} /\ r \in 0..L - 1 /\ r + 1 \in 1..L /\ line = stream[r + 1] /\ line \in Line
  <2>1. Len(u) \in Nat \ {0} /\ line = u[1] /\ 1 \in 1..Len(u) /\ line \in Line
    BY <1>2, EmptySeq
  <2>2. r \in 0..L - 1 /\ r + 1 \in 1..L
    BY <1>1, <1>2, <2>1
  <2> HIDE DEF r, u, line
  <2> QED BY <1>2, <2>1, <2>2, Zenon
<1>5. /\ Tail(u) \in Seq(Line) /\ Len(Tail(u)) = Len(u) - 1
      /\ \A i \in 1..Len(u) - 1 : Tail(u)[i] = u[i + 1]
  BY <1>2
<1>6. \A i \in 1..Len(Tail(u)) : Tail(u)[i] = stream[L - Len(Tail(u)) + i]
  <2>1. \A i \in 1..Len(Tail(u)) : i + 1 \in 1..Len(u) /\ r + (i + 1) = L - Len(Tail(u)) + i
    <3> HIDE DEF u, L
    <3> QED BY <1>1, <1>4, <1>5
  <2> HIDE DEF r
  <2> QED BY <1>2, <1>5, <2>1
<1>7. L - Len(Tail(u)) = r + 1 /\ Len(Tail(u)) <= L
  <2> HIDE DEF u, L
  <2> QED BY <1>1, <1>2, <1>4, <1>5
<1>8. Found(M, m, r)
  BY <1>3 DEF ReadTo
<1>9. PICK q : q = r + 1
  OBVIOUS
<1>10. /\ M \in [1..m -> 1..r] /\ \A j, k \in 1..m : j < k => M[j] < M[k]
       /\ \A k \in 1..m : IsMarker(stream[M[k]])
       /\ \A i \in 1..r : IsMarker(stream[i]) => \E k \in 1..m : M[k] = i
  BY <1>8 DEF Found
<1>11. \A i \in 1..q : i \in 1..r \/ i = q
  BY <1>4, <1>9
<1> HIDE DEF IsMarker, L
<1>12. CASE IsMarker(line)
  <2>1. /\ result' = Flushed
        /\ parser' = [unread |-> Tail(u), current |-> <<KeyOf(line)>>, buf |-> <<>>]
    BY <1>12 DEF ParseLine
  <2>2. /\ Flushed \in Seq(Sections) /\ Len(Flushed) = m
        /\ \A k \in 1..m : Flushed[k] = Section(M[k], IF k = m THEN r + 1 ELSE M[k + 1])
    <3>1. r \in 0..Len(stream)
      BY <1>1, <1>4 DEF L
    <3> HIDE DEF r
    <3> QED BY <1>2, <1>3, <3>1, FlushIs
  <2>3. PICK N : N \in [1..m + 1 -> 1..q] /\ (\A k \in 1..m : N[k] = M[k]) /\ N[m + 1] = q
    <3> DEFINE R == [k \in 1..m + 1 |-> IF k = m + 1 THEN q ELSE M[k]]
    <3>1. \A k \in 1..m : M[k] \in 1..q
      BY <1>4, <1>9, <1>10
    <3>2. q \in 1..q
      BY <1>4, <1>9
    <3>3. R \in [1..m + 1 -> 1..q] /\ (\A k \in 1..m : R[k] = M[k]) /\ R[m + 1] = q
      BY <3>1, <3>2
    <3> QED BY <3>3
  <2>4. \A k \in 1..m + 1 : k \in 1..m \/ k = m + 1
    OBVIOUS
  <2>5. Found(N, m + 1, q)'
    <3>1. ASSUME NEW j \in 1..m + 1, NEW k \in 1..m + 1, j < k PROVE N[j] < N[k]
      <4>1. j \in 1..m
        BY <3>1
      <4>2. CASE k \in 1..m
        BY <1>10, <2>3, <3>1, <4>1, <4>2, Zenon
      <4>3. CASE k = m + 1
        <5>1. M[j] \in 1..r
          BY <1>10, <4>1
        <5>2. M[j] < q
          BY <1>4, <1>9, <5>1
        <5> QED BY <2>3, <4>1, <4>3, <5>2, Zenon
      <4> QED BY <2>4, <4>2, <4>3
    <3>2. ASSUME NEW k \in 1..m + 1 PROVE IsMarker(stream[N[k]])
      BY <1>4, <1>9, <1>10, <1>12, <2>3, <2>4, Zenon
    <3>3. ASSUME NEW i \in 1..q, IsMarker(stream[i]) PROVE \E k \in 1..m + 1 : N[k] = i
      <4>1. \A k \in 1..m : k \in 1..m + 1
        OBVIOUS
      <4>2. m + 1 \in 1..m + 1
        OBVIOUS
      <4> QED BY <1>10, <1>11, <2>3, <3>3, <4>1, <4>2, Zenon
    <3>4. \A x : IsMarker(stream'[x]) = IsMarker(stream[x])
      BY <1>2
    <3> QED BY <1>2, <2>3, <3>1, <3>2, <3>3, Zenon DEF Found
  <2>6. parser'.current = <<KeyOf(stream[q])>> /\ parser'.buf = <<>> /\ parser'.unread = Tail(u)
    BY <1>4, <1>9, <2>1
  <2>7. Between(q, q + 1) = <<>>
    <3>1. (q + 1) - q - 1 = 0
      BY <1>4, <1>9
    <3> QED BY <3>1 DEF Between
  <2>8. \A k \in 1..m : Flushed[k] = Section(N[k], N[k + 1])
    <3> SUFFICES ASSUME NEW k \in 1..m PROVE Flushed[k] = Section(N[k], N[k + 1])
      OBVIOUS
    <3>1. CASE k = m
      BY <1>9, <2>2, <2>3, <3>1, Zenon
    <3>2. CASE k # m
      <4>1. k + 1 \in 1..m
        BY <3>2
      <4> QED BY <2>2, <2>3, <3>2, <4>1, Zenon
    <3> QED BY <3>1, <3>2
  <2>9. ReadTo(N, m + 1, q)'
    <3>1. Between(q, q + 1)' = Between(q, q + 1)
      BY <1>2 DEF Between
    <3>2. \A k \in 1..m : Section(N[k], N[k + 1])' = Section(N[k], N[k + 1])
      BY <1>2 DEF Section, Between
    <3>3. m + 1 # 0 /\ (m + 1) - 1 = m
      OBVIOUS
    <3>4. /\ parser'.current = <<KeyOf(stream'[N[m + 1]])>>
          /\ parser'.buf = Between(N[m + 1], q + 1)'
      <4>1. stream'[N[m + 1]] = stream[q]
        BY <1>2, <2>3, Zenon
      <4>2. Between(N[m + 1], q + 1)' = Between(q, q + 1)
        BY <1>2, <2>3, Zenon DEF Between
      <4> QED BY <2>6, <2>7, <4>1, <4>2, Zenon
    <3>5. Len(result') = m /\ \A k \in 1..m : result'[k] = Section(N[k], N[k + 1])'
      BY <2>1, <2>2, <2>8, <3>2, Zenon
    <3> QED BY <2>5, <3>3, <3>4, <3>5, Zenon DEF ReadTo
  <2>10. Len(parser'.current) \in {0, 1}
    <3>1. \A x : Len(<<x>>) = 1
      OBVIOUS
    <3> QED BY <2>6, <3>1
  <2>11. Len(stream') - Len(parser'.unread) = q /\ m + 1 \in Nat
    <3>1. Len(stream') = L /\ Len(parser'.unread) = Len(Tail(u))
      BY <1>2, <2>6, Zenon DEF L
    <3> HIDE DEF u
    <3> QED BY <1>7, <1>9, <3>1
  <2>12. parser'.unread = Tail(u) /\ Len(stream') = L
    BY <1>2, <2>6 DEF L
  <2>13. parser' = [unread |-> parser'.unread, current |-> parser'.current, buf |-> parser'.buf]
    BY <2>1
  <2>14. /\ parser'.unread \in Seq(Line) /\ Len(parser'.unread) <= Len(stream')
         /\ \A i \in 1..Len(parser'.unread) :
              parser'.unread[i] = stream'[Len(stream') - Len(parser'.unread) + i]
    BY <1>2, <1>5, <1>6, <1>7, <2>12, Zenon
  <2>15. \E k \in Nat : \E K : ReadTo(K, k, Len(stream) - Len(parser.unread))'
    BY <2>9, <2>11
  <2>16. result' \in Seq(Sections)
    BY <2>1, <2>2
  <2> QED BY <1>2, <2>10, <2>13, <2>14, <2>15, <2>16 DEF Parsing
<1>13. CASE ~IsMarker(line)
  <2>1. /\ result' = result
        /\ parser' = [parser EXCEPT !.unread = Tail(u),
                        !.buf = IF parser.current = <<>> THEN @ ELSE Append(@, line)]
    BY <1>13 DEF ParseLine
  <2>2. /\ parser = [unread |-> parser.unread, current |-> parser.current, buf |-> parser.buf]
    BY DEF Parsing
  <2>3. /\ parser'.unread = Tail(u) /\ parser'.current = parser.current
        /\ parser'.buf = IF parser.current = <<>> THEN parser.buf ELSE Append(parser.buf, line)
        /\ parser' = [unread |-> parser'.unread, current |-> parser'.current, buf |-> parser'.buf]
    BY <2>1, <2>2
  <2>4. Found(M, m, q)'
    <3>1. M \in [1..m -> 1..q]
      BY <1>4, <1>9, <1>10
    <3>2. \A i \in 1..q : IsMarker(stream[i]) => \E k \in 1..m : M[k] = i
      BY <1>4, <1>9, <1>10, <1>11, <1>13, Zenon
    <3> QED BY <1>2, <1>10, <3>1, <3>2, Zenon DEF Found
  <2>5. ReadTo(M, m, q)'
    <3>1. CASE m = 0
      BY <1>3, <2>1, <2>3, <2>4, <3>1 DEF ReadTo
    <3>2. CASE m # 0
      <4>1. /\ parser.current = <<KeyOf(stream[M[m]])>>
            /\ parser.buf = Between(M[m], r + 1)
            /\ Len(result) = m - 1
            /\ \A k \in 1..m - 1 : result[k] = Section(M[k], M[k + 1])
        BY <1>3, <3>2 DEF ReadTo
      <4>2. M[m] \in 1..r
        BY <1>10, <3>2
      <4>3. Append(Between(M[m], q), line) = Between(M[m], q + 1)
        <5> DEFINE a == M[m]
        <5>1. /\ a \in 1..Len(stream) /\ q \in a + 1..Len(stream) + 1 /\ q + 1 \in a + 1..Len(stream) + 1
              /\ q - a - 1 \in Nat /\ (q + 1) - a - 1 = (q - a - 1) + 1 /\ a + ((q - a - 1) + 1) = q
          <6>1. L \in Nat /\ L = Len(stream) /\ r \in 0..L - 1 /\ q = r + 1 /\ a \in 1..r
            BY <1>1, <1>4, <1>9, <4>2 DEF L
          <6> HIDE DEF a, r
          <6> QED BY <6>1
        <5> DEFINE s == Between(a, q)
                   t == Between(a, q + 1)
                   d == q - a - 1
        <5> HIDE DEF a
        <5>2. /\ s \in Seq(Line) /\ Len(s) = d
              /\ \A i \in 1..d : s[i] = stream[a + i]
          <6> HIDE DEF s
          <6> QED BY <5>1, BetweenType DEF s
        <5>3. /\ t \in Seq(Line) /\ Len(t) = d + 1
              /\ \A i \in 1..d + 1 : t[i] = stream[a + i]
          <6> HIDE DEF t
          <6>1. /\ t \in Seq(Line) /\ Len(t) = (q + 1) - a - 1
                /\ \A i \in 1..(q + 1) - a - 1 : t[i] = stream[a + i]
            BY <5>1, BetweenType DEF t
          <6> QED BY <5>1, <6>1
        <5> HIDE DEF s, t, d
        <5>4. t[d + 1] = line
          <6>1. d + 1 \in 1..d + 1 /\ a + (d + 1) = q
            BY <5>1 DEF d
          <6> QED BY <1>4, <1>9, <5>3, <6>1, Zenon
        <5>5. d \in Nat
          BY <5>1 DEF d
        <5>6. Append(s, line) = t
          <6> DEFINE v == Append(s, line)
          <6>1. /\ v \in Seq(Line) /\ Len(v) = d + 1
                /\ \A i \in 1..d : v[i] = s[i]
                /\ v[d + 1] = line
            BY <1>4, <5>2
          <6> HIDE DEF v
          <6>2. \A i \in 1..d + 1 : v[i] = t[i]
            <7>1. \A i \in 1..d + 1 : i \in 1..d \/ i = d + 1
              BY <5>5
            <7>2. \A i \in 1..d : i \in 1..d + 1
              BY <5>5
            <7> QED BY <5>2, <5>3, <5>4, <6>1, <7>1, <7>2, Zenon
          <6>3. v = [i \in 1..d + 1 |-> v[i]] /\ t = [i \in 1..d + 1 |-> t[i]]
            BY <5>3, <6>1
          <6> QED BY <6>2, <6>3 DEF v
        <5> QED BY <5>6 DEF s, t, a
      <4>4. parser.current # <<>>
        BY <4>1
      <4>5. parser'.buf = Between(M[m], q + 1)
        BY <1>9, <2>3, <4>1, <4>3, <4>4, Zenon
      <4>6. Between(M[m], q + 1)' = Between(M[m], q + 1)
        BY <1>2 DEF Between
      <4>7. \A k \in 1..m - 1 : Section(M[k], M[k + 1])' = Section(M[k], M[k + 1])
        BY <1>2 DEF Section, Between
      <4>8. parser'.current = <<KeyOf(stream'[M[m]])>>
        BY <1>2, <2>3, <4>1, Zenon
      <4> QED BY <2>1, <2>4, <3>2, <4>1, <4>5, <4>6, <4>7, <4>8, Zenon DEF ReadTo
    <3> QED BY <3>1, <3>2
  <2>6. Len(stream') - Len(parser'.unread) = q
    BY <1>2, <1>7, <1>9, <2>3 DEF L
  <2>7. parser'.unread = Tail(u) /\ Len(stream') = L
    BY <1>2, <2>3 DEF L
  <2>8. /\ parser'.unread \in Seq(Line) /\ Len(parser'.unread) <= Len(stream')
        /\ \A i \in 1..Len(parser'.unread) :
             parser'.unread[i] = stream'[Len(stream') - Len(parser'.unread) + i]
    BY <1>2, <1>5, <1>6, <1>7, <2>7, Zenon
  <2>9. \E k \in Nat : \E K : ReadTo(K, k, Len(stream) - Len(parser.unread))'
    BY <2>5, <2>6
  <2>10. result' \in Seq(Sections) /\ Len(parser'.current) \in {0, 1}
    BY <1>2, <2>1, <2>3
  <2> QED BY <1>2, <2>3, <2>8, <2>9, <2>10 DEF Parsing
<1> QED
  BY <1>12, <1>13

-----------------------------------------------------------------------------
(* Together they are inductive.                                            *)
\* The inductive invariant.
ScriptInv == Ordered /\ LaidOut /\ Parsing

\* It holds at first.
LEMMA ScriptStarts == ScriptInit => ScriptInv
<1> SUFFICES ASSUME ScriptInit PROVE ScriptInv
  OBVIOUS
<1>1. /\ stream = << <<>> >> /\ printed = <<>> /\ result = <<>> /\ stage = "run"
      /\ parser = [unread |-> <<>>, current |-> <<>>, buf |-> <<>>]
  BY DEF ScriptInit
<1>2. Len(printed) = 0 /\ 1..0 = {}
  BY <1>1
<1>3. Streamed
  <2>1. <<>> \in Line
    BY DEF Line
  <2> HIDE DEF Line
  <2>2. << <<>> >> \in Seq(Line) /\ << <<>> >> # <<>>
    BY <2>1
  <2> QED BY <1>1, <2>2, Zenon DEF Streamed
<1>4. Open_
  BY <1>1 DEF Open_
<1>5. PICK P : P \in [1..Len(printed) -> Nat]
  <2>1. [k \in 1..Len(printed) |-> 0] \in [1..Len(printed) -> Nat]
    OBVIOUS
  <2> QED BY <2>1
<1>6. Len(stream) = 1 /\ \A i \in 1..Len(stream) : stream[i] = <<>>
  BY <1>1
<1>7. Layout(P)
  <2>1. Rest_(P)
    BY <1>6, Zenon DEF Rest_
  <2>2. \A k \in 1..Len(printed) : FALSE
    BY <1>2
  <2> QED BY <1>5, <2>1, <2>2, Zenon DEF Layout, Spread, Marks, Texts_
<1>8. Parsing
  <2>1. Len(<<>>) = 0
    OBVIOUS
  <2>2. result \in Seq(Sections)
    BY <1>1
  <2> QED BY <1>1, <2>1, <2>2 DEF Parsing
<1> QED
  BY <1>3, <1>4, <1>7, <1>8, OrderedInit DEF ScriptInv, LaidOut

\* Every step keeps it.
LEMMA ScriptStep == ScriptInv /\ [ScriptNext]_scriptVars => ScriptInv'
<1> SUFFICES ASSUME ScriptInv, [ScriptNext]_scriptVars PROVE LaidOut' /\ Parsing'
  BY OrderedStep DEF ScriptInv
<1> USE DEF ScriptInv
<1>s. Streamed
  BY DEF LaidOut
<1>1. CASE RunCommand
  <2>1. stage = "run" /\ UNCHANGED <<parser, result, stage>>
    BY <1>1 DEF RunCommand
  <2>2. Parsing'
    BY <2>1 DEF Parsing
  <2> QED BY <1>1, <2>2, LaidRun
<1>2. CASE NextFunction
  <2>1. stage = "run" /\ UNCHANGED <<printed, parser, result, stage>> /\ stream' = Joined(stream)
    BY <1>2 DEF NextFunction
  <2>2. Parsing'
    BY <2>1 DEF Parsing
  <2> QED BY <2>1, <2>2, LaidJoin
<1>3. CASE Collected
  <2>1. /\ stage = "run" /\ UNCHANGED <<printed, result>> /\ stream' = Joined(stream)
        /\ stage' \in {"failed", "parse"} /\ parser' = [parser EXCEPT !.unread = stream']
    BY <1>3 DEF Collected
  <2>2. LaidOut'
    BY <2>1, LaidJoin
  <2>3. Streamed'
    BY <2>2 DEF LaidOut
  <2>4. stream' \in Seq(Line) /\ Len(stream') \in Nat
    <3> HIDE DEF Line
    <3> QED BY <2>3 DEF Streamed
  <2>5. /\ parser.current = <<>> /\ result = <<>> /\ result \in Seq(Sections)
        /\ Len(parser.current) \in {0, 1}
        /\ parser = [unread |-> parser.unread, current |-> parser.current, buf |-> parser.buf]
    <3> HIDE DEF Sections
    <3> QED BY <2>1 DEF Parsing
  <2>6. /\ parser'.unread = stream' /\ parser'.current = parser.current
        /\ parser' = [unread |-> parser'.unread, current |-> parser'.current, buf |-> parser'.buf]
    BY <2>1, <2>5
  <2> HIDE DEF Line, Sections
  <2>7. PICK M : M \in [1..0 -> 1..0]
    <3>1. [k \in 1..0 |-> 1] \in [1..0 -> 1..0]
      OBVIOUS
    <3> QED BY <3>1
  <2>8. Found(M, 0, 0)'
    <3>1. \A k \in 1..0 : FALSE
      OBVIOUS
    <3> QED BY <2>7, <3>1, Zenon DEF Found
  <2>9. ReadTo(M, 0, 0)'
    BY <2>1, <2>5, <2>6, <2>8, Zenon DEF ReadTo
  <2>10. Len(stream') - Len(parser'.unread) = 0
    BY <2>4, <2>6
  <2>11. \E m \in Nat : \E K : ReadTo(K, m, Len(stream) - Len(parser.unread))'
    <3>1. 0 \in Nat
      OBVIOUS
    <3> QED BY <2>9, <2>10, <3>1
  <2>12. /\ parser'.unread \in Seq(Line) /\ Len(parser'.unread) <= Len(stream')
         /\ \A i \in 1..Len(parser'.unread) :
              parser'.unread[i] = stream'[Len(stream') - Len(parser'.unread) + i]
    <3>1. \A i \in 1..Len(stream') : Len(stream') - Len(stream') + i = i
      BY <2>4
    <3>2. Len(stream') <= Len(stream')
      BY <2>4
    <3> QED BY <2>4, <2>6, <3>1, <3>2, Zenon
  <2>13. Parsing'
    BY <2>1, <2>5, <2>6, <2>11, <2>12 DEF Parsing
  <2> QED BY <2>2, <2>13
<1>4. CASE ParseLine
  <2>1. stage' = "parse" /\ UNCHANGED <<stream, printed>>
    BY <1>4 DEF ParseLine
  <2>2. LaidOut'
    <3>1. Streamed' /\ Open_'
      BY <1>s, <2>1 DEF Streamed, Open_
    <3>2. PICK P : Layout(P)
      BY DEF LaidOut
    <3>3. Layout(P)'
      BY <2>1, <3>2 DEF Layout, Spread, Marks, Texts_, Rest_, EndLine
    <3> QED BY <3>1, <3>3 DEF LaidOut
  <2> QED BY <1>4, <1>s, <2>2, ParseStep
<1>5. CASE ParseEnd
  <2>1. /\ stage = "parse" /\ stage' = "done" /\ UNCHANGED <<stream, printed, parser>>
        /\ parser.unread = <<>> /\ result' = Flushed
    BY <1>5 DEF ParseEnd
  <2>2. LaidOut'
    <3>1. Streamed' /\ Open_'
      BY <1>s, <2>1 DEF Streamed, Open_
    <3>2. PICK P : Layout(P)
      BY DEF LaidOut
    <3>3. Layout(P)'
      BY <2>1, <3>2 DEF Layout, Spread, Marks, Texts_, Rest_, EndLine
    <3> QED BY <3>1, <3>3 DEF LaidOut
  <2> HIDE DEF Line, Sections
  <2>3. Len(stream) \in Nat /\ Len(stream) - Len(parser.unread) = Len(stream)
    <3>1. Len(stream) \in Nat
      BY <1>s DEF Streamed
    <3>2. Len(parser.unread) = 0
      BY <2>1
    <3> QED BY <3>1, <3>2
  <2>4m. PICK m \in Nat : \E M : ReadTo(M, m, Len(stream))
    BY <2>1, <2>3 DEF Parsing
  <2>4. PICK M : ReadTo(M, m, Len(stream))
    BY <2>4m
  <2>5. /\ result \in Seq(Sections) /\ Len(parser.current) \in {0, 1}
        /\ parser = [unread |-> parser.unread, current |-> parser.current, buf |-> parser.buf]
    BY DEF Parsing
  <2>6. /\ Flushed \in Seq(Sections) /\ Len(Flushed) = m
        /\ \A k \in 1..m : Flushed[k] = Section(M[k], IF k = m THEN Len(stream) + 1 ELSE M[k + 1])
    <3>1. Len(stream) \in 0..Len(stream)
      BY <2>3
    <3> QED BY <1>s, <2>4, <2>5, <3>1, FlushIs
  <2>7. AllRead(M, m)'
    <3>1. Found(M, m, Len(stream))
      BY <2>4 DEF ReadTo
    <3>2. Found(M, m, Len(stream))'
      BY <2>1, <3>1 DEF Found
    <3>3. \A a, b : Section(a, b)' = Section(a, b)
      BY <2>1 DEF Section, Between
    <3>4. \A k \in 1..m : result'[k] = Section(M[k], IF k = m THEN Len(stream) + 1 ELSE M[k + 1])'
      BY <2>1, <2>6, <3>3 DEF Section, Between
    <3> QED BY <2>1, <2>6, <3>2, <3>4, Zenon DEF AllRead
  <2>8. Parsing'
    <3>1. result' \in Seq(Sections) /\ parser' = parser /\ stage' = "done"
      BY <2>1, <2>6
    <3> QED BY <2>5, <2>7, <3>1 DEF Parsing
  <2> QED BY <2>2, <2>8
<1>6. CASE UNCHANGED scriptVars
  <2>1. UNCHANGED <<stream, printed, parser, result, stage>>
    BY <1>6 DEF scriptVars
  <2>2. LaidOut'
    <3>1. Streamed' /\ Open_'
      BY <1>s, <2>1 DEF LaidOut, Streamed, Open_
    <3>2. PICK P : Layout(P)
      BY DEF LaidOut
    <3>3. Layout(P)'
      BY <2>1, <3>2 DEF Layout, Spread, Marks, Texts_, Rest_, EndLine
    <3> QED BY <3>1, <3>3 DEF LaidOut
  <2>3. Parsing'
    <3> HIDE DEF Sections, Line
    <3>1. \A M, m : Found(M, m, Len(stream))' = Found(M, m, Len(stream))
      BY <2>1 DEF Found
    <3>2. \A M, m : AllRead(M, m)' = AllRead(M, m)
      BY <2>1 DEF AllRead, Found, Section, Between
    <3>3. \A M, m : ReadTo(M, m, Len(stream) - Len(parser.unread))' = ReadTo(M, m, Len(stream) - Len(parser.unread))
      BY <2>1 DEF ReadTo, Found, Section, Between
    <3>4. Parsing
      OBVIOUS
    <3> QED BY <2>1, <3>2, <3>3, <3>4 DEF Parsing
  <2> QED BY <2>2, <2>3
<1> QED
  BY <1>1, <1>2, <1>3, <1>4, <1>5, <1>6 DEF ScriptNext

-----------------------------------------------------------------------------
(* The markers read are the markers printed.                               *)
\* Two lists of the same m and n numbers up to r, in increasing order.
SameNumbers(M, m, P, n, r) ==
  /\ m \in Nat /\ n \in Nat /\ r \in Nat
  /\ M \in [1..m -> 1..r] /\ P \in [1..n -> 1..r]
  /\ \A j, k \in 1..m : j < k => M[j] < M[k]
  /\ \A j, k \in 1..n : j < k => P[j] < P[k]
  /\ \A k \in 1..m : \E j \in 1..n : P[j] = M[k]
  /\ \A k \in 1..n : \E j \in 1..m : M[j] = P[k]

\* They are the same list.
LEMMA SameOrder ==
  ASSUME NEW M, NEW m, NEW P, NEW n, NEW r, SameNumbers(M, m, P, n, r)
  PROVE  m = n /\ \A k \in 1..n : M[k] = P[k]
<1>0. (\A k \in 1..m : M[k] \in Int) /\ \A k \in 1..n : P[k] \in Int
  <2>1. ASSUME NEW S, NEW f \in [S -> 1..r], NEW k \in S PROVE f[k] \in Int
    <3>1. f[k] \in 1..r
      BY <2>1, Zenon
    <3> QED BY <3>1
  <2>2. M \in [1..m -> 1..r] /\ P \in [1..n -> 1..r]
    BY Zenon DEF SameNumbers
  <2> QED BY <2>1, <2>2, Zenon
<1> USE DEF SameNumbers
<1> DEFINE D == {k \in 1..n : ~(k \in 1..m /\ M[k] = P[k])}
<1>1. D = {}
  <2> SUFFICES ASSUME D # {} PROVE FALSE
    OBVIOUS
  <2>1. D \subseteq Nat
    OBVIOUS
  <2>2. PICK d \in D : \A k \in D : d <= k
    <3> HIDE DEF D
    <3> QED BY <2>1, LeastOf
  <2>3. d \in 1..n /\ ~(d \in 1..m /\ M[d] = P[d])
    BY <2>2
  <2>4. ASSUME NEW k \in 1..n, k < d PROVE k \in 1..m /\ M[k] = P[k]
    <3>1. ~(d <= k)
      BY <2>3, <2>4
    <3> QED BY <2>2, <3>1
  <2>5. PICK j \in 1..m : M[j] = P[d]
    BY <2>3
  <2>6. ~(j < d)
    <3> SUFFICES ASSUME j < d PROVE FALSE
      OBVIOUS
    <3>1. j \in 1..n
      BY <2>3
    <3>2. M[j] = P[j] /\ P[j] < P[d]
      BY <2>3, <2>4, <3>1
    <3> QED BY <1>0, <2>3, <2>5, <3>1, <3>2
  <2> HIDE DEF D
  <2>7. d \in 1..m /\ (d = j \/ d < j)
    <3>1. d \in Nat /\ 1 <= d /\ j \in Nat /\ j <= m
      BY <2>3
    <3> QED BY <2>6, <3>1
  <2>8. d = j \/ M[d] < M[j]
    BY <2>7
  <2>9. PICK i \in 1..n : P[i] = M[d]
    BY <2>7
  <2>10. ~(i < d)
    <3> SUFFICES ASSUME i < d PROVE FALSE
      OBVIOUS
    <3>1. i \in 1..m /\ M[i] = P[i]
      BY <2>4
    <3>2. M[i] < M[d]
      BY <2>7, <3>1
    <3> QED BY <1>0, <2>7, <2>9, <3>1, <3>2
  <2>11. i = d \/ d < i
    BY <2>3, <2>10
  <2>12. i = d \/ P[d] < P[i]
    BY <2>3, <2>11
  <2>13. M[d] \in Int /\ M[j] \in Int /\ P[i] \in Int /\ P[d] \in Int
    BY <1>0, <2>3, <2>7
  <2>14. M[d] = P[d]
    <3>1. d = j => M[d] = P[d]
      BY <2>5
    <3>2. i = d => M[d] = P[d]
      BY <2>9
    <3>3. M[d] < M[j] /\ P[d] < P[i] => FALSE
      <4>1. \A x, y \in Int : ~(x < y /\ y < x)
        OBVIOUS
      <4> QED BY <2>5, <2>9, <2>13, <4>1, Zenon
    <3> QED BY <2>8, <2>12, <3>1, <3>2, <3>3
  <2> QED BY <2>3, <2>7, <2>14
<1>2. \A k \in 1..n : k \in 1..m /\ M[k] = P[k]
  BY <1>1
<1>3. n <= m
  <2>1. CASE n = 0
    BY <2>1
  <2>2. CASE n # 0
    <3>1. n \in 1..n
      BY <2>2
    <3> QED BY <1>2, <3>1
  <2> QED BY <2>1, <2>2
<1>4. ~(n < m)
  <2> SUFFICES ASSUME n < m PROVE FALSE
    OBVIOUS
  <2>1. n + 1 \in 1..m
    OBVIOUS
  <2>2. PICK i \in 1..n : P[i] = M[n + 1]
    BY <2>1
  <2>3. M[i] < M[n + 1]
    BY <2>1
  <2> QED BY <1>0, <1>2, <2>1, <2>2, <2>3
<1> QED
  BY <1>2, <1>3, <1>4

\* What holds of a stream that is laid out.
LEMMA LayoutIs ==
  ASSUME Ordered, Streamed, NEW P, Layout(P)
  PROVE  /\ Len(stream) \in Nat /\ Len(printed) \in Nat
         /\ \A k \in 1..Len(printed) :
              /\ P[k] \in 1..Len(stream) /\ Len(printed[k].out) \in Nat
              /\ EndLine(P, k) \in Nat /\ EndLine(P, k) = P[k] + Len(printed[k].out)
              /\ EndLine(P, k) <= Len(stream) /\ (~printed[k].cut => EndLine(P, k) < Len(stream))
         /\ \A j, k \in 1..Len(printed) : j < k => /\ P[j] < P[k] /\ EndLine(P, j) <= P[k]
                                                   /\ ~printed[j].cut => EndLine(P, j) < P[k]
<1>1. Len(stream) \in Nat
  <2> HIDE DEF Line
  <2> QED BY DEF Streamed
<1>2. Len(printed) \in Nat
  <2>1. printed \in Seq(Record)
    BY DEF Ordered
  <2> HIDE DEF Record
  <2> QED BY <2>1
<1>3. Spread(P)
  BY DEF Layout
<1>4. \A j, k \in 1..Len(printed) : j < k => /\ P[j] < P[k] /\ EndLine(P, j) <= P[k]
                                             /\ ~printed[j].cut => EndLine(P, j) < P[k]
  BY <1>3, Zenon DEF Spread
<1>5. ASSUME NEW k \in 1..Len(printed)
      PROVE  /\ P[k] \in 1..Len(stream) /\ Len(printed[k].out) \in Nat
             /\ EndLine(P, k) \in Nat /\ EndLine(P, k) = P[k] + Len(printed[k].out)
             /\ EndLine(P, k) <= Len(stream) /\ (~printed[k].cut => EndLine(P, k) < Len(stream))
  <2>1. Len(printed[k].out) \in Nat
    BY OutsAre
  <2>2. /\ P \in [1..Len(printed) -> Nat] /\ 1 <= P[k] /\ P[k] < Len(stream)
        /\ EndLine(P, k) <= Len(stream) /\ (~printed[k].cut => EndLine(P, k) < Len(stream))
    BY <1>3, Zenon DEF Spread
  <2>3. P[k] \in Nat
    BY <2>2
  <2>4. EndLine(P, k) = P[k] + Len(printed[k].out)
    BY DEF EndLine
  <2>5. P[k] \in 1..Len(stream)
    BY <1>1, <2>2, <2>3
  <2>6. EndLine(P, k) \in Nat
    BY <2>1, <2>3, <2>4
  <2> QED BY <2>1, <2>2, <2>4, <2>5, <2>6, Zenon
<1> QED
  BY <1>1, <1>2, <1>4, <1>5, Zenon

\* A line that is not blank is a marker's, or holds what a command printed.
LEMMA LineOf ==
  ASSUME Ordered, Streamed, NEW P, Layout(P), NEW i \in 1..Len(stream)
  PROVE  \/ stream[i] = <<>>
         \/ \E k \in 1..Len(printed) : P[k] = i
         \/ \E k \in 1..Len(printed) : \E t \in 1..Len(printed[k].out) :
              /\ i = P[k] + t
              /\ stream[i] = <<Text(printed[k].out[t])>> \/ Len(stream[i]) = 2
<1>1. CASE stream[i] # <<>>
  <2>1. PICK k \in 1..Len(printed) : P[k] <= i /\ i <= EndLine(P, k)
    BY <1>1, Zenon DEF Layout, Rest_
  <2>2. /\ P[k] \in 1..Len(stream) /\ Len(printed[k].out) \in Nat
        /\ EndLine(P, k) = P[k] + Len(printed[k].out) /\ Len(stream) \in Nat
    BY LayoutIs, Zenon
  <2>3. CASE P[k] = i
    BY <2>3
  <2>4. CASE P[k] # i
    <3>1. i - P[k] \in 1..Len(printed[k].out) /\ i = P[k] + (i - P[k])
      BY <2>1, <2>2, <2>4
    <3>2. PICK t \in 1..Len(printed[k].out) : i = P[k] + t
      BY <3>1
    <3>3. stream[P[k] + t] = <<Text(printed[k].out[t])>> \/ Len(stream[P[k] + t]) = 2
      BY Zenon DEF Layout, Texts_
    <3> QED BY <3>2, <3>3, Zenon
  <2> QED BY <2>3, <2>4
<1> QED
  BY <1>1

\* The markers of the commands are headings.
LEMMA CommandNamed ==
  ASSUME Ordered
  PROVE  \A k \in 1..Len(printed) : printed[k].cmd \in Headings
<1>1. \A k \in 1..Len(printed) : printed[k].cmd \in Job
  BY OutsAre DEF Record
<1> QED
  BY <1>1 DEF Headings

\* A marker line is a command's own, or one a command spelled.
LEMMA MarkIs ==
  ASSUME Ordered, Streamed, NEW P, Layout(P), NEW i \in 1..Len(stream), IsMarker(stream[i])
  PROVE  \/ \E k \in 1..Len(printed) : P[k] = i /\ KeyOf(stream[i]) = printed[k].cmd
         \/ \E k \in 1..Len(printed) : \E t \in 1..Len(printed[k].out) :
              i = P[k] + t /\ KeyOf(stream[i]) \in Forges(printed[k])
<1>1. stream[i] # <<>> /\ Len(stream[i]) = 1
  <2>1. stream[i] # <<>>
    BY LineIs, Zenon
  <2>2. Len(stream[i]) = 1
    BY DEF IsMarker
  <2> QED BY <2>1, <2>2
<1>2. ~(Len(stream[i]) = 2)
  BY <1>1
<1>3. CASE \E k \in 1..Len(printed) : P[k] = i
  <2>1. PICK k \in 1..Len(printed) : P[k] = i
    BY <1>3
  <2>2. stream[P[k]] = <<Marker(printed[k].cmd)>> \/ Len(stream[P[k]]) = 2
    BY Zenon DEF Layout, Marks
  <2>3. stream[P[k]] = <<Marker(printed[k].cmd)>>
    BY <1>2, <2>1, <2>2, Zenon
  <2>4. printed[k].cmd \in Headings
    BY CommandNamed
  <2> QED BY <2>1, <2>3, <2>4, LineIs, Zenon
<1>4. CASE \E k \in 1..Len(printed) : \E t \in 1..Len(printed[k].out) :
             i = P[k] + t /\ stream[i] = <<Text(printed[k].out[t])>>
  <2>1. PICK k \in 1..Len(printed) : \E t \in 1..Len(printed[k].out) :
               i = P[k] + t /\ stream[i] = <<Text(printed[k].out[t])>>
    BY <1>4
  <2>2. PICK t \in 1..Len(printed[k].out) : i = P[k] + t /\ stream[i] = <<Text(printed[k].out[t])>>
    BY <2>1
  <2>3. printed[k].out[t] \in DOMAIN Spelled
    BY <2>2, LineIs, Zenon
  <2>4. KeyOf(stream[i]) = Spelled[printed[k].out[t]]
    BY <2>2, <2>3, LineIs, Zenon
  <2>5. t \in DOMAIN printed[k].out
    <3>1. printed[k].out \in Seq(STRING)
      BY OutsAre
    <3>2. \A s \in Seq(STRING) : DOMAIN s = 1..Len(s)
      OBVIOUS
    <3> QED BY <3>1, <3>2, Zenon
  <2>6. KeyOf(stream[i]) \in Forges(printed[k])
    <3>1. t \in {j \in DOMAIN printed[k].out : printed[k].out[j] \in DOMAIN Spelled}
      BY <2>3, <2>5, Zenon
    <3>2. Spelled[printed[k].out[t]] \in Forges(printed[k])
      BY <3>1 DEF Forges
    <3> QED BY <2>4, <3>2, Zenon
  <2> QED BY <2>2, <2>6, Zenon
<1>5. \/ \E k \in 1..Len(printed) : P[k] = i
      \/ \E k \in 1..Len(printed) : \E t \in 1..Len(printed[k].out) :
           /\ i = P[k] + t
           /\ stream[i] = <<Text(printed[k].out[t])>> \/ Len(stream[i]) = 2
  BY <1>1, LineOf, Zenon
<1>6. CASE \E k \in 1..Len(printed) : \E t \in 1..Len(printed[k].out) :
             /\ i = P[k] + t
             /\ stream[i] = <<Text(printed[k].out[t])>> \/ Len(stream[i]) = 2
  <2>1. \E k \in 1..Len(printed) : \E t \in 1..Len(printed[k].out) :
          i = P[k] + t /\ stream[i] = <<Text(printed[k].out[t])>>
    BY <1>2, <1>6, Zenon
  <2> QED BY <1>4, <2>1, Zenon
<1> QED
  BY <1>3, <1>5, <1>6, Zenon

\* The marker of a command behind others that all ended their last line.
LEMMA RealMark ==
  ASSUME Ordered, Streamed, NEW P, Layout(P), NEW k \in 1..Len(printed),
         \A j \in 1..Len(printed) : j < k => ~printed[j].cut
  PROVE  IsMarker(stream[P[k]]) /\ KeyOf(stream[P[k]]) = printed[k].cmd
<1>1. stream[P[k]] = <<Marker(printed[k].cmd)>>
  BY Zenon DEF Layout, Marks
<1>2. printed[k].cmd \in Headings
  BY CommandNamed
<1> QED
  BY <1>1, <1>2, LineIs, Zenon

\* Up to the next command's marker there is what this one printed, and no marker
\* unless it spelled one.
LEMMA SaidIs ==
  ASSUME Ordered, Streamed, NEW P, Layout(P), NEW k \in 1..Len(printed), ~printed[k].cut,
         Forges(printed[k]) = {},
         NEW b \in 1..Len(stream) + 1, EndLine(P, k) < b,
         \A j \in 1..Len(printed) : k < j => b <= P[j]
  PROVE  /\ Trimmed(Between(P[k], b)) = Said(printed[k])
         /\ \A i \in 1..Len(stream) : P[k] < i /\ i < b => ~IsMarker(stream[i])
<1> DEFINE a == P[k]
           m == Len(printed[k].out)
           L == Len(stream)
<1>1. /\ a \in 1..L /\ m \in Nat /\ L \in Nat /\ EndLine(P, k) = a + m
      /\ \A j \in 1..Len(printed) : EndLine(P, j) \in Nat /\ P[j] \in 1..L
      /\ \A j, l \in 1..Len(printed) : j < l => EndLine(P, j) <= P[l]
      /\ Len(printed) \in Nat
  BY LayoutIs, Zenon
<1> HIDE DEF a, m, L
<1>2. ASSUME NEW i \in 1..m PROVE stream[a + i] = <<Text(printed[k].out[i])>>
  BY Zenon DEF Layout, Texts_, a, m
<1>3. ASSUME NEW i \in 1..L, a + m < i, i < b PROVE stream[i] = <<>>
  <2>1. ASSUME NEW j \in 1..Len(printed), P[j] <= i, i <= EndLine(P, j) PROVE FALSE
    <3>1. P[j] \in Nat /\ EndLine(P, j) \in Nat
      BY <1>1
    <3>2. CASE j < k
      <4>1. EndLine(P, j) <= a
        BY <1>1, <3>2 DEF a
      <4> QED BY <1>1, <1>3, <2>1, <3>1, <4>1
    <3>3. CASE j = k
      BY <1>1, <1>3, <2>1, <3>3
    <3>4. CASE k < j
      <4>1. b <= P[j]
        BY <3>4
      <4> QED BY <1>1, <1>3, <2>1, <3>1, <4>1
    <3> QED BY <1>1, <3>2, <3>3, <3>4
  <2>2. stream[i] = <<>> \/ \E j \in 1..Len(printed) : P[j] <= i /\ i <= EndLine(P, j)
    BY Zenon DEF Layout, Rest_, L
  <2> QED BY <2>1, <2>2, Zenon
<1>4. b \in a + 1..L + 1 /\ m \in 0..b - a - 1
  BY <1>1 DEF L
<1> DEFINE lines == Between(a, b)
<1>5. /\ lines \in Seq(Line) /\ Len(lines) = b - a - 1
      /\ \A i \in 1..b - a - 1 : a + i \in 1..L /\ lines[i] = stream[a + i]
  <2> HIDE DEF lines, Line
  <2> QED BY <1>1, <1>4, BetweenType DEF L, lines
<1> HIDE DEF lines
<1>6. ASSUME NEW i \in 1..m PROVE lines[i] = <<Text(printed[k].out[i])>>
  <2>1. i \in 1..b - a - 1
    BY <1>1, <1>4
  <2> QED BY <1>2, <1>5, <2>1
<1>7. ASSUME NEW i \in m + 1..Len(lines) PROVE lines[i] = <<>>
  <2>1. i \in 1..b - a - 1 /\ a + m < a + i /\ a + i < b
    BY <1>1, <1>4, <1>5
  <2> QED BY <1>3, <1>5, <2>1
<1>8. Trimmed(lines) = [i \in 1..m |-> lines[i]]
  <2>1. m \in 0..Len(lines)
    BY <1>4, <1>5
  <2>2. \A i \in 1..m : lines[i] # <<>>
    <3>1. \A x : <<x>> # <<>>
      OBVIOUS
    <3> QED BY <1>6, <3>1, Zenon
  <2> QED BY <1>5, <1>7, <2>1, <2>2, TrimmedIs
<1>12. DOMAIN printed[k].out = 1..m
  <2>1. printed[k].out \in Seq(STRING)
    BY OutsAre
  <2>2. \A s \in Seq(STRING) : DOMAIN s = 1..Len(s)
    OBVIOUS
  <2> QED BY <2>1, <2>2 DEF m
<1>9. Said(printed[k]) = [i \in 1..m |-> <<Text(printed[k].out[i])>>]
  BY <1>12 DEF Said
<1>10. Trimmed(lines) = Said(printed[k])
  BY <1>6, <1>8, <1>9
<1>11. ASSUME NEW i \in 1..L, a < i, i < b PROVE ~IsMarker(stream[i])
  <2>1. CASE i <= a + m
    <3>1. i - a \in 1..m /\ a + (i - a) = i
      BY <1>1, <1>11, <2>1
    <3>2. stream[i] = <<Text(printed[k].out[i - a])>>
      BY <1>2, <3>1
    <3>3. printed[k].out[i - a] \notin DOMAIN Spelled
      <4>1. i - a \in DOMAIN printed[k].out
        BY <1>12, <3>1
      <4> QED BY <4>1, Zenon DEF Forges
    <3> QED BY <3>2, <3>3, LineIs, Zenon
  <2>2. CASE a + m < i
    <3>1. stream[i] = <<>>
      BY <1>3, <1>11, <2>2
    <3> QED BY <3>1, LineIs, Zenon
  <2> QED BY <1>1, <2>1, <2>2
<1> QED
  BY <1>10, <1>11 DEF a, lines, L

\* Where the section of the k-th command ends.
Next_(P, k) == IF k = Len(printed) THEN Len(stream) + 1 ELSE P[k + 1]

\* The lines up to that place are what the command printed and blank ones.
LEMMA NextIs ==
  ASSUME Ordered, Streamed, NEW P, Layout(P), NEW k \in 1..Len(printed), ~printed[k].cut,
         Forges(printed[k]) = {}
  PROVE  /\ Next_(P, k) \in 1..Len(stream) + 1
         /\ Trimmed(Between(P[k], Next_(P, k))) = Said(printed[k])
         /\ \A i \in 1..Len(stream) : P[k] < i /\ i < Next_(P, k) => ~IsMarker(stream[i])
<1>1. /\ Len(stream) \in Nat /\ Len(printed) \in Nat
      /\ \A j \in 1..Len(printed) : EndLine(P, j) \in Nat /\ P[j] \in 1..Len(stream)
      /\ EndLine(P, k) < Len(stream)
      /\ \A j, l \in 1..Len(printed) : j < l => P[j] < P[l] /\ (~printed[j].cut => EndLine(P, j) < P[l])
  BY LayoutIs, Zenon
<1> DEFINE b == Next_(P, k)
<1>2. b \in 1..Len(stream) + 1 /\ EndLine(P, k) < b /\ \A j \in 1..Len(printed) : k < j => b <= P[j]
  <2>1. CASE k = Len(printed)
    <3>1. b = Len(stream) + 1
      BY <2>1 DEF Next_
    <3>2. \A j \in 1..Len(printed) : ~(k < j)
      BY <1>1, <2>1
    <3>3. EndLine(P, k) \in Nat
      BY <1>1
    <3>4. b \in 1..Len(stream) + 1 /\ EndLine(P, k) < b
      BY <1>1, <3>1, <3>3
    <3> QED BY <3>2, <3>4
  <2>2. CASE k # Len(printed)
    <3>1. b = P[k + 1] /\ k + 1 \in 1..Len(printed) /\ k < k + 1
      BY <1>1, <2>2 DEF Next_
    <3>2. EndLine(P, k) < P[k + 1]
      BY <1>1, <3>1
    <3>3. P[k + 1] \in 1..Len(stream)
      BY <1>1, <3>1
    <3>4. ASSUME NEW j \in 1..Len(printed), k < j PROVE P[k + 1] <= P[j]
      <4>1. CASE j = k + 1
        BY <3>3, <4>1
      <4>2. CASE k + 1 < j
        <5>1. P[k + 1] < P[j]
          BY <1>1, <3>1, <4>2
        <5>2. P[j] \in 1..Len(stream)
          BY <1>1
        <5> QED BY <1>1, <3>3, <5>1, <5>2
      <4> QED BY <1>1, <3>4, <4>1, <4>2
    <3> HIDE DEF b
    <3>5. b \in 1..Len(stream) + 1
      BY <1>1, <3>1, <3>3
    <3> QED BY <3>1, <3>2, <3>4, <3>5
  <2> QED BY <2>1, <2>2
<1> HIDE DEF b
<1>3. /\ Trimmed(Between(P[k], b)) = Said(printed[k])
      /\ \A i \in 1..Len(stream) : P[k] < i /\ i < b => ~IsMarker(stream[i])
  BY <1>2, SaidIs
<1> QED
  BY <1>2, <1>3 DEF b

-----------------------------------------------------------------------------
(* Built-in commands.                                                      *)
\* Which commands are built in: the first ones, each printed once.
LEMMA BuiltAre ==
  ASSUME Ordered, stage = "done"
  PROVE  /\ Built(disabled) \in Nat /\ Len(dir) \in Nat
         /\ Len(printed) = Built(disabled) + Len(dir)
         /\ \A k \in 1..Len(printed) :
              /\ printed[k].cmd.sep = "SrvBoxSep" <=> k <= Built(disabled)
              /\ printed[k].cmd.sep = "SrvBoxCusCmdSep" <=> Built(disabled) < k
              /\ k <= Built(disabled) => ~printed[k].cut
         /\ \A j, k \in 1..Len(printed) :
              j <= Built(disabled) /\ k <= Built(disabled) /\ printed[j].cmd = printed[k].cmd => j = k
         /\ \A k \in 1..Len(dir) : printed[Built(disabled) + k].cmd.name = dir[k]
<1> DEFINE B == Built(disabled)
           G == Agenda(disabled, dir)
           n == Len(printed)
<1>1. dir \in Dirs /\ script = <<>> /\ then = <<>> /\ n \in Nat
      /\ (\A k \in 1..n : printed[k].cmd = G[k] /\ (printed[k].cut => Custom_(printed[k])))
      /\ (then = <<>> => n + Len(script) = Len(G))
  <2> HIDE DEF Record
  <2>1. stage # "run"
    OBVIOUS
  <2> QED BY <2>1 DEF Ordered
<1>2. /\ B \in Nat /\ Len(dir) \in Nat /\ Len(G) = B + Len(dir)
      /\ \A k \in 1..B : G[k].sep = "SrvBoxSep"
      /\ \A j, k \in 1..B : G[j] = G[k] => j = k
      /\ \A k \in 1..Len(dir) : G[B + k] = Custom(dir[k])
  BY <1>1, AgendaIs
<1> HIDE DEF B, G, n
<1>3. n = B + Len(dir)
  BY <1>1, <1>2
<1>4. ASSUME NEW k \in 1..n, k <= B
      PROVE  k \in 1..B /\ printed[k].cmd.sep = "SrvBoxSep" /\ printed[k].cmd.sep # "SrvBoxCusCmdSep" /\ ~printed[k].cut
  <2>1. k \in 1..B
    BY <1>1, <1>2, <1>4
  <2>2. printed[k].cmd.sep = "SrvBoxSep"
    BY <1>1, <1>2, <2>1, Zenon
  <2>3. "SrvBoxSep" # "SrvBoxCusCmdSep"
    OBVIOUS
  <2>4. printed[k].cmd.sep # "SrvBoxCusCmdSep"
    BY <2>2, <2>3, Zenon
  <2> QED BY <1>1, <2>1, <2>2, <2>4, Zenon DEF Custom_
<1>5. ASSUME NEW k \in 1..n, B < k
      PROVE  printed[k].cmd.sep = "SrvBoxCusCmdSep" /\ printed[k].cmd.sep # "SrvBoxSep"
  <2>1. k - B \in 1..Len(dir) /\ B + (k - B) = k
    BY <1>1, <1>2, <1>3, <1>5
  <2>2. G[k] = Custom(dir[k - B])
    BY <1>2, <2>1
  <2>3. Custom(dir[k - B]).sep = "SrvBoxCusCmdSep" /\ "SrvBoxSep" # "SrvBoxCusCmdSep"
    BY DEF Custom
  <2> QED BY <1>1, <2>2, <2>3, Zenon
<1>6. \A k \in 1..n : k <= B \/ B < k
  BY <1>1, <1>2
<1>7. \A k \in 1..n : k <= B => ~(B < k)
  BY <1>1, <1>2
<1>8. ASSUME NEW j \in 1..n, NEW k \in 1..n, j <= B, k <= B, printed[j].cmd = printed[k].cmd
      PROVE  j = k
  <2>1. j \in 1..B /\ k \in 1..B
    BY <1>4, <1>8
  <2>2. G[j] = G[k]
    BY <1>1, <1>8, Zenon
  <2> QED BY <1>2, <2>1, <2>2, Zenon
<1>9. \A k \in 1..Len(dir) : printed[B + k].cmd.name = dir[k]
  <2> SUFFICES ASSUME NEW k \in 1..Len(dir) PROVE printed[B + k].cmd.name = dir[k]
    OBVIOUS
  <2>1. B + k \in 1..n
    BY <1>2, <1>3
  <2>2. printed[B + k].cmd = Custom(dir[k])
    BY <1>1, <1>2, <2>1, Zenon
  <2> QED BY <2>2 DEF Custom
<1>10. \A k \in 1..n : /\ printed[k].cmd.sep = "SrvBoxSep" <=> k <= B
                       /\ printed[k].cmd.sep = "SrvBoxCusCmdSep" <=> B < k
                       /\ k <= B => ~printed[k].cut
  BY <1>4, <1>5, <1>6, <1>7, Zenon
<1> QED
  BY <1>2, <1>3, <1>8, <1>9, <1>10, Zenon DEF B, n

\* What a built-in command printed is its section.
LEMMA BuiltinsHold == ScriptInv => BuiltinsStand
<1> SUFFICES ASSUME Ordered, LaidOut, Parsing, stage = "done",
                    NEW k \in 1..Len(printed), printed[k].cmd.sep = "SrvBoxSep",
                    Forges(printed[k]) = {},
                    \A j \in 1..Len(printed) : k < j => printed[k].cmd \notin Forges(printed[j])
             PROVE  Raw(printed[k].cmd) = Said(printed[k])
  <2>1. Ordered => DOMAIN printed = 1..Len(printed)
    <3> HIDE DEF Record
    <3> QED BY DEF Ordered
  <2> QED BY <2>1, Zenon DEF ScriptInv, BuiltinsStand
<1>0. Streamed
  BY DEF LaidOut
<1>1. PICK P : Layout(P)
  BY DEF LaidOut
<1>2m. PICK m \in Nat : \E M : AllRead(M, m)
  BY DEF Parsing
<1>2. PICK M : AllRead(M, m)
  BY <1>2m
<1> DEFINE B == Built(disabled)
           L == Len(stream)
           n == Len(printed)
<1>3. /\ B \in Nat
      /\ \A j \in 1..n : /\ printed[j].cmd.sep = "SrvBoxSep" <=> j <= B
                         /\ j <= B => ~printed[j].cut
      /\ \A i, j \in 1..n : i <= B /\ j <= B /\ printed[i].cmd = printed[j].cmd => i = j
  BY BuiltAre
<1>4. /\ L \in Nat /\ n \in Nat
      /\ \A j \in 1..n : P[j] \in 1..L
      /\ \A i, j \in 1..n : i < j => P[i] < P[j]
  BY <1>0, <1>1, LayoutIs, Zenon
<1>5. /\ M \in [1..m -> 1..L]
      /\ \A i, j \in 1..m : i < j => M[i] < M[j]
      /\ \A j \in 1..m : IsMarker(stream[M[j]])
      /\ \A i \in 1..L : IsMarker(stream[i]) => \E j \in 1..m : M[j] = i
      /\ Len(result) = m
      /\ \A j \in 1..m : result[j] = Section(M[j], IF j = m THEN L + 1 ELSE M[j + 1])
  BY <1>2 DEF AllRead, Found
<1> DEFINE b == Next_(P, k)
<1> HIDE DEF B, L, n, b
<1>6. k \in 1..n /\ k <= B /\ ~printed[k].cut
  BY <1>3 DEF n
<1>7. \A j \in 1..n : j <= k => ~printed[j].cut
  <2>1. \A j \in 1..n : j <= k => j <= B
    BY <1>3, <1>4, <1>6
  <2> QED BY <1>3, <2>1
<1>8. IsMarker(stream[P[k]]) /\ KeyOf(stream[P[k]]) = printed[k].cmd
  <2>1. \A j \in 1..Len(printed) : j < k => ~printed[j].cut
    BY <1>4, <1>6, <1>7 DEF n
  <2> QED BY <1>0, <1>1, <2>1, RealMark
<1>9. /\ b \in 1..L + 1
      /\ Trimmed(Between(P[k], b)) = Said(printed[k])
      /\ \A i \in 1..L : P[k] < i /\ i < b => ~IsMarker(stream[i])
  BY <1>0, <1>1, <1>6, NextIs DEF b, L
<1>10. PICK q \in 1..m : M[q] = P[k]
  BY <1>4, <1>5, <1>6, <1>8, Zenon
<1>11. (IF q = m THEN L + 1 ELSE M[q + 1]) = b
  <2>1. CASE k = n
    <3>1. b = L + 1
      BY <2>1 DEF b, Next_, n, L
    <3>2. q = m
      <4> SUFFICES ASSUME q # m PROVE FALSE
        OBVIOUS
      <4>1. q + 1 \in 1..m /\ q < q + 1
        OBVIOUS
      <4>2. M[q] < M[q + 1] /\ M[q + 1] \in 1..L /\ IsMarker(stream[M[q + 1]])
        BY <1>5, <4>1
      <4>3. P[k] < M[q + 1] /\ M[q + 1] < b
        BY <1>4, <1>10, <3>1, <4>2
      <4> QED BY <1>9, <4>2, <4>3
    <3> QED BY <3>1, <3>2
  <2>2. CASE k # n
    <3>1. b = P[k + 1] /\ k + 1 \in 1..n /\ k < k + 1
      BY <1>4, <1>6, <2>2 DEF b, Next_, n
    <3>2. IsMarker(stream[P[k + 1]])
      <4>1. \A j \in 1..Len(printed) : j < k + 1 => ~printed[j].cut
        BY <1>4, <1>6, <1>7 DEF n
      <4>2. k + 1 \in 1..Len(printed)
        BY <3>1 DEF n
      <4> QED BY <1>0, <1>1, <4>1, <4>2, RealMark
    <3>3. PICK t \in 1..m : M[t] = P[k + 1]
      BY <1>4, <1>5, <3>1, <3>2, Zenon
    <3>4. P[k] < P[k + 1] /\ P[k] \in Int /\ P[k + 1] \in Int
      BY <1>4, <1>6, <3>1
    <3>5. q < t
      <4> SUFFICES ASSUME ~(q < t) PROVE FALSE
        OBVIOUS
      <4>1. t = q \/ t < q
        OBVIOUS
      <4>2. t = q \/ M[t] < M[q]
        BY <1>5, <4>1
      <4>3. M[t] \in Int /\ M[q] \in Int
        BY <1>10, <3>3, <3>4
      <4> QED BY <1>10, <3>3, <3>4, <4>2, <4>3
    <3>6. q + 1 \in 1..m /\ q # m /\ q < q + 1 /\ (q + 1 = t \/ q + 1 < t)
      BY <3>5
    <3>7. M[q] < M[q + 1] /\ M[q + 1] \in 1..L /\ IsMarker(stream[M[q + 1]])
      BY <1>5, <3>6
    <3>8. ~(M[q + 1] < b)
      BY <1>9, <1>10, <3>7
    <3>9. M[q + 1] = M[t] \/ M[q + 1] < M[t]
      BY <1>5, <3>6
    <3>10. M[q + 1] = b
      <4>1. M[q + 1] \in Int /\ M[t] \in Int /\ M[t] = b
        BY <1>4, <3>1, <3>3, <3>4, <3>7
      <4> QED BY <3>8, <3>9, <4>1
    <3> QED BY <3>6, <3>10
  <2> QED BY <2>1, <2>2
<1>12. result[q].key = printed[k].cmd /\ result[q].value = Said(printed[k])
  <2>1. result[q] = Section(P[k], b)
    BY <1>5, <1>10, <1>11, Zenon
  <2>2. result[q] = [key |-> KeyOf(stream[P[k]]), value |-> Trimmed(Between(P[k], b))]
    BY <2>1 DEF Section
  <2>3. result[q] = [key |-> printed[k].cmd, value |-> Said(printed[k])]
    BY <1>8, <1>9, <2>2, Zenon
  <2> QED BY <2>3
<1>13. ASSUME NEW i \in 1..m, result[i].key = printed[k].cmd PROVE i <= q
  <2>1. result[i].key = KeyOf(stream[M[i]])
    <3>1. PICK x : result[i] = Section(M[i], x)
      BY <1>5, Zenon
    <3> QED BY <3>1 DEF Section
  <2>2. M[i] \in 1..L /\ IsMarker(stream[M[i]])
    BY <1>5
  <2>3. \/ \E j \in 1..n : P[j] = M[i] /\ KeyOf(stream[M[i]]) = printed[j].cmd
        \/ \E j \in 1..n : \E t \in 1..Len(printed[j].out) :
             M[i] = P[j] + t /\ KeyOf(stream[M[i]]) \in Forges(printed[j])
    BY <1>0, <1>1, <2>2, MarkIs DEF L, n
  <2>4. M[i] \in Int /\ M[q] \in Int
    BY <1>5
  <2>5. M[i] <= M[q]
    <3>1. CASE \E j \in 1..n : P[j] = M[i] /\ KeyOf(stream[M[i]]) = printed[j].cmd
      <4>1. PICK j \in 1..n : P[j] = M[i] /\ KeyOf(stream[M[i]]) = printed[j].cmd
        BY <3>1
      <4>2. printed[j].cmd = printed[k].cmd
        BY <1>13, <2>1, <4>1, Zenon
      <4>3. j <= B
        BY <1>3, <1>6, <4>2, Zenon
      <4>4. j = k
        BY <1>3, <1>6, <4>2, <4>3, Zenon
      <4>5. M[i] = M[q]
        BY <1>10, <4>1, <4>4, Zenon
      <4> QED BY <2>4, <4>5
    <3>2. CASE \E j \in 1..n : \E t \in 1..Len(printed[j].out) :
                 M[i] = P[j] + t /\ KeyOf(stream[M[i]]) \in Forges(printed[j])
      <4>1. PICK j \in 1..n : \E t \in 1..Len(printed[j].out) :
                   M[i] = P[j] + t /\ KeyOf(stream[M[i]]) \in Forges(printed[j])
        BY <3>2
      <4>2. PICK t \in 1..Len(printed[j].out) :
                   M[i] = P[j] + t /\ KeyOf(stream[M[i]]) \in Forges(printed[j])
        BY <4>1
      <4>3. printed[k].cmd \in Forges(printed[j])
        BY <1>13, <2>1, <4>2, Zenon
      <4>4. j # k /\ ~(k < j)
        BY <1>6, <4>3 DEF n
      <4>5. j < k
        BY <1>4, <1>6, <4>4
      <4>6. /\ EndLine(P, j) <= P[k] /\ EndLine(P, j) = P[j] + Len(printed[j].out)
            /\ Len(printed[j].out) \in Nat /\ P[j] \in 1..L /\ P[k] \in 1..L
        <5>1. j \in 1..Len(printed) /\ k \in 1..Len(printed)
          BY <1>6 DEF n
        <5> QED BY <1>0, <1>1, <4>5, <5>1, LayoutIs DEF L
      <4>7. P[j] + t <= P[k]
        BY <4>6
      <4> QED BY <1>10, <4>2, <4>7, Zenon
    <3> QED BY <2>3, <3>1, <3>2, Zenon
  <2>6. ~(q < i)
    <3>1. q < i => M[q] < M[i]
      BY <1>5
    <3> QED BY <2>4, <2>5, <3>1
  <2> QED BY <2>6
<1> DEFINE its == {i \in DOMAIN result : result[i].key = printed[k].cmd}
<1>14. q \in its /\ \A i \in its : i <= q /\ i \in Int
  <2>1. DOMAIN result = 1..m
    <3>1. result \in Seq(Sections)
      BY DEF Parsing
    <3> HIDE DEF Sections
    <3> QED BY <1>5, <3>1
  <2>2. q \in its
    BY <1>12, <2>1, Zenon
  <2>3. \A i \in its : i \in 1..m /\ result[i].key = printed[k].cmd
    BY <2>1, Zenon
  <2>4. \A i \in its : i <= q
    BY <1>13, <2>3, Zenon
  <2>5. \A i \in 1..m : i \in Int
    OBVIOUS
  <2> HIDE DEF its
  <2> QED BY <2>2, <2>3, <2>4, <2>5, Zenon
<1>15. Raw(printed[k].cmd) = result[q].value
  <2>1. its # {}
    BY <1>14, Zenon
  <2>2. (CHOOSE i \in its : \A j \in its : j <= i) = q
    <3> DEFINE x == CHOOSE i \in its : \A j \in its : j <= i
    <3> HIDE DEF its
    <3>1. x \in its /\ \A j \in its : j <= x
      BY <1>14, Zenon
    <3> HIDE DEF x
    <3>2. x \in Int /\ q \in Int /\ x <= q /\ q <= x
      BY <1>14, <3>1, Zenon
    <3>3. x = q
      BY <3>2
    <3> QED BY <3>3 DEF x
  <2> QED BY <2>1, <2>2 DEF Raw
<1> QED
  BY <1>12, <1>15

-----------------------------------------------------------------------------
(* Custom commands, and the theorem.                                       *)
\* With nothing cut off or forged, the k-th section is the k-th command's.
LEMMA SectionsAre ==
  ASSUME Ordered, LaidOut, Parsing, stage = "done",
         \A k \in 1..Len(printed) : ~printed[k].cut /\ Forges(printed[k]) = {}
  PROVE  /\ Len(result) = Len(printed)
         /\ \A k \in 1..Len(printed) :
              result[k].key = printed[k].cmd /\ result[k].value = Said(printed[k])
<1>0. Streamed
  BY DEF LaidOut
<1>1. PICK P : Layout(P)
  BY DEF LaidOut
<1>2m. PICK m \in Nat : \E M : AllRead(M, m)
  BY DEF Parsing
<1>2. PICK M : AllRead(M, m)
  BY <1>2m
<1> DEFINE L == Len(stream)
           n == Len(printed)
<1>3. /\ L \in Nat /\ n \in Nat
      /\ \A j \in 1..n : P[j] \in 1..L
      /\ \A i, j \in 1..n : i < j => P[i] < P[j]
  BY <1>0, <1>1, LayoutIs, Zenon
<1>4. /\ M \in [1..m -> 1..L]
      /\ \A i, j \in 1..m : i < j => M[i] < M[j]
      /\ \A j \in 1..m : IsMarker(stream[M[j]])
      /\ \A i \in 1..L : IsMarker(stream[i]) => \E j \in 1..m : M[j] = i
      /\ Len(result) = m
      /\ \A j \in 1..m : result[j] = Section(M[j], IF j = m THEN L + 1 ELSE M[j + 1])
  BY <1>2 DEF AllRead, Found
<1> HIDE DEF L, n
<1>5. ASSUME NEW k \in 1..n
      PROVE  IsMarker(stream[P[k]]) /\ KeyOf(stream[P[k]]) = printed[k].cmd
  <2>1. k \in 1..Len(printed) /\ \A j \in 1..Len(printed) : j < k => ~printed[j].cut
    BY DEF n
  <2> QED BY <1>0, <1>1, <2>1, RealMark
<1>6. P \in [1..n -> 1..L]
  <2>1. P \in [1..n -> Nat]
    BY <1>1, Zenon DEF Layout, Spread, n
  <2> QED BY <1>3, <2>1
<1>7. \A k \in 1..m : \E j \in 1..n : P[j] = M[k]
  <2> SUFFICES ASSUME NEW k \in 1..m PROVE \E j \in 1..n : P[j] = M[k]
    OBVIOUS
  <2>1. M[k] \in 1..Len(stream) /\ IsMarker(stream[M[k]])
    BY <1>4 DEF L
  <2>2. \A j \in 1..Len(printed) : KeyOf(stream[M[k]]) \notin Forges(printed[j])
    OBVIOUS
  <2> QED BY <1>0, <1>1, <2>1, <2>2, MarkIs DEF n
<1>8. \A k \in 1..n : \E j \in 1..m : M[j] = P[k]
  BY <1>3, <1>4, <1>5, Zenon
<1>9. m = n /\ \A k \in 1..n : M[k] = P[k]
  <2>1. M \in [1..m -> 1..L] /\ \A i, j \in 1..m : i < j => M[i] < M[j]
    BY <1>4, Zenon
  <2>2. L \in Nat /\ n \in Nat /\ \A i, j \in 1..n : i < j => P[i] < P[j]
    BY <1>3, Zenon
  <2>3. /\ \A k \in 1..m : \E j \in 1..n : P[j] = M[k]
        /\ \A k \in 1..n : \E j \in 1..m : M[j] = P[k]
    BY <1>7, <1>8, Zenon
  <2>4. SameNumbers(M, m, P, n, L)
    BY <1>2, <1>6, <2>1, <2>2, <2>3, Zenon DEF SameNumbers
  <2> HIDE DEF SameNumbers
  <2> QED BY <2>4, SameOrder, SMTT(30)
<1>10. ASSUME NEW k \in 1..n
       PROVE  result[k].key = printed[k].cmd /\ result[k].value = Said(printed[k])
  <2>1. (IF k = m THEN L + 1 ELSE M[k + 1]) = Next_(P, k)
    <3>1. CASE k = n
      BY <1>9, <3>1 DEF Next_, n, L
    <3>2. CASE k # n
      <4>1. k + 1 \in 1..n
        BY <1>3, <3>2
      <4>2. M[k + 1] = P[k + 1]
        BY <1>9, <4>1
      <4> QED BY <1>9, <3>2, <4>2, Zenon DEF Next_, n
    <3> QED BY <3>1, <3>2
  <2>2. result[k] = Section(P[k], Next_(P, k))
    <3>1. k \in 1..m
      BY <1>9
    <3> QED BY <1>4, <1>9, <2>1, <3>1, Zenon
  <2>3. Trimmed(Between(P[k], Next_(P, k))) = Said(printed[k])
    <3>1. k \in 1..Len(printed) /\ ~printed[k].cut /\ Forges(printed[k]) = {}
      BY DEF n
    <3> QED BY <1>0, <1>1, <3>1, NextIs
  <2>4. result[k] = [key |-> printed[k].cmd, value |-> Said(printed[k])]
    BY <1>5, <2>2, <2>3, Zenon DEF Section
  <2> QED BY <2>4
<1> QED
  BY <1>4, <1>9, <1>10 DEF n

\* The custom commands' sections are theirs, in the order of the directory.
LEMMA CustomsHold == ScriptInv => CustomsInOrder
<1> SUFFICES ASSUME Ordered, LaidOut, Parsing, stage = "done",
                    \A i \in DOMAIN printed : ~printed[i].cut /\ Forges(printed[i]) = {}
             PROVE  LET own == Picked(printed, {i \in DOMAIN printed :
                                                  printed[i].cmd.sep = "SrvBoxCusCmdSep"})
                    IN  /\ [i \in DOMAIN own |-> own[i].cmd.name] = dir
                        /\ custom_cmd_outputs =
                             [i \in DOMAIN own |-> [name |-> own[i].cmd.name, output |-> Said(own[i])]]
  BY Zenon DEF ScriptInv, CustomsInOrder
<1> DEFINE B == Built(disabled)
           n == Len(printed)
           c == Len(dir)
           X == B + 1..B + c
           S == {i \in DOMAIN printed : printed[i].cmd.sep = "SrvBoxCusCmdSep"}
           T == {i \in DOMAIN result : result[i].key.sep = "SrvBoxCusCmdSep"}
           own == Picked(printed, S)
           cut == Picked(result, T)
<1>1. DOMAIN printed = 1..n /\ DOMAIN result = 1..Len(result)
  <2>1. printed \in Seq(Record) /\ result \in Seq(Sections)
    BY DEF Ordered, Parsing
  <2> HIDE DEF Record, Sections
  <2> QED BY <2>1
<1>2. /\ B \in Nat /\ c \in Nat /\ n = B + c
      /\ \A k \in 1..n : printed[k].cmd.sep = "SrvBoxCusCmdSep" <=> B < k
      /\ \A k \in 1..c : printed[B + k].cmd.name = dir[k]
  BY BuiltAre, Zenon
<1>3. /\ Len(result) = n
      /\ \A k \in 1..n : result[k].key = printed[k].cmd /\ result[k].value = Said(printed[k])
  BY <1>1, SectionsAre, Zenon
<1>4. Cardinality(X) = c /\ \A k \in 1..c : Nth(X, k) = B + k
  <2> HIDE DEF B, c
  <2> QED BY <1>2, NthOfInterval, Zenon
<1> HIDE DEF B, c, n
<1>5. S = X /\ T = X
  <2>1. \A k : k \in 1..n /\ B < k <=> k \in X
    BY <1>2
  <2> HIDE DEF X
  <2>2. ASSUME NEW k \in S PROVE k \in X
    BY <1>1, <1>2, <2>1, Zenon
  <2>3. ASSUME NEW k \in X PROVE k \in S
    BY <1>1, <1>2, <2>1, Zenon
  <2>4. ASSUME NEW k \in T PROVE k \in S
    BY <1>1, <1>3, Zenon
  <2>5. ASSUME NEW k \in S PROVE k \in T
    BY <1>1, <1>3, Zenon
  <2>6. S \subseteq X /\ X \subseteq S /\ T \subseteq S /\ S \subseteq T
    <3> HIDE DEF S, T
    <3> QED BY <2>2, <2>3, <2>4, <2>5, Zenon
  <2> HIDE DEF S, T
  <2> QED BY <2>6, Zenon
<1> HIDE DEF S, T, X
<1>6. DOMAIN own = 1..c /\ \A k \in 1..c : own[k] = printed[B + k]
  BY <1>4, <1>5 DEF Picked
<1>7. DOMAIN cut = 1..c /\ \A k \in 1..c : cut[k] = result[B + k]
  BY <1>4, <1>5 DEF Picked
<1> HIDE DEF own, cut
<1>8. \A k \in 1..c : B + k \in 1..n
  BY <1>2
<1>9. [i \in DOMAIN own |-> own[i].cmd.name] = dir
  <2>1. \A k \in 1..c : own[k].cmd.name = dir[k]
    BY <1>2, <1>6, Zenon
  <2>2. dir = [k \in 1..c |-> dir[k]]
    <3>1. dir \in Seq(STRING)
      BY ScriptAssumption DEF Ordered
    <3> QED BY <3>1 DEF c
  <2>3. [i \in DOMAIN own |-> own[i].cmd.name] = [k \in 1..c |-> dir[k]]
    BY <1>6, <2>1
  <2> QED BY <2>2, <2>3, Zenon
<1>10. custom_cmd_outputs = [i \in DOMAIN own |-> [name |-> own[i].cmd.name, output |-> Said(own[i])]]
  <2>1. custom_cmd_outputs = [i \in DOMAIN cut |-> [name |-> cut[i].key.name, output |-> cut[i].value]]
    BY DEF custom_cmd_outputs, cut, T
  <2>2. \A k \in 1..c : cut[k].key.name = own[k].cmd.name /\ cut[k].value = Said(own[k])
    BY <1>3, <1>6, <1>7, <1>8, Zenon
  <2> QED BY <1>6, <1>7, <2>1, <2>2
<1> QED
  BY <1>9, <1>10 DEF own, S

\* The types of the script and its parser.
LEMMA ScriptTyped == ScriptInv => ScriptTypeOK
<1> SUFFICES ASSUME Ordered, Parsing PROVE ScriptTypeOK
  BY DEF ScriptInv
<1>1. /\ disabled \in Off /\ dir \in Dirs /\ script \in Seq(Job) /\ then \in {<<>>, <<"SbStatus">>}
      /\ stage \in {"run", "parse", "done", "failed"}
      /\ printed \in Seq(Record) /\ result \in Seq(Sections) /\ Len(parser.current) \in {0, 1}
  <2> HIDE DEF Record, Sections
  <2> QED BY DEF Ordered, Parsing
<1>2. \A i \in DOMAIN printed : printed[i] \in Record
  <2> HIDE DEF Record
  <2> QED BY <1>1
<1>3. \A i \in DOMAIN result : result[i] \in Sections
  <2> HIDE DEF Sections
  <2> QED BY <1>1
<1> QED
  BY <1>1, <1>2, <1>3 DEF ScriptTypeOK, Record, Sections

\* The stream of the status script is cut back into what was printed, for every
\* manifest, directory and output: each built-in command's section is what it
\* printed, unless it or a later command printed an encoded marker (its own or
\* the built-in's); custom commands have their sections in the order of their
\* files when all output ends its last line and none is an encoded marker
\* (parse_script_segments and build_unix_script, src/crates/sbm_parser/src/script.rs).
THEOREM SectionsTheorem == ScriptSpec => [](SectionsStand /\ ScriptTypeOK)
<1>1. ScriptInv => SectionsStand /\ ScriptTypeOK
  BY BuiltinsHold, CustomsHold, ScriptTyped DEF SectionsStand
<1> QED
  BY <1>1, ScriptStarts, ScriptStep, PTL DEF ScriptSpec

-----------------------------------------------------------------------------
(* The fields of a status.  First the tables, entry by entry.              *)

\* The sections of Linux.
LEMMA LinuxFieldsIs ==
  /\ DOMAIN LinuxFields = {"cpu", "cpu_brand", "mem", "swap", "disks", "net", "temps", "conn",
                           "sys", "diskio", "batteries", "sensors", "disk_smart"}
  /\ LinuxFields["cpu"] = {"cpu"} /\ LinuxFields["cpu_brand"] = {"cpuBrand"}
  /\ LinuxFields["mem"] = {"mem"} /\ LinuxFields["swap"] = {"mem"}
  /\ LinuxFields["disks"] = {"disk"} /\ LinuxFields["net"] = {"net"}
  /\ LinuxFields["temps"] = {"tempType", "tempVal"} /\ LinuxFields["conn"] = {"conn"}
  /\ LinuxFields["sys"] = {"sys"} /\ LinuxFields["diskio"] = {"diskio"}
  /\ LinuxFields["batteries"] = {"battery"} /\ LinuxFields["sensors"] = {"sensors"}
  /\ LinuxFields["disk_smart"] = {"diskSmart"}
  BY DEF LinuxFields

\* Of BSD and macOS.
LEMMA BsdFieldsIs ==
  /\ DOMAIN BsdFields = {"cpu", "cpu_brand", "mem", "disks", "net", "sys", "disk_smart"}
  /\ BsdFields["cpu"] = {"cpu"} /\ BsdFields["cpu_brand"] = {"cpuBrand"}
  /\ BsdFields["mem"] = {"mem"} /\ BsdFields["disks"] = {"disk"}
  /\ BsdFields["net"] = {"net"} /\ BsdFields["sys"] = {"sys"}
  /\ BsdFields["disk_smart"] = {"diskSmart"}
  BY DEF BsdFields

\* Of Windows.
LEMMA WindowsFieldsIs ==
  /\ DOMAIN WindowsFields = {"cpu", "cpu_brand", "mem", "disks", "temps", "sys", "conn",
                             "batteries", "sensors", "disk_smart", "net", "diskio"}
  /\ WindowsFields["cpu"] = {"cpu"} /\ WindowsFields["cpu_brand"] = {"cpu"}
  /\ WindowsFields["mem"] = {"mem"} /\ WindowsFields["disks"] = {"disk"}
  /\ WindowsFields["temps"] = {"temp"} /\ WindowsFields["sys"] = {"sys"}
  /\ WindowsFields["conn"] = {"conn"} /\ WindowsFields["batteries"] = {"battery"}
  /\ WindowsFields["sensors"] = {"sensors"} /\ WindowsFields["disk_smart"] = {"diskSmart"}
  /\ WindowsFields["net"] = {"net"} /\ WindowsFields["diskio"] = {"diskio"}
  BY DEF WindowsFields

\* Of every platform.
LEMMA CommonIs ==
  /\ DOMAIN Common = {"uptime", "host", "nvidia", "amd"}
  /\ Common["uptime"] = {"uptime"} /\ Common["host"] = {"host"}
  /\ Common["nvidia"] = {"nvidia"} /\ Common["amd"] = {"amd"}
  BY DEF Common

\* The commands of each field.
LEMMA SoftwareKeysIs ==
  /\ DOMAIN SoftwareKeys = {"cpu", "cpu_brand", "mem", "disks", "net", "conn", "uptime", "sys",
                            "host", "diskio"}
  /\ SoftwareKeys["cpu"] = {"cpu"} /\ SoftwareKeys["cpu_brand"] = {"cpuBrand"}
  /\ SoftwareKeys["mem"] = {"mem"} /\ SoftwareKeys["disks"] = {"disk"}
  /\ SoftwareKeys["net"] = {"net"} /\ SoftwareKeys["conn"] = {"conn"}
  /\ SoftwareKeys["uptime"] = {"uptime"} /\ SoftwareKeys["sys"] = {"sys"}
  /\ SoftwareKeys["host"] = {"host"} /\ SoftwareKeys["diskio"] = {"diskio"}
  BY DEF SoftwareKeys

\* And where the hardware decides.
LEMMA HardwareKeysIs ==
  /\ DOMAIN HardwareKeys = {"temps", "batteries", "sensors", "nvidia", "amd", "disk_smart"}
  /\ HardwareKeys["temps"] = {"tempType", "tempVal", "temp"}
  /\ HardwareKeys["batteries"] = {"battery"} /\ HardwareKeys["sensors"] = {"sensors"}
  /\ HardwareKeys["nvidia"] = {"nvidia"} /\ HardwareKeys["amd"] = {"amd"}
  /\ HardwareKeys["disk_smart"] = {"diskSmart"}
  BY DEF HardwareKeys

\* The files a Linux sample is read from.
LEMMA LinuxSourceIs ==
  /\ DOMAIN LinuxSource = {"cpu", "cpu_brand", "mem", "swap", "disks", "net", "temps", "conn",
                           "uptime", "sys", "host", "diskio"}
  /\ LinuxSource["cpu"] = "stat" /\ LinuxSource["cpu_brand"] = "cpuinfo"
  /\ LinuxSource["mem"] = "meminfo" /\ LinuxSource["swap"] = "meminfo"
  /\ LinuxSource["disks"] = "df" /\ LinuxSource["net"] = "dev"
  /\ LinuxSource["temps"] = "thermal" /\ LinuxSource["conn"] = "snmp"
  /\ LinuxSource["uptime"] = "uptime" /\ LinuxSource["sys"] = "release"
  /\ LinuxSource["host"] = "hostname" /\ LinuxSource["diskio"] = "diskstats"
  BY DEF LinuxSource

\* The fields of Linux and the sections each is parsed from.
LEMMA LinuxDispatch ==
  /\ DOMAIN Dispatch(Linux) = {"cpu", "cpu_brand", "mem", "swap", "disks", "net", "temps", "conn",
                               "sys", "diskio", "batteries", "sensors", "disk_smart", "uptime",
                               "host", "nvidia", "amd"}
  /\ Dispatch(Linux)["cpu"] = {"cpu"} /\ Dispatch(Linux)["cpu_brand"] = {"cpuBrand"}
  /\ Dispatch(Linux)["mem"] = {"mem"} /\ Dispatch(Linux)["swap"] = {"mem"}
  /\ Dispatch(Linux)["disks"] = {"disk"} /\ Dispatch(Linux)["net"] = {"net"}
  /\ Dispatch(Linux)["temps"] = {"tempType", "tempVal"}
  /\ Dispatch(Linux)["conn"] = {"conn"} /\ Dispatch(Linux)["sys"] = {"sys"}
  /\ Dispatch(Linux)["diskio"] = {"diskio"} /\ Dispatch(Linux)["batteries"] = {"battery"}
  /\ Dispatch(Linux)["sensors"] = {"sensors"}
  /\ Dispatch(Linux)["disk_smart"] = {"diskSmart"} /\ Dispatch(Linux)["uptime"] = {"uptime"}
  /\ Dispatch(Linux)["host"] = {"host"} /\ Dispatch(Linux)["nvidia"] = {"nvidia"}
  /\ Dispatch(Linux)["amd"] = {"amd"}
<1>1. Dispatch(Linux) = [f \in DOMAIN LinuxFields \cup DOMAIN Common |->
                          IF f \in DOMAIN LinuxFields THEN LinuxFields[f] ELSE Common[f]]
  BY DEF Dispatch, Linux, Bsd, Windows
<1> QED BY <1>1, LinuxFieldsIs, CommonIs

\* The fields of Bsd and the sections each is parsed from.
LEMMA BsdDispatch ==
  /\ DOMAIN Dispatch(Bsd) = {"cpu", "cpu_brand", "mem", "disks", "net", "sys", "disk_smart",
                             "uptime", "host", "nvidia", "amd"}
  /\ Dispatch(Bsd)["cpu"] = {"cpu"} /\ Dispatch(Bsd)["cpu_brand"] = {"cpuBrand"}
  /\ Dispatch(Bsd)["mem"] = {"mem"} /\ Dispatch(Bsd)["disks"] = {"disk"}
  /\ Dispatch(Bsd)["net"] = {"net"} /\ Dispatch(Bsd)["sys"] = {"sys"}
  /\ Dispatch(Bsd)["disk_smart"] = {"diskSmart"} /\ Dispatch(Bsd)["uptime"] = {"uptime"}
  /\ Dispatch(Bsd)["host"] = {"host"} /\ Dispatch(Bsd)["nvidia"] = {"nvidia"}
  /\ Dispatch(Bsd)["amd"] = {"amd"}
<1>1. Dispatch(Bsd) = [f \in DOMAIN BsdFields \cup DOMAIN Common |->
                          IF f \in DOMAIN BsdFields THEN BsdFields[f] ELSE Common[f]]
  BY DEF Dispatch, Linux, Bsd, Windows
<1> QED BY <1>1, BsdFieldsIs, CommonIs

\* The fields of Windows and the sections each is parsed from.
LEMMA WindowsDispatch ==
  /\ DOMAIN Dispatch(Windows) = {"cpu", "cpu_brand", "mem", "disks", "temps", "sys", "conn",
                                 "batteries", "sensors", "disk_smart", "net", "diskio", "uptime",
                                 "host", "nvidia", "amd"}
  /\ Dispatch(Windows)["cpu"] = {"cpu"} /\ Dispatch(Windows)["cpu_brand"] = {"cpu"}
  /\ Dispatch(Windows)["mem"] = {"mem"} /\ Dispatch(Windows)["disks"] = {"disk"}
  /\ Dispatch(Windows)["temps"] = {"temp"} /\ Dispatch(Windows)["sys"] = {"sys"}
  /\ Dispatch(Windows)["conn"] = {"conn"} /\ Dispatch(Windows)["batteries"] = {"battery"}
  /\ Dispatch(Windows)["sensors"] = {"sensors"}
  /\ Dispatch(Windows)["disk_smart"] = {"diskSmart"} /\ Dispatch(Windows)["net"] = {"net"}
  /\ Dispatch(Windows)["diskio"] = {"diskio"} /\ Dispatch(Windows)["uptime"] = {"uptime"}
  /\ Dispatch(Windows)["host"] = {"host"} /\ Dispatch(Windows)["nvidia"] = {"nvidia"}
  /\ Dispatch(Windows)["amd"] = {"amd"}
<1>1. Dispatch(Windows) = [f \in DOMAIN WindowsFields \cup DOMAIN Common |->
                          IF f \in DOMAIN WindowsFields THEN WindowsFields[f] ELSE Common[f]]
  BY DEF Dispatch, Linux, Bsd, Windows
<1> QED BY <1>1, WindowsFieldsIs, CommonIs

\* A platform is one of three, each a name of its own.
LEMMA SystemsApart ==
  /\ Linux # Bsd /\ Linux # Windows /\ Bsd # Windows
  /\ \A p \in System : p = Linux \/ p = Bsd \/ p = Windows
  /\ Linux \in System /\ Bsd \in System /\ Windows \in System
  BY DEF System, Linux, Bsd, Windows

\* The commands of each platform.
LEMMA CommandsAre ==
  /\ commands(Linux) = LINUX /\ commands(Bsd) = BSD /\ commands(Windows) = WINDOWS
  BY DEF commands, Linux, Bsd, Windows

\* A field is declared where one of its commands is in the platform's table.
LEMMA DeclaredIs ==
  ASSUME NEW p \in System, NEW f \in Field
  PROVE  f \in Declared(capabilities(p)) <=>
           \/ f = "swap" /\ p = Linux
           \/ /\ f # "swap" /\ f \in DOMAIN HardwareKeys
              /\ \E k \in HardwareKeys[f] : k \in commands(p)
           \/ /\ f # "swap" /\ f \notin DOMAIN HardwareKeys
              /\ \E k \in SoftwareKeys[f] : k \in commands(p)
<1>1. f \in Declared(capabilities(p)) <=> capabilities(p)[f] # "NotImplemented"
  BY DEF Declared
<1>2. capabilities(p)[f] =
        IF f = "swap" THEN IF p = Linux THEN "Supported" ELSE "NotImplemented"
        ELSE IF f \in DOMAIN HardwareKeys THEN hw_from_commands(p, HardwareKeys[f])
        ELSE from_commands(p, SoftwareKeys[f])
  BY DEF capabilities
<1>3. \A keys : from_commands(p, keys) # "NotImplemented" <=> \E k \in keys : k \in commands(p)
  BY DEF from_commands, has_command
<1>4. \A keys : hw_from_commands(p, keys) # "NotImplemented" <=> \E k \in keys : k \in commands(p)
  BY DEF hw_from_commands, from_commands, has_command
<1> QED BY <1>1, <1>2, <1>3, <1>4

\* What BSD's commands give.
BsdScript == {"cpu", "cpu_brand", "mem", "disks", "net", "uptime", "sys", "host", "disk_smart"}
\* And what BSD shows, with what sysinfo adds.
BsdFields_ == BsdScript \cup {"swap", "diskio", "temps"}

\* The matrix of each platform.
LEMMA MatrixIs ==
  /\ Declared(capabilities(Linux)) = Field
  /\ Declared(capabilities(Bsd)) = BsdScript
  /\ Declared(capabilities(Windows)) = Field \ {"swap"}
<1>0. \A p \in System : Declared(capabilities(p)) \subseteq Field
  BY DEF Declared
<1>1. \A f \in Field : f \in Declared(capabilities(Linux))
  BY DeclaredIs, SystemsApart, CommandsAre, HardwareKeysIs, SoftwareKeysIs DEF Field, LINUX
<1>2. \A f \in Field : f \in Declared(capabilities(Bsd)) <=> f \in BsdScript
  BY DeclaredIs, SystemsApart, CommandsAre, HardwareKeysIs, SoftwareKeysIs
     DEF Field, BSD, BsdScript
<1>3. \A f \in Field : f \in Declared(capabilities(Windows)) <=> f # "swap"
  BY DeclaredIs, SystemsApart, CommandsAre, HardwareKeysIs, SoftwareKeysIs DEF Field, WINDOWS
<1>4. BsdScript \subseteq Field
  BY DEF BsdScript, Field
<1> QED BY <1>0, <1>1, <1>2, <1>3, <1>4, SystemsApart

\* The matrix of the agent, which overrides BSD's.
LEMMA EffectiveIs ==
  /\ Declared(effective_capabilities(Linux)) = Field
  /\ Declared(effective_capabilities(Bsd)) = BsdFields_
  /\ Declared(effective_capabilities(Windows)) = Field \ {"swap"}
<1>1. ASSUME NEW p \in System, NEW f \in Field
      PROVE  f \in Declared(effective_capabilities(p)) <=>
               \/ p = Bsd /\ f \in {"swap", "diskio", "temps"}
               \/ f \in Declared(capabilities(p))
  BY DEF Declared, effective_capabilities
<1>2. \A p \in System : Declared(effective_capabilities(p)) \subseteq Field
  BY DEF Declared
<1>3. BsdFields_ \subseteq Field
  BY DEF BsdFields_, BsdScript, Field
<1>4. Declared(effective_capabilities(Linux)) = Field
  BY <1>1, <1>2, MatrixIs, SystemsApart
<1>5. Declared(effective_capabilities(Windows)) = Field \ {"swap"}
  BY <1>1, <1>2, MatrixIs, SystemsApart
<1>6. Declared(effective_capabilities(Bsd)) = BsdFields_
  BY <1>1, <1>2, <1>3, MatrixIs, SystemsApart DEF BsdFields_
<1> QED BY <1>4, <1>5, <1>6

\* A field is parsed where every section it is parsed from was printed.
LEMMA ParsedIs ==
  ASSUME NEW p, NEW raw, NEW f
  PROVE  f \in parse_status(p, raw) <=> f \in DOMAIN Dispatch(p) /\ Dispatch(p)[f] \subseteq raw
  BY DEF parse_status

\* The dispatch of each platform parses the fields of the matrix from commands
\* of its table, and no others.
LEMMA DispatchIs ==
  /\ parse_status(Linux, commands(Linux)) = Field
  /\ parse_status(Bsd, commands(Bsd)) = BsdScript
  /\ parse_status(Windows, commands(Windows)) = Field \ {"swap"}
<1>1. parse_status(Linux, LINUX) = Field
  <2>1. \A f \in parse_status(Linux, LINUX) : f \in Field
    BY ParsedIs, LinuxDispatch DEF Field
  <2>2. \A f \in Field : f \in parse_status(Linux, LINUX)
    <3>1. \A f \in Field : f \in DOMAIN Dispatch(Linux)
      BY LinuxDispatch DEF Field
    <3>2. \A f \in DOMAIN Dispatch(Linux) : Dispatch(Linux)[f] \subseteq LINUX
      BY LinuxDispatch DEF LINUX
    <3> QED BY <3>1, <3>2, ParsedIs
  <2> QED BY <2>1, <2>2
<1>2. parse_status(Bsd, BSD) = BsdScript
  <2>1. \A f \in parse_status(Bsd, BSD) : f \in BsdScript
    <3>1. ~({"nvidia"} \subseteq BSD) /\ ~({"amd"} \subseteq BSD)
      BY DEF BSD
    <3>2. \A f \in DOMAIN Dispatch(Bsd) : f \in BsdScript \/ f = "nvidia" \/ f = "amd"
      BY BsdDispatch DEF BsdScript
    <3> QED BY <3>1, <3>2, ParsedIs, BsdDispatch
  <2>2. \A f \in BsdScript : f \in parse_status(Bsd, BSD)
    <3>1. \A f \in BsdScript : f \in DOMAIN Dispatch(Bsd)
      BY BsdDispatch DEF BsdScript
    <3>2. \A f \in BsdScript : Dispatch(Bsd)[f] \subseteq BSD
      BY BsdDispatch DEF BSD, BsdScript
    <3> QED BY <3>1, <3>2, ParsedIs
  <2> QED BY <2>1, <2>2
<1>3. parse_status(Windows, WINDOWS) = Field \ {"swap"}
  <2>1. \A f \in parse_status(Windows, WINDOWS) : f \in Field \ {"swap"}
    BY ParsedIs, WindowsDispatch DEF Field
  <2>2. \A f \in Field \ {"swap"} : f \in parse_status(Windows, WINDOWS)
    <3>1. \A f \in Field \ {"swap"} : f \in DOMAIN Dispatch(Windows)
      BY WindowsDispatch DEF Field
    <3>2. \A f \in DOMAIN Dispatch(Windows) : Dispatch(Windows)[f] \subseteq WINDOWS
      BY WindowsDispatch DEF WINDOWS
    <3> QED BY <3>1, <3>2, ParsedIs
  <2> QED BY <2>1, <2>2
<1> QED BY <1>1, <1>2, <1>3, CommandsAre

-----------------------------------------------------------------------------
(* What one cycle shows.                                                   *)

\* The fields only the script gives.
Late(p) ==
  {"disk_smart"} \cup (IF p = Bsd THEN {} ELSE {"batteries", "sensors", "amd"})
                 \cup (IF p = Windows THEN {"conn"} ELSE {})

\* The invariant.  No BSD shows a field its agent does not declare; what only
\* the script gives is there once it came through whole, and stays.
FieldsInv ==
  /\ FieldsTypeOK
  /\ platform = Bsd => host \cap {"nvidia", "amd"} = {} /\ fields \subseteq BsdFields_
  /\ whole => primed /\ Late(platform) \cap Offered \subseteq fields
  /\ ScriptFieldsStay
  /\ DeclaredIsShown

\* The native sample has known fields, and no late ones.
LEMMA SampleWithin ==
  ASSUME NEW x, platform \in System
  PROVE  /\ sample(x) \subseteq Field
         /\ platform = Bsd => sample(x) \subseteq BsdFields_
         /\ platform = Windows => "conn" \notin sample(x)
<1>1. linux_sample(x) \subseteq Field
  BY LinuxSourceIs DEF linux_sample, Field
<1>2. sysinfo_sample(x) \subseteq BsdFields_
  BY DEF sysinfo_sample, BsdFields_, BsdScript
<1>3. BsdFields_ \subseteq Field /\ "conn" \notin BsdFields_
  BY DEF BsdFields_, BsdScript, Field
<1> QED BY <1>1, <1>2, <1>3, SystemsApart DEF sample

\* The script gives nothing but late fields and conn.
LEMMA ScriptWithin ==
  ASSUME NEW native, NEW x, platform \in System
  PROVE  /\ FromScript(native, x) \subseteq {"amd", "sensors", "batteries", "disk_smart", "conn"}
         /\ platform = Bsd => FromScript(native, x) \subseteq {"disk_smart"}
<1>1. FromScript(native, x) \subseteq {"amd", "sensors", "batteries", "disk_smart", "conn"}
  BY DEF FromScript
<1>2. ASSUME platform = Bsd
      PROVE  FromScript(native, x) \subseteq {"disk_smart"}
  <2>1. Printed(x) \subseteq commands(Bsd)
    BY <1>2 DEF Printed
  <2>2. FromScript(native, x) \subseteq parse_status(Bsd, Printed(x))
    BY <1>2 DEF FromScript
  <2>3. parse_status(Bsd, Printed(x)) \subseteq BsdScript
    <3>1. \A f \in parse_status(Bsd, Printed(x)) : f \in parse_status(Bsd, commands(Bsd))
      BY <2>1, ParsedIs
    <3> QED BY <3>1, DispatchIs
  <2>4. \A f \in {"amd", "sensors", "batteries", "disk_smart", "conn"} :
          f \in BsdScript => f = "disk_smart"
    BY DEF BsdScript
  <2> QED BY <1>1, <2>2, <2>3, <2>4
<1> QED BY <1>1, <1>2

\* A late field that the machine has is printed and parsed.
LEMMA LateIsParsed ==
  ASSUME platform \in System, NEW f \in Late(platform), f \in Offered
  PROVE  f \in parse_status(platform, Printed("nothing"))
<1>1. /\ f \in DOMAIN Dispatch(platform)
      /\ Dispatch(platform)[f] \subseteq commands(platform)
      /\ f \in Field \ {"swap"}
  <2>1. f \in Field \ {"swap"}
    BY DEF Late, Field
  <2>2. f \in parse_status(platform, commands(platform))
    <3>1. CASE platform = Linux
      BY <3>1, <2>1, DispatchIs
    <3>2. CASE platform = Windows
      BY <3>2, <2>1, DispatchIs
    <3>3. CASE platform = Bsd
      BY <3>3, DispatchIs, SystemsApart DEF Late, BsdScript
    <3> QED BY <3>1, <3>2, <3>3, SystemsApart
  <2> QED BY <2>1, <2>2, ParsedIs
<1>2. "nothing" \notin commands(platform)
  <2>1. "nothing" \notin LINUX /\ "nothing" \notin BSD /\ "nothing" \notin WINDOWS
    BY DEF LINUX, BSD, WINDOWS
  <2> QED BY <2>1, CommandsAre, SystemsApart
<1>3. \A k \in Dispatch(platform)[f] : k \in Printed("nothing")
  BY <1>1, <1>2 DEF Printed
<1> QED BY <1>1, <1>3, ParsedIs

\* So a script that came through gives every late field the machine has.
LEMMA ScriptGives ==
  ASSUME platform \in System, NEW native, platform = Windows => "conn" \notin native
  PROVE  Late(platform) \cap Offered \subseteq FromScript(native, "nothing")
<1> SUFFICES ASSUME NEW f \in Late(platform), f \in Offered
             PROVE  f \in FromScript(native, "nothing")
  OBVIOUS
<1>1. f \in parse_status(platform, Printed("nothing"))
  BY LateIsParsed
<1>2. f \in {"amd", "sensors", "batteries", "disk_smart"} \/ (f = "conn" /\ platform = Windows)
  BY DEF Late
<1> QED BY <1>1, <1>2 DEF FromScript

\* And the native sample gives all the rest of what is declared.
LEMMA SampleGives ==
  ASSUME platform \in System, primed,
         platform = Bsd => host \cap {"nvidia", "amd"} = {}
  PROVE  (Declared(effective_capabilities(platform)) \cap Offered) \ {"host"}
           \subseteq sample("nothing") \cup sample_nvidia("nothing")
                     \cup (Late(platform) \cap Offered)
<1> DEFINE all == (Declared(effective_capabilities(platform)) \cap Offered) \ {"host"}
           given == sample("nothing") \cup sample_nvidia("nothing")
                    \cup (Late(platform) \cap Offered)
<1> SUFFICES ASSUME NEW f \in all
             PROVE  f \in given
  OBVIOUS
<1>0. f \in Offered /\ f \in Field
  BY DEF Declared
<1>1. f = "nvidia" => f \in sample_nvidia("nothing")
  <2>1. "nvidia" \in Offered => "nvidia" \in host
    BY DEF Offered, Optional
  <2> QED BY <2>1, <1>0 DEF sample_nvidia
<1>2. CASE platform = Linux
  <2>1. f \in DOMAIN LinuxSource \/ f = "nvidia" \/ f \in Late(platform)
    BY <1>0, <1>2, LinuxSourceIs, SystemsApart DEF Field, Late
  <2>2. \A g \in DOMAIN LinuxSource : LinuxSource[g] # "nothing"
    BY LinuxSourceIs
  <2>3. f \in DOMAIN LinuxSource => f \in sample("nothing")
    BY <1>0, <1>2, <2>2 DEF sample, linux_sample
  <2> QED BY <1>0, <1>1, <2>1, <2>3
<1>3. CASE platform = Windows
  <2>1. \/ f \in {"cpu", "cpu_brand", "mem", "swap", "disks", "diskio", "net", "temps",
                  "uptime", "host", "sys"}
        \/ f = "nvidia" \/ f \in Late(platform)
    BY <1>0, <1>3, SystemsApart DEF Field, Late
  <2>2. f \in {"cpu", "cpu_brand", "mem", "swap", "disks", "diskio", "net", "temps",
               "uptime", "host", "sys"} => f \in sample("nothing")
    BY <1>0, <1>3, SystemsApart DEF sample, sysinfo_sample
  <2> QED BY <1>0, <1>1, <2>1, <2>2
<1>4. CASE platform = Bsd
  <2>0. f \in BsdFields_
    BY <1>4, EffectiveIs
  <2>1. \/ f \in {"cpu", "cpu_brand", "mem", "swap", "disks", "diskio", "net", "temps",
                  "uptime", "host", "sys"}
        \/ f \in Late(platform)
    BY <2>0 DEF BsdFields_, BsdScript, Late
  <2>2. f \in {"cpu", "cpu_brand", "mem", "swap", "disks", "diskio", "net", "temps",
               "uptime", "host", "sys"} => f \in sample("nothing")
    BY <1>0, <1>4, SystemsApart DEF sample, sysinfo_sample
  <2> QED BY <1>0, <2>1, <2>2
<1> QED BY <1>2, <1>3, <1>4, SystemsApart

\* At the start nothing is shown.
LEMMA FieldsStart == FieldsInit => FieldsInv
  BY DEF FieldsInit, FieldsInv, FieldsTypeOK, ScriptFieldsStay, DeclaredIsShown

\* Every cycle keeps the invariant.
LEMMA FieldsStep == FieldsInv /\ [FieldsNext]_fieldVars => FieldsInv'
<1> SUFFICES ASSUME FieldsInv, [FieldsNext]_fieldVars
             PROVE  FieldsInv'
  OBVIOUS
<1>0. FieldsTypeOK /\ platform \in System
  BY DEF FieldsInv, FieldsTypeOK
<1>1. ASSUME NEW extended \in BOOLEAN, FieldCycle(extended)
      PROVE  FieldsInv'
  <2>a. PICK failed \in Failures(extended) :
          /\ fields' = ((sample(failed[1]) \cup sample_nvidia(failed[1])
                         \cup IF extended THEN FromScript(sample(failed[1]), failed[2]) ELSE {})
                        \ {"host"}) \cup Carried
          /\ seen' = seen \cup fields'
          /\ clean' = (failed = <<"nothing", "nothing">>)
          /\ whole' = (whole \/ (extended /\ clean'))
          /\ last' = IF extended THEN "extended" ELSE "short"
          /\ primed' = TRUE
          /\ UNCHANGED <<platform, host>>
    BY <1>1, Zenon DEF FieldCycle
  <2>b. PICK native, given, more :
          /\ native = sample(failed[1]) /\ more = sample_nvidia(failed[1])
          /\ given = IF extended THEN FromScript(native, failed[2]) ELSE {}
    OBVIOUS
  <2>1. /\ native = sample(failed[1]) /\ more = sample_nvidia(failed[1])
        /\ given = IF extended THEN FromScript(native, failed[2]) ELSE {}
        /\ fields' = ((native \cup more \cup given) \ {"host"}) \cup Carried
        /\ seen' = seen \cup fields'
        /\ clean' = (failed = <<"nothing", "nothing">>)
        /\ whole' = (whole \/ (extended /\ clean'))
        /\ last' = IF extended THEN "extended" ELSE "short"
        /\ primed' = TRUE
        /\ UNCHANGED <<platform, host>>
    BY <2>a, <2>b, Zenon
  <2>2. /\ native \subseteq Field
        /\ platform = Bsd => native \subseteq BsdFields_
        /\ platform = Windows => "conn" \notin native
    BY <2>1, <1>0, SampleWithin
  <2>3. /\ given \subseteq {"amd", "sensors", "batteries", "disk_smart", "conn"}
        /\ platform = Bsd => given \subseteq {"disk_smart"}
    <3>1. given = {} \/ given = FromScript(native, failed[2])
      BY <2>1
    <3> QED BY <3>1, <1>0, ScriptWithin
  <2>4. more \subseteq {"nvidia"} \cap host
    BY <2>1 DEF sample_nvidia
  <2>5. fields \subseteq Field /\ Carried \subseteq fields
    BY <1>0 DEF FieldsTypeOK, Carried
  <2>6. fields' \subseteq Field
    <3>1. {"nvidia"} \subseteq Field
          /\ {"amd", "sensors", "batteries", "disk_smart", "conn"} \subseteq Field
      BY DEF Field
    <3> QED BY <2>1, <2>2, <2>3, <2>4, <2>5, <3>1
  <2>7. FieldsTypeOK'
    <3>1. clean' \in BOOLEAN /\ whole' \in BOOLEAN /\ primed' \in BOOLEAN
      BY <2>1, <1>0 DEF FieldsTypeOK
    <3>2. last' \in {"none", "short", "extended"}
      BY <2>1
    <3>3. fields' \subseteq seen' /\ seen' \subseteq Field
      BY <2>1, <2>6, <1>0 DEF FieldsTypeOK
    <3>4. platform' \in System /\ host' \in Hosts
      BY <2>1, <1>0 DEF FieldsTypeOK
    <3> QED BY <3>1, <3>2, <3>3, <3>4 DEF FieldsTypeOK
  <2>8. platform = Bsd => host \cap {"nvidia", "amd"} = {} /\ fields' \subseteq BsdFields_
    <3>1. {"disk_smart"} \subseteq BsdFields_
      BY DEF BsdFields_, BsdScript
    <3>2. platform = Bsd => host \cap {"nvidia", "amd"} = {} /\ fields \subseteq BsdFields_
      BY DEF FieldsInv
    <3> QED BY <2>1, <2>2, <2>3, <2>4, <2>5, <3>1, <3>2
  <2>9. Late(platform) \subseteq {"amd", "disk_smart", "conn", "batteries", "sensors"}
    BY DEF Late
  <2>10. fields \cap {"amd", "disk_smart", "conn", "batteries", "sensors"} \subseteq fields'
    BY <2>1 DEF Carried
  <2>11. primed' /\ (whole' => Late(platform) \cap Offered \subseteq fields')
    <3>1. CASE whole
      BY <3>1, <2>1, <2>9, <2>10 DEF FieldsInv
    <3>2. CASE ~whole /\ extended /\ clean'
      <4>1. failed[2] = "nothing"
        <5>1. failed = <<"nothing", "nothing">>
          BY <3>2, <2>1, Zenon
        <5> QED BY <5>1
      <4>2. Late(platform) \cap Offered \subseteq given
        BY <4>1, <3>2, <2>1, <2>2, <1>0, ScriptGives
      <4>3. "host" \notin Late(platform)
        BY <2>9
      <4> QED BY <4>2, <4>3, <2>1
    <3> QED BY <3>1, <3>2, <2>1, <1>0 DEF FieldsTypeOK
  <2>12. ScriptFieldsStay'
    BY <2>1, <2>10 DEF FieldsInv, ScriptFieldsStay
  <2>13. DeclaredIsShown'
    <3> SUFFICES ASSUME whole', clean', last' = "short"
                 PROVE  (Declared(effective_capabilities(platform)) \cap Offered) \ {"host"}
                          \subseteq fields'
      BY <2>1 DEF DeclaredIsShown, Offered
    <3>1. ~extended /\ whole /\ failed[1] = "nothing"
      <4>1. failed = <<"nothing", "nothing">>
        BY <2>1, Zenon
      <4>2. ~extended
        BY <2>1
      <4>3. whole
        BY <2>1, <4>2, Zenon
      <4> QED BY <4>1, <4>2, <4>3
    <3>2. primed /\ (platform = Bsd => host \cap {"nvidia", "amd"} = {})
      BY <3>1 DEF FieldsInv
    <3>3. (Declared(effective_capabilities(platform)) \cap Offered) \ {"host"}
            \subseteq native \cup more \cup (Late(platform) \cap Offered)
      BY <3>1, <3>2, <2>1, <1>0, SampleGives
    <3> QED BY <3>3, <2>11, <2>1
  <2>14. Offered' = Offered
    BY <2>1 DEF Offered
  <2> QED BY <2>1, <2>7, <2>8, <2>11, <2>12, <2>13, <2>14 DEF FieldsInv
<1>2. CASE LostCycle
  <2>1. UNCHANGED <<platform, host, fields, last, clean, whole, seen>> /\ primed'
    BY <1>2 DEF LostCycle
  <2>2. FieldsTypeOK' /\ ScriptFieldsStay' /\ DeclaredIsShown' /\ Offered' = Offered
    BY <2>1 DEF FieldsInv, FieldsTypeOK, ScriptFieldsStay, DeclaredIsShown, Offered
  <2> QED BY <2>1, <2>2 DEF FieldsInv
<1>3. CASE UNCHANGED fieldVars
  BY <1>3 DEF FieldsInv, FieldsTypeOK, ScriptFieldsStay, DeclaredIsShown, Offered, fieldVars
<1> QED BY <1>1, <1>2, <1>3 DEF FieldsNext

\* The invariant says what the fields should.
LEMMA FieldsHold == FieldsInv => FieldsAgree
<1> SUFFICES ASSUME FieldsInv
             PROVE  FieldsAgree
  OBVIOUS
<1>0. FieldsTypeOK /\ platform \in System /\ fields \subseteq Field
  BY DEF FieldsInv, FieldsTypeOK
<1>1. MatrixIsWired
  BY <1>0, SystemsApart, MatrixIs, DispatchIs DEF MatrixIsWired
<1>2. NothingUndeclared
  <2>1. CASE platform = Bsd
    BY <2>1, EffectiveIs DEF NothingUndeclared, FieldsInv
  <2>2. CASE platform # Bsd
    BY <2>2, <1>0, SystemsApart, EffectiveIs DEF NothingUndeclared
  <2> QED BY <2>1, <2>2
<1> QED BY <1>1, <1>2 DEF FieldsInv, FieldsAgree

\* What the agent says it collects is what it collects, on every machine and
\* whatever fails: the matrix and the dispatch agree, nothing undeclared is
\* shown, everything declared comes to be, and no short cycle takes it away.
THEOREM FieldsTheorem == FieldsSpec => []FieldsAgree
<1>1. FieldsSpec => []FieldsInv
  BY FieldsStart, FieldsStep, PTL DEF FieldsSpec
<1> QED BY <1>1, FieldsHold, PTL

-----------------------------------------------------------------------------
(* The numbers made of one sample.                                         *)

\* What the walk over the disks adds up, row by row.
RowSize == [i \in DOMAIN disks |-> disks[i].size]
RowUsed == [i \in DOMAIN disks |-> disks[i].used]
PoolSize(P) == [p \in P |-> p[2]]
HasPool(i) == DiskBase[disks[i].path] # Nothing
PoolOf(i) == apfs_pool_key(disks[i])

\* A sample: rows of disks, two readings of the counters, a reading of memory.
SampleTyped ==
  /\ \E n \in Nat : disks \in [1..n -> Disk]
  /\ before \in {Nothing} \cup Counters /\ now \in Counters
  /\ memory \in [total: Sizes, free: Sizes, avail: Sizes]
  /\ system \in {"linux", "bsd", "windows"}

\* The invariant: what is shown are the sums of the sample as it is.
SumInv ==
  /\ SampleTyped
  /\ shown = Nothing \/ shown = [disk |-> aggregate_disks, cpu |-> summary_usage,
                                 core |-> core_usage_percent, memory |-> adapt_memory]

\* The rows have their type.
LEMMA RowsTyped ==
  ASSUME SampleTyped
  PROVE  /\ Len(disks) \in Nat /\ DOMAIN disks = 1..Len(disks)
         /\ \A i \in DOMAIN disks :
              /\ disks[i].size \in Nat /\ disks[i].used \in Nat
              /\ RowSize[i] = disks[i].size /\ RowUsed[i] = disks[i].used
              /\ i \in Nat
         /\ IsFiniteSet(Counted) /\ Counted \subseteq DOMAIN disks
<1>1. PICK n \in Nat : disks \in [1..n -> Disk]
  BY DEF SampleTyped
<1>2. Len(disks) = n /\ DOMAIN disks = 1..n /\ \A i \in 1..n : disks[i] \in Disk
  BY <1>1
<1>3. \A d \in Disk : d.size \in Nat /\ d.used \in Nat
  BY AggregateAssumption DEF Disk
<1>4. \A i \in DOMAIN disks : RowSize[i] = disks[i].size /\ RowUsed[i] = disks[i].used
  BY DEF RowSize, RowUsed
<1>5. IsFiniteSet(1..n)
  BY <1>1, FS_Interval
<1>6. Counted \subseteq DOMAIN disks
  BY DEF Counted
<1>7. IsFiniteSet(Counted)
  BY <1>2, <1>5, <1>6, FS_Subset
<1> QED BY <1>2, <1>3, <1>4, <1>6, <1>7

\* The rows counted of the first k.
CountedTo(k) == {i \in Counted : i <= k}
\* What the walk has after them.
WalkedTo(k, acc) ==
  /\ acc.seen = {disks[i].path : i \in CountedTo(k)}
  /\ acc.pools = {PoolOf(i) : i \in {j \in CountedTo(k) : HasPool(j)}}
  /\ acc.total = Weight(RowSize, CountedTo(k) \cap Single) + Weight(PoolSize(Pools), acc.pools)
  /\ acc.used = Weight(RowUsed, CountedTo(k))
  /\ acc.rows \in Seq(Disk) /\ Len(acc.rows) = Cardinality(CountedTo(k))

\* Sets of counted rows and of their pools are finite, and they weigh.
LEMMA CountedWeigh ==
  ASSUME SampleTyped
  PROVE  /\ \A S \in SUBSET Counted :
              /\ IsFiniteSet(S) /\ Weighs(RowSize, S) /\ Weighs(RowUsed, S)
              /\ Weight(RowSize, S) \in Nat /\ Weight(RowUsed, S) \in Nat
              /\ Cardinality(S) \in Nat
         /\ \A P \in SUBSET Pools :
              /\ IsFiniteSet(P) /\ Weighs(PoolSize(Pools), P)
              /\ Weight(PoolSize(Pools), P) \in Nat
<1>1. ASSUME NEW S \in SUBSET Counted
      PROVE  /\ IsFiniteSet(S) /\ Weighs(RowSize, S) /\ Weighs(RowUsed, S)
             /\ Weight(RowSize, S) \in Nat /\ Weight(RowUsed, S) \in Nat
             /\ Cardinality(S) \in Nat
  <2>1. IsFiniteSet(S)
    BY RowsTyped, FS_Subset
  <2>2. Weighs(RowSize, S) /\ Weighs(RowUsed, S)
    BY RowsTyped DEF Weighs
  <2> QED BY <2>1, <2>2, CellsFinite, FS_CardinalityType
<1>2. Pools = {PoolOf(i) : i \in {j \in Counted : HasPool(j)}}
  BY Zenon DEF Pools, PoolOf, HasPool
<1>3. IsFiniteSet(Pools)
  <2>1. IsFiniteSet({j \in Counted : HasPool(j)})
    BY RowsTyped, FS_Subset
  <2> DEFINE S == {j \in Counted : HasPool(j)}
             f == [i \in S |-> PoolOf(i)]
  <2>2. f \in [S -> Pools] /\ \A p \in Pools : \E i \in S : f[i] = p
    BY <1>2
  <2>3. f \in Surjection(S, Pools)
    <3> HIDE DEF f, S
    <3> QED BY <2>2, Zenon DEF Surjection
  <2> HIDE DEF f
  <2> QED BY <2>1, <2>3, FS_Surjection
<1>4. \A p \in Pools : PoolSize(Pools)[p] \in Nat
  <2>1. \A i \in Counted : PoolOf(i)[2] \in Nat
    BY RowsTyped DEF PoolOf, apfs_pool_key
  <2> QED BY <1>2, <2>1 DEF PoolSize
<1>5. ASSUME NEW P \in SUBSET Pools
      PROVE  /\ IsFiniteSet(P) /\ Weighs(PoolSize(Pools), P)
             /\ Weight(PoolSize(Pools), P) \in Nat
  <2>1. IsFiniteSet(P)
    BY <1>3, FS_Subset
  <2>2. Weighs(PoolSize(Pools), P)
    BY <1>4 DEF Weighs
  <2> QED BY <2>1, <2>2, CellsFinite
<1> QED BY <1>1, <1>5

\* The walk counts a row exactly when it is a real disk not seen before.
LEMMA CountsIf ==
  ASSUME SampleTyped, NEW k \in 1..Len(disks), NEW acc, WalkedTo(k - 1, acc)
  PROVE  k \in Counted <=> is_real_disk(disks[k]) /\ disks[k].path \notin acc.seen
<1>1. k \in Nat /\ k - 1 \in Nat /\ k \in DOMAIN disks /\ DOMAIN disks = 1..Len(disks)
      /\ Len(disks) \in Nat
  BY RowsTyped
<1>2. acc.seen = {disks[i].path : i \in CountedTo(k - 1)}
  BY DEF WalkedTo
<1>3. ASSUME k \in Counted, disks[k].path \in acc.seen PROVE FALSE
  <2>1. PICK i \in Counted : i <= k - 1 /\ disks[i].path = disks[k].path
    BY <1>2, <1>3 DEF CountedTo
  <2>2. i \in 1..k - 1 /\ is_real_disk(disks[i])
    BY <1>1, <2>1, RowsTyped DEF Counted
  <2> QED BY <1>3, <2>1, <2>2 DEF Counted
<1>4. ASSUME is_real_disk(disks[k]), disks[k].path \notin acc.seen, k \notin Counted PROVE FALSE
  <2> DEFINE Same == {j \in 1..k - 1 : is_real_disk(disks[j]) /\ disks[j].path = disks[k].path}
  <2>1. Same # {} /\ Same \subseteq Nat
    BY <1>1, <1>4 DEF Counted
  <2>2. PICK m \in Same : \A j \in Same : m <= j
    <3> HIDE DEF Same
    <3> QED BY <2>1, LeastOf
  <2>3. m \in 1..k - 1 /\ m \in DOMAIN disks
    BY <1>1, <2>2
  <2>4. ASSUME NEW j \in 1..m - 1, is_real_disk(disks[j]), disks[j].path = disks[m].path
        PROVE  FALSE
    <3>1. j \in 1..k - 1 /\ ~(m <= j)
      BY <1>1, <2>3
    <3>2. j \in Same
      BY <2>2, <2>4, <3>1
    <3> QED BY <2>2, <3>1, <3>2
  <2>5. m \in Counted
    BY <2>2, <2>3, <2>4 DEF Counted
  <2>6. m \in CountedTo(k - 1)
    BY <1>1, <2>3, <2>5 DEF CountedTo
  <2>7. disks[k].path \in acc.seen
    BY <1>2, <2>2, <2>6
  <2> QED BY <1>4, <2>7
<1> QED BY <1>1, <1>3, <1>4 DEF Counted

\* A row that does not count changes nothing.
LEMMA PassedOver ==
  ASSUME SampleTyped, NEW k \in 1..Len(disks), NEW acc, WalkedTo(k - 1, acc), k \notin Counted
  PROVE  WalkedTo(k, Walk(disks[k], acc))
<1>1. Walk(disks[k], acc) = acc
  BY CountsIf, Zenon DEF Walk
<1>2. CountedTo(k) = CountedTo(k - 1)
  <2>1. k \in Nat /\ Len(disks) \in Nat
    BY RowsTyped
  <2>2. \A i \in Counted : i \in Nat
    BY RowsTyped
  <2>3. \A i \in Counted : i <= k <=> i <= k - 1
    BY <2>1, <2>2
  <2> QED BY <2>3 DEF CountedTo
<1> QED BY <1>1, <1>2, Zenon DEF WalkedTo

\* A row that counts is added, and its pool the first time.
LEMMA Added ==
  ASSUME SampleTyped, NEW k \in 1..Len(disks), NEW acc, WalkedTo(k - 1, acc), k \in Counted
  PROVE  WalkedTo(k, Walk(disks[k], acc))
<1> DEFINE C == CountedTo(k - 1)
           d == disks[k]
           next == Walk(d, acc)
           key == PoolOf(k)
           w == PoolSize(Pools)
<1>0. k \in Nat /\ k \in DOMAIN disks /\ d \in Disk /\ key = <<DiskBase[d.path], d.size, d.avail>>
  <2>1. d \in Disk
    BY RowsTyped DEF SampleTyped
  <2> QED BY <2>1, RowsTyped DEF PoolOf, apfs_pool_key
<1>1. CountedTo(k) = C \cup {k} /\ k \notin C /\ C \subseteq Counted
  <2>1. \A i \in Counted : i \in Nat
    BY RowsTyped
  <2>2. \A i \in Counted : i <= k <=> i <= k - 1 \/ i = k
    <3>1. \A i, j \in Nat : i <= j <=> i <= j - 1 \/ i = j
      OBVIOUS
    <3> QED BY <1>0, <2>1, <3>1, Zenon
  <2>3. ~(k <= k - 1)
    BY <1>0
  <2> QED BY <2>2, <2>3 DEF CountedTo
<1>2. /\ next.seen = acc.seen \cup {d.path}
      /\ next.pools = IF HasPool(k) THEN acc.pools \cup {key} ELSE acc.pools
      /\ next.total = acc.total + IF HasPool(k) /\ key \in acc.pools THEN 0 ELSE d.size
      /\ next.used = acc.used + d.used
      /\ next.rows = Append(acc.rows, d)
  <2>1. is_real_disk(d) /\ d.path \notin acc.seen
    BY CountsIf
  <2>2. next = [seen  |-> acc.seen \cup {d.path},
                pools |-> IF DiskBase[d.path] = Nothing THEN acc.pools
                          ELSE acc.pools \cup {apfs_pool_key(d)},
                total |-> acc.total + IF Pooled(d, acc.pools) THEN 0 ELSE d.size,
                used  |-> acc.used + d.used,
                free  |-> acc.free + IF Pooled(d, acc.pools) THEN 0 ELSE d.avail,
                rows  |-> Append(acc.rows, d)]
    BY <2>1, Zenon DEF Walk
  <2>3. Pooled(d, acc.pools) <=> HasPool(k) /\ key \in acc.pools
    BY DEF Pooled, HasPool, PoolOf
  <2>4. (DiskBase[d.path] = Nothing <=> ~HasPool(k)) /\ apfs_pool_key(d) = key
    BY DEF HasPool, PoolOf
  <2> HIDE DEF next, d, key
  <2> QED BY <2>2, <2>3, <2>4
<1>3. WalkedTo(k - 1, acc)
  OBVIOUS
<1> HIDE DEF next
<1>4. next.seen = {disks[i].path : i \in CountedTo(k)}
  BY <1>1, <1>2, <1>3 DEF WalkedTo
<1>5. next.used = Weight(RowUsed, CountedTo(k))
  <2>1. IsFiniteSet(C) /\ Weighs(RowUsed, C \cup {k})
    BY <1>1, CountedWeigh
  <2>2. Weight(RowUsed, C \cup {k}) = Weight(RowUsed, C) + RowUsed[k]
    BY <1>1, <2>1, WeightAdd
  <2>3. RowUsed[k] = d.used
    BY <1>0, RowsTyped
  <2> QED BY <1>1, <1>2, <2>2, <2>3, <1>3, Zenon DEF WalkedTo
<1>6. next.rows \in Seq(Disk) /\ Len(next.rows) = Cardinality(CountedTo(k))
  <2>1. IsFiniteSet(C) /\ Cardinality(C) \in Nat
    BY <1>1, CountedWeigh
  <2>2. Cardinality(C \cup {k}) = Cardinality(C) + 1
    BY <1>1, <2>1, FS_AddElement
  <2>3. acc.rows \in Seq(Disk) /\ Len(acc.rows) = Cardinality(C)
    BY <1>3 DEF WalkedTo
  <2>4. Append(acc.rows, d) \in Seq(Disk) /\ Len(Append(acc.rows, d)) = Len(acc.rows) + 1
    BY <1>0, <2>3
  <2> QED BY <1>1, <1>2, <2>2, <2>3, <2>4, Zenon
<1>7. acc.pools = {PoolOf(i) : i \in {j \in C : HasPool(j)}}
      /\ acc.total = Weight(RowSize, C \cap Single) + Weight(w, acc.pools)
  BY <1>3 DEF WalkedTo
<1>8. \A i \in Counted : i \in Single <=> ~HasPool(i)
  BY DEF Single, HasPool
<1>9. /\ next.pools = {PoolOf(i) : i \in {j \in CountedTo(k) : HasPool(j)}}
      /\ next.total = Weight(RowSize, CountedTo(k) \cap Single) + Weight(w, next.pools)
  <2>1. CASE ~HasPool(k)
    <3>1. next.pools = acc.pools /\ next.total = acc.total + d.size
      BY <1>2, <2>1
    <3>2. {j \in CountedTo(k) : HasPool(j)} = {j \in C : HasPool(j)}
      BY <1>1, <2>1
    <3>3. CountedTo(k) \cap Single = (C \cap Single) \cup {k} /\ k \notin C \cap Single
      BY <1>1, <1>8, <2>1
    <3>4. IsFiniteSet(C \cap Single) /\ Weighs(RowSize, (C \cap Single) \cup {k})
      BY <1>1, CountedWeigh
    <3>5. Weight(RowSize, (C \cap Single) \cup {k}) = Weight(RowSize, C \cap Single) + RowSize[k]
      BY <3>3, <3>4, WeightAdd
    <3>6. RowSize[k] = d.size /\ d.size \in Nat
      BY <1>0, RowsTyped
    <3>7. Weight(RowSize, C \cap Single) \in Nat /\ Weight(w, acc.pools) \in Nat
      <4>1. acc.pools \subseteq Pools
        BY <1>1, <1>7 DEF Pools, PoolOf, HasPool
      <4> QED BY <1>1, <4>1, CountedWeigh
    <3>8. next.total = Weight(RowSize, C \cap Single) + RowSize[k] + Weight(w, acc.pools)
      BY <1>7, <3>1, <3>6, <3>7
    <3> QED BY <1>7, <3>1, <3>2, <3>3, <3>5, <3>8, Zenon
  <2>2. CASE HasPool(k)
    <3>1. CountedTo(k) \cap Single = C \cap Single
      BY <1>1, <1>8, <2>2
    <3>2. {j \in CountedTo(k) : HasPool(j)} = {j \in C : HasPool(j)} \cup {k}
      BY <1>1, <2>2
    <3>3. next.pools = acc.pools \cup {key}
      BY <1>2, <2>2
    <3>4. next.pools = {PoolOf(i) : i \in {j \in CountedTo(k) : HasPool(j)}}
      BY <1>7, <3>2, <3>3
    <3>5. next.pools \subseteq Pools
      BY <1>1, <3>4 DEF Pools, PoolOf, HasPool
    <3>6. Weight(RowSize, C \cap Single) \in Nat /\ Weight(w, acc.pools) \in Nat
      BY <1>1, <3>3, <3>5, CountedWeigh
    <3>7. CASE key \in acc.pools
      <4>1. next.pools = acc.pools /\ next.total = acc.total + 0
        BY <1>2, <2>2, <3>3, <3>7
      <4>2. next.total = acc.total
        BY <1>7, <3>6, <4>1
      <4> QED BY <1>7, <3>1, <3>4, <4>1, <4>2, Zenon
    <3>8. CASE key \notin acc.pools
      <4>1. next.total = acc.total + d.size
        BY <1>2, <3>8
      <4>2. IsFiniteSet(acc.pools) /\ Weighs(w, acc.pools \cup {key})
        BY <3>3, <3>5, CountedWeigh
      <4>3. Weight(w, acc.pools \cup {key}) = Weight(w, acc.pools) + w[key]
        BY <3>8, <4>2, WeightAdd
      <4>4. w[key] = key[2] /\ key[2] = d.size /\ d.size \in Nat
        <5>1. key \in Pools
          BY <3>3, <3>5
        <5>2. d.size \in Nat
          BY <1>0, RowsTyped
        <5> QED BY <1>0, <5>1, <5>2 DEF PoolSize
      <4>5. next.total = Weight(RowSize, C \cap Single) + (Weight(w, acc.pools) + w[key])
        <5> HIDE DEF w, key, d
        <5> QED BY <1>7, <3>6, <4>1, <4>4
      <4> QED BY <3>1, <3>3, <3>4, <4>3, <4>5, Zenon
    <3> QED BY <3>7, <3>8
  <2> QED BY <2>1, <2>2
<1> QED BY <1>4, <1>5, <1>6, <1>9, Zenon DEF WalkedTo, next

\* Induction over the natural numbers, for a set of them.
LEMMA NumberInduction ==
  ASSUME NEW S, 0 \in S, \A n \in Nat : n \in S => n + 1 \in S
  PROVE  \A n \in Nat : n \in S
<1> DEFINE Missing == {n \in Nat : n \notin S}
<1>1. SUFFICES ASSUME Missing # {} PROVE FALSE
  OBVIOUS
<1>2. PICK x \in Missing : \A y \in Missing : x <= y
  <2>1. Missing \subseteq Nat
    OBVIOUS
  <2> HIDE DEF Missing
  <2> QED BY <1>1, <2>1, LeastOf
<1>3. x \in Nat /\ x # 0 /\ x \notin S /\ x - 1 \in Nat /\ ~(x <= x - 1)
  BY <1>2
<1>4. x - 1 \in S /\ (x - 1) + 1 = x
  BY <1>2, <1>3
<1> QED BY <1>3, <1>4

\* The walk before any row, and the walk as a function of the rows gone.
Unwalked == [seen |-> {}, pools |-> {}, total |-> 0, used |-> 0, free |-> 0, rows |-> <<>>]
Walking(m, f) == f = [n \in 0..m |-> IF n = 0 THEN Unwalked ELSE Walk(disks[n], f[n - 1])]

\* There is such a function.
LEMMA WalkingExists == \A m \in Nat : \E f : Walking(m, f)
<1> DEFINE S == {m \in Nat : \E f : Walking(m, f)}
<1>1. 0 \in S
  <2> DEFINE f == [n \in 0..0 |-> Unwalked]
  <2>1. Walking(0, f)
    BY DEF Walking
  <2> QED BY <2>1
<1>2. ASSUME NEW m \in Nat, m \in S PROVE m + 1 \in S
  <2>1. PICK f : Walking(m, f)
    BY <1>2
  <2> DEFINE g == [n \in 0..(m + 1) |-> IF n <= m THEN f[n] ELSE Walk(disks[m + 1], f[m])]
  <2>2. \A n \in 0..m : /\ g[n] = f[n]
                        /\ f[n] = IF n = 0 THEN Unwalked ELSE Walk(disks[n], f[n - 1])
    BY <2>1 DEF Walking
  <2>3. g[m + 1] = Walk(disks[m + 1], f[m]) /\ g = [n \in 0..(m + 1) |-> g[n]]
    OBVIOUS
  <2> HIDE DEF g
  <2>4. ASSUME NEW n \in 0..(m + 1)
        PROVE  g[n] = IF n = 0 THEN Unwalked ELSE Walk(disks[n], g[n - 1])
    <3>1. CASE n = m + 1
      <4>1. n # 0 /\ n - 1 = m /\ m \in 0..m
        BY <3>1
      <4> QED BY <2>2, <2>3, <3>1, <4>1, Zenon
    <3>2. CASE n \in 0..m
      <4>1. n # 0 => n - 1 \in 0..m
        BY <3>2
      <4> QED BY <2>2, <3>2, <4>1, Zenon
    <3> QED BY <3>1, <3>2
  <2>5. Walking(m + 1, g)
    BY <2>3, <2>4, Zenon DEF Walking
  <2> QED BY <2>5
<1> HIDE DEF S
<1>3. \A m \in Nat : m \in S
  BY <1>1, <1>2, NumberInduction
<1> QED BY <1>3 DEF S

\* After all rows the walk has counted what is to be counted.
LEMMA WalkIs ==
  ASSUME SampleTyped
  PROVE  WalkedTo(Len(disks), aggregate_disks)
<1> DEFINE n == Len(disks)
           f == CHOOSE f : Walking(n, f)
<1>1. n \in Nat
  BY RowsTyped
<1>2. Walking(n, f)
  <2>1. \E g : Walking(n, g)
    BY <1>1, WalkingExists
  <2> QED BY <2>1, Zenon
<1>3. aggregate_disks = f[n]
  BY Zenon DEF aggregate_disks, Walking, Unwalked
<1> HIDE DEF f
<1>4. \A k \in 0..n : f[k] = IF k = 0 THEN Unwalked ELSE Walk(disks[k], f[k - 1])
  BY <1>2, Zenon DEF Walking
<1> DEFINE S == {k \in Nat : k <= n => WalkedTo(k, f[k])}
<1>5. 0 \in S
  <2>1. f[0] = Unwalked
    <3>1. 0 \in 0..n
      BY <1>1
    <3> QED BY <1>4, <3>1, Zenon
  <2>2. CountedTo(0) = {}
    BY RowsTyped DEF CountedTo
  <2>3. WalkedTo(0, Unwalked)
    <3>1. Weight(RowSize, {}) = 0 /\ Weight(PoolSize(Pools), {}) = 0 /\ Weight(RowUsed, {}) = 0
      BY WeightOfNone
    <3>2. Cardinality({}) = 0 /\ {} \cap Single = {}
      BY FS_EmptySet
    <3>3. /\ Unwalked.seen = {} /\ Unwalked.pools = {} /\ Unwalked.total = 0
          /\ Unwalked.used = 0 /\ Unwalked.rows = <<>>
      BY DEF Unwalked
    <3>4. <<>> \in Seq(Disk) /\ Len(<<>>) = 0
      OBVIOUS
    <3> HIDE DEF S
    <3>5. Unwalked.total = Weight(RowSize, {} \cap Single) + Weight(PoolSize(Pools), {})
      <4>1. 0 = 0 + 0
        OBVIOUS
      <4> QED BY <3>1, <3>2, <3>3, <4>1, Zenon
    <3>6. {disks[i].path : i \in {}} = {} /\ {PoolOf(i) : i \in {j \in {} : HasPool(j)}} = {}
      OBVIOUS
    <3> QED BY <2>2, <3>1, <3>2, <3>3, <3>4, <3>5, <3>6, Zenon DEF WalkedTo
  <2>4. WalkedTo(0, f[0])
    BY <2>1, <2>3, Zenon
  <2> QED BY <2>4
<1>6. ASSUME NEW k \in Nat, k \in S PROVE k + 1 \in S
  <2> SUFFICES ASSUME k + 1 <= n PROVE WalkedTo(k + 1, f[k + 1])
    OBVIOUS
  <2>1. /\ k + 1 \in 1..n /\ k + 1 \in 0..n /\ k + 1 # 0 /\ (k + 1) - 1 = k /\ k <= n
    BY <1>1
  <2>2. WalkedTo(k, f[k])
    BY <1>6, <2>1
  <2>3. f[k + 1] = Walk(disks[k + 1], f[k])
    BY <1>4, <2>1, Zenon
  <2> HIDE DEF S
  <2>4. WalkedTo((k + 1) - 1, f[k])
    BY <2>1, <2>2, Zenon
  <2>5. WalkedTo(k + 1, Walk(disks[k + 1], f[k]))
    BY <2>1, <2>4, PassedOver, Added
  <2> QED BY <2>3, <2>5, Zenon
<1> HIDE DEF S
<1>7. n \in S
  BY <1>1, <1>5, <1>6, NumberInduction
<1>8. WalkedTo(n, f[n])
  BY <1>1, <1>7 DEF S
<1> QED BY <1>3, <1>8, Zenon

\* The pools add up to the weight of their sizes.
PoolAdds(P, g) ==
  g = [s \in SUBSET P |-> IF s = {} THEN 0 ELSE (First_(s))[2] + g[s \ {First_(s)}]]

\* The sum that the walk's total takes over the pools is their weight.
LEMMA PoolSum ==
  ASSUME SampleTyped
  PROVE  MapThenSumSet(LAMBDA p : p[2], Pools) = Weight(PoolSize(Pools), Pools)
<1> DEFINE w == PoolSize(Pools)
           g == CHOOSE g : PoolAdds(Pools, g)
<1>1. IsFiniteSet(Pools) /\ Weighs(w, Pools)
  BY CountedWeigh
<1>2. \A p \in Pools : w[p] = p[2]
  BY DEF PoolSize
<1>3. ASSUME NEW f PROVE PoolAdds(Pools, f) <=> Adds(w, Pools, f)
  <2>1. ASSUME NEW s \in SUBSET Pools, s # {} PROVE w[First_(s)] = (First_(s))[2]
    <3>1. First_(s) \in s
      BY <2>1, Zenon DEF First_
    <3> QED BY <1>2, <2>1, <3>1, Zenon
  <2>2. [s \in SUBSET Pools |-> IF s = {} THEN 0 ELSE (First_(s))[2] + f[s \ {First_(s)}]]
          = [s \in SUBSET Pools |-> IF s = {} THEN 0 ELSE w[First_(s)] + f[s \ {First_(s)}]]
    <3> HIDE DEF w
    <3> QED BY <2>1, Zenon
  <2> QED BY <2>2, Zenon DEF PoolAdds, Adds
<1>4. PoolAdds(Pools, g)
  <2> HIDE DEF w
  <2>1. \E f : PoolAdds(Pools, f)
    BY <1>1, <1>3, AddsExists
  <2> QED BY <2>1, Zenon
<1>5. g[Pools] = Weight(w, Pools)
  <2> HIDE DEF w, g
  <2>1. Adds(w, Pools, g)
    BY <1>3, <1>4
  <2> QED BY <1>1, <2>1, AddsIs
<1>6. MapThenSumSet(LAMBDA p : p[2], Pools) = g[Pools]
  BY Zenon DEF MapThenSumSet, MapThenFoldSet, PoolAdds, First_
<1> QED BY <1>5, <1>6, Zenon

\* The counted rows of a pool, and of some pools.
Members(p) == {i \in Counted : PoolOf(i) = p}
Shares(P) == {i \in Counted : PoolOf(i) \in P}

\* No file system and no pool uses more than its size.
Fits == /\ \A i \in Single : RowUsed[i] <= RowSize[i]
        /\ \A p \in Pools : Weight(RowUsed, Members(p)) <= PoolSize(Pools)[p]

\* Where no file system and no pool uses more than it has, neither do all.
LEMMA UsedWithin ==
  ASSUME SampleTyped, Fits
  PROVE  Weight(RowUsed, Counted) <= Weight(RowSize, Single) + Weight(PoolSize(Pools), Pools)
<1> DEFINE w == PoolSize(Pools)
           Good == {P \in SUBSET Pools : Weight(RowUsed, Shares(P)) <= Weight(w, P)}
<1>1. {} \in Good
  <2>1. Shares({}) = {}
    BY DEF Shares
  <2>2. Weight(RowUsed, Shares({})) = 0 /\ Weight(w, {}) = 0
    BY <2>1, WeightOfNone
  <2> QED BY <2>2
<1>2. ASSUME NEW P \in SUBSET Pools, NEW p \in Pools, P \in Good, p \notin P
      PROVE  P \cup {p} \in Good
  <2>1. Shares(P \cup {p}) = Shares(P) \cup Members(p) /\ Shares(P) \cap Members(p) = {}
    BY <1>2 DEF Shares, Members
  <2>2. Shares(P) \subseteq Counted /\ Members(p) \subseteq Counted
    BY DEF Shares, Members
  <2>3. /\ IsFiniteSet(Shares(P)) /\ IsFiniteSet(Members(p))
        /\ Weighs(RowUsed, Shares(P)) /\ Weighs(RowUsed, Members(p))
        /\ Weight(RowUsed, Shares(P)) \in Nat /\ Weight(RowUsed, Members(p)) \in Nat
    BY <2>2, CountedWeigh
  <2>4. Weight(RowUsed, Shares(P \cup {p})) = Weight(RowUsed, Shares(P)) + Weight(RowUsed, Members(p))
    BY <2>1, <2>3, WeightJoin
  <2>5. IsFiniteSet(P) /\ Weighs(w, P \cup {p}) /\ Weight(w, P) \in Nat /\ w[p] \in Nat
    <3>1. P \cup {p} \in SUBSET Pools
      OBVIOUS
    <3> HIDE DEF w
    <3>2. Weighs(PoolSize(Pools), P \cup {p})
      BY <3>1, CountedWeigh
    <3> QED BY <3>2, CountedWeigh DEF Weighs, w
  <2>6. Weight(w, P \cup {p}) = Weight(w, P) + w[p]
    BY <1>2, <2>5, WeightAdd
  <2>7. Weight(RowUsed, Shares(P)) <= Weight(w, P) /\ Weight(RowUsed, Members(p)) <= w[p]
    BY <1>2 DEF Fits
  <2> HIDE DEF w
  <2>8. Weight(RowUsed, Shares(P \cup {p})) <= Weight(w, P \cup {p})
    BY <2>3, <2>4, <2>5, <2>6, <2>7
  <2> QED BY <2>8
<1>3. Pools \in Good
  <2>1. IsFiniteSet(Pools)
    BY CountedWeigh
  <2> HIDE DEF Good
  <2> QED BY <1>1, <1>2, <2>1, SubsetInduction
<1>4. Counted = Single \cup Shares(Pools) /\ Single \cap Shares(Pools) = {}
  <2>1. \A i \in Counted : i \in Single <=> ~HasPool(i)
    BY DEF Single, HasPool
  <2>2. \A i \in Counted : PoolOf(i) \in Pools <=> HasPool(i)
    <3>1. \A i \in Counted : PoolOf(i)[1] = DiskBase[disks[i].path]
      BY DEF PoolOf, apfs_pool_key
    <3>2. Pools = {PoolOf(i) : i \in {j \in Counted : HasPool(j)}}
      BY Zenon DEF Pools, PoolOf, HasPool
    <3>3. ASSUME NEW i \in Counted, PoolOf(i) \in Pools PROVE HasPool(i)
      <4>1. PICK j \in Counted : HasPool(j) /\ PoolOf(i) = PoolOf(j)
        BY <3>2, <3>3
      <4>2. DiskBase[disks[i].path] = DiskBase[disks[j].path]
        BY <3>1, <4>1, Zenon
      <4> QED BY <4>1, <4>2, Zenon DEF HasPool
    <3> QED BY <3>2, <3>3
  <2>3. Single \subseteq Counted
    BY DEF Single
  <2> QED BY <2>1, <2>2, <2>3 DEF Shares
<1>5. Single \subseteq Counted /\ Shares(Pools) \subseteq Counted
  BY <1>4
<1>6. /\ IsFiniteSet(Single) /\ Weighs(RowUsed, Single) /\ Weighs(RowSize, Single)
      /\ IsFiniteSet(Shares(Pools)) /\ Weighs(RowUsed, Shares(Pools))
      /\ Weight(RowUsed, Single) \in Nat /\ Weight(RowSize, Single) \in Nat
      /\ Weight(RowUsed, Shares(Pools)) \in Nat
  BY <1>5, CountedWeigh
<1>7. Weight(RowUsed, Single) <= Weight(RowSize, Single)
  BY <1>6, WeightAtMost DEF Fits
<1>8. Weight(RowUsed, Counted) = Weight(RowUsed, Single) + Weight(RowUsed, Shares(Pools))
  BY <1>4, <1>6, WeightJoin
<1>9. Weight(RowUsed, Shares(Pools)) <= Weight(w, Pools) /\ Weight(w, Pools) \in Nat
  BY <1>3, CountedWeigh
<1> HIDE DEF w
<1> QED BY <1>6, <1>7, <1>8, <1>9 DEF w

\* The disks add up.
LEMMA DisksAddUp ==
  ASSUME SampleTyped, NEW acc, WalkedTo(Len(disks), acc), shown.disk = acc
  PROVE  DiskSums
<1>1. CountedTo(Len(disks)) = Counted
  BY RowsTyped DEF CountedTo
<1>2. Single \subseteq Counted /\ Counted \cap Single = Single
  BY DEF Single
<1>3. acc.pools = Pools
  BY <1>1 DEF WalkedTo, Pools, PoolOf, HasPool
<1>4. /\ acc.total = Weight(RowSize, Single) + Weight(PoolSize(Pools), Pools)
      /\ acc.used = Weight(RowUsed, Counted)
      /\ Len(acc.rows) = Cardinality(Counted)
  BY <1>1, <1>2, <1>3 DEF WalkedTo
<1>5. /\ SumFunctionOnSet(RowSize, Single) = Weight(RowSize, Single)
      /\ SumFunctionOnSet(RowUsed, Counted) = Weight(RowUsed, Counted)
      /\ \A p \in Pools : SumFunctionOnSet(RowUsed, Members(p)) = Weight(RowUsed, Members(p))
  <2>1. \A S \in SUBSET Counted :
          /\ SumFunctionOnSet(RowSize, S) = Weight(RowSize, S)
          /\ SumFunctionOnSet(RowUsed, S) = Weight(RowUsed, S)
    BY CountedWeigh, SumIs
  <2>2. \A p \in Pools : Members(p) \subseteq Counted
    BY DEF Members
  <2> QED BY <1>2, <2>1, <2>2
<1>6. MapThenSumSet(LAMBDA p : p[2], Pools) = Weight(PoolSize(Pools), Pools)
  BY PoolSum
<1> DEFINE sound == /\ \A i \in Single : disks[i].used <= disks[i].size
                    /\ \A p \in Pools : SumFunctionOnSet(RowUsed, Members(p)) <= p[2]
<1>7. ASSUME sound PROVE acc.used <= acc.total
  <2>1. \A i \in Single : RowUsed[i] <= RowSize[i]
    BY <1>2, <1>7, RowsTyped
  <2>2. \A p \in Pools : PoolSize(Pools)[p] = p[2]
    BY DEF PoolSize
  <2>3. \A p \in Pools : Weight(RowUsed, Members(p)) <= PoolSize(Pools)[p]
    BY <1>5, <1>7, <2>2
  <2>4. Fits
    BY <2>1, <2>3 DEF Fits
  <2> QED BY <1>4, <2>4, UsedWithin
<1>8. /\ shown.disk.total = SumFunctionOnSet(RowSize, Single)
                            + MapThenSumSet(LAMBDA p : p[2], Pools)
      /\ shown.disk.used = SumFunctionOnSet(RowUsed, Counted)
      /\ Len(shown.disk.rows) = Cardinality(Counted)
      /\ sound => shown.disk.used <= shown.disk.total
  BY <1>4, <1>5, <1>6, <1>7, Zenon
<1> QED BY <1>8, Zenon DEF DiskSums, RowSize, RowUsed, Members, PoolOf

\* The usage of the whole and of a core agree.
LEMMA UsagesAgree ==
  ASSUME SampleTyped, shown.cpu = summary_usage, shown.core = core_usage_percent
  PROVE  UsageAgrees
<1> DEFINE core == core_usage_percent
           cpu == summary_usage
           grew == before # Nothing => before.busy <= now.busy /\ before.idle <= now.idle
<1> SUFFICES /\ core # Nothing => 0 <= core.part /\ core.part <= core.of /\ core.of > 0
             /\ core # Nothing /\ grew => core.part * cpu.of = cpu.part * core.of
             /\ grew => 0 <= cpu.part /\ cpu.part <= cpu.of
  BY Zenon DEF UsageAgrees
<1>0. \A c \in Counters : c.busy \in Nat /\ c.idle \in Nat /\ Total(c) = c.busy + c.idle
  BY AggregateAssumption DEF Counters, Total
<1>1. now \in Counters /\ now.busy \in Nat /\ now.idle \in Nat /\ Total(now) = now.busy + now.idle
  BY <1>0 DEF SampleTyped
<1>3. CASE OneShot
  <2>1. cpu = [part |-> now.busy, of |-> Total(now)]
    BY <1>3, Zenon DEF summary_usage
  <2>2. core = IF Total(now) = 0 THEN Nothing ELSE [part |-> now.busy, of |-> Total(now)]
    BY <1>3, Zenon DEF core_usage_percent
  <2> HIDE DEF core, cpu
  <2>3. cpu.part = now.busy /\ cpu.of = Total(now)
    BY <2>1
  <2>4. core # Nothing => core.part = now.busy /\ core.of = Total(now) /\ Total(now) # 0
    BY <2>2
  <2>5. core # Nothing => core.part * cpu.of = cpu.part * core.of
    BY <2>3, <2>4, Zenon
  <2>6. 0 <= now.busy /\ now.busy <= Total(now) /\ (Total(now) # 0 => Total(now) > 0)
    BY <1>1
  <2> QED BY <2>3, <2>4, <2>5, <2>6, Zenon
<1>4. CASE ~OneShot /\ before = Nothing
  <2>1. cpu = [part |-> 0, of |-> 1]
    BY <1>4, Zenon DEF summary_usage
  <2>2. core = Nothing
    BY <1>4, Zenon DEF core_usage_percent
  <2> HIDE DEF core, cpu
  <2>3. 0 <= cpu.part /\ cpu.part <= cpu.of
    BY <2>1
  <2> QED BY <2>2, <2>3
<1>5. CASE ~OneShot /\ before # Nothing
  <2> DEFINE window == Total(now) - Total(before)
             used == now.busy - before.busy
             idle == now.idle - before.idle
  <2>0. /\ before.busy \in Nat /\ before.idle \in Nat
        /\ Total(before) = before.busy + before.idle
    BY <1>0, <1>5 DEF SampleTyped
  <2>1. window \in Int /\ used \in Int /\ idle \in Int /\ window = used + idle
    BY <1>1, <2>0
  <2>2. cpu = IF window <= 0 THEN [part |-> 0, of |-> 1] ELSE [part |-> window - idle, of |-> window]
    BY <1>5, Zenon DEF summary_usage
  <2>3. core = IF window <= 0 \/ used < 0 THEN Nothing
               ELSE [part |-> IF used < window THEN used ELSE window, of |-> window]
    BY <1>5, Zenon DEF core_usage_percent
  <2>4. grew => used >= 0 /\ idle >= 0
    BY <1>1, <1>5, <2>0
  <2> HIDE DEF core, cpu, window, used, idle, grew
  <2>5. /\ window <= 0 => cpu.part = 0 /\ cpu.of = 1
        /\ ~(window <= 0) => cpu.part = window - idle /\ cpu.of = window
    BY <2>2
  <2>6. core # Nothing => /\ ~(window <= 0) /\ ~(used < 0) /\ core.of = window
                          /\ core.part = IF used < window THEN used ELSE window
    BY <2>3
  <2>7. core # Nothing => 0 <= core.part /\ core.part <= core.of /\ core.of > 0
    BY <2>1, <2>6
  <2>8. core # Nothing /\ grew => core.part = cpu.part /\ core.of = cpu.of
    BY <2>1, <2>4, <2>5, <2>6
  <2>9. core # Nothing /\ grew => core.part * cpu.of = cpu.part * core.of
    BY <2>8, Zenon
  <2>10. grew => 0 <= cpu.part /\ cpu.part <= cpu.of
    BY <2>1, <2>4, <2>5
  <2> QED BY <2>7, <2>9, <2>10
<1> QED BY <1>3, <1>4, <1>5

\* What is used of memory is no more than there is.
LEMMA MemoryFits ==
  ASSUME SampleTyped, shown.memory = adapt_memory
  PROVE  MemorySums
<1>1. memory.total \in Nat /\ memory.free \in Nat /\ memory.avail \in Nat
  BY AggregateAssumption DEF SampleTyped
<1> DEFINE avail == IF memory.avail = 0 THEN memory.free ELSE memory.avail
           used == IF avail < memory.total THEN memory.total - avail ELSE 0
<1>2. avail \in Nat
  BY <1>1
<1>3. used <= memory.total
  BY <1>1, <1>2
<1>4. adapt_memory = [total |-> memory.total, used |-> used, free |-> avail]
  BY Zenon DEF adapt_memory
<1> HIDE DEF used, avail
<1>5. adapt_memory.used = used /\ adapt_memory.total = memory.total
  BY <1>4
<1> QED BY <1>3, <1>5 DEF MemorySums

\* The sample has its type at first.
LEMMA SumStart == SumInit => SumInv
<1> SUFFICES ASSUME SumInit PROVE SumInv
  OBVIOUS
<1>1. 0 \in Sizes /\ NoCounters \in Counters /\ NoMemory \in [total: Sizes, free: Sizes, avail: Sizes]
  BY AggregateAssumption DEF NoCounters, NoMemory, Counters
<1>2. \E n \in Nat : disks \in [1..n -> Disk]
  <2>1. CASE disks = <<>>
    <3>1. disks \in [1..0 -> Disk]
      BY <2>1
    <3> QED BY <3>1
  <2>2. CASE disks \in UNION {[1..n -> Disk] : n \in 0..MaxDisks}
    <3>1. \A n \in 0..MaxDisks : n \in Nat
      BY AggregateAssumption
    <3> QED BY <2>2, <3>1
  <2> QED BY <2>1, <2>2 DEF SumInit
<1>3. /\ before \in {Nothing} \cup Counters /\ now \in Counters
      /\ memory \in [total: Sizes, free: Sizes, avail: Sizes]
  BY <1>1, Zenon DEF SumInit
<1>4. system \in {"linux", "bsd", "windows"} /\ shown = Nothing
  BY DEF SumInit
<1> QED BY <1>2, <1>3, <1>4 DEF SumInv, SampleTyped

\* Showing it changes nothing of it.
LEMMA SumStep == SumInv /\ [Show]_sumVars => SumInv'
<1> SUFFICES ASSUME SumInv, [Show]_sumVars PROVE SumInv'
  OBVIOUS
<1>1. UNCHANGED <<system, disks, before, now, memory>>
      /\ (shown' = shown \/ shown' = [disk |-> aggregate_disks, cpu |-> summary_usage,
                                      core |-> core_usage_percent, memory |-> adapt_memory])
  BY DEF Show, sumVars
<1>2. aggregate_disks' = aggregate_disks
  BY <1>1, SMT DEF aggregate_disks, Walk, is_real_disk, Pooled, apfs_pool_key
<1>3. summary_usage' = summary_usage
  BY <1>1, Zenon DEF summary_usage, OneShot, Total
<1>4. core_usage_percent' = core_usage_percent
  BY <1>1, Zenon DEF core_usage_percent, OneShot, Total
<1>5. adapt_memory' = adapt_memory
  BY <1>1, Zenon DEF adapt_memory
<1>6. SampleTyped'
  BY <1>1 DEF SumInv, SampleTyped
<1>7. shown' = Nothing \/ shown' = [disk |-> aggregate_disks, cpu |-> summary_usage,
                                   core |-> core_usage_percent, memory |-> adapt_memory]
  BY <1>1 DEF SumInv
<1> QED BY <1>2, <1>3, <1>4, <1>5, <1>6, <1>7, Zenon DEF SumInv

\* What is made of it is as it should be.
LEMMA SumFollows == SumInv => SumsAgree
<1> SUFFICES ASSUME SumInv, shown # Nothing PROVE DiskSums /\ UsageAgrees /\ MemorySums
  BY DEF SumsAgree
<1>1. SampleTyped /\ shown = [disk |-> aggregate_disks, cpu |-> summary_usage,
                         core |-> core_usage_percent, memory |-> adapt_memory]
  BY DEF SumInv
<1>2. /\ shown.disk = aggregate_disks /\ shown.cpu = summary_usage
      /\ shown.core = core_usage_percent /\ shown.memory = adapt_memory
  BY <1>1
<1> QED BY <1>1, <1>2, WalkIs, DisksAddUp, UsagesAgree, MemoryFits

\* The numbers of a status add up, for any disks, counters and memory: a path counts
\* once however often it is listed, and no more is used than there is; the whole and
\* a core show the same share; memory in use is no more than there is.  Two labels
\* of one APFS container are two paths (monitoring.rs 701-709).
THEOREM SumsTheorem == SumSpec => []SumsAgree
<1>1. SumSpec => []SumInv
  BY SumStart, SumStep, PTL DEF SumSpec
<1> QED BY <1>1, SumFollows, PTL
=============================================================================
