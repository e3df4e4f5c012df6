---------------------------- MODULE RetentionProofs ----------------------------
(***************************************************************************)
(* Proofs about Retention, for any retention of each table, any cap, share *)
(* and number of rounds: whatever statements of a cleanup ran or failed,   *)
(* and whatever was written between them, what it leaves is the newest of  *)
(* what was stored and whole cycles; what it deletes had aged out, or the  *)
(* size cap took it; and one that ended well left nothing past its time.   *)
(* Then proofs about History, which draws its charts from those rows: a    *)
(* sum of counters is a number of cells (Weight), what a counter gained    *)
(* between two rows is bounded by the time between them, and so is the     *)
(* difference of two averages.                                             *)
(***************************************************************************)
EXTENDS Retention, History, Functions, FiniteSetTheorems, WellFoundedInduction, TLAPS

\* A set of natural numbers that is not empty has a least.
LEMMA LeastOf ==
  ASSUME NEW S, S \subseteq Nat, S # {}
  PROVE  \E x \in S : \A y \in S : x <= y
<1>1. PICK x \in S : \A y \in S : ~(<<y, x>> \in OpToRel(<, Nat))
  BY NatLessThanWellFounded, WFMin, Zenon
<1>2. \A y \in S : ~(y < x)
  BY <1>1, Zenon DEF OpToRel
<1>3. \A y \in S : x <= y
  BY <1>2
<1> QED
  BY <1>3

\* A set of bounded natural numbers that is not empty has a greatest.
LEMMA GreatestOf ==
  ASSUME NEW N \in Nat, NEW S, S \subseteq 0..N, S # {}
  PROVE  Max(S) \in S /\ \A y \in S : y <= Max(S)
<1> DEFINE Below == {n \in 0..N : N - n \in S}
<1>1. Below \subseteq Nat /\ Below # {}
  <2>1. PICK y \in S : TRUE
    OBVIOUS
  <2>2. N - y \in 0..N /\ N - (N - y) = y
    BY <2>1
  <2>3. N - y \in Below
    BY <2>1, <2>2
  <2> QED BY <2>3
<1>2. PICK x \in Below : \A y \in Below : x <= y
  <2> HIDE DEF Below
  <2> QED BY <1>1, LeastOf, Zenon
<1>3. N - x \in S /\ \A y \in S : N - x >= y
  <2>1. N - x \in S /\ x \in 0..N
    BY <1>2
  <2>2. ASSUME NEW y \in S PROVE N - x >= y
    <3>1. y \in 0..N /\ N - y \in 0..N /\ N - (N - y) = y
      OBVIOUS
    <3>2. N - y \in Below
      BY <3>1
    <3>3. x <= N - y
      BY <1>2, <3>2
    <3> QED BY <2>1, <3>1, <3>3
  <2> QED BY <2>1, <2>2
<1>4. Max(S) = CHOOSE m \in S : \A y \in S : m >= y
  BY DEF Max
<1>5. Max(S) \in S /\ \A y \in S : Max(S) >= y
  BY <1>3, <1>4
<1> QED
  BY <1>5

\* A quotient by whole numbers.
LEMMA Quotient ==
  ASSUME NEW a \in Int, NEW d \in Nat \ {0}
  PROVE  a \div d \in Int /\ d * (a \div d) <= a /\ a < d * (a \div d) + d
<1>1. a \div d \in Int /\ a % d \in 0..d - 1 /\ a = d * (a \div d) + (a % d)
  OBVIOUS
<1> QED BY <1>1

\* What is no less has no lesser quotient.
LEMMA QuotientGrows ==
  ASSUME NEW a \in Int, NEW b \in Int, NEW d \in Nat \ {0}, a >= b
  PROVE  a \div d >= b \div d
<1>1. PICK p \in Int : p = a \div d /\ a < d * p + d
  BY Quotient
<1>2. PICK q \in Int : q = b \div d /\ d * q <= b
  BY Quotient
<1>3. ASSUME p < q PROVE FALSE
  <2>1. d * q >= d * (p + 1)
    <3>1. q - (p + 1) \in Nat
      BY <1>3
    <3>2. d * (q - (p + 1)) \in Nat
      BY <3>1
    <3> QED BY <3>2
  <2>2. d * (p + 1) = d * p + d
    OBVIOUS
  <2> QED BY <1>1, <1>2, <2>1, <2>2
<1> QED BY <1>1, <1>2, <1>3

-----------------------------------------------------------------------------
(* What is kept and what is deleted.                                       *)

Holding ==
  /\ rows \in [Table -> SUBSET (1..Ticks)] /\ lost \in [Table -> 0..Ticks]
  /\ today \in 0..Ticks /\ since \in 0..today
  /\ \A t \in Table : lost[t] <= today /\ \A r \in rows[t] : r <= today

\* Of two sets of rows the first is the older.
Before(S, T) == \A s \in S : \A r \in T : s < r

StoreInv == Holding /\ OldestFirst /\ TogetherOrNot

\* A statement deletes the oldest rows of a table.
DeletesOldest(t, gone) ==
  /\ t \in Table /\ gone \subseteq rows[t] /\ Before(gone, rows[t] \ gone)
  /\ Delete(t, gone)

\* What a table has then and what the newest is that it has lost.
LEMMA Deleted ==
  ASSUME Holding, NEW t, NEW gone, DeletesOldest(t, gone)
  PROVE  /\ \A u \in Table : u # t => rows'[u] = rows[u] /\ lost'[u] = lost[u]
         /\ rows'[t] = rows[t] \ gone
         /\ lost'[t] \in gone \cup {lost[t]} /\ lost[t] <= lost'[t]
         /\ \A g \in gone : g <= lost'[t]
         /\ rows' \in [Table -> SUBSET (1..Ticks)] /\ lost' \in [Table -> 0..Ticks]
<1> DEFINE S == gone \cup {lost[t]}
<1>0. Ticks \in Nat
  BY RetentionAssumption
<1>1. /\ t \in Table /\ gone \subseteq rows[t] /\ lost[t] \in 0..Ticks
      /\ rows[t] \subseteq 1..Ticks
      /\ rows' = [rows EXCEPT ![t] = rows[t] \ gone]
      /\ lost' = [lost EXCEPT ![t] = Max(S)]
  BY DEF DeletesOldest, Delete, Holding
<1>2. S \subseteq 0..Ticks /\ S # {}
  BY <1>0, <1>1
<1>3. Max(S) \in S /\ \A y \in S : y <= Max(S)
  <2> HIDE DEF S
  <2> QED BY <1>0, <1>2, GreatestOf, Zenon
<1>4. lost'[t] = Max(S) /\ lost[t] \in S
  BY <1>1 DEF Holding
<1>5. /\ \A u \in Table : u # t => rows'[u] = rows[u] /\ lost'[u] = lost[u]
      /\ rows'[t] = rows[t] \ gone
      /\ rows' \in [Table -> SUBSET (1..Ticks)]
  BY <1>1 DEF Holding
<1>6. lost' \in [Table -> 0..Ticks]
  <2>1. Max(S) \in 0..Ticks
    BY <1>2, <1>3, Zenon
  <2> HIDE DEF S
  <2> QED BY <1>1, <2>1 DEF Holding
<1> QED
  BY <1>3, <1>4, <1>5, <1>6

\* Then no table has a row that is older than one it has lost, and the rows of
\* a cycle are still together.
LEMMA DeletedStore ==
  ASSUME StoreInv, NEW t, NEW gone, DeletesOldest(t, gone), today' = today, since' = since
  PROVE  StoreInv'
<1>0. Holding /\ t \in Table /\ gone \subseteq rows[t] /\ Before(gone, rows[t] \ gone)
  BY DEF StoreInv, DeletesOldest
<1>1. /\ \A u \in Table : u # t => rows'[u] = rows[u] /\ lost'[u] = lost[u]
      /\ rows'[t] = rows[t] \ gone
      /\ lost'[t] \in gone \cup {lost[t]} /\ lost[t] <= lost'[t]
      /\ \A g \in gone : g <= lost'[t]
      /\ rows' \in [Table -> SUBSET (1..Ticks)] /\ lost' \in [Table -> 0..Ticks]
  BY <1>0, Deleted
<1>2. Holding'
  <2>1. ASSUME NEW u \in Table PROVE lost'[u] <= today /\ \A r \in rows'[u] : r <= today
    BY <1>0, <1>1 DEF Holding
  <2> QED BY <1>0, <1>1, <2>1 DEF Holding
<1>3. OldestFirst'
  <2>1. ASSUME NEW u \in Table, NEW r \in rows'[u] PROVE lost'[u] < r
    <3>1. CASE u = t
      <4>1. r \in rows[t] \ gone /\ lost[t] < r
        BY <1>0, <1>1, <2>1, <3>1 DEF StoreInv, OldestFirst
      <4>2. \A g \in gone : g < r
        BY <1>0, <4>1 DEF Before
      <4> QED BY <1>1, <3>1, <4>1, <4>2
    <3>2. CASE u # t
      BY <1>1, <2>1, <3>2 DEF StoreInv, OldestFirst
    <3> QED BY <3>1, <3>2
  <2> QED BY <2>1 DEF OldestFirst
<1>4. TogetherOrNot'
  <2>1. ASSUME NEW u \in Table PROVE lost[u] <= lost'[u] /\ \A g \in rows[u] \ rows'[u] : g <= lost'[u]
    BY <1>0, <1>1, <2>1 DEF Holding
  <2> DEFINE M == Max({lost["metrics"], lost["cores"]})
             N == Max({lost'["metrics"], lost'["cores"]})
  <2>2. "metrics" \in Table /\ "cores" \in Table
    BY DEF Table
  <2>3. lost["metrics"] <= M /\ lost["cores"] <= M /\ M \in {lost["metrics"], lost["cores"]}
    <3>1. {lost["metrics"], lost["cores"]} \subseteq 0..Ticks /\ Ticks \in Nat
      BY <1>0, <2>2, RetentionAssumption DEF Holding
    <3> QED BY <3>1, GreatestOf
  <2>4. /\ lost'["metrics"] <= N /\ lost'["cores"] <= N /\ N \in 0..Ticks
        /\ N \in {lost'["metrics"], lost'["cores"]}
    <3>1. {lost'["metrics"], lost'["cores"]} \subseteq 0..Ticks /\ Ticks \in Nat
      BY <1>1, <2>2, RetentionAssumption
    <3> QED BY <3>1, GreatestOf
  <2>5. ASSUME NEW r \in rows'["metrics"] \cup rows'["cores"], r > N
        PROVE  r \in rows'["metrics"] \cap rows'["cores"]
    <3>1. r \in rows["metrics"] \cup rows["cores"] /\ r \in Nat
      BY <1>0, <1>1, <2>2 DEF Holding
    <3>2. M <= N /\ M \in Nat
      BY <1>0, <1>1, <2>1, <2>2, <2>3, <2>4 DEF Holding
    <3>3. r > M
      BY <2>4, <2>5, <3>1, <3>2
    <3>4. r \in rows["metrics"] \cap rows["cores"]
      BY <3>1, <3>3 DEF StoreInv, TogetherOrNot
    <3>5. ~(r <= lost'["metrics"]) /\ ~(r <= lost'["cores"])
      BY <1>1, <2>2, <2>4, <2>5, <3>1
    <3> QED BY <2>1, <2>2, <3>4, <3>5
  <2> QED BY <2>5 DEF TogetherOrNot
<1> QED
  BY <1>2, <1>3, <1>4 DEF StoreInv

\* Rows past their retention are older than the others, and only the log's are
\* less than a day short of it.
LEMMA ExpiredAreOldest ==
  ASSUME Holding, NEW t \in Table
  PROVE  /\ Expired(t) \subseteq rows[t] /\ Before(Expired(t), rows[t] \ Expired(t))
         /\ \A r \in rows[t] \ Expired(t) : r >= today - Days[t]
         /\ \A r \in Expired(t) : r < today - Days[t] + Early(t)
<1>1. today \in Int /\ Days[t] \in Nat /\ rows[t] \subseteq Nat /\ DayLength \in Nat \ {0}
  BY RetentionAssumption DEF Holding
<1>2. PICK c \in Int : c = today - Days[t]
  BY <1>1
<1>3. \A r \in rows[t] : r \in Int
  BY <1>1
<1>4. Expired(t) = {r \in rows[t] : LessAsText(t, r, c)}
  BY <1>2 DEF Expired
<1>5. CASE t # "log"
  <2>1. Early(t) = 0 /\ Expired(t) = {r \in rows[t] : r < c}
    BY <1>4, <1>5 DEF Early, LessAsText
  <2> QED BY <1>2, <1>3, <2>1 DEF Before
<1>6. CASE t = "log"
  <2>1. Early(t) = DayLength /\ Expired(t) = {r \in rows[t] : DayOf(r) <= DayOf(c)}
    BY <1>4, <1>6 DEF Early, LessAsText
  <2>2. \A r \in rows[t] : DayOf(r) \in Int
    BY <1>1, <1>3, Quotient DEF DayOf
  <2>3. PICK e \in Int : e = DayOf(c) /\ DayLength * e <= c /\ c < DayLength * e + DayLength
    BY <1>1, <1>2, Quotient DEF DayOf
  <2>4. ASSUME NEW r \in Expired(t) PROVE r < c + DayLength
    <3>1. PICK d \in Int : d = DayOf(r) /\ r < DayLength * d + DayLength /\ d <= e
      BY <1>1, <1>3, <2>1, <2>3, <2>4, Quotient DEF DayOf
    <3>2. DayLength * d <= DayLength * e
      <4>1. DayLength * (e - d) \in Nat
        BY <1>1, <3>1
      <4>2. DayLength * (e - d) = DayLength * e - DayLength * d
        BY <1>1, <3>1
      <4> QED BY <1>1, <4>1, <4>2
    <3>3. r \in Int /\ DayLength * d \in Int /\ DayLength * e \in Int /\ DayLength \in Int
      BY <1>1, <1>3, <2>1
    <3> QED BY <2>3, <3>1, <3>2, <3>3
  <2>5. ASSUME NEW r \in rows[t] \ Expired(t) PROVE r >= c
    <3>1. r \in Int /\ ~(DayOf(r) <= e)
      BY <1>3, <2>1, <2>3
    <3>2. CASE r < c
      BY <1>1, <1>2, <2>2, <2>3, <3>1, <3>2, QuotientGrows DEF DayOf
    <3> QED BY <3>1, <3>2
  <2>6. ASSUME NEW r \in Expired(t), NEW s \in rows[t] \ Expired(t) PROVE r < s
    <3>1. r \in Int /\ s \in Int /\ DayOf(r) \in Int /\ DayOf(s) \in Int /\ DayOf(r) < DayOf(s)
      BY <1>3, <2>1, <2>2, <2>3
    <3>2. CASE r >= s
      BY <1>1, <3>1, <3>2, QuotientGrows DEF DayOf
    <3> QED BY <3>1, <3>2
  <2> QED BY <1>2, <2>1, <2>4, <2>5, <2>6 DEF Before
<1> QED
  BY <1>5, <1>6

\* So are the first n.
LEMMA FirstAreOldest ==
  ASSUME Holding, NEW t \in Table, NEW n \in Nat
  PROVE  Oldest(t, n) \subseteq rows[t] /\ Before(Oldest(t, n), rows[t] \ Oldest(t, n))
<1> DEFINE R == rows[t]  Rank(r) == Cardinality({s \in R : s < r})
<1>1. R \subseteq Nat /\ IsFiniteSet(R)
  <2>1. R \subseteq 1..Ticks /\ Ticks \in Nat
    BY RetentionAssumption DEF Holding
  <2>2. IsFiniteSet(1..Ticks) /\ R \in SUBSET (1..Ticks)
    BY <2>1, FS_Interval
  <2> HIDE DEF R
  <2>3. IsFiniteSet(R)
    BY <2>2, FS_Subset, Zenon
  <2> QED BY <2>1, <2>3
<1>2. ASSUME NEW a \in R, NEW b \in R, Rank(a) < n, ~(Rank(b) < n) PROVE a < b
  <2> SUFFICES ASSUME ~(a < b) PROVE FALSE
    OBVIOUS
  <2>1. b <= a
    BY <1>1
  <2> DEFINE A == {s \in R : s < a}  B == {s \in R : s < b}
  <2>2. B \subseteq A /\ A \subseteq R
    BY <1>1, <2>1
  <2>3. IsFiniteSet(A) /\ IsFiniteSet(B) /\ Cardinality(B) <= Cardinality(A)
    <3> HIDE DEF A, B
    <3> QED BY <1>1, <2>2, FS_Subset
  <2>4. Cardinality(A) \in Nat /\ Cardinality(B) \in Nat
    <3> HIDE DEF A, B
    <3> QED BY <2>3, FS_CardinalityType
  <2>5. Cardinality(A) < n /\ ~(Cardinality(B) < n)
    BY <1>2
  <2> HIDE DEF A, B
  <2> QED BY <2>3, <2>4, <2>5
<1>3. Oldest(t, n) = {r \in R : Rank(r) < n}
  BY DEF Oldest
<1> HIDE DEF R, Rank
<1>4. Oldest(t, n) \subseteq R /\ Before(Oldest(t, n), R \ Oldest(t, n))
  BY <1>2, <1>3 DEF Before
<1> QED
  BY <1>4 DEF R

\* There are n of them, when there are as many rows.
LEMMA FirstCount ==
  ASSUME NEW R, R \subseteq Nat, IsFiniteSet(R), NEW n \in Nat, n <= Cardinality(R)
  PROVE  n <= Cardinality({r \in R : Cardinality({s \in R : s < r}) < n})
<1> DEFINE Lower(r) == {s \in R : s < r}  G == {r \in R : Cardinality(Lower(r)) < n}
<1>0. Cardinality(R) \in Nat
  BY FS_CardinalityType
<1>1. CASE G = R
  BY <1>1
<1>2. CASE G # R
  <2>1. R \ G \subseteq Nat /\ R \ G # {} /\ G \subseteq R
    BY <1>2
  <2>2. PICK x \in R \ G : \A y \in R \ G : x <= y
    <3> HIDE DEF G
    <3> QED BY <2>1, LeastOf, Zenon
  <2>3. Lower(x) \subseteq G
    <3> SUFFICES ASSUME NEW s \in R, s < x, s \notin G PROVE FALSE
      OBVIOUS
    <3>1. x <= s /\ x \in Nat /\ s \in Nat
      BY <2>2
    <3> QED BY <3>1
  <2>4. IsFiniteSet(G)
    <3> HIDE DEF G
    <3> QED BY <2>1, FS_Subset
  <2>5. Cardinality(Lower(x)) <= Cardinality(G) /\ IsFiniteSet(Lower(x))
    <3> HIDE DEF G, Lower
    <3> QED BY <2>3, <2>4, FS_Subset
  <2>6. ~(Cardinality(Lower(x)) < n)
    BY <2>2
  <2>7. Cardinality(Lower(x)) \in Nat /\ Cardinality(G) \in Nat
    <3> HIDE DEF G, Lower
    <3> QED BY <2>4, <2>5, FS_CardinalityType
  <2> HIDE DEF Lower
  <2>8. n <= Cardinality(G)
    <3> HIDE DEF G
    <3> QED BY <2>5, <2>6, <2>7
  <2> QED BY <2>8 DEF Lower
<1> QED
  BY <1>1, <1>2

-----------------------------------------------------------------------------
(* The pages of the rows.                                                  *)

\* Held, of rows that need not be the ones the tables have.
PagesOf(f, tables) == Cardinality(UNION {{t} \X f[t] : t \in tables})
AsRows(f) == f \in [Table -> SUBSET (1..Ticks)]

\* Held is the pages of the rows the tables have.
LEMMA HeldIs == \A T : Held(T) = PagesOf(rows, T)
  BY DEF Held, RowsOf, PagesOf

\* A table has finitely many rows.
LEMMA RowsFinite ==
  ASSUME NEW f, AsRows(f), NEW t \in Table
  PROVE  IsFiniteSet(f[t]) /\ Cardinality(f[t]) \in Nat /\ f[t] \subseteq Nat
<1>1. f[t] \in SUBSET (1..Ticks) /\ Ticks \in Nat
  BY RetentionAssumption DEF AsRows
<1>2. IsFiniteSet(1..Ticks)
  BY <1>1, FS_Interval
<1>3. IsFiniteSet(f[t])
  BY <1>1, <1>2, FS_Subset, Zenon
<1> QED
  BY <1>1, <1>3, FS_CardinalityType

\* So do some tables.
LEMMA PagesFinite ==
  ASSUME NEW f, AsRows(f), NEW T, T \subseteq Table
  PROVE  IsFiniteSet(UNION {{t} \X f[t] : t \in T}) /\ PagesOf(f, T) \in Nat
<1>1. Ticks \in Nat /\ IsFiniteSet(1..Ticks)
  BY RetentionAssumption, FS_Interval
<1>2. IsFiniteSet(Table)
  <2>1. ASSUME NEW S, IsFiniteSet(S), NEW x PROVE IsFiniteSet(S \cup {x})
    BY <2>1, FS_AddElement, Zenon
  <2>3. IsFiniteSet({"metrics"})
    BY FS_Singleton, Zenon
  <2>4. IsFiniteSet({"metrics"} \cup {"cores"} \cup {"speeds"} \cup {"log"} \cup {"alerts"})
    BY <2>1, <2>3, Zenon
  <2>2. Table = {"metrics"} \cup {"cores"} \cup {"speeds"} \cup {"log"} \cup {"alerts"}
    BY DEF Table
  <2> QED BY <2>2, <2>4
<1> DEFINE all == Table \X (1..Ticks)  some == UNION {{t} \X f[t] : t \in T}
<1>3. IsFiniteSet(all)
  BY <1>1, <1>2, FS_Product, Zenon
<1>4. some \subseteq all
  BY DEF AsRows
<1> HIDE DEF all, some
<1>5. IsFiniteSet(some)
  BY <1>3, <1>4, FS_Subset
<1>6. Cardinality(some) \in Nat
  BY <1>5, FS_CardinalityType
<1> QED
  BY <1>5, <1>6 DEF PagesOf, some

\* A table's pages are its rows.
LEMMA PagesOfOne ==
  ASSUME NEW f, AsRows(f), NEW T, T \subseteq Table, NEW t \in T
  PROVE  PagesOf(f, T) = Cardinality(f[t]) + PagesOf(f, T \ {t})
<1> DEFINE one == {t} \X f[t]  rest == UNION {{u} \X f[u] : u \in T \ {t}}
           whole == UNION {{u} \X f[u] : u \in T}
<1>1. whole = one \cup rest /\ one \cap rest = {}
  <2>1. whole = one \cup rest
    OBVIOUS
  <2>2. one \cap rest = {}
    OBVIOUS
  <2> QED BY <2>1, <2>2, Zenon
<1>2. IsFiniteSet(rest) /\ Cardinality(rest) = PagesOf(f, T \ {t})
      /\ PagesOf(f, T \ {t}) \in Nat
  <2>1. T \ {t} \subseteq Table
    OBVIOUS
  <2> QED BY <2>1, PagesFinite, Zenon DEF PagesOf
<1>3. IsFiniteSet(one) /\ Cardinality(one) = Cardinality(f[t]) /\ Cardinality(f[t]) \in Nat
  <2>1. IsFiniteSet(f[t]) /\ Cardinality(f[t]) \in Nat
    BY RowsFinite
  <2>2. IsFiniteSet({t}) /\ Cardinality({t}) = 1
    BY FS_Singleton, Zenon
  <2>3. IsFiniteSet(one) /\ Cardinality(one) = Cardinality({t}) * Cardinality(f[t])
    BY <2>1, <2>2, FS_Product, Zenon
  <2> QED BY <2>1, <2>2, <2>3
<1>4. Cardinality(whole) = PagesOf(f, T)
  BY DEF PagesOf
<1> HIDE DEF one, rest, whole
<1>5. Cardinality(whole) = Cardinality(one) + Cardinality(rest) - Cardinality({})
  BY <1>1, <1>2, <1>3, FS_Union
<1>6. Cardinality({}) = 0
  BY FS_EmptySet
<1> QED
  BY <1>2, <1>3, <1>4, <1>5, <1>6

\* More rows are more pages.
LEMMA PagesGrow ==
  ASSUME NEW f, AsRows(f), NEW g, AsRows(g), NEW T, T \subseteq Table,
         \A t \in T : f[t] \subseteq g[t]
  PROVE  PagesOf(f, T) <= PagesOf(g, T)
<1> DEFINE F == UNION {{t} \X f[t] : t \in T}  G == UNION {{t} \X g[t] : t \in T}
<1>1. F \subseteq G
  OBVIOUS
<1>2. IsFiniteSet(G)
  BY PagesFinite, Zenon
<1> HIDE DEF F, G
<1>3. Cardinality(F) <= Cardinality(G)
  BY <1>1, <1>2, FS_Subset
<1> QED
  BY <1>3 DEF F, G, PagesOf

\* Of no tables there are none.
LEMMA PagesOfNone == \A f : PagesOf(f, {}) = 0
<1> SUFFICES ASSUME NEW f PROVE PagesOf(f, {}) = 0
  OBVIOUS
<1>1. UNION {{t} \X f[t] : t \in {}} = {}
  OBVIOUS
<1>2. Cardinality({}) = 0
  BY FS_EmptySet
<1> QED
  BY <1>1, <1>2, Zenon DEF PagesOf

\* A round deletes more than a share of every table that has a row.
LEMMA TrimShare ==
  ASSUME Holding, NEW t \in Table, NEW n, n = Cardinality(rows[t]),
         NEW gone, gone = Oldest(t, n \div Share + 1)
  PROVE  /\ Cardinality(gone) \in Nat
         /\ n <= Share * Cardinality(gone)
         /\ Cardinality(gone) > 0 => n < Share * Cardinality(gone)
<1>1. AsRows(rows)
  BY DEF Holding, AsRows
<1>2. IsFiniteSet(rows[t]) /\ n \in Nat /\ rows[t] \subseteq Nat
  BY <1>1, RowsFinite
<1>3. Share \in Nat /\ Share >= 2
  BY RetentionAssumption
<1>4. PICK q \in Nat, r \in 0..Share - 1 : n \div Share = q /\ n = Share * q + r
  <2>1. ASSUME NEW a \in Nat, NEW b \in Nat \ {0}
        PROVE  a \div b \in Nat /\ a % b \in 0..b - 1 /\ a = b * (a \div b) + (a % b)
    OBVIOUS
  <2>2. Share \in Nat \ {0}
    BY <1>3
  <2> QED BY <1>2, <2>1, <2>2, Zenon
<1> DEFINE c == Cardinality(gone)
<1>5. gone = {x \in rows[t] : Cardinality({s \in rows[t] : s < x}) < q + 1}
  BY <1>4 DEF Oldest
<1>6. gone \in SUBSET rows[t]
  BY <1>5
<1>7. c \in Nat /\ c <= n
  <2>1. IsFiniteSet(gone) /\ Cardinality(gone) <= Cardinality(rows[t])
    BY <1>2, <1>6, FS_Subset, Zenon
  <2> QED BY <2>1, FS_CardinalityType
<1> HIDE DEF c
<1>8. CASE n = 0
  <2>1. c = 0
    BY <1>7, <1>8
  <2> QED BY <1>3, <1>8, <2>1 DEF c
<1>9. CASE n > 0
  <2>1. q + 1 <= n
    <3>1. CASE q = 0
      BY <1>2, <1>9, <3>1
    <3>2. CASE q > 0
      <4>1. Share * q >= 2 * q
        BY <1>3
      <4>2. n >= 2 * q
        BY <1>3, <1>4, <4>1
      <4> QED BY <1>2, <3>2, <4>2
    <3> QED BY <3>1, <3>2
  <2>2. q + 1 <= c
    <3>1. q + 1 \in Nat
      OBVIOUS
    <3> QED BY <1>2, <1>5, <2>1, <3>1, FirstCount DEF c
  <2>3. Share * c >= Share * (q + 1)
    BY <1>3, <1>7, <2>2
  <2>4. Share * (q + 1) = Share * q + Share
    BY <1>3
  <2>5. n < Share * c
    BY <1>2, <1>3, <1>4, <1>7, <2>3, <2>4
  <2> QED BY <1>2, <1>3, <1>7, <2>5 DEF c
<1> QED
  BY <1>2, <1>7, <1>8, <1>9 DEF c

-----------------------------------------------------------------------------
(* The steps of the loop and of a cleanup.                                 *)

\* Of what is written there are new rows only.
LEMMA WrittenRows ==
  ASSUME StoreInv, Write
  PROVE  /\ today' = today + 1 /\ today' \in 0..Ticks /\ lost' = lost /\ since' = since
         /\ rows' \in [Table -> SUBSET (1..Ticks)]
         /\ \A t \in Table : rows[t] \subseteq rows'[t] /\ rows'[t] \subseteq rows[t] \cup {today'}
         /\ today' \in rows'["metrics"] \cup rows'["cores"]
              => today' \in rows'["metrics"] \cap rows'["cores"]
<1>1. PICK m \in store_metrics, v \in store_velocity_data, o \in OtherWrites :
        rows' = [t \in Table |->
                   IF t \in m \cup v \cup o THEN rows[t] \cup {today'} ELSE rows[t]]
  BY DEF Write
<1>2. /\ today < Ticks /\ today' = today + 1 /\ lost' = lost /\ since' = since
      /\ today \in 0..Ticks /\ Ticks \in Nat
  BY RetentionAssumption DEF Write, StoreInv, Holding
<1>3. today' \in 1..Ticks
  BY <1>2
<1>4. ASSUME NEW t \in Table
      PROVE  /\ rows[t] \subseteq rows'[t] /\ rows'[t] \subseteq rows[t] \cup {today'}
             /\ rows'[t] \in SUBSET (1..Ticks)
  BY <1>1, <1>3 DEF StoreInv, Holding
<1>5. today' \notin rows["metrics"] \cup rows["cores"]
  BY <1>2 DEF StoreInv, Holding, Table
<1>6. today' \in rows'["metrics"] \cup rows'["cores"]
        => today' \in rows'["metrics"] \cap rows'["cores"]
  <2>1. "metrics" \in Table /\ "cores" \in Table
    BY DEF Table
  <2>2. "metrics" \notin v \cup o /\ "cores" \notin v \cup o
    BY DEF store_velocity_data, OtherWrites
  <2>3. m = {} \/ m = {"metrics", "cores"}
    BY DEF store_metrics
  <2> QED BY <1>1, <1>5, <2>1, <2>2, <2>3
<1>7. rows' \in [Table -> SUBSET (1..Ticks)]
  BY <1>1, <1>4
<1> QED
  BY <1>2, <1>3, <1>4, <1>6, <1>7

\* What a statement deletes.
Deletion(t, gone) ==
  DeletesOldest(t, gone) /\ UNCHANGED <<today, pages, since, held>>

\* The table a round trims next is one of those ahead.
LEMMA TrimAhead ==
  ASSUME ahead # {}, ahead \subseteq Capped
  PROVE  FirstOf(ahead) \in ahead
<1>1. SIZE_CAPPED_TABLES[1] = "metrics" /\ SIZE_CAPPED_TABLES[2] = "speeds"
      /\ SIZE_CAPPED_TABLES[3] = "cores"
  BY DEF SIZE_CAPPED_TABLES
<1> DEFINE P(i) == /\ SIZE_CAPPED_TABLES[i] \in ahead
                   /\ \A j \in 1..i - 1 : SIZE_CAPPED_TABLES[j] \notin ahead
<1>2. \E i \in 1..3 : P(i)
  <2>1. CASE SIZE_CAPPED_TABLES[1] \in ahead
    BY <2>1
  <2>2. CASE SIZE_CAPPED_TABLES[1] \notin ahead /\ SIZE_CAPPED_TABLES[2] \in ahead
    BY <2>2
  <2>3. CASE SIZE_CAPPED_TABLES[1] \notin ahead /\ SIZE_CAPPED_TABLES[2] \notin ahead
    <3>1. SIZE_CAPPED_TABLES[3] \in ahead
      <4>1. PICK i \in 1..3 : SIZE_CAPPED_TABLES[i] \in ahead
        BY DEF Capped
      <4> QED BY <2>3, <4>1
    <3> QED BY <2>3, <3>1
  <2> QED BY <2>1, <2>2, <2>3
<1>3. P(CHOOSE i \in 1..3 : P(i))
  <2> HIDE DEF P
  <2> QED BY <1>2
<1> QED
  BY <1>3 DEF FirstOf

\* A step writes, deletes rows past their retention, trims a capped table, or
\* leaves the rows alone.
LEMMA StepOnRows ==
  ASSUME StoreInv, ahead \subseteq Table, statement = "trim" => ahead \subseteq Capped,
         [RetentionNext]_retentionVars
  PROVE  \/ Write
         \/ \E t \in Table : Deletion(t, Expired(t)) /\ statement # "trim"
         \/ \E t \in ahead : Deletion(t, Oldest(t, Cardinality(rows[t]) \div Share + 1)) /\ TrimTable
                             /\ t = FirstOf(ahead) /\ t \in Capped
         \/ UNCHANGED <<rows, lost, today>> /\ since' \in {since, today}
<1>0. Holding
  BY DEF StoreInv
<1>1. ASSUME NEW t \in Table, Delete(t, Expired(t)), UNCHANGED <<today, pages, since, held>>
      PROVE  Deletion(t, Expired(t))
  BY <1>0, <1>1, ExpiredAreOldest, Zenon DEF Deletion, DeletesOldest
<1>2. CASE cleanup_old_metrics
  BY <1>1, <1>2 DEF cleanup_old_metrics, Table, sizeVars
<1>3. CASE cleanup_old_alerts
  BY <1>1, <1>3 DEF cleanup_old_alerts, Table, sizeVars
<1>4. CASE cleanup_policy_tables
  <2>1. /\ statement = "policy" /\ UNCHANGED <<today, pages, since, held>>
        /\ \/ UNCHANGED <<rows, lost>>
           \/ \E t \in ahead : Delete(t, IF PolicyTable(t) THEN Expired(t) ELSE {})
    BY <1>4, Zenon DEF cleanup_policy_tables
  <2>3. CASE UNCHANGED <<rows, lost>>
    BY <2>1, <2>3
  <2>4. CASE \E t \in ahead : Delete(t, IF PolicyTable(t) THEN Expired(t) ELSE {})
    <3>1. PICK t \in ahead : Delete(t, IF PolicyTable(t) THEN Expired(t) ELSE {})
      BY <2>4
    <3>2. CASE PolicyTable(t)
      BY <1>1, <2>1, <3>1, <3>2
    <3>3. CASE ~PolicyTable(t)
      <4>1. t \in Table /\ Delete(t, {})
        BY <3>1, <3>3
      <4>2. rows' = rows
        BY <1>0, <4>1 DEF Delete, Holding
      <4>3. lost' = lost
        <5>1. lost[t] \in 0..Ticks /\ Ticks \in Nat /\ lost' = [lost EXCEPT ![t] = Max({lost[t]})]
          BY <1>0, <4>1, RetentionAssumption DEF Delete, Holding
        <5>2. Max({lost[t]}) \in {lost[t]}
          <6>1. {lost[t]} \subseteq 0..Ticks /\ {lost[t]} # {}
            BY <5>1
          <6> QED BY <5>1, <6>1, GreatestOf, Zenon
        <5> QED BY <1>0, <5>1, <5>2 DEF Holding
      <4> QED BY <2>1, <4>2, <4>3
    <3> QED BY <3>2, <3>3
  <2> QED BY <2>1, <2>3, <2>4
<1>5. CASE TrimTable
  <2> DEFINE t == FirstOf(ahead)  gone == Oldest(t, Cardinality(rows[t]) \div Share + 1)
  <2>1. /\ statement = "trim" /\ ahead # {} /\ Delete(t, gone)
        /\ UNCHANGED <<today, pages, since, held>>
    BY <1>5, Zenon DEF TrimTable
  <2>2. t \in ahead /\ t \in Capped /\ t \in Table
    BY <2>1, TrimAhead
  <2> HIDE DEF t
  <2>3. Cardinality(rows[t]) \div Share + 1 \in Nat
    <3>1. Cardinality(rows[t]) \in Nat
      BY <1>0, <2>2, RowsFinite DEF AsRows, Holding
    <3>2. ASSUME NEW a \in Nat, NEW b \in Nat \ {0} PROVE a \div b + 1 \in Nat
      OBVIOUS
    <3>3. Share \in Nat \ {0}
      BY RetentionAssumption
    <3> QED BY <3>1, <3>2, <3>3, Zenon
  <2>4. gone \subseteq rows[t] /\ Before(gone, rows[t] \ gone)
    BY <1>0, <2>2, <2>3, FirstAreOldest, Zenon
  <2> HIDE DEF gone
  <2>5. Deletion(t, gone)
    BY <2>1, <2>2, <2>4 DEF Deletion, DeletesOldest
  <2> QED
    BY <1>5, <2>2, <2>5, Zenon DEF t, gone
<1>6. CASE FetchPolicies \/ StatementFails \/ CheckSize \/ EndRound \/ vacuum_database
             \/ UNCHANGED retentionVars
  BY <1>6 DEF FetchPolicies, StatementFails, CheckSize, EndRound, vacuum_database, storeVars,
       retentionVars
<1>7. CASE BeginCleanup
  BY <1>7 DEF BeginCleanup, storeVars
<1> QED
  BY <1>2, <1>3, <1>4, <1>5, <1>6, <1>7, Zenon DEF RetentionNext

\* No step keeps a row older than one it deleted, or half a cycle.
LEMMA StoreStep ==
  ASSUME StoreInv, ahead \subseteq Table, statement = "trim" => ahead \subseteq Capped,
         [RetentionNext]_retentionVars
  PROVE  StoreInv'
<1>0. Holding
  BY DEF StoreInv
<1>1. CASE Write
  <2>1. /\ today' = today + 1 /\ today' \in 0..Ticks /\ lost' = lost /\ since' = since
        /\ rows' \in [Table -> SUBSET (1..Ticks)]
        /\ \A t \in Table : rows[t] \subseteq rows'[t] /\ rows'[t] \subseteq rows[t] \cup {today'}
        /\ today' \in rows'["metrics"] \cup rows'["cores"]
             => today' \in rows'["metrics"] \cap rows'["cores"]
    BY <1>1, WrittenRows
  <2>2. Holding'
    <3>1. since' \in 0..today'
      BY <1>0, <2>1 DEF Holding
    <3>2. ASSUME NEW t \in Table PROVE lost'[t] <= today' /\ \A r \in rows'[t] : r <= today'
      BY <1>0, <2>1 DEF Holding
    <3> QED BY <1>0, <2>1, <3>1, <3>2 DEF Holding
  <2>3. OldestFirst'
    <3>1. ASSUME NEW t \in Table, NEW r \in rows'[t] PROVE lost'[t] < r
      <4>1. CASE r \in rows[t]
        BY <2>1, <4>1 DEF StoreInv, OldestFirst
      <4>2. CASE r = today'
        BY <1>0, <2>1, <4>2 DEF Holding
      <4> QED BY <2>1, <3>1, <4>1, <4>2
    <3> QED BY <3>1 DEF OldestFirst
  <2>4. TogetherOrNot'
    <3>1. "metrics" \in Table /\ "cores" \in Table
      BY DEF Table
    <3>2. ASSUME NEW r \in rows'["metrics"] \cup rows'["cores"],
                 r > Max({lost'["metrics"], lost'["cores"]}), r # today'
          PROVE  r \in rows'["metrics"] \cap rows'["cores"]
      <4>1. r \in rows["metrics"] \cup rows["cores"]
        BY <2>1, <3>1, <3>2
      <4>2. r \in rows["metrics"] \cap rows["cores"]
        BY <2>1, <3>2, <4>1 DEF StoreInv, TogetherOrNot
      <4> QED BY <2>1, <3>1, <4>2
    <3> QED BY <2>1, <3>2 DEF TogetherOrNot
  <2> QED BY <2>2, <2>3, <2>4 DEF StoreInv
<1>2. ASSUME NEW t, NEW gone, Deletion(t, gone) PROVE StoreInv'
  BY <1>2, DeletedStore, Zenon DEF Deletion
<1>3. CASE UNCHANGED <<rows, lost, today>> /\ since' \in {since, today}
  <2>1. since' \in 0..today'
    BY <1>0, <1>3 DEF Holding
  <2> QED BY <1>3, <2>1 DEF StoreInv, Holding, OldestFirst, TogetherOrNot
<1> QED
  BY <1>1, <1>2, <1>3, StepOnRows

\* The size a cap goes by is over it when it trims.
AgeInv == AgedOutElsewhere /\ (statement = "trim" => held.all > MaxPages)

\* A step takes the size again only when it is over the cap.
LEMMA HeldStep ==
  ASSUME Holding, held \in [all : Nat, capped : Nat], pages \in Nat, [RetentionNext]_retentionVars
  PROVE  /\ held' = held \/ /\ statement = "check" /\ statement' = "trim" /\ ahead' = Capped /\ dropped' = 0
                            /\ held' = [all |-> Used, capped |-> Held(Capped)] /\ held'.all > MaxPages
         /\ statement' = "trim" => statement = "trim" \/ held'.all > MaxPages
<1>1. CASE CheckSize
  <2>1. Used \in Nat
    <3>1. AsRows(rows) /\ Schema \in Nat
      BY RetentionAssumption DEF Holding, AsRows
    <3>2. Held(Table) \in Nat
      BY <3>1, HeldIs, PagesFinite
    <3> QED BY <3>1, <3>2 DEF Used
  <2>2. live_db_bytes = Used /\ MaxPages \in Nat
    BY <2>1, RetentionAssumption DEF live_db_bytes, Freelist
  <2>3. CASE live_db_bytes <= MaxPages
    BY <1>1, <2>3 DEF CheckSize, Finish
  <2>4. CASE ~(live_db_bytes <= MaxPages)
    <3>1. /\ statement = "check" /\ statement' = "trim" /\ ahead' = Capped /\ dropped' = 0
          /\ held' = [all |-> Used, capped |-> Held(Capped)]
      BY <1>1, <2>4 DEF CheckSize
    <3>2. Used > MaxPages
      BY <2>1, <2>2, <2>4
    <3> QED BY <3>1, <3>2
  <2> QED BY <2>3, <2>4
<1>2. CASE \/ Write \/ BeginCleanup \/ StatementFails \/ cleanup_old_metrics \/ cleanup_old_alerts
           \/ FetchPolicies \/ TrimTable \/ EndRound \/ vacuum_database \/ UNCHANGED retentionVars
  BY <1>2 DEF Write, BeginCleanup, StatementFails, cleanup_old_metrics, cleanup_old_alerts,
       FetchPolicies, TrimTable, EndRound, vacuum_database, Finish, sizeVars, retentionVars
<1>3. CASE cleanup_policy_tables
  BY <1>3 DEF cleanup_policy_tables, Finish
<1> QED
  BY <1>1, <1>2, <1>3 DEF RetentionNext

\* No step loses a row of a table that is neither past its retention nor trimmed.
LEMMA AgeStep ==
  ASSUME StoreInv, AgeInv, ahead \subseteq Table, statement = "trim" => ahead \subseteq Capped,
         held \in [all : Nat, capped : Nat], pages \in Nat, [RetentionNext]_retentionVars
  PROVE  AgeInv'
<1>0. Holding /\ MaxPages \in Nat /\ Ticks \in Nat
  BY RetentionAssumption DEF StoreInv
<1>1. /\ held' = held \/ held'.all > MaxPages
      /\ statement' = "trim" => held'.all > MaxPages
  BY <1>0, HeldStep DEF AgeInv
<1>2. held.all > MaxPages => held'.all > MaxPages
  BY <1>1
<1>3. ASSUME NEW t \in Table, lost'[t] = lost[t], today' = today \/ today' = today + 1, lost'[t] > 0
      PROVE  lost'[t] < today' - Days[t] + Early(t) \/ (t \in Capped /\ held'.all > MaxPages)
  <2>1. lost[t] < today - Days[t] + Early(t) \/ (t \in Capped /\ held.all > MaxPages)
    BY <1>3 DEF AgeInv, AgedOutElsewhere
  <2>2. CASE lost[t] < today - Days[t] + Early(t)
    <3>1. lost[t] \in Int /\ today \in Int /\ Days[t] \in Int /\ Early(t) \in Int
      BY <1>0, RetentionAssumption DEF Holding, Early
    <3>2. lost'[t] < today' - Days[t] + Early(t)
      BY <1>3, <2>2, <3>1
    <3> QED BY <3>2
  <2>3. CASE t \in Capped /\ held.all > MaxPages
    BY <1>2, <2>3
  <2> QED BY <2>1, <2>2, <2>3
<1>4. CASE Write
  <2>1. lost' = lost /\ today' = today + 1
    BY <1>4, WrittenRows
  <2> QED BY <1>1, <1>3, <2>1 DEF AgeInv, AgedOutElsewhere
<1>5. ASSUME NEW t \in Table, NEW gone, Deletion(t, gone),
             (\A r \in gone : r < today - Days[t] + Early(t)) \/ (t \in Capped /\ held.all > MaxPages)
      PROVE  AgeInv'
  <2>1. today' = today /\ DeletesOldest(t, gone)
    BY <1>5 DEF Deletion
  <2>2. /\ \A u \in Table : u # t => lost'[u] = lost[u]
        /\ lost'[t] \in gone \cup {lost[t]}
    BY <1>0, <2>1, Deleted
  <2>3. ASSUME NEW u \in Table, lost'[u] > 0
        PROVE  lost'[u] < today' - Days[u] + Early(u) \/ (u \in Capped /\ held'.all > MaxPages)
    <3>1. CASE u = t /\ lost'[t] \in gone /\ (\A r \in gone : r < today - Days[t] + Early(t))
      BY <2>1, <3>1
    <3>2. CASE u = t /\ t \in Capped /\ held.all > MaxPages
      BY <1>2, <3>2
    <3>3. CASE lost'[u] = lost[u]
      BY <1>3, <2>1, <2>3, <3>3, Zenon
    <3> QED BY <1>5, <2>2, <3>1, <3>2, <3>3, Zenon
  <2> QED BY <1>1, <2>3, Zenon DEF AgeInv, AgedOutElsewhere
<1>6. ASSUME NEW t \in Table, Deletion(t, Expired(t)) PROVE AgeInv'
  BY <1>0, <1>5, <1>6, ExpiredAreOldest, Zenon
<1>7. ASSUME NEW t \in ahead, Deletion(t, Oldest(t, Cardinality(rows[t]) \div Share + 1)), TrimTable, t \in Capped
      PROVE  AgeInv'
  <2>1. t \in Table /\ held.all > MaxPages
    BY <1>7 DEF AgeInv, TrimTable
  <2> QED BY <1>5, <1>7, <2>1, Zenon
<1>8. CASE UNCHANGED <<rows, lost, today>>
  BY <1>1, <1>3, <1>8 DEF AgeInv, AgedOutElsewhere
<1> QED
  BY <1>4, <1>6, <1>7, <1>8, StepOnRows

-----------------------------------------------------------------------------
(* What a cleanup leaves.                                                  *)

\* No row of the table was past its retention when the cleanup began.
Kept(t) == \A r \in rows[t] : r >= since - Days[t]

\* The tables a cleanup has been through.
Swept ==
  {t \in Governed :
     \/ statement \in {"check", "trim"}
     \/ statement \in Ended /\ outcome \notin {"none", "failed"}
     \/ statement = "alerts" /\ t = "metrics"
     \/ statement = "policies" /\ t \in {"metrics", "alerts"}
     \/ statement = "policy" /\ (t \in {"metrics", "alerts"} \/ t \notin ahead)}

\* A cleanup has an outcome when it has ended.
CleanInv ==
  /\ \A t \in Swept : Kept(t)
  /\ outcome # "none" => statement \in Ended

\* No step brings an old row back.
LEMMA KeptStep ==
  ASSUME StoreInv, ahead \subseteq Table, statement = "trim" => ahead \subseteq Capped,
         [RetentionNext]_retentionVars, since' = since, NEW t \in Table, Kept(t)
  PROVE  Kept(t)'
<1>0. Holding
  BY DEF StoreInv
<1>1. \A r \in rows'[t] : r \in rows[t] \/ (r = today' /\ today' = today + 1)
  <2>1. CASE Write
    BY <2>1, WrittenRows
  <2>2. ASSUME NEW u, NEW gone, Deletion(u, gone) PROVE rows'[t] \subseteq rows[t]
    <3>1. DeletesOldest(u, gone)
      BY <2>2 DEF Deletion
    <3>2. (t # u => rows'[t] = rows[t]) /\ rows'[u] = rows[u] \ gone
      BY <1>0, <3>1, Deleted
    <3> QED BY <3>2
  <2>3. CASE UNCHANGED <<rows, lost, today>>
    BY <2>3
  <2> QED BY <2>1, <2>2, <2>3, StepOnRows
<1>2. since \in Int /\ Days[t] \in Nat /\ today \in Int /\ since <= today /\ since - Days[t] \in Int
  BY <1>0, RetentionAssumption DEF Holding
<1>3. ASSUME NEW r \in rows'[t] PROVE r >= since - Days[t]
  <2>1. CASE r \in rows[t]
    BY <2>1 DEF Kept
  <2>2. CASE r = today + 1
    BY <1>2, <2>2
  <2> QED BY <1>1, <2>1, <2>2
<1> QED
  BY <1>3 DEF Kept

\* The statement for a table leaves none of its old rows.
LEMMA SweptStep ==
  ASSUME StoreInv, NEW t \in Table, Delete(t, Expired(t)), today' = today, since' = since
  PROVE  Kept(t)'
<1>0. Holding
  BY DEF StoreInv
<1>1. rows'[t] = rows[t] \ Expired(t)
  BY <1>0 DEF Delete, Holding
<1>2. \A r \in rows'[t] : r >= today - Days[t] /\ r \in Int
  <2>1. \A r \in rows[t] \ Expired(t) : r >= today - Days[t]
    BY <1>0, ExpiredAreOldest
  <2>2. \A r \in rows[t] : r \in Int
    BY <1>0, RetentionAssumption DEF Holding
  <2> QED BY <1>1, <2>1, <2>2
<1>3. since \in Int /\ Days[t] \in Nat /\ today \in Int /\ since <= today
  BY <1>0, RetentionAssumption DEF Holding
<1> QED
  BY <1>2, <1>3 DEF Kept

\* What a step adds to the tables a cleanup has been through.
LEMMA SweptGrows ==
  ASSUME CleanInv, ahead \subseteq Table, [RetentionNext]_retentionVars
  PROVE  /\ ~BeginCleanup => \A t \in Swept' : t \in Swept \/ (Delete(t, Expired(t)) /\ UNCHANGED <<today, since>>)
         /\ BeginCleanup => Swept' = {}
         /\ BeginCleanup \/ since' = since
         /\ outcome' # "none" => statement' \in Ended
<1>1. CASE Write \/ UNCHANGED retentionVars
  <2>1. UNCHANGED <<statement, ahead, outcome, since>>
    BY <1>1 DEF Write, retentionVars, sizeVars
  <2>2. Swept' = Swept /\ (outcome' # "none" => statement' \in Ended)
    BY <2>1 DEF Swept, CleanInv, Governed, Ended
  <2>3. BeginCleanup => Swept' = {}
    BY DEF BeginCleanup, Swept, Ended
  <2> QED BY <2>1, <2>2, <2>3
<1>2. CASE BeginCleanup
  BY <1>2 DEF BeginCleanup, Swept, Ended
<1>3. CASE StatementFails
  BY <1>3 DEF StatementFails, Finish, Swept, Ended, BeginCleanup
<1>4. CASE cleanup_old_metrics
  <2>1. /\ statement = "metrics" /\ statement' = "alerts" /\ Delete("metrics", Expired("metrics"))
        /\ today' = today /\ since' = since /\ outcome' = outcome
    BY <1>4 DEF cleanup_old_metrics
  <2>2. \A t \in Swept' : t = "metrics" \/ t \in Swept
    BY <2>1 DEF Swept, Ended
  <2> QED BY <2>1, <2>2 DEF CleanInv, BeginCleanup, Ended
<1>5. CASE cleanup_old_alerts
  <2>1. /\ statement = "alerts" /\ statement' = "policies" /\ Delete("alerts", Expired("alerts"))
        /\ today' = today /\ since' = since /\ outcome' = outcome
    BY <1>5 DEF cleanup_old_alerts
  <2>2. \A t \in Swept' : t = "alerts" \/ t \in Swept
    BY <2>1 DEF Swept, Ended, Governed
  <2> QED BY <2>1, <2>2 DEF CleanInv, BeginCleanup, Ended
<1>6. CASE FetchPolicies
  <2>1. /\ statement = "policies" /\ statement' = "policy" /\ ahead' = Enabled
        /\ today' = today /\ since' = since /\ outcome' = outcome
    BY <1>6 DEF FetchPolicies, storeVars
  <2>2. \A t \in Swept' : t \in Swept
    BY <2>1 DEF Swept, Ended, Governed
  <2> QED BY <2>1, <2>2 DEF CleanInv, BeginCleanup, Ended
<1>7. CASE cleanup_policy_tables
  <2>1. statement = "policy" /\ since' = since /\ today' = today /\ outcome = "none"
    BY <1>7 DEF cleanup_policy_tables, CleanInv, Ended
  <2>2. CASE ahead = {}
    <3>1. \A t \in Swept' : t \in Swept
      BY <2>1, <2>2 DEF Swept, Governed
    <3>2. outcome' # "none" => statement' \in Ended
      BY <1>7, <2>1, <2>2 DEF cleanup_policy_tables, Finish, Ended
    <3> QED BY <2>1, <3>1, <3>2 DEF BeginCleanup
  <2>3. CASE ahead # {}
    <3>1. PICK t \in ahead : /\ ahead' = ahead \ {t} /\ UNCHANGED <<statement, outcome>>
                             /\ Delete(t, IF PolicyTable(t) THEN Expired(t) ELSE {})
      BY <1>7, <2>3 DEF cleanup_policy_tables
    <3>2. ASSUME NEW u \in Swept', u \notin Swept PROVE u = t /\ PolicyTable(t)
      BY <2>1, <3>1, <3>2 DEF Swept, Ended, Governed, PolicyTable
    <3>3. \A u \in Swept' : u \in Swept \/ Delete(u, Expired(u))
      BY <3>1, <3>2
    <3> QED BY <2>1, <3>1, <3>3 DEF BeginCleanup
  <2> QED BY <2>2, <2>3
<1>8. CASE CheckSize
  <2>1. /\ statement = "check" /\ since' = since /\ outcome = "none"
        /\ (outcome' # "none" => statement' \in Ended)
    BY <1>8 DEF CheckSize, CleanInv, Ended, Finish
  <2>2. \A t \in Swept' : t \in Swept
    BY <2>1 DEF Swept, Ended, Governed
  <2> QED BY <2>1, <2>2 DEF BeginCleanup
<1>9. CASE TrimTable
  <2>1. /\ statement = "trim" /\ statement' = "trim" /\ since' = since /\ outcome' = outcome
    BY <1>9 DEF TrimTable
  <2>2. \A t \in Swept' : t \in Swept
    BY <2>1 DEF Swept, Ended, Governed
  <2> QED BY <2>1, <2>2 DEF BeginCleanup, CleanInv
<1>10. CASE EndRound
  <2>1. /\ statement = "trim" /\ since' = since /\ outcome = "none"
        /\ (outcome' # "none" => statement' \in Ended)
    BY <1>10 DEF EndRound, CleanInv, Ended, Finish
  <2>2. \A t \in Swept' : t \in Swept
    BY <2>1 DEF Swept, Ended, Governed
  <2> QED BY <2>1, <2>2 DEF BeginCleanup
<1>11. CASE vacuum_database
  <2>1. /\ statement = "vacuum" /\ statement' = "idle" /\ since' = since /\ outcome' = outcome
    BY <1>11 DEF vacuum_database
  <2>2. \A t \in Swept' : t \in Swept
    BY <2>1 DEF Swept, Ended, Governed
  <2> QED BY <2>1, <2>2 DEF BeginCleanup, CleanInv, Ended
<1> QED
  BY <1>1, <1>2, <1>3, <1>4, <1>5, <1>6, <1>7, <1>8, <1>9, <1>10, <1>11 DEF RetentionNext

\* No step undoes what a cleanup has done.
LEMMA CleanStep ==
  ASSUME StoreInv, CleanInv, ahead \subseteq Table, statement = "trim" => ahead \subseteq Capped,
         [RetentionNext]_retentionVars
  PROVE  CleanInv'
<1>1. /\ ~BeginCleanup => \A t \in Swept' : t \in Swept \/ (Delete(t, Expired(t)) /\ UNCHANGED <<today, since>>)
      /\ BeginCleanup => Swept' = {}
      /\ BeginCleanup \/ since' = since
      /\ outcome' # "none" => statement' \in Ended
  BY SweptGrows, Zenon
<1>2. \A t \in Swept' : t \in Table
  BY DEF Swept, Governed, Table, POLICY_TABLES
<1>3. ASSUME NEW t \in Swept', ~BeginCleanup PROVE Kept(t)'
  <2>1. CASE t \in Swept
    <3>1. Kept(t)
      BY <2>1 DEF CleanInv
    <3> QED BY <1>1, <1>2, <1>3, <3>1, KeptStep, Zenon
  <2>2. CASE Delete(t, Expired(t)) /\ UNCHANGED <<today, since>>
    BY <1>2, <1>3, <2>2, SweptStep, Zenon
  <2> QED BY <1>1, <1>3, <2>1, <2>2, Zenon
<1>4. \A t \in Swept' : Kept(t)'
  BY <1>1, <1>3, Zenon
<1> QED
  BY <1>1, <1>4 DEF CleanInv

-----------------------------------------------------------------------------
(* What a round of the size cap deletes.                                   *)

\* What the capped tables held when the round began is no more than what those
\* ahead hold now and a share's multiple of what the round has deleted.
TrimInv ==
  /\ statement = "trim" =>
       /\ ahead \subseteq Capped
       /\ held.capped <= Held(ahead) + Share * dropped
       /\ dropped > 0 => held.capped < Held(ahead) + Share * dropped
  /\ outcome = "little_left" => held.capped < Share * 3

RetentionInv ==
  StoreInv /\ AgeInv /\ CleanInv /\ TrimInv /\ RetentionTypeOK

\* Trimming a table keeps the account.
LEMMA TrimStep ==
  ASSUME Holding, TrimInv, held.capped \in Nat, dropped \in Nat, TrimTable,
         NEW t \in ahead, t = FirstOf(ahead),
         NEW gone, gone = Oldest(t, Cardinality(rows[t]) \div Share + 1), Deletion(t, gone)
  PROVE  TrimInv' /\ dropped' \in Nat
<1> DEFINE n == Cardinality(rows[t])  c == Cardinality(gone)  P == Held(ahead \ {t})
<1>1. /\ statement = "trim" /\ statement' = "trim" /\ ahead' = ahead \ {t} /\ dropped' = dropped + c
      /\ held' = held /\ outcome' = outcome
  BY DEF TrimTable
<1>2. ahead \subseteq Capped /\ ahead \subseteq Table /\ t \in Table /\ ahead \ {t} \subseteq Table
  BY <1>1 DEF TrimInv, Capped, Table, SIZE_CAPPED_TABLES
<1>3. AsRows(rows)
  BY DEF Holding, AsRows
<1>4. n \in Nat /\ P \in Nat /\ Held(ahead) = n + P
  <2>1. Held(ahead) = n + P
    BY <1>2, <1>3, HeldIs, PagesOfOne
  <2>2. P \in Nat
    BY <1>2, <1>3, HeldIs, PagesFinite
  <2> QED BY <1>2, <1>3, <2>1, <2>2, RowsFinite
<1>5. Held(ahead)' = P
  <2>1. DeletesOldest(t, gone)
    BY DEF Deletion
  <2>2. \A u \in Table : u # t => rows'[u] = rows[u]
    BY <2>1, Deleted
  <2>3. \A u \in ahead \ {t} : rows'[u] = rows[u]
    BY <1>2, <2>2
  <2>4. UNION {{u} \X rows'[u] : u \in ahead \ {t}} = UNION {{u} \X rows[u] : u \in ahead \ {t}}
    BY <2>3
  <2> QED BY <1>1, <2>4 DEF Held, RowsOf
<1>6. c \in Nat /\ n <= Share * c /\ (c > 0 => n < Share * c)
  BY <1>2, TrimShare
<1>7. Share \in Nat
  BY RetentionAssumption
<1>8. Share * (dropped + c) = Share * dropped + Share * c /\ Share * dropped \in Nat /\ Share * c \in Nat
  BY <1>6, <1>7
<1>9. held.capped <= n + P + Share * dropped /\ (dropped > 0 => held.capped < n + P + Share * dropped)
  BY <1>1, <1>4 DEF TrimInv
<1> HIDE DEF n, c, P
<1>10. held.capped <= P + Share * (dropped + c)
  <2>1. ASSUME NEW h \in Nat, NEW a \in Nat, NEW b \in Nat, NEW x \in Nat, NEW p \in Nat,
               h <= x + p + a, x <= b
        PROVE  h <= p + (a + b)
    BY <2>1
  <2> DEFINE h == held.capped  A == Share * dropped  B == Share * c
  <2>2. h \in Nat /\ A \in Nat /\ B \in Nat
    BY <1>8
  <2>3. h <= n + P + A
    BY <1>9
  <2> HIDE DEF h, A, B
  <2>4. h <= P + (A + B)
    BY <1>4, <1>6, <2>1, <2>2, <2>3, Zenon DEF B
  <2> QED BY <1>8, <2>4 DEF h, A, B
<1>11. dropped + c > 0 => held.capped < P + Share * (dropped + c)
  <2>1. ASSUME NEW h \in Nat, NEW a \in Nat, NEW b \in Nat, NEW x \in Nat, NEW p \in Nat, NEW d \in Nat,
               NEW e \in Nat, h <= x + p + a, d > 0 => h < x + p + a, x <= b, e > 0 => x < b, d + e > 0
        PROVE  h < p + (a + b)
    <3>1. CASE d > 0
      BY <2>1, <3>1
    <3>2. CASE e > 0
      BY <2>1, <3>2
    <3> QED BY <2>1, <3>1, <3>2
  <2> DEFINE h == held.capped  A == Share * dropped  B == Share * c
  <2>2. h \in Nat /\ A \in Nat /\ B \in Nat /\ dropped \in Nat
    BY <1>8
  <2>3. h <= n + P + A /\ (dropped > 0 => h < n + P + A)
    BY <1>9
  <2> HIDE DEF h, A, B
  <2>4. dropped + c > 0 => h < P + (A + B)
    BY <1>4, <1>6, <2>1, <2>2, <2>3, Zenon DEF B
  <2> QED BY <1>8, <2>4 DEF h, A, B
<1>12. ahead' \subseteq Capped
  BY <1>1, <1>2
<1>13. outcome' = "little_left" => held'.capped < Share * 3
  BY <1>1 DEF TrimInv
<1>14. held'.capped = held.capped /\ dropped' = dropped + c
  BY <1>1
<1>15. Held(ahead)' = P
  BY <1>5
<1> QED
  BY <1>1, <1>6, <1>10, <1>11, <1>12, <1>13, <1>14, <1>15 DEF TrimInv

\* So does every other step.
LEMMA RoundStep ==
  ASSUME RetentionInv, [RetentionNext]_retentionVars, ~TrimTable
  PROVE  TrimInv'
<1>0. /\ Holding /\ AsRows(rows) /\ held \in [all : Nat, capped : Nat] /\ dropped \in Nat /\ pages \in Nat
      /\ (outcome # "none" => statement \in Ended) /\ Share \in Nat \ {0}
  BY RetentionAssumption DEF RetentionInv, StoreInv, Holding, AsRows, RetentionTypeOK, CleanInv
<1>1. CASE /\ UNCHANGED <<statement, ahead, dropped, outcome, held>>
           /\ rows' \in [Table -> SUBSET (1..Ticks)] /\ \A t \in Table : rows[t] \subseteq rows'[t]
  <2>1. CASE statement = "trim"
    <3>1. ahead \subseteq Table
      BY <2>1 DEF RetentionInv, RetentionTypeOK
    <3>2. Held(ahead) <= PagesOf(rows', ahead) /\ Held(ahead) \in Nat /\ PagesOf(rows', ahead) \in Nat
      <4>1. AsRows(rows') /\ \A t \in ahead : rows[t] \subseteq rows'[t]
        BY <1>1, <3>1 DEF AsRows
      <4> QED BY <1>0, <3>1, <4>1, HeldIs, PagesGrow, PagesFinite
    <3>3. Held(ahead)' = PagesOf(rows', ahead)
      BY <1>1 DEF Held, RowsOf, PagesOf
    <3>4. held.capped \in Nat /\ Share * dropped \in Nat
      BY <1>0
    <3>5. /\ ahead \subseteq Capped /\ held.capped <= Held(ahead) + Share * dropped
          /\ dropped > 0 => held.capped < Held(ahead) + Share * dropped
      BY <2>1 DEF RetentionInv, TrimInv
    <3> DEFINE H == Held(ahead)  Q == PagesOf(rows', ahead)  S == Share * dropped  h == held.capped
    <3>6. H <= Q /\ H \in Nat /\ Q \in Nat /\ S \in Nat /\ h \in Nat /\ h <= H + S /\ (dropped > 0 => h < H + S)
      BY <3>2, <3>4, <3>5
    <3> HIDE DEF H, Q, S, h
    <3>7. h <= Q + S /\ (dropped > 0 => h < Q + S)
      BY <3>6
    <3>8. (outcome = "little_left" => held.capped < Share * 3)
      BY DEF RetentionInv, TrimInv
    <3> QED BY <1>1, <3>3, <3>5, <3>7, <3>8 DEF TrimInv, H, Q, S, h
  <2>2. CASE statement # "trim"
    BY <1>1, <2>2 DEF RetentionInv, TrimInv
  <2> QED BY <2>1, <2>2
<1>2. CASE Write
  <2>1. UNCHANGED <<statement, ahead, dropped, outcome, held>>
    BY <1>2 DEF Write, sizeVars
  <2>2. rows' \in [Table -> SUBSET (1..Ticks)] /\ \A t \in Table : rows[t] \subseteq rows'[t]
    BY <1>2, WrittenRows DEF RetentionInv
  <2> QED BY <1>1, <2>1, <2>2
<1>3. CASE CheckSize
  <2>2. CASE ~(live_db_bytes <= MaxPages)
    <3>1. /\ statement' = "trim" /\ ahead' = Capped /\ dropped' = 0 /\ outcome' = outcome
          /\ held' = [all |-> Used, capped |-> Held(Capped)] /\ rows' = rows /\ statement = "check"
      BY <1>3, <2>2 DEF CheckSize, storeVars
    <3>2. outcome' # "little_left"
      BY <1>0, <3>1 DEF Ended
    <3>3. Held(Capped) \in Nat
      <4>1. Capped \subseteq Table
        BY DEF Capped, Table, SIZE_CAPPED_TABLES
      <4> QED BY <1>0, <4>1, HeldIs, PagesFinite
    <3>4. Held(ahead)' = Held(Capped) /\ held'.capped = Held(Capped)
      BY <3>1 DEF Held, RowsOf
    <3>5. held'.capped <= Held(ahead)' + Share * dropped'
      BY <1>0, <3>1, <3>3, <3>4
    <3>6. ~(dropped' > 0) /\ ahead' \subseteq Capped
      BY <3>1
    <3> QED BY <3>2, <3>5, <3>6 DEF TrimInv
  <2>3. CASE live_db_bytes <= MaxPages
    <3>1. statement' # "trim" /\ outcome' # "little_left"
      BY <1>3, <2>3 DEF CheckSize, Finish
    <3> QED BY <3>1 DEF TrimInv
  <2> QED BY <2>2, <2>3
<1>4. CASE EndRound
  <2>1. /\ statement = "trim" /\ ahead = {} /\ statement' # "trim" /\ held' = held
        /\ outcome' = "little_left" => LittleLeft
    <3>1. outcome # "little_left"
      BY <1>0, <1>4 DEF EndRound, Ended
    <3> QED BY <1>4, <3>1 DEF EndRound, Finish
  <2>2. ASSUME LittleLeft PROVE held.capped < Share * 3
    <3>1. dropped <= 3
      BY <2>2 DEF LittleLeft, SIZE_CAPPED_TABLES
    <3>2. Held({}) = 0
      BY HeldIs, PagesOfNone
    <3>3. held.capped <= Share * dropped /\ (dropped > 0 => held.capped < Share * dropped)
      BY <1>0, <2>1, <3>2 DEF RetentionInv, TrimInv
    <3>4. held.capped \in Nat /\ Share * 0 = 0 /\ Share * 3 > 0 /\ Share * 1 <= Share * 3 /\ Share * 2 <= Share * 3
          /\ Share * 1 \in Nat /\ Share * 2 \in Nat /\ Share * 3 \in Nat
      BY <1>0
    <3>5. dropped = 0 \/ dropped = 1 \/ dropped = 2 \/ dropped = 3
      BY <1>0, <3>1
    <3> QED BY <3>3, <3>4, <3>5
  <2>3. Share \in Nat
    BY <1>0
  <2> QED BY <2>1, <2>2 DEF TrimInv
<1>5. CASE StatementFails \/ BeginCleanup
  <2>1. statement' # "trim" /\ outcome' # "little_left"
    BY <1>5 DEF StatementFails, BeginCleanup, Finish
  <2> QED BY <2>1 DEF TrimInv
<1>6. CASE cleanup_policy_tables
  <2>1. /\ statement = "policy" /\ held' = held
        /\ statement' # "trim" /\ (outcome' = outcome \/ outcome' = "uncapped")
    BY <1>6 DEF cleanup_policy_tables, Finish
  <2>2. outcome # "little_left"
    BY <1>0, <2>1 DEF Ended
  <2> QED BY <2>1, <2>2 DEF TrimInv
<1>7. CASE cleanup_old_metrics \/ cleanup_old_alerts \/ FetchPolicies \/ vacuum_database
  <2>1. statement' # "trim" /\ held' = held /\ outcome' = outcome
    BY <1>7 DEF cleanup_old_metrics, cleanup_old_alerts, FetchPolicies, vacuum_database, sizeVars
  <2> QED BY <2>1 DEF TrimInv, RetentionInv
<1>8. CASE UNCHANGED retentionVars
  <2>1. UNCHANGED <<statement, ahead, dropped, outcome, held, rows>>
    BY <1>8 DEF retentionVars, storeVars, sizeVars
  <2> QED BY <1>0, <1>1, <2>1 DEF Holding
<1> QED
  BY <1>2, <1>3, <1>4, <1>5, <1>6, <1>7, <1>8 DEF RetentionNext

\* The number of rows in some tables is a natural number.
LEMMA HeldNat ==
  ASSUME Holding, NEW T, T \subseteq Table
  PROVE  Held(T) \in Nat
BY HeldIs, PagesFinite DEF Holding, AsRows

\* A step keeps the types.
LEMMA RetentionTypesStep ==
  ASSUME RetentionInv, [RetentionNext]_retentionVars, Holding', dropped' \in Nat
  PROVE  RetentionTypeOK'
<1>0. /\ RetentionTypeOK /\ Holding /\ Rounds \in Nat \ {0} /\ Enabled \subseteq Table /\ Schema \in Nat
      /\ Ticks \in Nat
  BY RetentionAssumption DEF RetentionInv, StoreInv
<1>1. Held(Table) \in Nat /\ Held(Capped) \in Nat /\ Capped \subseteq Table
  BY <1>0, HeldNat DEF Capped, Table, SIZE_CAPPED_TABLES
<1>2. Used \in Nat
  BY <1>0, <1>1 DEF Used
<1>3. today' \in 0..Ticks /\ since' \in 0..Ticks
  BY <1>0 DEF Holding
<1> DEFINE Rest == /\ pages' \in Nat
                   /\ statement' \in {"idle", "metrics", "alerts", "policies", "policy", "check", "trim", "vacuum"}
                   /\ ahead' \subseteq Table /\ round' \in 0..Rounds /\ held' \in [all : Nat, capped : Nat]
<1>4. CASE Write
  <2>1. PICK m \in store_metrics, v \in store_velocity_data, o \in OtherWrites :
          pages' = LET used == Used + Cardinality(m) + Cardinality(v) + Cardinality(o)
                   IN IF used > pages THEN used ELSE pages
    BY <1>4 DEF Write
  <2>2. ASSUME NEW S, S = {} \/ (\E x, y : S = {x, y}) \/ (\E x : S = {x}) PROVE Cardinality(S) \in Nat
    <3>1. ASSUME NEW x, NEW y PROVE IsFiniteSet({x, y}) /\ IsFiniteSet({x})
      <4>1. IsFiniteSet({x}) /\ IsFiniteSet({x} \cup {y})
        BY FS_Singleton, FS_AddElement, Zenon
      <4>2. {x} \cup {y} = {x, y}
        OBVIOUS
      <4> QED BY <4>1, <4>2
    <3>2. IsFiniteSet({})
      BY FS_EmptySet
    <3>3. IsFiniteSet(S)
      BY <2>2, <3>1, <3>2, Zenon
    <3> QED BY <3>3, FS_CardinalityType
  <2>3. Cardinality(m) \in Nat /\ Cardinality(v) \in Nat /\ Cardinality(o) \in Nat
    BY <2>2, Zenon DEF store_metrics, store_velocity_data, OtherWrites
  <2>4. pages' \in Nat
    BY <1>0, <1>2, <2>1, <2>3 DEF RetentionTypeOK
  <2>5. UNCHANGED <<statement, ahead, round, held>>
    BY <1>4 DEF Write, sizeVars
  <2> QED BY <1>0, <1>3, <2>4, <2>5 DEF RetentionTypeOK, Holding
<1>5. CASE \/ BeginCleanup \/ StatementFails \/ cleanup_old_metrics \/ cleanup_old_alerts
           \/ FetchPolicies \/ UNCHANGED retentionVars
  <2>1. Rest
    BY <1>0, <1>5 DEF RetentionTypeOK, BeginCleanup, StatementFails, Finish, cleanup_old_metrics,
         cleanup_old_alerts, FetchPolicies, sizeVars, retentionVars
  <2> QED BY <1>3, <2>1 DEF RetentionTypeOK, Holding
<1>6. CASE cleanup_policy_tables
  <2>1. Rest
    BY <1>0, <1>6 DEF RetentionTypeOK, cleanup_policy_tables, Finish
  <2> QED BY <1>3, <2>1 DEF RetentionTypeOK, Holding
<1>7. CASE CheckSize
  <2>1. Rest
    <3>1. pages' = pages
      BY <1>7 DEF CheckSize
    <3>2. CASE live_db_bytes <= MaxPages
      BY <1>0, <1>7, <3>1, <3>2 DEF RetentionTypeOK, CheckSize, Finish
    <3>3. CASE ~(live_db_bytes <= MaxPages)
      BY <1>0, <1>1, <1>2, <1>7, <3>1, <3>3 DEF RetentionTypeOK, CheckSize
    <3> QED BY <3>2, <3>3
  <2> QED BY <1>3, <2>1 DEF RetentionTypeOK, Holding
<1>8. CASE TrimTable
  <2>1. Rest
    BY <1>0, <1>8 DEF RetentionTypeOK, TrimTable
  <2> QED BY <1>3, <2>1 DEF RetentionTypeOK, Holding
<1>9. CASE EndRound
  <2>1. Rest
    BY <1>0, <1>9 DEF RetentionTypeOK, EndRound, Finish
  <2> QED BY <1>3, <2>1 DEF RetentionTypeOK, Holding
<1>10. CASE vacuum_database
  <2>1. Rest
    BY <1>0, <1>2, <1>10 DEF RetentionTypeOK, vacuum_database, sizeVars
  <2> QED BY <1>3, <2>1 DEF RetentionTypeOK, Holding
<1> QED
  BY <1>4, <1>5, <1>6, <1>7, <1>8, <1>9, <1>10 DEF RetentionNext

\* A step keeps what is kept and deleted as it is meant.
LEMMA RetentionStep ==
  ASSUME RetentionInv, [RetentionNext]_retentionVars
  PROVE  RetentionInv'
<1>1. /\ StoreInv /\ Holding /\ AgeInv /\ CleanInv /\ TrimInv /\ RetentionTypeOK
      /\ ahead \subseteq Table /\ (statement = "trim" => ahead \subseteq Capped)
      /\ held \in [all : Nat, capped : Nat] /\ pages \in Nat /\ dropped \in Nat
  BY DEF RetentionInv, StoreInv, TrimInv, RetentionTypeOK
<1>2. StoreInv' /\ AgeInv' /\ CleanInv'
  BY <1>1, StoreStep, AgeStep, CleanStep
<1>3. TrimInv' /\ dropped' \in Nat
  <2>1. CASE ~TrimTable
    <3>1. TrimInv'
      BY <2>1, RoundStep
    <3>2. dropped' \in Nat
      <4>1. CASE Write \/ BeginCleanup \/ StatementFails \/ cleanup_old_metrics \/ cleanup_old_alerts
                  \/ FetchPolicies \/ vacuum_database \/ UNCHANGED retentionVars
        BY <1>1, <4>1 DEF Write, BeginCleanup, StatementFails, cleanup_old_metrics, cleanup_old_alerts,
             FetchPolicies, vacuum_database, Finish, sizeVars, retentionVars
      <4>2. CASE cleanup_policy_tables \/ CheckSize \/ EndRound
        BY <1>1, <4>2 DEF cleanup_policy_tables, CheckSize, EndRound, Finish
      <4> QED BY <2>1, <4>1, <4>2 DEF RetentionNext
    <3> QED BY <3>1, <3>2
  <2>2. CASE TrimTable
    <3> DEFINE t == FirstOf(ahead)
    <3>1. statement = "trim" /\ ahead # {} /\ ahead \subseteq Capped /\ t \in ahead /\ t \in Table
      BY <1>1, <2>2, TrimAhead DEF TrimTable
    <3>2. Deletion(t, Oldest(t, Cardinality(rows[t]) \div Share + 1))
      <4> DEFINE gone == Oldest(t, Cardinality(rows[t]) \div Share + 1)
      <4>1. Delete(t, gone) /\ UNCHANGED <<today, pages, since, held>>
        BY <2>2, Zenon DEF TrimTable
      <4>2. Cardinality(rows[t]) \div Share + 1 \in Nat
        <5>1. Cardinality(rows[t]) \in Nat
          BY <1>1, <3>1, RowsFinite DEF AsRows, Holding
        <5>2. ASSUME NEW a \in Nat, NEW b \in Nat \ {0} PROVE a \div b + 1 \in Nat
          OBVIOUS
        <5>3. Share \in Nat \ {0}
          BY RetentionAssumption
        <5> QED BY <5>1, <5>2, <5>3, Zenon
      <4> HIDE DEF t
      <4>3. gone \subseteq rows[t] /\ Before(gone, rows[t] \ gone)
        BY <1>1, <3>1, <4>2, FirstAreOldest, Zenon
      <4> HIDE DEF gone
      <4>4. Deletion(t, gone)
        BY <3>1, <4>1, <4>3 DEF Deletion, DeletesOldest
      <4> QED BY <4>4, Zenon DEF gone
    <3>3. held.capped \in Nat
      BY <1>1
    <3> HIDE DEF t
    <3> QED BY <1>1, <2>2, <3>1, <3>2, <3>3, TrimStep, Zenon DEF t
  <2> QED BY <2>1, <2>2
<1>4. Holding'
  BY <1>2 DEF StoreInv
<1>5. RetentionTypeOK'
  BY <1>3, <1>4, RetentionTypesStep
<1> QED
  BY <1>2, <1>3, <1>5 DEF RetentionInv

\* It holds of an empty database.
LEMMA RetentionStart == RetentionInit => RetentionInv
<1> SUFFICES ASSUME RetentionInit PROVE RetentionInv
  OBVIOUS
<1>1. /\ \A t \in Table : rows[t] = {} /\ lost[t] = 0
      /\ rows \in [Table -> SUBSET (1..Ticks)] /\ lost \in [Table -> 0..Ticks]
      /\ Ticks \in Nat /\ Rounds \in Nat /\ Schema \in Nat
  BY RetentionAssumption DEF RetentionInit
<1>2. StoreInv
  BY <1>1 DEF StoreInv, Holding, OldestFirst, TogetherOrNot, RetentionInit, Table
<1>3. AgeInv /\ CleanInv
  BY <1>1 DEF AgeInv, AgedOutElsewhere, CleanInv, Swept, RetentionInit, Ended
<1>4. TrimInv /\ RetentionTypeOK
  BY <1>1 DEF TrimInv, RetentionTypeOK, RetentionInit
<1> QED
  BY <1>2, <1>3, <1>4 DEF RetentionInv

\* What the properties say follows.
LEMMA RetentionFollows == RetentionInv => RetentionHolds /\ RetentionTypeOK
<1> SUFFICES ASSUME RetentionInv PROVE RetentionHolds /\ RetentionTypeOK
  OBVIOUS
<1>1. OldestFirst /\ AgedOutElsewhere /\ TogetherOrNot /\ RetentionTypeOK
  BY DEF RetentionInv, StoreInv, AgeInv
<1>2. CleanMeansClean
  <2>1. SUFFICES ASSUME statement \in Ended, outcome \notin {"none", "failed"}
                 PROVE  /\ \A t \in Governed : Kept(t)
                        /\ outcome = "little_left" => held.capped < Share * 3
    BY DEF CleanMeansClean, Kept, SIZE_CAPPED_TABLES
  <2>2. \A t \in Governed : Kept(t)
    BY <2>1 DEF RetentionInv, CleanInv, Swept
  <2> QED BY <2>2 DEF RetentionInv, TrimInv
<1> QED
  BY <1>1, <1>2 DEF RetentionHolds

\* What the database keeps is what its retention says: the newest rows, whole
\* cycles, nothing that is past its time after a clean cleanup, and all that is
\* not, but for rows of the log that were less than a day short of it
\* (DataCleanupService, src/monitor/src/db/cleanup.rs).
THEOREM RetentionTheorem == RetentionSpec => []RetentionHolds
<1>1. RetentionInv /\ [RetentionNext]_retentionVars => RetentionInv'
  BY RetentionStep
<1> QED
  BY <1>1, RetentionStart, RetentionFollows, PTL DEF RetentionSpec

\* A cleanup's state is what it is declared to be.
THEOREM RetentionTypesTheorem == RetentionSpec => []RetentionTypeOK
<1>1. RetentionInv /\ [RetentionNext]_retentionVars => RetentionInv'
  BY RetentionStep
<1> QED
  BY <1>1, RetentionStart, RetentionFollows, PTL DEF RetentionSpec

-----------------------------------------------------------------------------
(* Sums.  A sum of natural numbers over a finite set is the number of its   *)
(* cells, w[x] of them in the column of x: sums then add up as sets do.     *)

\* What holds of no element and stays true when one more is put in.
LEMMA SubsetInduction ==
  ASSUME NEW S, IsFiniteSet(S), NEW Good, {} \in Good,
         \A T \in SUBSET S : \A x \in S : T \in Good /\ x \notin T => T \cup {x} \in Good
  PROVE  S \in Good
<1> DEFINE Reached == {T \in SUBSET S : T \in Good}
           Gaps == {n \in Nat : \E T \in Reached : n = Cardinality(S \ T)}
<1>1. \A T \in SUBSET S : IsFiniteSet(S \ T) /\ Cardinality(S \ T) \in Nat
  <2> TAKE T \in SUBSET S
  <2>1. IsFiniteSet(S \ T)
    BY FS_Difference
  <2> QED BY <2>1, FS_CardinalityType
<1>2. Gaps \subseteq Nat /\ Gaps # {}
  <2>1. {} \in Reached
    OBVIOUS
  <2> QED BY <1>1, <2>1
<1>3. PICK n \in Gaps : \A m \in Gaps : n <= m
  <2> HIDE DEF Gaps
  <2> QED BY <1>2, LeastOf
<1>4. PICK T \in Reached : n = Cardinality(S \ T)
  BY <1>3
<1>5. CASE T = S
  BY <1>4, <1>5
<1>6. CASE T # S
  <2>1. PICK x \in S : x \notin T
    BY <1>4, <1>6
  <2>2. T \cup {x} \in Reached /\ S \ (T \cup {x}) = (S \ T) \ {x} /\ x \in S \ T
    BY <1>4, <2>1
  <2>3. Cardinality((S \ T) \ {x}) = n - 1
    BY <1>1, <1>4, <2>2, FS_RemoveElement
  <2>4. n - 1 \in Gaps
    BY <1>1, <2>2, <2>3
  <2>5. n \in Nat /\ n <= n - 1
    BY <1>3, <2>4
  <2> QED BY <2>5
<1> QED
  BY <1>5, <1>6

\* The cells of w over S, and how many there are.
Cells(w, S) == {c \in S \X Nat : 1 <= c[2] /\ c[2] <= w[c[1]]}
Weight(w, S) == Cardinality(Cells(w, S))
Weighs(w, S) == \A x \in S : w[x] \in Nat

\* One element has a column of its own.
LEMMA CellsOfOne ==
  ASSUME NEW w, NEW x, w[x] \in Nat
  PROVE  IsFiniteSet(Cells(w, {x})) /\ Weight(w, {x}) = w[x]
<1> DEFINE f == [k \in 1..w[x] |-> <<x, k>>]
           C == Cells(w, {x})
<1>1. f \in [1..w[x] -> C]
  BY DEF Cells
<1>2. \A j, k \in 1..w[x] : f[j] = f[k] => j = k
  OBVIOUS
<1>3. \A c \in C : \E k \in 1..w[x] : f[k] = c
  <2> SUFFICES ASSUME NEW c \in C PROVE \E k \in 1..w[x] : f[k] = c
    OBVIOUS
  <2>1. c = <<x, c[2]>> /\ c[2] \in 1..w[x]
    BY DEF Cells
  <2>2. f[c[2]] = <<x, c[2]>>
    BY <2>1
  <2> QED BY <2>1, <2>2, Zenon
<1>4. f \in Bijection(1..w[x], C)
  <2> HIDE DEF f, C
  <2> QED BY <1>1, <1>2, <1>3 DEF Bijection, Injection, Surjection, IsInjective
<1>5. ExistsBijection(1..w[x], C)
  BY <1>4, Zenon DEF ExistsBijection
<1>6. IsFiniteSet(1..w[x]) /\ Cardinality(1..w[x]) = w[x]
  <2>1. 1 \in Int /\ w[x] \in Int
    OBVIOUS
  <2>2. IsFiniteSet(1..w[x]) /\ Cardinality(1..w[x]) = IF 1 > w[x] THEN 0 ELSE w[x] - 1 + 1
    BY <2>1, FS_Interval
  <2> QED BY <2>2
<1> HIDE DEF C
<1>7. IsFiniteSet(C) /\ Cardinality(C) = w[x]
  BY <1>5, <1>6, FS_Bijection
<1> QED
  BY <1>7 DEF Weight, C

\* Two sets of elements have their columns together.
LEMMA CellsJoin ==
  ASSUME NEW w, NEW S, NEW T
  PROVE  /\ Cells(w, S \cup T) = Cells(w, S) \cup Cells(w, T)
         /\ S \cap T = {} => Cells(w, S) \cap Cells(w, T) = {}
<1>1. \A c \in Cells(w, S \cup T) : c \in Cells(w, S) \cup Cells(w, T)
  BY DEF Cells
<1>2. \A c \in Cells(w, S) \cup Cells(w, T) : c \in Cells(w, S \cup T)
  BY DEF Cells
<1>3. ASSUME S \cap T = {} PROVE Cells(w, S) \cap Cells(w, T) = {}
  BY <1>3 DEF Cells
<1> QED
  BY <1>1, <1>2, <1>3

\* There are finitely many.
LEMMA CellsFinite ==
  ASSUME NEW w, NEW S, IsFiniteSet(S), Weighs(w, S)
  PROVE  IsFiniteSet(Cells(w, S)) /\ Weight(w, S) \in Nat
<1> DEFINE Good == {T \in SUBSET S : IsFiniteSet(Cells(w, T))}
<1>1. {} \in Good
  <2>1. Cells(w, {}) = {}
    BY DEF Cells
  <2> QED BY <2>1, FS_EmptySet
<1>2. ASSUME NEW T \in SUBSET S, NEW x \in S, T \in Good, x \notin T
      PROVE  T \cup {x} \in Good
  <2>1. IsFiniteSet(Cells(w, T)) /\ IsFiniteSet(Cells(w, {x}))
    BY <1>2, CellsOfOne DEF Weighs
  <2>2. Cells(w, T \cup {x}) = Cells(w, T) \cup Cells(w, {x})
    BY CellsJoin
  <2>3. IsFiniteSet(Cells(w, T \cup {x}))
    BY <2>1, <2>2, FS_Union
  <2> QED BY <2>3
<1> HIDE DEF Good
<1>3. S \in Good
  BY <1>1, <1>2, SubsetInduction
<1>4. IsFiniteSet(Cells(w, S))
  BY <1>3 DEF Good
<1> QED
  BY <1>4, FS_CardinalityType DEF Weight

\* Nothing weighs nothing.
LEMMA WeightOfNone == \A w : Weight(w, {}) = 0
<1>1. \A w : Cells(w, {}) = {}
  BY DEF Cells
<1> QED BY <1>1, FS_EmptySet DEF Weight

\* Weights add up over sets that have nothing in common.
LEMMA WeightJoin ==
  ASSUME NEW w, NEW S, NEW T, IsFiniteSet(S), IsFiniteSet(T), Weighs(w, S), Weighs(w, T), S \cap T = {}
  PROVE  Weight(w, S \cup T) = Weight(w, S) + Weight(w, T)
<1> DEFINE A == Cells(w, S)
           B == Cells(w, T)
<1>1. IsFiniteSet(A) /\ IsFiniteSet(B)
  BY CellsFinite
<1>2. Cells(w, S \cup T) = A \cup B /\ A \cap B = {}
  BY CellsJoin
<1> HIDE DEF A, B
<1>3. Cardinality(A \cup B) = Cardinality(A) + Cardinality(B) - Cardinality(A \cap B)
  BY <1>1, FS_Union
<1>4. Cardinality(A \cap B) = 0 /\ Cardinality(A) \in Nat /\ Cardinality(B) \in Nat
  BY <1>1, <1>2, FS_EmptySet, FS_CardinalityType
<1>5. Cardinality(A \cup B) = Cardinality(A) + Cardinality(B)
  BY <1>3, <1>4
<1> QED
  BY <1>2, <1>5 DEF Weight, A, B

\* One element more.
LEMMA WeightAdd ==
  ASSUME NEW w, NEW S, NEW x, IsFiniteSet(S), Weighs(w, S \cup {x}), x \notin S
  PROVE  Weight(w, S \cup {x}) = Weight(w, S) + w[x]
<1>1. Weighs(w, S) /\ Weighs(w, {x}) /\ w[x] \in Nat /\ S \cap {x} = {}
  BY DEF Weighs
<1>2. IsFiniteSet({x})
  BY FS_Singleton
<1>3. Weight(w, S \cup {x}) = Weight(w, S) + Weight(w, {x})
  BY <1>1, <1>2, WeightJoin
<1>4. Weight(w, {x}) = w[x]
  BY <1>1, CellsOfOne
<1> QED BY <1>3, <1>4, Zenon

\* Element by element at most, so all together at most.
LEMMA WeightAtMost ==
  ASSUME NEW v, NEW w, NEW S, IsFiniteSet(S), Weighs(v, S), Weighs(w, S),
         \A x \in S : v[x] <= w[x]
  PROVE  Weight(v, S) <= Weight(w, S)
<1>1. Cells(v, S) \subseteq Cells(w, S)
  <2> SUFFICES ASSUME NEW c \in Cells(v, S) PROVE c \in Cells(w, S)
    OBVIOUS
  <2>1. c \in S \X Nat /\ c[1] \in S /\ c[2] \in Nat /\ 1 <= c[2] /\ c[2] <= v[c[1]]
    BY DEF Cells
  <2>2. v[c[1]] \in Nat /\ w[c[1]] \in Nat /\ v[c[1]] <= w[c[1]]
    BY <2>1 DEF Weighs
  <2>3. c[2] <= w[c[1]]
    BY <2>1, <2>2
  <2> QED BY <2>1, <2>3, Zenon DEF Cells
<1>2. IsFiniteSet(Cells(w, S))
  BY CellsFinite
<1> QED
  BY <1>1, <1>2, FS_Subset DEF Weight

\* Only what stands at the elements counts.
LEMMA WeightSame ==
  ASSUME NEW v, NEW w, NEW S, \A x \in S : v[x] = w[x]
  PROVE  Weight(v, S) = Weight(w, S)
<1>1. \A c \in S \X Nat : v[c[1]] = w[c[1]]
  OBVIOUS
<1>2. Cells(v, S) = Cells(w, S)
  BY <1>1, Zenon DEF Cells
<1> QED BY <1>2, Zenon DEF Weight

\* g adds up w over every subset of S, an element at a time.
First_(s) == CHOOSE x \in s : TRUE
Adds(w, S, g) ==
  g = [s \in SUBSET S |-> IF s = {} THEN 0 ELSE w[First_(s)] + g[s \ {First_(s)}]]

\* The weight of a set from that of the set less one element.
LEMMA WeightLess ==
  ASSUME NEW w, NEW S, IsFiniteSet(S), Weighs(w, S), NEW s \in SUBSET S, s # {}
  PROVE  /\ First_(s) \in s /\ s \ {First_(s)} \in SUBSET S
         /\ Weight(w, s) = w[First_(s)] + Weight(w, s \ {First_(s)})
<1> DEFINE x == First_(s)
           t == s \ {x}
<1>1. x \in s
  BY DEF First_
<1> HIDE DEF x
<1>2. t \in SUBSET S /\ s = t \cup {x} /\ x \notin t /\ Weighs(w, t \cup {x}) /\ Weighs(w, t) /\ w[x] \in Nat
  BY <1>1 DEF Weighs
<1>3. IsFiniteSet(t)
  BY <1>2, FS_Subset
<1> HIDE DEF t
<1>4. Weight(w, t \cup {x}) = Weight(w, t) + w[x] /\ Weight(w, t) \in Nat
  BY <1>2, <1>3, WeightAdd, CellsFinite
<1>5. Weight(w, t) + w[x] = w[x] + Weight(w, t)
  BY <1>2, <1>4
<1> QED
  BY <1>1, <1>2, <1>4, <1>5, Zenon DEF x, t

\* There is such a g, and it gives the weights.
LEMMA AddsExists ==
  ASSUME NEW w, NEW S, IsFiniteSet(S), Weighs(w, S)
  PROVE  \E g : Adds(w, S, g)
<1> DEFINE g == [s \in SUBSET S |-> Weight(w, s)]
<1>1. ASSUME NEW s \in SUBSET S
      PROVE  Weight(w, s) = IF s = {} THEN 0 ELSE w[First_(s)] + g[s \ {First_(s)}]
  <2>1. CASE s = {}
    BY <2>1, WeightOfNone
  <2>2. CASE s # {}
    <3>1. s \ {First_(s)} \in SUBSET S /\ Weight(w, s) = w[First_(s)] + Weight(w, s \ {First_(s)})
      BY <2>2, WeightLess
    <3>2. g[s \ {First_(s)}] = Weight(w, s \ {First_(s)})
      BY <3>1, Zenon
    <3> QED BY <2>2, <3>1, <3>2, Zenon
  <2> QED BY <2>1, <2>2
<1>2. g = [s \in SUBSET S |-> IF s = {} THEN 0 ELSE w[First_(s)] + g[s \ {First_(s)}]]
  BY <1>1, Zenon
<1> QED BY <1>2, Zenon DEF Adds

\* Whatever adds up w over the subsets of S gives the weight of S.
LEMMA AddsIs ==
  ASSUME NEW w, NEW S, IsFiniteSet(S), Weighs(w, S), NEW g, Adds(w, S, g)
  PROVE  g[S] = Weight(w, S)
<1> DEFINE Bad == {s \in SUBSET S : g[s] # Weight(w, s)}
           Sized == {n \in Nat : \E s \in Bad : n = Cardinality(s)}
<1>1. \A s \in SUBSET S : IsFiniteSet(s) /\ Cardinality(s) \in Nat
  BY FS_Subset, FS_CardinalityType
<1>2. ASSUME Bad # {} PROVE FALSE
  <2>1. Sized \subseteq Nat /\ Sized # {}
    BY <1>1, <1>2
  <2>2. PICK n \in Sized : \A m \in Sized : n <= m
    <3> HIDE DEF Sized
    <3> QED BY <2>1, LeastOf
  <2>3. PICK s \in Bad : n = Cardinality(s)
    BY <2>2
  <2> DEFINE x == First_(s)
             t == s \ {x}
  <2>4. g[s] = IF s = {} THEN 0 ELSE w[x] + g[t]
    BY <2>3, Zenon DEF Adds
  <2>5. s # {}
    BY <2>3, <2>4, WeightOfNone
  <2>6. x \in s /\ t \in SUBSET S /\ Weight(w, s) = w[x] + Weight(w, t)
    BY <2>3, <2>5, WeightLess
  <2> HIDE DEF x
  <2>7. Cardinality(t) = n - 1 /\ n \in Nat
    BY <1>1, <2>2, <2>3, <2>6, FS_RemoveElement
  <2>8. t \notin Bad
    <3>1. t \in Bad => Cardinality(t) \in Sized
      BY <1>1
    <3> QED BY <2>2, <2>7, <3>1
  <2>9. g[t] = Weight(w, t)
    BY <2>6, <2>8
  <2> QED BY <2>3, <2>4, <2>5, <2>6, <2>9
<1>3. S \in SUBSET S
  OBVIOUS
<1> QED BY <1>2, <1>3

\* The library's sum of a function over a set is the weight.
LEMMA SumIs ==
  ASSUME NEW w, NEW S, IsFiniteSet(S), Weighs(w, S)
  PROVE  SumFunctionOnSet(w, S) = Weight(w, S)
<1> DEFINE g == CHOOSE g : Adds(w, S, g)
<1>1. Adds(w, S, g)
  BY AddsExists
<1>2. SumFunctionOnSet(w, S) = g[S]
  BY Zenon DEF SumFunctionOnSet, FoldFunctionOnSet, MapThenFoldSet, Adds, First_
<1> HIDE DEF g
<1> QED BY <1>1, <1>2, AddsIs, Zenon

-----------------------------------------------------------------------------
(* The charts.                                                             *)

\* The greatest growth of the counter, bytes a second.
Fastest == Max(Growth)

\* There is a fastest growth.
LEMMA FastestIs == Fastest \in Nat /\ \A g \in Growth : g \in Nat /\ g <= Fastest
<1>1. Fastest \in Growth /\ \A h \in Growth : Fastest >= h
  BY HistoryAssumption, Zenon DEF Max, Fastest
<1>2. Growth \subseteq Nat
  BY HistoryAssumption
<1> HIDE DEF Fastest
<1> QED BY <1>1, <1>2

\* Between two rows the counter gained no more than the time allows.
GrewAtMost(gain, time) == gain <= Fastest * time

\* The invariant: rows are of the past, and no two of them, nor a row and the
\* counter now, are further apart than the time between them allows.
HistoryInv ==
  /\ wall \in 0..LastSecond /\ counter \in Nat /\ migrated \in BOOLEAN
  /\ IsFiniteSet(samples) /\ samples \subseteq [at: 1..LastSecond, rx: Nat \cup {Null}]
  /\ \A r \in samples :
       /\ r.at <= wall
       /\ r.rx # Null => GrewAtMost(counter - r.rx, wall - r.at)
       /\ \A s \in samples : r.at < s.at /\ r.rx # Null /\ s.rx # Null =>
                               GrewAtMost(s.rx - r.rx, s.at - r.at)

\* No rows at first.
LEMMA HistoryStart == HistoryInit => HistoryInv
<1> SUFFICES ASSUME HistoryInit PROVE HistoryInv
  OBVIOUS
<1>0. LastSecond \in Nat
  BY HistoryAssumption
<1>1. wall \in 0..LastSecond /\ counter \in Nat
  BY <1>0 DEF HistoryInit
<1>2. migrated \in BOOLEAN /\ samples = {}
  BY Zenon DEF HistoryInit
<1> QED BY <1>1, <1>2, FS_EmptySet, Zenon DEF HistoryInv

\* A cycle later the bound has grown by what the cycle allows.
LEMMA GrowsOn ==
  ASSUME NEW c \in Nat, NEW x \in Nat, NEW t \in Int, NEW g \in Growth, NEW i \in Nat, NEW d \in Nat,
         d \in {c + g * i, g * i}, GrewAtMost(c - x, t), t >= 0
  PROVE  GrewAtMost(d - x, t + i)
<1>1. PICK G \in Nat : G = Fastest /\ g \in Nat /\ g <= G
  BY FastestIs
<1>2. c - x <= G * t
  BY <1>1 DEF GrewAtMost
<1>3. g * i <= G * i
  <2>1. (G - g) * i \in Nat
    BY <1>1
  <2> QED BY <1>1, <2>1
<1>4. G * (t + i) = G * t + G * i /\ G * t \in Nat /\ G * i \in Nat
  BY <1>1
<1>5. d - x <= G * (t + i)
  BY <1>1, <1>2, <1>3, <1>4
<1> QED BY <1>1, <1>5, Zenon DEF GrewAtMost

\* Every cycle keeps it.
LEMMA HistoryStep == HistoryInv /\ [HistoryNext]_historyVars => HistoryInv'
<1> SUFFICES ASSUME HistoryInv, [HistoryNext]_historyVars PROVE HistoryInv'
  OBVIOUS
<1>1. CASE UNCHANGED historyVars
  BY <1>1 DEF historyVars, HistoryInv
<1>2. CASE StoreCycle
  <2>0. /\ Interval \in Nat \ {0} /\ LastSecond \in Nat
        /\ wall \in 0..LastSecond /\ counter \in Nat
        /\ samples \subseteq [at: 1..LastSecond, rx: Nat \cup {Null}] /\ IsFiniteSet(samples)
    BY HistoryAssumption DEF HistoryInv
  <2>1. wall + Interval <= LastSecond /\ wall' = wall + Interval
    BY <1>2 DEF StoreCycle
  <2>2. PICK g \in Growth : counter' \in {counter + g * Interval, g * Interval}
    BY <1>2 DEF StoreCycle
  <2>3. PICK o \in Outcomes : Store(o)
    BY <1>2 DEF StoreCycle
  <2>4. counter' \in Nat /\ wall' \in 1..LastSecond /\ wall < wall'
    <3>1. g * Interval \in Nat
      BY <2>0, FastestIs
    <3> QED BY <2>0, <2>1, <2>2, <3>1
  <2>5. PICK x \in Nat \cup {Null} :
          /\ x # Null => x = counter'
          /\ samples' = samples \cup {[at |-> wall', rx |-> x]} \/ samples' = samples
    <3>1. \/ samples' = samples \cup {[at |-> wall', rx |-> counter']}
          \/ samples' = samples \cup {[at |-> wall', rx |-> Null]}
          \/ samples' = samples
      BY <2>3, HistoryAssumption DEF Store
    <3> QED BY <2>4, <3>1, Zenon
  <2>6. migrated' \in BOOLEAN
    <3>1. migrated \in BOOLEAN
      BY DEF HistoryInv
    <3> QED BY <2>3, <3>1, Zenon DEF Store
  <2> DEFINE n == [at |-> wall', rx |-> x]
  <2>7. n.at = wall' /\ n.rx = x /\ n \in [at: 1..LastSecond, rx: Nat \cup {Null}]
    BY <2>4
  <2>8. samples' \subseteq samples \cup {n}
    BY <2>5
  <2>9. IsFiniteSet(samples') /\ samples' \subseteq [at: 1..LastSecond, rx: Nat \cup {Null}]
    <3> HIDE DEF n
    <3>1. IsFiniteSet(samples \cup {n})
      BY <2>0, FS_AddElement
    <3> QED BY <2>0, <2>7, <2>8, <3>1, FS_Subset
  <2> HIDE DEF n
  <2>10. ASSUME NEW r \in samples
         PROVE  /\ r.at \in 1..LastSecond /\ r.at <= wall /\ r.at < wall'
                /\ r.rx # Null => GrewAtMost(counter' - r.rx, wall' - r.at)
    <3>1. r.at \in 1..LastSecond /\ r.at <= wall /\ r.rx \in Nat \cup {Null}
      BY <2>0 DEF HistoryInv
    <3>2. ASSUME r.rx # Null PROVE GrewAtMost(counter' - r.rx, wall' - r.at)
      <4>1. r.rx \in Nat /\ wall - r.at \in Int /\ wall - r.at >= 0 /\ Interval \in Nat
        BY <2>0, <3>1, <3>2
      <4>2. GrewAtMost(counter - r.rx, wall - r.at)
        BY <3>2 DEF HistoryInv
      <4>3. GrewAtMost(counter' - r.rx, (wall - r.at) + Interval)
        BY <2>0, <2>2, <2>4, <4>1, <4>2, GrowsOn
      <4>4. (wall - r.at) + Interval = wall' - r.at
        BY <2>0, <2>1, <3>1
      <4> QED BY <4>3, <4>4, Zenon
    <3> QED BY <2>0, <2>4, <3>1, <3>2
  <2>11. ASSUME NEW r \in samples'
         PROVE  r.at <= wall' /\ (r.rx # Null => GrewAtMost(counter' - r.rx, wall' - r.at))
    <3>1. CASE r \in samples
      BY <2>4, <2>10, <3>1
    <3>2. CASE r = n
      <4>1. r.at = wall' /\ (r.rx # Null => r.rx = counter')
        BY <2>5, <2>7, <3>2
      <4>2. counter' - counter' = 0 /\ wall' - wall' = 0 /\ GrewAtMost(0, 0)
        <5>1. PICK G \in Nat : G = Fastest
          BY FastestIs
        <5>2. G * 0 = 0 /\ 0 <= G * 0
          OBVIOUS
        <5>3. GrewAtMost(0, 0)
          BY <5>1, <5>2, Zenon DEF GrewAtMost
        <5>4. counter' - counter' = 0 /\ wall' - wall' = 0
          <6>1. counter' \in Int /\ wall' \in Int
            BY <2>4
          <6>2. \A z \in Int : z - z = 0
            OBVIOUS
          <6> QED BY <6>1, <6>2, Zenon
        <5> QED BY <5>3, <5>4, Zenon
      <4> QED BY <2>4, <4>1, <4>2
    <3> QED BY <2>8, <3>1, <3>2
  <2>12. ASSUME NEW r \in samples', NEW s \in samples', r.at < s.at, r.rx # Null, s.rx # Null
         PROVE  GrewAtMost(s.rx - r.rx, s.at - r.at)
    <3>1. CASE r \in samples /\ s \in samples
      BY <2>12, <3>1 DEF HistoryInv
    <3>2. CASE r \in samples /\ s = n
      <4>1. s.at = wall' /\ s.rx = counter'
        BY <2>5, <2>7, <2>12, <3>2
      <4> QED BY <2>10, <2>12, <3>2, <4>1
    <3>3. CASE r = n
      <4>1. r.at = wall' /\ s.at <= wall' /\ s.at \in Nat
        BY <2>7, <2>9, <2>11, <3>3
      <4> QED BY <2>4, <2>12, <4>1
    <3> QED BY <2>8, <3>1, <3>2, <3>3
  <2>13. wall' \in 0..LastSecond
    BY <2>4
  <2> QED BY <2>4, <2>6, <2>9, <2>11, <2>12, <2>13, Zenon DEF HistoryInv
<1> QED
  BY <1>1, <1>2 DEF HistoryNext

\* The types.
LEMMA HistoryTypes == HistoryInv => HistoryTypeOK
<1> SUFFICES ASSUME HistoryInv PROVE HistoryTypeOK
  OBVIOUS
<1>1. \A r \in samples : r.at \in 1..LastSecond /\ r.rx \in Nat \cup {Null}
  BY DEF HistoryInv
<1> QED BY <1>1 DEF HistoryInv, HistoryTypeOK

\* A constant weighs itself as often as there are elements.
LEMMA WeightOfConstant ==
  ASSUME NEW S, IsFiniteSet(S), NEW k \in Nat
  PROVE  Weighs([x \in S |-> k], S) /\ Weight([x \in S |-> k], S) = Cardinality(S) * k
<1> DEFINE v == [x \in S |-> k]
<1>1. \A x \in S : v[x] = k
  OBVIOUS
<1>2. Weighs(v, S)
  BY <1>1 DEF Weighs
<1>3. Cells(v, S) = S \X (1..k)
  <2>1. \A c \in S \X Nat : v[c[1]] = k
    BY <1>1
  <2> HIDE DEF v
  <2>2. Cells(v, S) = {c \in S \X Nat : 1 <= c[2] /\ c[2] <= k}
    BY <2>1, Zenon DEF Cells
  <2>3. {c \in S \X Nat : 1 <= c[2] /\ c[2] <= k} = S \X (1..k)
    OBVIOUS
  <2> QED BY <2>2, <2>3
<1>4. IsFiniteSet(1..k) /\ Cardinality(1..k) = k
  <2>1. 1 \in Int /\ k \in Int
    OBVIOUS
  <2>2. IsFiniteSet(1..k) /\ Cardinality(1..k) = IF 1 > k THEN 0 ELSE k - 1 + 1
    BY <2>1, FS_Interval
  <2> QED BY <2>2
<1>5. Cardinality(S \X (1..k)) = Cardinality(S) * k
  BY <1>4, FS_Product
<1> QED BY <1>2, <1>3, <1>5, Zenon DEF Weight

\* Elements of at most k weigh at most as often k as there are elements; and of at
\* least k, at least.
LEMMA WeightBounds ==
  ASSUME NEW w, NEW S, IsFiniteSet(S), Weighs(w, S), NEW k \in Nat
  PROVE  /\ Cardinality(S) \in Nat /\ Weight(w, S) \in Nat
         /\ (\A x \in S : w[x] <= k) => Weight(w, S) <= Cardinality(S) * k
         /\ (\A x \in S : k <= w[x]) => Cardinality(S) * k <= Weight(w, S)
<1> DEFINE v == [x \in S |-> k]
<1>1. Weighs(v, S) /\ Weight(v, S) = Cardinality(S) * k
  BY WeightOfConstant, Zenon
<1>2. \A x \in S : v[x] = k
  OBVIOUS
<1> HIDE DEF v
<1>3. ASSUME \A x \in S : w[x] <= k PROVE Weight(w, S) <= Cardinality(S) * k
  <2>1. \A x \in S : w[x] <= v[x]
    BY <1>2, <1>3
  <2> QED BY <1>1, <2>1, WeightAtMost
<1>4. ASSUME \A x \in S : k <= w[x] PROVE Cardinality(S) * k <= Weight(w, S)
  <2>1. \A x \in S : v[x] <= w[x]
    BY <1>2, <1>4
  <2> QED BY <1>1, <2>1, WeightAtMost
<1>5. Cardinality(S) \in Nat /\ Weight(w, S) \in Nat
  BY FS_CardinalityType, CellsFinite
<1> QED
  BY <1>3, <1>4, <1>5

\* The rows of a bucket that have the counter, and what each holds.
Rows_(b, m) == {r \in Selected(m) : BucketOf(r, m) = b /\ r.rx # Null}
RxOf(S) == [r \in S |-> r.rx]

\* g adds up the counter over the rows, as the fold of MapThenSumSet does.
RowAdds(S, g) ==
  g = [s \in SUBSET S |-> IF s = {} THEN 0 ELSE (First_(s)).rx + g[s \ {First_(s)}]]

\* The sum of a bucket is what its rows hold.
LEMMA AverageIs ==
  ASSUME HistoryInv, NEW b, NEW m
  PROVE  /\ IsFiniteSet(Rows_(b, m)) /\ Weighs(RxOf(Rows_(b, m)), Rows_(b, m))
         /\ Rows_(b, m) = {} => Average(b, m) = [sum |-> 0, n |-> 1]
         /\ Rows_(b, m) # {} =>
              Average(b, m) = [sum |-> Weight(RxOf(Rows_(b, m)), Rows_(b, m)),
                               n   |-> Cardinality(Rows_(b, m))]
<1> DEFINE S == Rows_(b, m)
           w == RxOf(S)
           g == CHOOSE g : RowAdds(S, g)
<1>1. IsFiniteSet(S)
  <2>1. S \in SUBSET samples /\ IsFiniteSet(samples)
    BY DEF Rows_, Selected, HistoryInv
  <2> QED BY <2>1, FS_Subset
<1>2. \A r \in S : w[r] = r.rx /\ r.rx \in Nat
  <2>1. \A r \in samples : r.rx \in Nat \cup {Null}
    BY DEF HistoryInv
  <2> QED BY <2>1 DEF Rows_, Selected, RxOf
<1>3. Weighs(w, S)
  BY <1>2, Zenon DEF Weighs
<1>4. ASSUME NEW f PROVE RowAdds(S, f) <=> Adds(w, S, f)
  <2>1. ASSUME NEW s \in SUBSET S, s # {} PROVE w[First_(s)] = (First_(s)).rx
    <3>1. First_(s) \in s
      BY <2>1, Zenon DEF First_
    <3> QED BY <1>2, <2>1, <3>1, Zenon
  <2>2. [s \in SUBSET S |-> IF s = {} THEN 0 ELSE (First_(s)).rx + f[s \ {First_(s)}]]
          = [s \in SUBSET S |-> IF s = {} THEN 0 ELSE w[First_(s)] + f[s \ {First_(s)}]]
    <3> HIDE DEF S, w
    <3> QED BY <2>1, Zenon
  <2> QED BY <2>2, Zenon DEF RowAdds, Adds
<1>5. \E f : RowAdds(S, f)
  <2> HIDE DEF S, w
  <2> QED BY <1>1, <1>3, <1>4, AddsExists
<1>6. RowAdds(S, g)
  BY <1>5
<1>7. g[S] = Weight(w, S)
  <2> HIDE DEF S, w, g
  <2>1. Adds(w, S, g)
    BY <1>4, <1>6
  <2> QED BY <1>1, <1>3, <2>1, AddsIs
<1>8. S # {} => Average(b, m) = [sum |-> g[S], n |-> Cardinality(S)]
  BY Zenon DEF Average, MapThenSumSet, MapThenFoldSet, RowAdds, First_, Rows_
<1>9. S = {} => Average(b, m) = [sum |-> 0, n |-> 1]
  BY Zenon DEF Average, Rows_
<1> QED
  BY <1>1, <1>3, <1>7, <1>8, <1>9, Zenon

\* The width of a bucket, and the cut-off.
LEMMA WindowIs ==
  ASSUME NEW m \in Minutes
  PROVE  bucket_secs(m) \in Nat \ {0} /\ clamped(m) * Minute \in Int /\ Day \in Nat \ {0}
<1>1. m \in Nat /\ Least \in Nat /\ Minute \in Nat /\ MAX_POINTS \in Nat \ {0} /\ Day \in Nat \ {0}
  BY HistoryAssumption
<1>2. \A a, b \in Int : Larger(a, b) \in Int /\ Larger(a, b) >= b
  BY DEF Larger
<1>3. clamped(m) \in Int
  BY <1>1, <1>2 DEF clamped
<1>4. clamped(m) * Minute \in Int
  BY <1>1, <1>3
<1>5. (clamped(m) * Minute) \div MAX_POINTS \in Int
  BY <1>1, <1>4, Quotient, Zenon
<1>6. bucket_secs(m) \in Int /\ bucket_secs(m) >= 1
  <2>1. 1 \in Int
    OBVIOUS
  <2> QED BY <1>2, <1>5, <2>1, Zenon DEF bucket_secs
<1> QED BY <1>1, <1>4, <1>6

\* No row of the window is left out.
LEMMA WindowCovered == HistoryInv => WindowIsCovered
<1> SUFFICES ASSUME HistoryInv, NEW m \in Minutes, NEW r \in samples,
                    r.at >= wall - clamped(m) * Minute
             PROVE  BucketOf(r, m) \in Buckets(m)
  BY DEF WindowIsCovered
<1>1. r.at \in Int /\ wall \in Int
  BY DEF HistoryInv
<1>2. clamped(m) * Minute \in Int /\ Day \in Nat \ {0}
  BY WindowIs
<1>3. wall - clamped(m) * Minute \in Int
  BY <1>1, <1>2
<1>4. r.at \div Day >= (wall - clamped(m) * Minute) \div Day
  BY <1>1, <1>2, <1>3, QuotientGrows
<1>5. r \in Selected(m)
  BY <1>4 DEF Selected
<1> QED BY <1>5 DEF Buckets

\* The bucket before, if there is one.
LEMMA BucketBefore ==
  ASSUME HistoryInv, NEW m \in Minutes, NEW b \in Buckets(m), Earlier(b, m) # {}
  PROVE  /\ b \in Nat /\ Max(Earlier(b, m)) \in Nat
         /\ Max(Earlier(b, m)) \in Earlier(b, m) /\ Max(Earlier(b, m)) < b
<1>1. \A c \in Buckets(m) : c \in Nat
  <2> SUFFICES ASSUME NEW r \in Selected(m) PROVE BucketOf(r, m) \in Nat
    BY DEF Buckets
  <2>1. r.at \in Int /\ r.at >= 0
    BY DEF Selected, HistoryInv
  <2>2. bucket_secs(m) \in Nat \ {0}
    BY WindowIs
  <2>3. PICK q \in Int : /\ q = r.at \div bucket_secs(m)
                         /\ r.at < bucket_secs(m) * q + bucket_secs(m)
    BY <2>1, <2>2, Quotient
  <2>4. q >= 0
    <3>1. bucket_secs(m) * q + bucket_secs(m) = bucket_secs(m) * (q + 1)
      BY <2>2, <2>3
    <3>2. q + 1 > 0
      <4>1. \A d \in Nat, z \in Int : z <= 0 => d * z <= 0
        OBVIOUS
      <4> QED BY <2>1, <2>2, <2>3, <3>1, <4>1
    <3> QED BY <3>2, <2>3
  <2> QED BY <2>3, <2>4 DEF BucketOf
<1>2. b \in Nat /\ Earlier(b, m) \subseteq 0..b
  BY <1>1 DEF Earlier
<1>3. Max(Earlier(b, m)) \in Earlier(b, m)
  BY <1>2, GreatestOf
<1>4. Max(Earlier(b, m)) \in Buckets(m) /\ Max(Earlier(b, m)) < b
  BY <1>3 DEF Earlier
<1> QED BY <1>1, <1>2, <1>3, <1>4

\* Rows of two buckets, c before b, and how far apart they can be.
LEMMA RowsApart ==
  ASSUME HistoryInv, NEW m \in Minutes, NEW b \in Nat, NEW c \in Nat, c < b,
         NEW r \in Rows_(c, m), NEW s \in Rows_(b, m)
  PROVE  /\ r.rx \in Nat /\ s.rx \in Nat
         /\ s.rx - r.rx <= 2 * Fastest * ((b - c) * bucket_secs(m))
<1> DEFINE B == bucket_secs(m)
<1>1. /\ r \in samples /\ r.at \div B = c /\ r.rx # Null
      /\ s \in samples /\ s.at \div B = b /\ s.rx # Null
  BY DEF Rows_, Selected, BucketOf
<1>2. r.at \in Int /\ s.at \in Int /\ r.rx \in Nat /\ s.rx \in Nat
  <2>1. \A x \in samples : x.at \in Int /\ x.rx \in Nat \cup {Null}
    BY DEF HistoryInv
  <2> QED BY <1>1, <2>1
<1>3. B \in Nat \ {0}
  BY WindowIs
<1> HIDE DEF B
<1>4. B * c <= r.at /\ s.at < B * b + B /\ r.at < B * c + B /\ B * b <= s.at
  BY <1>1, <1>2, <1>3, Quotient
<1>5. B * (b - c) = B * b - B * c /\ B * (b - c) >= B
  <2>1. B * (b - c) = B * b - B * c
    BY <1>3
  <2>2. B * (b - c - 1) \in Nat /\ B * (b - c - 1) = B * (b - c) - B
    BY <1>3
  <2> QED BY <1>3, <2>1, <2>2
<1>6. PICK d \in Nat : d = (b - c) * B /\ d = B * (b - c) /\ B <= d
  <2>1. (b - c) * B = B * (b - c) /\ B * (b - c) \in Int
    BY <1>3
  <2>2. B * (b - c) \in Nat
    BY <1>3, <1>5, <2>1
  <2> QED BY <1>5, <2>1, <2>2
<1>7. r.at < s.at /\ s.at - r.at \in Nat /\ s.at - r.at <= 2 * d
  <2>1. PICK p \in Int : p = B * b
    BY <1>3
  <2>2. PICK q \in Int : q = B * c
    BY <1>3
  <2> QED BY <1>2, <1>3, <1>4, <1>5, <1>6, <2>1, <2>2
<1>8. PICK G \in Nat : G = Fastest
  BY FastestIs
<1>9. s.rx - r.rx <= G * (s.at - r.at)
  BY <1>1, <1>7, <1>8 DEF HistoryInv, GrewAtMost
<1>10. PICK t \in Nat : t = s.at - r.at
  BY <1>7
<1>11. G * t <= 2 * G * d
  <2>1. G * (2 * d - t) \in Nat
    BY <1>7, <1>10
  <2>2. G * (2 * d - t) = 2 * G * d - G * t
    OBVIOUS
  <2>3. G * t \in Int /\ 2 * G * d \in Int
    OBVIOUS
  <2> QED BY <2>1, <2>2, <2>3
<1>12. s.rx - r.rx <= 2 * G * d
  <2>1. G * t \in Int /\ 2 * G * d \in Int /\ s.rx - r.rx <= G * t /\ s.rx - r.rx \in Int
    BY <1>2, <1>9, <1>10
  <2> QED BY <1>11, <2>1
<1> QED BY <1>2, <1>6, <1>8, <1>12, Zenon DEF B

\* The mean of numbers that are all little above the least of others is little
\* above their mean.
LEMMA MeansApart ==
  ASSUME NEW p \in Nat, NEW q \in Nat, NEW i \in Nat \ {0}, NEW j \in Nat \ {0},
         NEW lo \in Nat, NEW f \in Nat, p <= i * (lo + f), j * lo <= q
  PROVE  p * j - q * i <= f * i * j
<1>1. p * j <= i * (lo + f) * j
  <2>1. (i * (lo + f) - p) * j \in Nat
    BY SMT
  <2>2. (i * (lo + f) - p) * j = i * (lo + f) * j - p * j
    OBVIOUS
  <2> QED BY <2>1, <2>2
<1>2. j * lo * i <= q * i
  <2>1. (q - j * lo) * i \in Nat
    OBVIOUS
  <2>2. (q - j * lo) * i = q * i - j * lo * i
    OBVIOUS
  <2> QED BY <2>1, <2>2
<1>3. i * (lo + f) * j = j * lo * i + f * i * j
  OBVIOUS
<1>4. p * j \in Int /\ q * i \in Int /\ f * i * j \in Int /\ j * lo * i \in Int
  OBVIOUS
<1> QED BY <1>1, <1>2, <1>3, <1>4

\* No phantom speeds.
LEMMA SpeedsReal == HistoryInv => NoPhantomSpeed
<1> SUFFICES ASSUME HistoryInv, NEW m \in Minutes, NEW b \in Buckets(m),
                    \A c \in Earlier(b, m) : HadCounter(c, m), Earlier(b, m) # {}
             PROVE  SpeedAtMost(b, m, 2 * Fastest)
  BY Zenon DEF NoPhantomSpeed, SpeedAtMost, Fastest
<1> DEFINE c == Max(Earlier(b, m))
           N == Rows_(b, m)
           O == Rows_(c, m)
           new == Average(b, m)
           old == Average(c, m)
           d == Elapsed(b, m)
<1>1. b \in Nat /\ c \in Nat /\ c \in Earlier(b, m) /\ c < b
  BY BucketBefore
<1>2. HadCounter(c, m)
  BY <1>1
<1>3. O # {}
  BY <1>2 DEF HadCounter, Rows_
<1>4. d = (b - c) * bucket_secs(m) /\ d \in Nat
  <2>1. bucket_secs(m) \in Nat \ {0} /\ b - c \in Nat
    BY <1>1, WindowIs
  <2>2. (b - c) * bucket_secs(m) \in Nat
    BY <2>1
  <2> QED BY <2>2 DEF Elapsed
<1>5. /\ IsFiniteSet(O) /\ Weighs(RxOf(O), O)
      /\ old = [sum |-> Weight(RxOf(O), O), n |-> Cardinality(O)]
      /\ IsFiniteSet(N) /\ Weighs(RxOf(N), N)
      /\ N = {} => new = [sum |-> 0, n |-> 1]
      /\ N # {} => new = [sum |-> Weight(RxOf(N), N), n |-> Cardinality(N)]
  BY <1>3, AverageIs, Zenon
<1>6. SpeedAtMost(b, m, 2 * Fastest)
        <=> \/ new.sum * old.n - old.sum * new.n <= 0
            \/ new.sum * old.n - old.sum * new.n <= 2 * Fastest * d * new.n * old.n
  BY Zenon DEF SpeedAtMost
<1>7. ASSUME NEW r \in O, NEW s \in N
      PROVE  r.rx \in Nat /\ s.rx \in Nat /\ s.rx - r.rx <= 2 * Fastest * d
  <2> HIDE DEF c, d
  <2> QED BY <1>1, <1>4, <1>7, RowsApart
<1> HIDE DEF c, N, O, new, old, d
<1>8. \A r \in O : r.rx \in Nat /\ RxOf(O)[r] = r.rx
  BY <1>5, Zenon DEF Weighs, RxOf
<1>9. \A s \in N : s.rx \in Nat /\ RxOf(N)[s] = s.rx
  BY <1>5, Zenon DEF Weighs, RxOf
<1>10. PICK f \in Nat : f = 2 * Fastest * d
  <2>1. Fastest \in Nat
    BY FastestIs
  <2> QED BY <1>4, <2>1
<1>11. Cardinality(O) \in Nat \ {0} /\ Weight(RxOf(O), O) \in Nat
  BY <1>3, <1>5, FS_CardinalityType, FS_EmptySet, CellsFinite
<1>12. CASE N = {}
  <2>1. new.sum = 0 /\ new.n = 1 /\ old.n \in Nat /\ old.sum \in Nat
    BY <1>5, <1>11, <1>12
  <2>2. new.sum * old.n - old.sum * new.n <= 0
    BY <2>1
  <2> QED BY <1>6, <2>2
<1>13. CASE N # {}
  <2>1. PICK lo \in Nat : /\ \A r \in O : lo <= r.rx
                          /\ \E r \in O : r.rx = lo
    <3> DEFINE X == {r.rx : r \in O}
    <3>1. X \subseteq Nat /\ X # {}
      BY <1>3, <1>8
    <3>2. PICK x \in X : \A y \in X : x <= y
      <4> HIDE DEF X
      <4> QED BY <3>1, LeastOf
    <3> QED BY <3>1, <3>2
  <2>2. \A s \in N : s.rx <= lo + f
    <3> SUFFICES ASSUME NEW s \in N PROVE s.rx <= lo + f
      OBVIOUS
    <3>1. PICK r \in O : r.rx = lo
      BY <2>1
    <3>2. s.rx \in Nat /\ s.rx - lo <= f
      BY <1>7, <1>10, <3>1
    <3> QED BY <3>2
  <2>3. Cardinality(O) * lo <= Weight(RxOf(O), O)
    <3> DEFINE w == RxOf(O)
    <3>2. \A r \in O : lo <= w[r]
      BY <1>8, <2>1
    <3> HIDE DEF w
    <3>3. Weighs(w, O)
      BY <1>5 DEF w
    <3>4. Cardinality(O) * lo <= Weight(w, O)
      BY <1>5, <3>2, <3>3, WeightBounds
    <3> QED BY <3>4 DEF w
  <2>4. Weight(RxOf(N), N) <= Cardinality(N) * (lo + f) /\ Weight(RxOf(N), N) \in Nat
    <3> DEFINE w == RxOf(N)
    <3>1. \A r \in N : w[r] <= lo + f
      BY <1>9, <2>2
    <3>2. lo + f \in Nat /\ Weighs(w, N)
      BY <1>5
    <3> HIDE DEF w
    <3>3. Weight(w, N) <= Cardinality(N) * (lo + f) /\ Weight(w, N) \in Nat
      BY <1>5, <3>1, <3>2, WeightBounds
    <3> QED BY <3>3 DEF w
  <2>5. Cardinality(N) \in Nat \ {0}
    BY <1>5, <1>13, FS_CardinalityType, FS_EmptySet
  <2>6. PICK p \in Nat : p = new.sum /\ p = Weight(RxOf(N), N)
    BY <1>5, <1>13, <2>4
  <2>7. PICK q \in Nat : q = old.sum /\ q = Weight(RxOf(O), O)
    BY <1>5, <1>11
  <2>8. PICK i \in Nat \ {0} : i = new.n /\ i = Cardinality(N)
    BY <1>5, <1>13, <2>5
  <2>9. PICK j \in Nat \ {0} : j = old.n /\ j = Cardinality(O)
    BY <1>5, <1>11
  <2>10. p <= i * (lo + f) /\ j * lo <= q
    BY <2>3, <2>4, <2>6, <2>7, <2>8, <2>9
  <2>11. p * j - q * i <= f * i * j
    BY <2>10, MeansApart
  <2>12. new.sum * old.n - old.sum * new.n <= 2 * Fastest * d * new.n * old.n
    BY <1>10, <2>6, <2>7, <2>8, <2>9, <2>11, Zenon
  <2> QED BY <1>6, <2>12
<1> QED BY <1>12, <1>13

\* No chart shows a speed the host never had, and none leaves out a row of its
\* window (get_metrics_history, src/monitor/src/api/server.rs).
THEOREM ChartsTheorem == HistorySpec => []ChartsHold
<1>1. HistoryInv => ChartsHold
  BY WindowCovered, SpeedsReal DEF ChartsHold
<1> QED BY <1>1, HistoryStart, HistoryStep, PTL DEF HistorySpec

\* The rows and the clock have their types.
THEOREM HistoryTypesTheorem == HistorySpec => []HistoryTypeOK
  BY HistoryStart, HistoryStep, HistoryTypes, PTL DEF HistorySpec
=============================================================================
