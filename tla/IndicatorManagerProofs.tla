----------------------- MODULE IndicatorManagerProofs -----------------------
(***************************************************************************)
(* Types, the uniqueness of rows, that committed rows only grow, that one  *)
(* bad record does not cost the others, and that no sighting is counted    *)
(* twice, for any batches of records, whatever fails and whenever.         *)
(***************************************************************************)
EXTENDS IndicatorManager, Induction

-----------------------------------------------------------------------------
(* What a delete leaves.                                                   *)

\* The number of those that are left, up to the j-th.
UpTo(left, j) == {k \in left : k <= j}

LEMMA Finite ==
    ASSUME NEW L \in Nat, NEW T, T \subseteq 1..L
    PROVE  /\ IsFiniteSet(T) /\ Cardinality(T) \in Nat /\ Cardinality(T) <= L
           /\ Cardinality(T) = L => T = 1..L
<1>1. IsFiniteSet(1..L) /\ Cardinality(1..L) = L
  <2>1. 1 \in Int /\ L \in Int
    OBVIOUS
  <2>2. IsFiniteSet(1..L) /\ Cardinality(1..L) = IF 1 > L THEN 0 ELSE L - 1 + 1
    BY <2>1, FS_Interval, Zenon
  <2>3. QED
    BY <2>2
<1>2. T \in SUBSET (1..L)
  OBVIOUS
<1>3. QED
  BY <1>1, <1>2, FS_Subset, FS_CardinalityType

LEMMA UpToGrows ==
    ASSUME NEW L \in Nat, NEW left, left \subseteq 1..L,
           NEW i \in left, NEW j \in left, i < j
    PROVE  Cardinality(UpTo(left, i)) < Cardinality(UpTo(left, j))
<1>1. i \in Int /\ j \in Int
  OBVIOUS
<1>2. /\ UpTo(left, i) \in SUBSET UpTo(left, j) /\ UpTo(left, j) \subseteq 1..L
      /\ UpTo(left, i) \subseteq 1..L /\ UpTo(left, i) # UpTo(left, j)
  <2>1. ASSUME NEW k \in left, k <= i PROVE k <= j
    <3>1. k \in Int
      OBVIOUS
    <3>2. QED
      BY <1>1, <2>1, <3>1
  <2>2. j <= j /\ ~(j <= i)
    BY <1>1
  <2>3. UpTo(left, i) \subseteq left /\ UpTo(left, j) \subseteq left
    BY DEF UpTo
  <2>4. j \in UpTo(left, j) /\ j \notin UpTo(left, i)
    BY <2>2 DEF UpTo
  <2>5. UpTo(left, i) \in SUBSET UpTo(left, j)
    BY <2>1 DEF UpTo
  <2>6. QED
    BY <2>3, <2>4, <2>5
<1>3. /\ IsFiniteSet(UpTo(left, j)) /\ Cardinality(UpTo(left, j)) \in Nat
      /\ Cardinality(UpTo(left, i)) \in Nat
  BY <1>2, Finite
<1>4. QED
  BY <1>2, <1>3, FS_Subset

\* Counting up from the first numbers those that are left through.
LEMMA Numbered ==
    ASSUME NEW L \in Nat, NEW left, left \subseteq 1..L,
           NEW n \in 1..Cardinality(left)
    PROVE  \E j \in left : Cardinality(UpTo(left, j)) = n
<1> DEFINE T == 1..Cardinality(left)
           f == [j \in left |-> Cardinality(UpTo(left, j))]
<1>1. IsFiniteSet(left) /\ Cardinality(left) \in Nat
  BY Finite
<1>2. IsFiniteSet(T) /\ Cardinality(T) = Cardinality(left)
  <2>1. 1 \in Int /\ Cardinality(left) \in Int
    BY <1>1
  <2>2. IsFiniteSet(T) /\ Cardinality(T) = IF 1 > Cardinality(left) THEN 0
                                           ELSE Cardinality(left) - 1 + 1
    BY <2>1, FS_Interval, Zenon
  <2>3. QED
    BY <1>1, <2>2
<1>3. ASSUME NEW j \in left PROVE f[j] \in T
  <2>1. UpTo(left, j) \subseteq left /\ j \in UpTo(left, j)
    BY DEF UpTo
  <2>2. IsFiniteSet(UpTo(left, j)) /\ Cardinality(UpTo(left, j)) <= Cardinality(left)
    BY <1>1, <2>1, FS_Subset
  <2>3. Cardinality(UpTo(left, j)) \in Nat /\ Cardinality(UpTo(left, j)) # 0
    BY <2>1, <2>2, FS_EmptySet, FS_CardinalityType
  <2>4. QED
    BY <1>1, <2>2, <2>3
<1>4. ASSUME NEW i \in left, NEW j \in left, f[i] = f[j] PROVE i = j
  <2>1. i \in Int /\ j \in Int
    OBVIOUS
  <2>2. f[i] \in Nat
    BY <1>1, <1>3
  <2>3. Cardinality(UpTo(left, i)) = Cardinality(UpTo(left, j))
    BY <1>4
  <2>4. Cardinality(UpTo(left, i)) \in Int
    BY <2>2
  <2>5. i < j => Cardinality(UpTo(left, i)) < Cardinality(UpTo(left, j))
    BY UpToGrows, Zenon
  <2>6. j < i => Cardinality(UpTo(left, j)) < Cardinality(UpTo(left, i))
    BY UpToGrows, Zenon
  <2>7. QED
    BY <2>1, <2>3, <2>4, <2>5, <2>6
<1>5. f \in Injection(left, T)
  BY <1>3, <1>4 DEF Injection, IsInjective
<1>6. f \in Surjection(left, T)
  BY <1>2, <1>5, FS_Injection
<1>7. PICK j \in left : f[j] = n
  BY <1>6 DEF Surjection
<1>8. QED
  BY <1>7

\* The rows of p are some of q, in the same order.
PartOf(p, q) ==
    \E at \in [DOMAIN p -> DOMAIN q] :
        /\ \A n \in DOMAIN at : p[n] = q[at[n]]
        /\ \A m, n \in DOMAIN at : m < n => at[m] < at[n]

\* What is left are rows that were there, in their order; and all of them, if as
\* many are left as there were.
LEMMA WithoutIs ==
    ASSUME NEW S, NEW rows \in Seq(S), NEW gone
    PROVE  /\ Without(rows, gone) \in Seq(S)
           /\ Len(Without(rows, gone)) <= Len(rows)
           /\ PartOf(Without(rows, gone), rows)
           /\ Len(Without(rows, gone)) = Len(rows) => Without(rows, gone) = rows
<1> DEFINE L == Len(rows)
           left == {j \in DOMAIN rows : j \notin gone}
           N == Cardinality(left)
           At(n) == CHOOSE j \in left : Cardinality({k \in left : k <= j}) = n
           at == [n \in 1..N |-> At(n)]
<1>1. L \in Nat /\ DOMAIN rows = 1..L /\ left \subseteq 1..L
  OBVIOUS
<1>2. /\ IsFiniteSet(left) /\ N \in Nat /\ N <= L
      /\ N = L => left = 1..L
  BY <1>1, Finite
<1>3. ASSUME NEW n \in 1..N
      PROVE  At(n) \in left /\ Cardinality({k \in left : k <= At(n)}) = n
  <2>1. \E j \in left : Cardinality(UpTo(left, j)) = n
    <3> HIDE DEF L, left
    <3>1. L \in Nat /\ left \subseteq 1..L /\ n \in 1..Cardinality(left)
      BY <1>1, <1>3
    <3>2. QED
      BY <3>1, Numbered
  <2>2. \A j : UpTo(left, j) = {k \in left : k <= j}
    BY DEF UpTo
  <2>3. QED
    BY <2>1, <2>2
<1>4. Without(rows, gone) = [n \in 1..N |-> rows[At(n)]]
  BY DEF Without
<1> HIDE DEF At
<1>5. at \in [1..N -> 1..L] /\ \A n \in 1..N : rows[At(n)] \in S
  <2>1. \A k \in 1..L : rows[k] \in S
    BY <1>1
  <2>2. \A n \in 1..N : At(n) \in 1..L
    BY <1>1, <1>3
  <2>3. QED
    BY <2>1, <2>2
<1>6. ASSUME NEW m \in 1..N, NEW n \in 1..N, m < n PROVE at[m] < at[n]
  <2>1. /\ at[m] \in left /\ at[n] \in left /\ at[m] \in Int /\ at[n] \in Int
        /\ m \in Int /\ n \in Int
    <3>1. at[m] = At(m) /\ at[n] = At(n)
      OBVIOUS
    <3> HIDE DEF at, left, L, N
    <3>2. at[m] \in left /\ at[n] \in left
      BY <1>3, <3>1
    <3>3. L \in Nat /\ left \subseteq 1..L /\ N \in Nat
      BY <1>1, <1>2
    <3>4. at[m] \in Int /\ at[n] \in Int
      <4>1. \A j \in 1..L : j \in Int
        BY <3>3
      <4>2. \A j \in left : j \in Int
        BY <3>3, <4>1
      <4>3. QED
        BY <3>2, <4>2
    <3>5. m \in Int /\ n \in Int
      BY <3>3
    <3>6. QED
      BY <3>2, <3>4, <3>5
  <2>2. Cardinality(UpTo(left, at[m])) = m /\ Cardinality(UpTo(left, at[n])) = n
    BY <1>3 DEF UpTo
  <2> HIDE DEF at, left, L
  <2>3. at[n] < at[m] => n < m
    BY <1>1, <2>1, <2>2, UpToGrows
  <2>4. at[n] # at[m]
    BY <1>6, <2>1, <2>2
  <2>5. QED
    BY <1>6, <2>1, <2>3, <2>4
<1>7. Without(rows, gone) \in Seq(S) /\ Len(Without(rows, gone)) = N
  BY <1>2, <1>4, <1>5
<1>8. ASSUME N = L PROVE Without(rows, gone) = rows
  <2>1. left = 1..L
    BY <1>2, <1>8
  <2>2. ASSUME NEW n \in 1..L PROVE At(n) = n
    <3>1. At(n) \in 1..L /\ Cardinality({k \in 1..L : k <= At(n)}) = n
      BY <1>3, <1>8, <2>1
    <3>2. {k \in 1..L : k <= At(n)} = 1..At(n)
      BY <1>1, <3>1
    <3>3. Cardinality(1..At(n)) = At(n)
      <4>1. At(n) \in Int /\ 1 \in Int /\ At(n) >= 1
        BY <3>1
      <4>2. Cardinality(1..At(n)) = IF 1 > At(n) THEN 0 ELSE At(n) - 1 + 1
        BY <4>1, FS_Interval, Zenon
      <4>3. QED
        BY <4>1, <4>2
    <3>4. QED
      BY <3>1, <3>2, <3>3
  <2>3. rows = [n \in 1..L |-> rows[n]]
    BY <1>1
  <2>4. Without(rows, gone) = [n \in 1..L |-> rows[n]]
    BY <1>4, <1>8, <2>2
  <2>5. QED
    BY <2>3, <2>4
<1>9. PartOf(Without(rows, gone), rows)
  <2>1. DOMAIN Without(rows, gone) = 1..N
    BY <1>4
  <2>2. \A n \in 1..N : Without(rows, gone)[n] = rows[at[n]]
    BY <1>4
  <2>3. QED
    BY <1>1, <1>5, <1>6, <2>1, <2>2 DEF PartOf
<1>10. QED
  BY <1>1, <1>2, <1>7, <1>8, <1>9

-----------------------------------------------------------------------------
(* The invariant. The rows of the session have grown out of the committed  *)
(* ones, and only a batch in its one transaction has added any.            *)

Same(r, s) == Key(r) = Key(s) /\ r.tag = s.tag
Later(r, s) == r.last_at >= s.last_at /\ r.count >= s.count

GrownFrom(rows, base) ==
    /\ Len(rows) >= Len(base)
    /\ \A j \in DOMAIN base : Same(rows[j], base[j]) /\ Later(rows[j], base[j])

Unique(rows) ==
    \A j, k \in DOMAIN rows :
        Same(rows[j], rows[k]) /\ rows[j].itype # "hash" => j = k

RowsInv ==
    /\ AUTOFLUSH \in BOOLEAN
    /\ db \in Seq(Row) /\ view \in Seq(Row)
    /\ GrownFrom(view, db)
    /\ mode # "batch" => Len(view) = Len(db)
    /\ AUTOFLUSH => Unique(db) /\ Unique(view)

Pairs == {<<d.indicator, d.last_at>> : d \in Records}

BatchInv ==
    /\ data \in Batches \cup {<<>>}
    /\ idx \in 1..Len(data) + 1
    /\ mode \in {"idle", "batch", "alone"}
    /\ cached \in SUBSET Pairs
    /\ tagless \subseteq DOMAIN data /\ failed \subseteq DOMAIN data
    /\ poisoned \in BOOLEAN
    /\ received \in [Keys -> Nat]
    /\ upserts \in 0..MaxUpserts

IInv == RowsInv /\ BatchInv

\* What NoRegress says of a step.
NoLoss == Len(db') >= Len(db) => GrownFrom(db', db)

LEMMA InvTypes == IInv => TypeOK
BY DEF IInv, RowsInv, BatchInv, TypeOK, Pairs

\* The record in hand is one of those clients may send.
LEMMA RecordsAre ==
    /\ \A b \in Batches : b \in Seq(Records)
    /\ \A d \in Records : /\ d.itype \in Itypes /\ d.last_at \in Nat /\ d.tag # NoTag
                          /\ d.count \in Int
<1>1. \A b \in Batches : b \in Seq(Records)
  BY BatchesAssumption
<1>2. ASSUME NEW d \in Records
      PROVE  /\ d.itype \in Itypes /\ d.last_at \in Nat /\ d.tag # NoTag
             /\ d.count \in Int
  <2>1. PICK b \in Batches : \E j \in DOMAIN b : d = b[j]
    BY DEF Records
  <2>2. QED
    BY <2>1, BatchesAssumption
<1>3. QED
  BY <1>1, <1>2

LEMMA CurrentIs ==
    ASSUME BatchInv, idx <= Len(data)
    PROVE  Current \in Records /\ idx \in DOMAIN data
<1>1. data \in Seq(Records)
  BY RecordsAre DEF BatchInv
<1>2. idx \in Int /\ idx >= 1 /\ Len(data) \in Nat
  BY <1>1 DEF BatchInv
<1>3. idx \in DOMAIN data
  BY <1>1, <1>2
<1>4. QED
  BY <1>1, <1>3 DEF Current

LEMMA RowIs ==
    ASSUME NEW r \in Row
    PROVE  r.last_at \in Nat /\ r.count \in Int /\ Key(r).itype = r.itype
BY DEF Row, Key

LEMMA UpdatedIs ==
    ASSUME NEW r \in Row, NEW d \in Records
    PROVE  /\ Updated(r, d) \in Row /\ Same(Updated(r, d), r) /\ Later(Updated(r, d), r)
           /\ Weight(Updated(r, d)) <= Weight(r) + 1
<1>1. d.last_at \in Nat /\ r.last_at \in Nat /\ r.count \in Int
  BY RecordsAre, RowIs
<1>2. CASE d.last_at <= r.last_at
  BY <1>1, <1>2 DEF Updated, Same, Later, Weight
<1>3. CASE ~(d.last_at <= r.last_at)
  <2>1. Updated(r, d) = [r EXCEPT !.last_at = d.last_at, !.count = Counted(r)]
    BY <1>3 DEF Updated
  <2>2. Counted(r) \in Int /\ Counted(r) >= r.count
    BY <1>1 DEF Counted
  <2>3. Updated(r, d) \in Row
    BY <1>1, <2>1, <2>2 DEF Row
  <2>4. /\ Updated(r, d).last_at = d.last_at /\ Updated(r, d).count = Counted(r)
        /\ Same(Updated(r, d), r)
    BY <2>1 DEF Row, Same, Key
  <2>5. Weight(Updated(r, d)) <= Weight(r) + 1
    BY <1>1, <2>4 DEF Weight, Counted
  <2>6. QED
    BY <1>1, <1>3, <2>2, <2>3, <2>4, <2>5 DEF Later
<1>4. QED
  BY <1>2, <1>3

LEMMA NewRowIs ==
    ASSUME NEW d \in Records
    PROVE  /\ NewRow(d) \in Row /\ Key(NewRow(d)) = Key(d)
           /\ NewRow(d).tag = TagOf(d) /\ NewRow(d).itype = d.itype
           /\ Weight(NewRow(d)) = Weight(d)
<1>1. d.itype \in Itypes /\ d.last_at \in Nat /\ d.count \in Int /\ TagOf(d) \in {e.tag : e \in Records} \cup {NoTag}
  BY RecordsAre DEF TagOf
<1>2. QED
  BY <1>1 DEF NewRow, Row, Key, Weight

LEMMA GrowthOrder ==
    /\ \A p \in Seq(Row) : GrownFrom(p, p)
    /\ \A p, q, r \in Seq(Row) : GrownFrom(p, q) /\ GrownFrom(q, r) => GrownFrom(p, r)
<1>1. ASSUME NEW p \in Seq(Row) PROVE GrownFrom(p, p)
  <2>1. \A j \in DOMAIN p : p[j] \in Row
    OBVIOUS
  <2>2. Len(p) \in Nat
    OBVIOUS
  <2>3. QED
    BY <2>1, <2>2, RowIs DEF GrownFrom, Same, Later
<1>2. ASSUME NEW p \in Seq(Row), NEW q \in Seq(Row), NEW r \in Seq(Row),
             GrownFrom(p, q), GrownFrom(q, r)
      PROVE  GrownFrom(p, r)
  <2>1. Len(p) \in Nat /\ Len(q) \in Nat /\ Len(r) \in Nat
    OBVIOUS
  <2>2. Len(p) >= Len(r) /\ Len(p) >= Len(q) /\ Len(q) >= Len(r)
    BY <1>2, <2>1 DEF GrownFrom
  <2>3. ASSUME NEW j \in DOMAIN r
        PROVE  Same(p[j], r[j]) /\ Later(p[j], r[j])
    <3>1. j \in DOMAIN q /\ j \in DOMAIN p
      BY <2>1, <2>2
    <3>2. p[j] \in Row /\ q[j] \in Row /\ r[j] \in Row
      BY <3>1
    <3>3. Same(p[j], q[j]) /\ Same(q[j], r[j]) /\ Later(p[j], q[j]) /\ Later(q[j], r[j])
      BY <1>2, <3>1 DEF GrownFrom
    <3>4. QED
      BY <3>2, <3>3, RowIs DEF Same, Later
  <2>4. QED
    BY <2>2, <2>3 DEF GrownFrom
<1>3. QED
  BY <1>1, <1>2

-----------------------------------------------------------------------------
(* Sums of counts.                                                         *)

\* Rows, and the records they come from, count for at least one sighting.
Reports == Row \cup Records

LEMMA ReportIs == \A x \in Reports : Weight(x) \in Nat
BY RowIs, RecordsAre DEF Reports, Weight

LEMMA ReportSeqs ==
    /\ \A rows \in Seq(Row) : rows \in Seq(Reports)
    /\ \A s \in Seq(Records) : s \in Seq(Reports)
<1>1. Row \subseteq Reports /\ Records \subseteq Reports
  BY DEF Reports
<1> HIDE DEF Row, Records, Reports
<1>2. QED
  BY <1>1

\* What the n-th row adds to the count of k, and the sums up to each row.
Worth(rows, k, n) == IF n \in RowsOf(rows, k) THEN Weight(rows[n]) ELSE 0
Sums(f, rows, k) ==
    /\ f \in [0..Len(rows) -> Nat] /\ f[0] = 0
    /\ \A n \in 1..Len(rows) : f[n] = f[n - 1] + Worth(rows, k, n)

LEMMA WorthIs ==
    ASSUME NEW rows \in Seq(Reports), NEW k, NEW n
    PROVE  Worth(rows, k, n) \in Nat
<1>1. CASE n \in RowsOf(rows, k)
  <2>1. rows[n] \in Reports
    BY <1>1 DEF RowsOf
  <2>2. QED
    BY <1>1, <2>1, ReportIs DEF Worth
<1>2. CASE n \notin RowsOf(rows, k)
  BY <1>2 DEF Worth
<1>3. QED
  BY <1>1, <1>2

LEMMA Plus ==
    ASSUME NEW x, NEW y \in Nat, NEW z \in Nat, x = y + z
    PROVE  x \in Nat
OBVIOUS

LEMMA CountIs ==
    ASSUME NEW rows \in Seq(Reports), NEW k
    PROVE  \E f : Sums(f, rows, k) /\ Count(rows, k) = f[Len(rows)]
<1> DEFINE L == Len(rows)
           w == [n \in 1..L |-> Worth(rows, k, n)]
           step == [p \in Nat \X Nat |-> IF p[1] + 1 \in 1..L THEN p[2] + w[p[1] + 1] ELSE p[2]]
           Is(f) == f = [n \in 0..L |-> IF n = 0 THEN 0
                            ELSE f[n - 1] + (IF n \in RowsOf(rows, k) THEN Weight(rows[n]) ELSE 0)]
<1>1. L \in Nat /\ \A n \in 1..L : w[n] \in Nat
  BY WorthIs
<1> HIDE DEF w, L
<1>2. step \in [Nat \X Nat -> Nat]
  BY <1>1
<1> HIDE DEF step
<1>3. PICK f \in [Nat -> Nat] : Recursive(f, 0, step)
  BY <1>2, Recursion
<1>4. f[0] = 0 /\ \A n \in 1..L : f[n] = f[n - 1] + w[n]
  <2>1. f[0] = 0
    BY <1>3 DEF Recursive
  <2>2. ASSUME NEW n \in 1..L PROVE f[n] = f[n - 1] + w[n]
    <3>1. n - 1 \in Nat /\ n - 1 + 1 = n /\ f[n - 1] \in Nat
      BY <1>1, <1>3
    <3>2. f[n] = step[<<n - 1, f[n - 1]>>]
      BY <1>3, <3>1 DEF Recursive
    <3>3. <<n - 1, f[n - 1]>> \in Nat \X Nat
      BY <3>1
    <3>4. QED
      BY <3>1, <3>2, <3>3 DEF step
  <2>3. QED
    BY <2>1, <2>2
<1> DEFINE g == [n \in 0..L |-> f[n]]
<1>5. ASSUME NEW n \in 1..L PROVE n \in 0..L /\ n - 1 \in 0..L
  BY <1>1
<1>6. 0 \in 0..L
  BY <1>1
<1>7. \A n \in 1..L : g[n] = g[n - 1] + Worth(rows, k, n)
  BY <1>4, <1>5 DEF w
<1>8. Is(g)
  <2> SUFFICES ASSUME NEW n \in 0..L
               PROVE  g[n] = IF n = 0 THEN 0 ELSE g[n - 1]
                                + (IF n \in RowsOf(rows, k) THEN Weight(rows[n]) ELSE 0)
    OBVIOUS
  <2>1. CASE n = 0
    BY <1>4, <1>6, <2>1
  <2>2. CASE n # 0
    <3>1. n \in 1..L
      BY <1>1, <2>2
    <3> HIDE DEF g
    <3>2. QED
      BY <1>7, <2>2, <3>1 DEF Worth
  <2>3. QED
    BY <2>1, <2>2
<1>9. Is(CHOOSE h : Is(h))
  <2>1. \E h : Is(h)
    BY <1>8
  <2> HIDE DEF Is
  <2>2. QED
    BY <2>1
<1>10. PICK h : Is(h) /\ Count(rows, k) = h[L]
  <2>1. Count(rows, k) = (CHOOSE h : Is(h))[L]
    BY DEF Count, L
  <2>2. QED
    BY <1>9, <2>1
<1>11. h[0] = 0 /\ \A n \in 1..L : h[n] = h[n - 1] + Worth(rows, k, n)
  <2>1. h[0] = 0
    BY <1>6, <1>10
  <2>2. ASSUME NEW n \in 1..L PROVE h[n] = h[n - 1] + Worth(rows, k, n)
    <3>1. n \in 0..L /\ n # 0
      BY <1>1
    <3>2. QED
      BY <1>10, <3>1 DEF Worth
  <2>3. QED
    BY <2>1, <2>2
<1>12. \A n \in 0..L : h[n] \in Nat
  <2> DEFINE T == {n \in Nat : n <= L => h[n] \in Nat}
  <2>1. 0 \in T
    BY <1>11
  <2>2. ASSUME NEW n \in Nat, n \in T PROVE n + 1 \in T
    <3>1. CASE n + 1 <= L
      <4>1. PICK m \in 1..L : m = n + 1 /\ m - 1 = n /\ n <= L
        BY <1>1, <3>1
      <4>2. h[m] = h[n] + Worth(rows, k, m)
        BY <1>11, <4>1
      <4>3. h[n] \in Nat /\ Worth(rows, k, m) \in Nat
        BY <2>2, <4>1, WorthIs
      <4> HIDE DEF g, Is
      <4>4. h[m] \in Nat
        BY <4>2, <4>3, Plus, Zenon
      <4>5. QED
        BY <4>1, <4>4
    <3>2. CASE ~(n + 1 <= L)
      BY <3>2
    <3>3. QED
      BY <3>1, <3>2
  <2> HIDE DEF T
  <2>3. Nat \subseteq T
    BY <2>1, <2>2, NatAll
  <2>4. QED
    BY <1>1, <2>3 DEF T
<1>13. DOMAIN h = 0..L /\ h = [n \in DOMAIN h |-> h[n]]
  BY <1>10
<1>14. h \in [0..L -> Nat]
  BY <1>12, <1>13
<1>15. QED
  BY <1>10, <1>11, <1>14 DEF Sums, L

LEMMA CountNat ==
    ASSUME NEW rows \in Seq(Reports), NEW k
    PROVE  Count(rows, k) \in Nat
<1>1. PICK f : Sums(f, rows, k) /\ Count(rows, k) = f[Len(rows)]
  BY CountIs
<1>2. Len(rows) \in 0..Len(rows)
  OBVIOUS
<1>3. QED
  BY <1>1, <1>2 DEF Sums

LEMMA RowsCount == \A rows \in Seq(Row) : \A k : Count(rows, k) \in Nat
BY ReportSeqs, CountNat

-----------------------------------------------------------------------------
(* What an update and a new row do to the rows of the session.             *)

LEMMA UpdateRows ==
    ASSUME RowsInv, NEW d \in Records, NEW j \in First(d),
           view' = [view EXCEPT ![j] = Updated(@, d)]
    PROVE  /\ view' \in Seq(Row) /\ Len(view') = Len(view) /\ GrownFrom(view', db)
           /\ AUTOFLUSH => Unique(view')
<1>1. /\ db \in Seq(Row) /\ view \in Seq(Row) /\ GrownFrom(view, db)
      /\ AUTOFLUSH => Unique(view)
  BY DEF RowsInv
<1>2. Len(view) \in Nat /\ Len(db) \in Nat /\ Len(view) >= Len(db)
  BY <1>1 DEF GrownFrom
<1>3. j \in DOMAIN view
  <2>1. j \in DOMAIN view \/ j \in DOMAIN db
    BY DEF First, Matches, Seen
  <2>2. QED
    BY <1>1, <1>2, <2>1
<1>4. view[j] \in Row
  BY <1>1, <1>3
<1>5. /\ Updated(view[j], d) \in Row /\ Same(Updated(view[j], d), view[j])
      /\ Later(Updated(view[j], d), view[j])
  BY <1>4, UpdatedIs
<1>6. /\ view' \in Seq(Row) /\ Len(view') = Len(view) /\ DOMAIN view' = DOMAIN view
      /\ view'[j] = Updated(view[j], d)
      /\ \A k \in DOMAIN view : k # j => view'[k] = view[k]
  BY <1>1, <1>3, <1>5
<1>7. \A k \in DOMAIN view : Same(view'[k], view[k]) /\ Later(view'[k], view[k])
  <2>1. \A k \in DOMAIN view : view[k] \in Row
    BY <1>1
  <2>2. \A k \in DOMAIN view : Same(view[k], view[k]) /\ Later(view[k], view[k])
    BY <2>1, RowIs DEF Same, Later
  <2>3. QED
    BY <1>5, <1>6, <2>2
<1>8. GrownFrom(view', view)
  BY <1>2, <1>6, <1>7 DEF GrownFrom
<1>9. GrownFrom(view', db)
  BY <1>1, <1>6, <1>8, GrowthOrder
<1>10. ASSUME AUTOFLUSH, NEW k \in DOMAIN view', NEW m \in DOMAIN view',
              Same(view'[k], view'[m]), view'[k].itype # "hash"
       PROVE  k = m
  <2>1. view[k] \in Row /\ view[m] \in Row /\ view'[k] \in Row
    BY <1>1, <1>6
  <2>2. Same(view[k], view[m])
    BY <1>6, <1>7, <1>10 DEF Same
  <2>3. view[k].itype = view'[k].itype
    BY <1>6, <1>7, <2>1, RowIs DEF Same
  <2>4. QED
    BY <1>1, <1>6, <1>10, <2>2, <2>3 DEF Unique
<1>11. QED
  BY <1>6, <1>9, <1>10 DEF Unique

\* What matches nothing the session sees agrees with no row of it.
LEMMA NewRows ==
    ASSUME RowsInv, NEW d \in Records, Matches(d) = {},
           view' = Append(view, NewRow(d))
    PROVE  /\ view' \in Seq(Row) /\ Len(view') = Len(view) + 1 /\ GrownFrom(view', db)
           /\ AUTOFLUSH => Unique(view')
<1>1. /\ db \in Seq(Row) /\ view \in Seq(Row) /\ GrownFrom(view, db)
      /\ AUTOFLUSH => Unique(view)
  BY DEF RowsInv
<1> DEFINE new == NewRow(d)
<1>2. /\ new \in Row /\ Key(new) = Key(d) /\ new.tag = TagOf(d) /\ new.itype = d.itype
  BY NewRowIs
<1> HIDE DEF new
<1>3. /\ view' \in Seq(Row) /\ Len(view') = Len(view) + 1 /\ Len(view) \in Nat
      /\ DOMAIN view' = 1..Len(view) + 1 /\ DOMAIN view = 1..Len(view)
      /\ \A k \in DOMAIN view : view'[k] = view[k]
      /\ view'[Len(view) + 1] = new
  <2>1. view' = Append(view, new)
    BY DEF new
  <2>2. QED
    BY <1>1, <1>2, <2>1
<1>4. GrownFrom(view', view)
  <2>1. \A k \in DOMAIN view : view[k] \in Row
    BY <1>1
  <2>2. \A k \in DOMAIN view : Same(view[k], view[k]) /\ Later(view[k], view[k])
    BY <2>1, RowIs DEF Same, Later
  <2>3. QED
    BY <1>3, <2>2 DEF GrownFrom
<1>5. GrownFrom(view', db)
  BY <1>1, <1>3, <1>4, GrowthOrder
<1>6. ASSUME AUTOFLUSH, NEW k \in DOMAIN view, Same(view[k], new), new.itype # "hash"
      PROVE  FALSE
  <2>1. Key(view[k]) = Key(d) /\ view[k].tag = TagOf(d) /\ d.itype # "hash"
    BY <1>2, <1>6 DEF Same
  <2>2. k \in Matches(d)
    BY <1>6, <2>1 DEF Matches, Seen
  <2>3. QED
    BY <2>2
<1>7. ASSUME AUTOFLUSH, NEW k \in DOMAIN view', NEW m \in DOMAIN view',
             Same(view'[k], view'[m]), view'[k].itype # "hash"
      PROVE  k = m
  <2>1. view'[k] \in Row /\ view'[m] \in Row
    BY <1>3
  <2>2. Same(view'[m], view'[k]) /\ view'[m].itype # "hash"
    BY <1>7, <2>1, RowIs DEF Same
  <2>3. CASE k \in DOMAIN view /\ m \in DOMAIN view
    BY <1>1, <1>3, <1>7, <2>3 DEF Unique
  <2>4. CASE k \in DOMAIN view /\ m = Len(view) + 1
    BY <1>3, <1>6, <1>7, <2>2, <2>4
  <2>5. CASE k = Len(view) + 1 /\ m \in DOMAIN view
    BY <1>3, <1>6, <1>7, <2>2, <2>5
  <2>6. QED
    BY <1>3, <2>3, <2>4, <2>5
<1>8. QED
  BY <1>3, <1>5, <1>7 DEF Unique

LEMMA CachedIs ==
    ASSUME BatchInv, NEW d \in Records
    PROVE  Forgotten(d) \in SUBSET Pairs /\ Remembered(d) \in SUBSET Pairs
BY DEF BatchInv, Forgotten, Remembered, Pairs

-----------------------------------------------------------------------------
(* The steps of upsert.                                                    *)

LEMMA StepBegin ==
    ASSUME IInv, NEW b \in Batches, Begin(b), UNCHANGED AUTOFLUSH
    PROVE  IInv' /\ NoLoss
<1>1. mode = "idle" /\ upserts < MaxUpserts /\ UNCHANGED <<db, view>>
  BY DEF Begin
<1>2. RowsInv' /\ NoLoss
  BY <1>1, GrowthOrder DEF IInv, RowsInv, NoLoss
<1>3. b \in Seq(Records) /\ Len(b) \in Nat
  BY RecordsAre
<1>4. received' \in [Keys -> Nat]
  <2>1. ASSUME NEW k \in Keys PROVE received[k] + Count(b, k) \in Nat
    BY <1>3, ReportSeqs, CountNat DEF IInv, BatchInv
  <2>2. QED
    BY <2>1 DEF Begin
<1>5. poisoned' \in BOOLEAN /\ cached' \in SUBSET Pairs
  BY DEF Begin
<1>6. upserts' \in 0..MaxUpserts
  BY <1>1, BatchesAssumption DEF Begin, IInv, BatchInv
<1>7. /\ data' \in Batches /\ Len(data') \in Nat /\ idx' = 1 /\ mode' = "batch"
      /\ failed' = {}
  BY <1>3 DEF Begin
<1>8. idx' \in 1..Len(data') + 1
  BY <1>7
<1>9. tagless' \subseteq DOMAIN data'
  BY DEF Begin
<1>10. BatchInv'
  BY <1>4, <1>5, <1>6, <1>7, <1>8, <1>9 DEF BatchInv
<1>11. QED
  BY <1>2, <1>10 DEF IInv

LEMMA RowsStay ==
    ASSUME IInv, UNCHANGED <<AUTOFLUSH, db, view, mode>>
    PROVE  RowsInv' /\ NoLoss
BY GrowthOrder DEF IInv, RowsInv, NoLoss

\* A rollback puts the committed rows back, whatever follows it.
LEMMA RolledBack ==
    ASSUME IInv, view' = db, UNCHANGED <<AUTOFLUSH, db>>
    PROVE  RowsInv' /\ NoLoss
BY GrowthOrder DEF IInv, RowsInv, NoLoss

LEMMA StepSkip ==
    ASSUME IInv, Skip, idx <= Len(data), UNCHANGED AUTOFLUSH
    PROVE  IInv' /\ NoLoss
<1>1. data \in Seq(Records) /\ Len(data) \in Nat
  BY RecordsAre DEF IInv, BatchInv
<1>2. BatchInv'
  BY <1>1 DEF IInv, BatchInv, Skip, Advance, batchVars
<1>3. QED
  BY <1>2, RowsStay DEF IInv, Skip, Advance

LEMMA StepBatchRecord ==
    ASSUME IInv, BatchRecord, UNCHANGED AUTOFLUSH
    PROVE  IInv' /\ NoLoss
<1>1. /\ mode = "batch" /\ idx <= Len(data) /\ Current \in Records /\ idx \in DOMAIN data
      /\ Len(data) \in Nat
  BY CurrentIs, RecordsAre DEF BatchRecord, IInv, BatchInv
<1>2. CASE Skip
  BY <1>1, <1>2, StepSkip
<1>3. CASE Strip /\ Take(Current) /\ Advance /\ UNCHANGED <<db, failed>>
  <2> DEFINE d == Current
  <2>1. d \in Records /\ Take(d)
    BY <1>1, <1>3
  <2> HIDE DEF d
  <2>2. CASE \E j \in First(d) : /\ view' = [view EXCEPT ![j] = Updated(@, d)]
                                 /\ UNCHANGED <<cached, poisoned>>
    <3>1. RowsInv' /\ NoLoss
      BY <1>1, <1>3, <2>1, <2>2, UpdateRows, GrowthOrder DEF IInv, RowsInv, Advance, NoLoss
    <3>2. BatchInv'
      BY <1>1, <1>3, <2>2 DEF IInv, BatchInv, Strip, Advance
    <3>3. QED
      BY <3>1, <3>2 DEF IInv
  <2>3. CASE /\ Matches(d) = {} /\ view' = Append(view, NewRow(d))
             /\ cached' = Remembered(d) /\ poisoned' = (poisoned \/ d.fault = "flush")
    <3>1. RowsInv' /\ NoLoss
      BY <1>1, <1>3, <2>1, <2>3, NewRows, GrowthOrder DEF IInv, RowsInv, Advance, NoLoss
    <3>2. cached' \in SUBSET Pairs /\ poisoned' \in BOOLEAN
      BY <2>1, <2>3, CachedIs DEF IInv
    <3>3. BatchInv'
      BY <1>1, <1>3, <3>2 DEF IInv, BatchInv, Strip, Advance
    <3>4. QED
      BY <3>1, <3>3 DEF IInv
  <2>4. QED
    BY <2>1, <2>2, <2>3 DEF Take
<1>4. CASE Strip /\ StartOver
  <2>1. poisoned' \in BOOLEAN /\ cached' \in SUBSET Pairs
    BY <1>4 DEF StartOver
  <2>2. /\ data' = data /\ failed' = failed /\ received' = received /\ upserts' = upserts
        /\ idx' = 1 /\ mode' = "alone" /\ tagless' = tagless \cup {idx}
    BY <1>4 DEF StartOver, Strip
  <2>3. BatchInv'
    BY <1>1, <2>1, <2>2 DEF IInv, BatchInv
  <2>4. QED
    BY <1>4, <2>3, RolledBack DEF StartOver, IInv
<1>5. QED
  BY <1>2, <1>3, <1>4 DEF BatchRecord

LEMMA StepBatchCommit ==
    ASSUME IInv, BatchCommit, UNCHANGED AUTOFLUSH
    PROVE  IInv' /\ NoLoss
<1>1. Len(data) \in Nat /\ UNCHANGED batchVars
  BY RecordsAre DEF BatchCommit, IInv, BatchInv
<1>2. CASE db' = view /\ mode' = "idle" /\ UNCHANGED <<view, idx, cached, poisoned, failed>>
  <2>1. RowsInv' /\ NoLoss
    BY <1>2, GrowthOrder DEF IInv, RowsInv, NoLoss
  <2>2. BatchInv'
    BY <1>1, <1>2 DEF IInv, BatchInv, batchVars
  <2>3. QED
    BY <2>1, <2>2 DEF IInv
<1>3. CASE StartOver
  <2>1. poisoned' \in BOOLEAN /\ cached' \in SUBSET Pairs
    BY <1>3 DEF StartOver
  <2>2. failed' = failed /\ idx' = 1 /\ mode' = "alone"
    BY <1>3 DEF StartOver
  <2>3. BatchInv'
    BY <1>1, <2>1, <2>2 DEF IInv, BatchInv, batchVars
  <2>4. QED
    BY <1>3, <2>3, RolledBack DEF StartOver, IInv
<1>4. QED
  BY <1>2, <1>3 DEF BatchCommit

LEMMA StepAloneRecord ==
    ASSUME IInv, AloneRecord, UNCHANGED AUTOFLUSH
    PROVE  IInv' /\ NoLoss
<1>1. /\ mode = "alone" /\ idx <= Len(data) /\ Current \in Records /\ idx \in DOMAIN data
      /\ Len(data) \in Nat
  BY CurrentIs, RecordsAre DEF AloneRecord, IInv, BatchInv
<1>2. CASE Skip
  BY <1>1, <1>2, StepSkip
<1>3. CASE /\ Strip /\ Advance /\ UNCHANGED poisoned
           /\ AloneKnown \/ AloneNew \/ AloneBroken
  <2> DEFINE d == Current
  <2>1. d \in Records
    BY <1>1
  <2> HIDE DEF d
  <2>2. \/ /\ \E j \in First(d) : view' = [view EXCEPT ![j] = Updated(@, d)]
           /\ UNCHANGED <<db, cached, failed>>
        \/ /\ Matches(d) = {} /\ cached' = Remembered(d) /\ UNCHANGED failed
           /\ view' = Append(view, NewRow(d)) /\ db' = view'
        \/ Fail /\ cached' \in {cached, Remembered(d), Forgotten(d)}
    BY <1>3 DEF AloneKnown, AloneNew, AloneBroken, d
  <2>3. cached' \in SUBSET Pairs /\ failed' \subseteq DOMAIN data
    BY <1>1, <2>1, <2>2, CachedIs DEF IInv, BatchInv, Fail
  <2>4. BatchInv'
    BY <1>1, <1>3, <2>3 DEF IInv, BatchInv, Strip, Advance
  <2>5. RowsInv' /\ NoLoss
    <3>1. CASE /\ \E j \in First(d) : view' = [view EXCEPT ![j] = Updated(@, d)]
               /\ UNCHANGED <<db, cached, failed>>
      BY <1>1, <1>3, <2>1, <3>1, UpdateRows, GrowthOrder DEF IInv, RowsInv, Advance, NoLoss
    <3>2. CASE Matches(d) = {} /\ view' = Append(view, NewRow(d)) /\ db' = view'
      BY <1>1, <1>3, <2>1, <3>2, NewRows, GrowthOrder DEF IInv, RowsInv, Advance, NoLoss
    <3>3. CASE Fail
      BY <3>3, RolledBack DEF Fail
    <3>4. QED
      BY <2>2, <3>1, <3>2, <3>3
  <2>6. QED
    BY <2>4, <2>5 DEF IInv
<1>4. QED
  BY <1>2, <1>3 DEF AloneRecord

LEMMA StepAloneDone ==
    ASSUME IInv, AloneDone, UNCHANGED AUTOFLUSH
    PROVE  IInv' /\ NoLoss
<1>1. RowsInv' /\ NoLoss
  BY GrowthOrder DEF IInv, RowsInv, NoLoss, AloneDone
<1>2. BatchInv'
  BY DEF IInv, BatchInv, AloneDone, batchVars
<1>3. QED
  BY <1>1, <1>2 DEF IInv

-----------------------------------------------------------------------------
(* The steps around upsert.                                                *)

\* Between upserts the session has the rows that are committed, so a delete
\* that leaves as many as are committed leaves them all.
LEMMA StepDelete ==
    ASSUME IInv, NEW gone, DeleteRows(gone), UNCHANGED AUTOFLUSH
    PROVE  IInv' /\ NoLoss
<1>1. /\ mode = "idle" /\ mode' = "idle" /\ view' = Without(view, gone) /\ db' = view'
      /\ UNCHANGED <<idx, mode, cached, poisoned, failed, batchVars>>
  BY DEF DeleteRows
<1>2. /\ view \in Seq(Row) /\ db \in Seq(Row) /\ Len(view) = Len(db) /\ GrownFrom(view, db)
      /\ AUTOFLUSH => Unique(view)
  BY <1>1 DEF IInv, RowsInv
<1>3. /\ view' \in Seq(Row) /\ Len(view') <= Len(view)
      /\ Len(view') = Len(view) => view' = view
  BY <1>1, <1>2, WithoutIs
<1>4. PartOf(view', view)
  BY <1>1, <1>2, WithoutIs
<1>5. AUTOFLUSH => Unique(view')
  <2>1. PICK at \in [DOMAIN view' -> DOMAIN view] :
                /\ \A n \in DOMAIN at : view'[n] = view[at[n]]
                /\ \A m, n \in DOMAIN at : m < n => at[m] < at[n]
    BY <1>4 DEF PartOf
  <2>2. DOMAIN view = 1..Len(view) /\ DOMAIN view' = 1..Len(view')
    BY <1>2, <1>3
  <2>3. \A m, n \in DOMAIN view' : at[m] \in Int /\ at[n] \in Int /\ m \in Int /\ n \in Int
    BY <2>1, <2>2
  <2>4. ASSUME NEW m \in DOMAIN view', NEW n \in DOMAIN view', at[m] = at[n] PROVE m = n
    BY <2>1, <2>3, <2>4
  <2>5. QED
    BY <1>2, <2>1, <2>4 DEF Unique
<1>6. NoLoss
  <2>1. Len(view') \in Nat /\ Len(view) \in Nat
    BY <1>2, <1>3
  <2>2. QED
    BY <1>1, <1>2, <1>3, <2>1 DEF NoLoss
<1>7. RowsInv'
  BY <1>1, <1>3, <1>5, GrowthOrder DEF IInv, RowsInv
<1>8. BatchInv'
  BY <1>1 DEF IInv, BatchInv, batchVars
<1>9. QED
  BY <1>6, <1>7, <1>8 DEF IInv

LEMMA StepTokenCommit ==
    ASSUME IInv, TokenCommit, UNCHANGED AUTOFLUSH
    PROVE  IInv' /\ NoLoss
<1>1. RowsInv' /\ NoLoss
  BY GrowthOrder DEF IInv, RowsInv, NoLoss, TokenCommit
<1>2. BatchInv'
  BY DEF IInv, BatchInv, TokenCommit, batchVars
<1>3. QED
  BY <1>1, <1>2 DEF IInv

LEMMA StepRestart ==
    ASSUME IInv, Restart, UNCHANGED AUTOFLUSH
    PROVE  IInv' /\ NoLoss
<1>1. RowsInv' /\ NoLoss
  BY RolledBack DEF Restart
<1>2. poisoned' \in BOOLEAN /\ cached' \in SUBSET Pairs
  BY DEF Restart
<1>3. /\ data' = <<>> /\ Len(data') = 0 /\ idx' = 1 /\ mode' = "idle"
      /\ tagless' = {} /\ failed' = {} /\ received' = received /\ upserts' = upserts
  BY DEF Restart
<1>4. BatchInv'
  BY <1>2, <1>3 DEF IInv, BatchInv
<1>5. QED
  BY <1>1, <1>4 DEF IInv

LEMMA StepNext == IInv /\ Next => IInv' /\ NoLoss
<1> SUFFICES ASSUME IInv, Next PROVE IInv' /\ NoLoss
  OBVIOUS
<1>1. UNCHANGED AUTOFLUSH
  BY DEF Next
<1>2. CASE Upsert
  BY <1>1, <1>2, StepBegin, StepBatchRecord, StepBatchCommit, StepAloneRecord, StepAloneDone
     DEF Upsert
<1>3. CASE Delete
  BY <1>1, <1>3, StepDelete DEF Delete, DeleteById, DeleteBySearch
<1>4. CASE TokenCommit
  BY <1>1, <1>4, StepTokenCommit
<1>5. CASE Restart
  BY <1>1, <1>5, StepRestart
<1>6. QED
  BY <1>2, <1>3, <1>4, <1>5 DEF Next

LEMMA StepStutter == IInv /\ UNCHANGED vars => IInv'
BY DEF IInv, RowsInv, BatchInv, vars, batchVars

LEMMA InitInv == Init => IInv
<1> SUFFICES ASSUME Init PROVE IInv
  OBVIOUS
<1>1. <<>> \in Seq(Row) /\ Len(<<>>) = 0 /\ DOMAIN <<>> = {}
  OBVIOUS
<1>2. RowsInv
  BY <1>1, GrowthOrder DEF Init, RowsInv, Unique
<1>3. poisoned \in BOOLEAN /\ cached \in SUBSET Pairs
  BY DEF Init
<1>4. /\ data = <<>> /\ Len(data) = 0 /\ idx = 1 /\ mode = "idle"
      /\ tagless = {} /\ failed = {} /\ received = [k \in Keys |-> 0] /\ upserts = 0
  BY DEF Init
<1>5. BatchInv
  BY <1>3, <1>4, BatchesAssumption DEF BatchInv
<1>6. QED
  BY <1>2, <1>5 DEF IInv

-----------------------------------------------------------------------------
(* What became of the records before the one in hand, if cached_added does *)
(* not confuse them: in one transaction, they are among the session's      *)
(* rows; in the retry, they have failed or are committed.                  *)

Placed(rows, d) == \E r \in DOMAIN rows : Key(rows[r]) = Key(d)
Entered(rows, d) == \E r \in DOMAIN rows :
    Key(rows[r]) = Key(d) /\ rows[r].tag = d.tag /\ rows[r].last_at >= d.last_at

Before == 1..(idx - 1)
Saved(d) == IF mode = "batch" THEN Entered(view, d)
            ELSE Placed(db, d) \/ \E k \in failed : data[k] = d

SavedSoFar == \A j \in Before : \A d : d = data[j] => Saved(d)

\* What cached_added knows is one of the records before.
Known == \A p \in cached : \E j \in Before : p = <<data[j].indicator, data[j].last_at>>

SaveInv ==
    /\ mode = "batch" => tagless \subseteq Before
    /\ mode # "idle" /\ Distinct(data) => SavedSoFar /\ Known

LEMMA InHand ==
    ASSUME BatchInv, idx <= Len(data)
    PROVE  /\ data \in Seq(Records) /\ Len(data) \in Nat /\ idx \in Nat /\ idx >= 1
           /\ idx \in DOMAIN data /\ idx \notin Before /\ Before \subseteq DOMAIN data
           /\ 1..(idx + 1 - 1) = Before \cup {idx}
           /\ Current = data[idx] /\ Current \in Records
<1>1. data \in Seq(Records)
  BY RecordsAre DEF BatchInv
<1>2. Len(data) \in Nat /\ DOMAIN data = 1..Len(data) /\ idx \in Nat /\ idx >= 1
  BY <1>1 DEF BatchInv
<1>3. QED
  BY <1>1, <1>2, CurrentIs DEF Before, Current

\* Rows that grow still have what was entered.
LEMMA StaysEntered ==
    ASSUME NEW p \in Seq(Row), NEW q \in Seq(Row), GrownFrom(q, p), NEW d \in Records
    PROVE  (Entered(p, d) => Entered(q, d)) /\ (Placed(p, d) => Placed(q, d))
<1>1. /\ Len(p) \in Nat /\ Len(q) \in Nat /\ Len(q) >= Len(p)
      /\ DOMAIN p = 1..Len(p) /\ DOMAIN q = 1..Len(q)
  BY DEF GrownFrom
<1>2. ASSUME NEW r \in DOMAIN p
      PROVE  /\ r \in DOMAIN q /\ Key(q[r]) = Key(p[r]) /\ q[r].tag = p[r].tag
             /\ q[r].last_at >= p[r].last_at /\ p[r].last_at \in Nat /\ q[r].last_at \in Nat
  <2>1. r \in DOMAIN q
    BY <1>1
  <2>2. p[r] \in Row /\ q[r] \in Row
    BY <2>1
  <2>3. QED
    BY <2>1, <2>2, RowIs DEF GrownFrom, Same, Later
<1>3. d.last_at \in Nat
  BY RecordsAre
<1>4. Entered(p, d) => Entered(q, d)
  <2> SUFFICES ASSUME Entered(p, d) PROVE Entered(q, d)
    OBVIOUS
  <2>1. PICK r \in DOMAIN p : /\ Key(p[r]) = Key(d) /\ p[r].tag = d.tag
                              /\ p[r].last_at >= d.last_at
    BY DEF Entered
  <2>2. q[r].last_at >= d.last_at
    BY <1>2, <1>3, <2>1
  <2>3. QED
    BY <1>2, <2>1, <2>2 DEF Entered
<1>5. Placed(p, d) => Placed(q, d)
  BY <1>2 DEF Placed
<1>6. QED
  BY <1>4, <1>5

\* What Updated leaves is at least as recent as the record.
LEMMA UpdateEnters ==
    ASSUME NEW r \in Row, NEW d \in Records
    PROVE  Updated(r, d).last_at >= d.last_at
<1>1. d.last_at \in Nat /\ r.last_at \in Nat
  BY RecordsAre, RowIs
<1>2. CASE d.last_at <= r.last_at
  BY <1>1, <1>2 DEF Updated
<1>3. CASE ~(d.last_at <= r.last_at)
  <2>1. Updated(r, d).last_at = d.last_at
    BY <1>3 DEF Updated, Row
  <2>2. QED
    BY <1>1, <2>1
<1>4. QED
  BY <1>2, <1>3

\* A step of upsert that takes the record in hand, and saves it.
LEMMA Takes ==
    ASSUME IInv, SaveInv, idx <= Len(data), mode # "idle",
           idx' = idx + 1, mode' = mode, data' = data,
           mode = "batch" => tagless' \subseteq Before \cup {idx},
           Distinct(data) => \A d : d = Current => Saved(d)',
           Distinct(data) => \A d \in Records : Saved(d) => Saved(d)',
           \A p \in cached' : p \in cached \/ p = <<Current.indicator, Current.last_at>>
    PROVE  SaveInv'
<1>1. /\ data \in Seq(Records) /\ Before' = Before \cup {idx} /\ Current = data[idx]
      /\ Before \subseteq DOMAIN data /\ Current \in Records
  BY InHand DEF IInv, Before
<1>2. ASSUME Distinct(data) PROVE SavedSoFar' /\ Known'
  <2>1. SavedSoFar /\ Known
    BY <1>2 DEF SaveInv
  <2>2. ASSUME NEW j \in Before', NEW d, d = data'[j] PROVE Saved(d)'
    <3>1. CASE j \in Before
      <4>1. d \in Records /\ Saved(d)
        BY <1>1, <2>1, <2>2, <3>1 DEF SavedSoFar
      <4>2. QED
        BY <1>2, <4>1
    <3>2. CASE j = idx
      BY <1>1, <1>2, <2>2, <3>2
    <3>3. QED
      BY <1>1, <3>1, <3>2
  <2>3. Known'
    BY <1>1, <2>1 DEF Known
  <2>4. QED
    BY <2>2, <2>3 DEF SavedSoFar
<1>3. QED
  BY <1>1, <1>2 DEF SaveInv

LEMMA SaveSkip ==
    ASSUME IInv, SaveInv, Skip, idx <= Len(data), mode # "idle"
    PROVE  SaveInv'
<1>1. /\ idx' = idx + 1
      /\ UNCHANGED <<mode, data, tagless, cached, db, view, failed>>
  BY DEF Skip, Advance, batchVars
<1>2. ASSUME Distinct(data), NEW d, d = Current PROVE Saved(d)
  <2>1. SavedSoFar /\ Known
    BY <1>2 DEF SaveInv
  <2>2. <<Current.indicator, Current.last_at>> \in cached
    BY DEF Skip, AlreadyAdded
  <2>3. PICK j \in Before : /\ data[j].indicator = Current.indicator
                            /\ data[j].last_at = Current.last_at
    BY <2>1, <2>2 DEF Known
  <2>4. data[j] = Current
    BY <1>2, <2>3, InHand DEF IInv, Distinct
  <2>5. QED
    BY <1>2, <2>1, <2>4 DEF SavedSoFar
<1>3. \A d : Saved(d) => Saved(d)'
  BY <1>1 DEF Saved, Entered, Placed
<1>4. mode = "batch" => tagless' \subseteq Before \cup {idx}
  BY <1>1 DEF SaveInv
<1>5. QED
  BY <1>1, <1>2, <1>3, <1>4, Takes

LEMMA SaveStartOver ==
    ASSUME IInv, SaveInv, StartOver
    PROVE  SaveInv'
<1>1. idx' = 1 /\ mode' = "alone" /\ cached' = {}
  BY DEF StartOver
<1>2. Before' = {}
  BY <1>1 DEF Before
<1>3. QED
  BY <1>1, <1>2 DEF SaveInv, SavedSoFar, Known

\* Taking a record of a batch enters it, and every row before stays.
LEMMA TakeEnters ==
    ASSUME RowsInv, NEW d \in Records, Take(d), TagOf(d) = d.tag
    PROVE  Entered(view', d) /\ GrownFrom(view', view) /\ view' \in Seq(Row)
<1>1. view \in Seq(Row) /\ db \in Seq(Row) /\ GrownFrom(view, db) /\ d.last_at \in Nat
  BY RecordsAre DEF RowsInv
<1>2. /\ Len(view) \in Nat /\ Len(db) \in Nat /\ Len(view) >= Len(db)
      /\ DOMAIN view = 1..Len(view) /\ DOMAIN db = 1..Len(db)
  BY <1>1 DEF GrownFrom
<1>3. \A k \in DOMAIN view : /\ view[k] \in Row
                             /\ Same(view[k], view[k]) /\ Later(view[k], view[k])
  <2>1. \A k \in DOMAIN view : view[k] \in Row
    BY <1>1
  <2>2. QED
    BY <2>1, RowIs DEF Same, Later
<1>4. CASE \E j \in First(d) : view' = [view EXCEPT ![j] = Updated(@, d)]
  <2>1. PICK j \in First(d) : view' = [view EXCEPT ![j] = Updated(@, d)]
    BY <1>4
  <2>2. /\ j \in DOMAIN Seen /\ Key(Seen[j]) = Key(d) /\ (TagOf(d) # NoTag => Seen[j].tag = TagOf(d))
    BY DEF First, Matches
  <2>3. j \in DOMAIN view /\ Key(view[j]) = Key(d) /\ view[j].tag = d.tag
    <3>1. CASE AUTOFLUSH
      BY <2>2, <3>1, RecordsAre DEF Seen
    <3>2. CASE ~AUTOFLUSH
      <4>1. j \in DOMAIN db /\ Key(db[j]) = Key(d) /\ db[j].tag = d.tag
        BY <2>2, <3>2, RecordsAre DEF Seen
      <4>2. j \in DOMAIN view
        BY <1>2, <4>1
      <4>3. QED
        BY <1>1, <4>1, <4>2 DEF GrownFrom, Same
    <3>3. QED
      BY <3>1, <3>2
  <2>4. /\ Updated(view[j], d) \in Row /\ Same(Updated(view[j], d), view[j])
        /\ Later(Updated(view[j], d), view[j]) /\ Updated(view[j], d).last_at >= d.last_at
    BY <1>3, <2>3, UpdatedIs, UpdateEnters
  <2>5. /\ view' \in Seq(Row) /\ Len(view') = Len(view) /\ DOMAIN view' = DOMAIN view
        /\ view'[j] = Updated(view[j], d)
        /\ \A k \in DOMAIN view : k # j => view'[k] = view[k]
    BY <1>1, <2>1, <2>3, <2>4
  <2>6. GrownFrom(view', view)
    BY <1>2, <1>3, <2>4, <2>5 DEF GrownFrom
  <2>7. Entered(view', d)
    BY <2>3, <2>4, <2>5 DEF Entered, Same
  <2>8. QED
    BY <2>5, <2>6, <2>7
<1>5. CASE view' = Append(view, NewRow(d))
  <2> DEFINE new == NewRow(d)
  <2>1. new \in Row /\ Key(new) = Key(d) /\ new.tag = d.tag /\ new.last_at = d.last_at
    BY NewRowIs DEF NewRow
  <2> HIDE DEF new
  <2>2. view' = Append(view, new)
    BY <1>5 DEF new
  <2>3. /\ view' \in Seq(Row) /\ Len(view') = Len(view) + 1
        /\ DOMAIN view' = 1..Len(view) + 1
        /\ \A k \in DOMAIN view : view'[k] = view[k]
        /\ view'[Len(view) + 1] = new
    BY <1>1, <1>2, <2>1, <2>2
  <2>4. GrownFrom(view', view)
    BY <1>2, <1>3, <2>3 DEF GrownFrom
  <2>5. Len(view) + 1 \in DOMAIN view' /\ new.last_at >= d.last_at
    BY <1>1, <1>2, <2>1, <2>3
  <2>6. Entered(view', d)
    BY <2>1, <2>3, <2>5 DEF Entered
  <2>7. QED
    BY <2>3, <2>4, <2>6
<1>6. QED
  BY <1>4, <1>5 DEF Take

LEMMA CachedAs ==
    ASSUME NEW d, cached' \in {cached, Forgotten(d), Remembered(d)}
    PROVE  \A p \in cached' : p \in cached \/ p = <<d.indicator, d.last_at>>
BY DEF Forgotten, Remembered

LEMMA SaveBatchRecord ==
    ASSUME IInv, SaveInv, BatchRecord
    PROVE  SaveInv'
<1>1. mode = "batch" /\ idx <= Len(data) /\ Current \in Records /\ idx \notin Before
  BY InHand DEF BatchRecord, IInv
<1>2. CASE Skip
  BY <1>1, <1>2, SaveSkip
<1>3. CASE Strip /\ Take(Current) /\ Advance /\ UNCHANGED <<db, failed>>
  <2>1. idx' = idx + 1 /\ mode' = mode /\ data' = data /\ tagless' = tagless \cup {idx}
    BY <1>3 DEF Advance, Strip
  <2>2. tagless' \subseteq Before \cup {idx} /\ TagOf(Current) = Current.tag
    BY <1>1, <2>1 DEF SaveInv, TagOf
  <2>3. PICK d : d = Current
    OBVIOUS
  <2>4. d \in Records /\ Take(d) /\ TagOf(d) = d.tag
    BY <1>1, <1>3, <2>2, <2>3
  <2>5. Entered(view', d) /\ GrownFrom(view', view) /\ view' \in Seq(Row) /\ view \in Seq(Row)
    BY <2>4, TakeEnters DEF IInv, RowsInv
  <2>6. \A e \in Records : Entered(view, e) => Entered(view', e)
    BY <2>5, StaysEntered
  <2>7. \A e \in Records : Saved(e) => Saved(e)'
    BY <1>1, <2>1, <2>6 DEF Saved, Entered
  <2>8. Saved(d)'
    BY <1>1, <2>1, <2>5 DEF Saved, Entered
  <2>9. cached' \in {cached, Remembered(d)}
    BY <2>4 DEF Take
  <2>10. \A p \in cached' : p \in cached \/ p = <<d.indicator, d.last_at>>
    BY <2>9, CachedAs
  <2>11. \A e : e = Current => Saved(e)'
    BY <2>3, <2>8
  <2>12. \A p \in cached' : p \in cached \/ p = <<Current.indicator, Current.last_at>>
    BY <2>3, <2>10
  <2>13. QED
    BY <1>1, <2>1, <2>2, <2>7, <2>11, <2>12, Takes
<1>4. CASE StartOver
  BY <1>4, SaveStartOver
<1>5. QED
  BY <1>2, <1>3, <1>4 DEF BatchRecord

LEMMA SaveBatchCommit ==
    ASSUME IInv, SaveInv, BatchCommit
    PROVE  SaveInv'
<1>1. CASE mode' = "idle"
  BY <1>1 DEF SaveInv
<1>2. CASE StartOver
  BY <1>2, SaveStartOver
<1>3. QED
  BY <1>1, <1>2 DEF BatchCommit

\* Taking a record alone commits it, or it fails.
LEMMA AloneSaves ==
    ASSUME RowsInv, mode = "alone", NEW d, d = Current, d \in Records, data' = data,
           AloneKnown \/ AloneNew \/ AloneBroken
    PROVE  /\ Placed(db', d) \/ \E k \in failed' : data'[k] = d
           /\ \A e \in Records : Placed(db, e) => Placed(db', e)
           /\ failed \subseteq failed'
           /\ cached' \in {cached, Forgotten(d), Remembered(d)}
<1>1. view \in Seq(Row) /\ db \in Seq(Row) /\ GrownFrom(view, db) /\ Len(view) = Len(db)
  BY DEF RowsInv
<1>2. DOMAIN view = 1..Len(view) /\ DOMAIN db = 1..Len(db) /\ Len(db) \in Nat
  BY <1>1
<1>3. cached' \in {cached, Forgotten(d), Remembered(d)}
  BY DEF AloneKnown, AloneNew, AloneBroken
<1>4. CASE AloneKnown
  <2>1. PICK j \in First(d) : UNCHANGED <<db, cached, failed>>
    BY <1>4 DEF AloneKnown
  <2>2. j \in DOMAIN Seen /\ Key(Seen[j]) = Key(d)
    BY DEF First, Matches
  <2>3. j \in DOMAIN db /\ Key(db[j]) = Key(d)
    <3>1. CASE AUTOFLUSH
      BY <1>1, <1>2, <2>2, <3>1 DEF Seen, GrownFrom, Same
    <3>2. CASE ~AUTOFLUSH
      BY <2>2, <3>2 DEF Seen
    <3>3. QED
      BY <3>1, <3>2
  <2>4. Placed(db', d)
    BY <2>1, <2>3 DEF Placed
  <2>5. QED
    BY <1>3, <2>1, <2>4
<1>5. CASE Fail
  <2>1. db' = db /\ failed' = failed \cup {idx} /\ data'[idx] = d
    BY <1>5 DEF Fail, Current
  <2>2. QED
    BY <1>3, <2>1
<1>6. CASE /\ Matches(d) = {} /\ view' = Append(view, NewRow(d)) /\ db' = view'
           /\ failed' = failed
  <2>1. db' \in Seq(Row) /\ GrownFrom(db', db) /\ Len(db') = Len(view) + 1
    BY <1>6, NewRows
  <2>2. \A e \in Records : Placed(db, e) => Placed(db', e)
    BY <1>1, <2>1, StaysEntered
  <2>3. Key(NewRow(d)) = Key(d)
    BY NewRowIs
  <2>4. /\ Len(view) + 1 \in DOMAIN Append(view, NewRow(d))
        /\ Append(view, NewRow(d))[Len(view) + 1] = NewRow(d)
    BY <1>1
  <2>5. Placed(db', d)
    BY <1>6, <2>3, <2>4 DEF Placed
  <2>6. QED
    BY <1>3, <1>6, <2>2, <2>5
<1>7. QED
  BY <1>4, <1>5, <1>6 DEF AloneNew, AloneBroken

LEMMA SaveAloneRecord ==
    ASSUME IInv, SaveInv, AloneRecord
    PROVE  SaveInv'
<1>1. mode = "alone" /\ idx <= Len(data) /\ Current \in Records
  BY InHand DEF AloneRecord, IInv
<1>2. CASE Skip
  BY <1>1, <1>2, SaveSkip
<1>3. CASE Strip /\ Advance /\ (AloneKnown \/ AloneNew \/ AloneBroken)
  <2>1. idx' = idx + 1 /\ mode' = mode /\ data' = data
    BY <1>3 DEF Advance, Strip
  <2>2. PICK d : d = Current
    OBVIOUS
  <2>3. /\ Placed(db', d) \/ \E k \in failed' : data'[k] = d
        /\ \A e \in Records : Placed(db, e) => Placed(db', e)
        /\ failed \subseteq failed'
        /\ cached' \in {cached, Forgotten(d), Remembered(d)}
    BY <1>1, <1>3, <2>1, <2>2, AloneSaves DEF IInv
  <2>4. Saved(d)'
    BY <1>1, <2>1, <2>3 DEF Saved, Placed
  <2>5. \A e \in Records : Saved(e) => Saved(e)'
    BY <1>1, <2>1, <2>3 DEF Saved, Placed
  <2>6. \A p \in cached' : p \in cached \/ p = <<d.indicator, d.last_at>>
    BY <2>3, CachedAs
  <2>7. \A e : e = Current => Saved(e)'
    BY <2>2, <2>4
  <2>8. \A p \in cached' : p \in cached \/ p = <<Current.indicator, Current.last_at>>
    BY <2>2, <2>6
  <2>9. QED
    BY <1>1, <2>1, <2>5, <2>7, <2>8, Takes
<1>4. QED
  BY <1>2, <1>3 DEF AloneRecord

LEMMA SaveNext == IInv /\ SaveInv /\ [Next]_vars => SaveInv'
<1> SUFFICES ASSUME IInv, SaveInv, [Next]_vars PROVE SaveInv'
  OBVIOUS
<1>1. ASSUME NEW b \in Batches, Begin(b) PROVE SaveInv'
  <2>1. Before' = {} /\ tagless' = {} /\ cached' = {}
    BY <1>1 DEF Begin, Before
  <2>2. QED
    BY <2>1 DEF SaveInv, SavedSoFar, Known
<1>2. CASE mode' = "idle"
  BY <1>2 DEF SaveInv
<1>3. CASE UNCHANGED vars
  BY <1>3 DEF SaveInv, SavedSoFar, Known, Saved, Entered, Placed, Before, Distinct, vars, batchVars
<1>4. CASE Upsert
  BY <1>1, <1>2, <1>4, SaveBatchRecord, SaveBatchCommit, SaveAloneRecord DEF Upsert, AloneDone
<1>5. CASE Delete \/ TokenCommit \/ Restart
  BY <1>2, <1>5
     DEF Delete, DeleteById, DeleteBySearch, DeleteRows, TokenCommit, Restart
<1>6. QED
  BY <1>3, <1>4, <1>5 DEF Next

\* What has been saved is committed when an upsert ends.
LEMMA EndSaves ==
    ASSUME IInv, SaveInv, [Next]_vars, UpsertEnds, Distinct(data), NEW j \in Sound
    PROVE  \E r \in RowsOf(db', Key(data[j])) :
              mode = "batch" => db'[r].tag = data[j].tag /\ db'[r].last_at >= data[j].last_at
<1> DEFINE d == data[j]
<1>1. data # <<>> /\ j \in DOMAIN data /\ \A k \in failed : data[k] # d
  BY DEF Sound
<1>2. j \in Before
  <2>1. data \in Seq(Records)
    BY <1>1, RecordsAre DEF IInv, BatchInv
  <2>2. Len(data) \in Nat /\ DOMAIN data = 1..Len(data) /\ idx \in 1..Len(data) + 1
    BY <2>1 DEF IInv, BatchInv
  <2>3. QED
    BY <1>1, <2>2 DEF UpsertEnds, Before
<1>3. Saved(d) /\ SavedSoFar
  BY <1>2 DEF UpsertEnds, SaveInv, SavedSoFar
<1>4. \/ BatchCommit /\ mode = "batch" /\ db' = view
      \/ AloneDone /\ mode = "alone" /\ db' = db
  <2>1. ~Restart
    BY <1>1 DEF UpsertEnds, Restart
  <2>2. BatchCommit \/ AloneDone
    BY <2>1 DEF UpsertEnds, Next, vars, Upsert, Begin, BatchRecord, Skip, Advance, StartOver,
                AloneRecord, Delete, DeleteById, DeleteBySearch, DeleteRows, TokenCommit
  <2>3. QED
    BY <2>2 DEF UpsertEnds, BatchCommit, StartOver, AloneDone
<1>5. CASE mode = "batch"
  BY <1>3, <1>4, <1>5 DEF Saved, Entered, RowsOf, AloneDone
<1>6. CASE mode = "alone"
  BY <1>1, <1>3, <1>4, <1>6 DEF Saved, Placed, RowsOf
<1>7. QED
  BY <1>4, <1>5, <1>6

-----------------------------------------------------------------------------
(* Sums of counts, compared.                                               *)

\* Sums do not go down.
LEMMA SumsGrow ==
    ASSUME NEW rows \in Seq(Reports), NEW k, NEW f, Sums(f, rows, k),
           NEW m \in 0..Len(rows), NEW n \in 0..Len(rows), m <= n
    PROVE  f[m] <= f[n]
<1> DEFINE T == {i \in Nat : m <= i /\ i <= Len(rows) => f[m] <= f[i]}
<1>1. Len(rows) \in Nat /\ m \in Nat /\ n \in Nat /\ \A i \in 0..Len(rows) : f[i] \in Nat
  BY DEF Sums
<1>2. 0 \in T
  <2>1. m <= 0 => m = 0
    BY <1>1
  <2>2. QED
    BY <1>1, <2>1
<1>3. ASSUME NEW i \in Nat, i \in T PROVE i + 1 \in T
  <2> SUFFICES ASSUME m <= i + 1, i + 1 <= Len(rows) PROVE f[m] <= f[i + 1]
    OBVIOUS
  <2>1. i + 1 \in 1..Len(rows) /\ i + 1 - 1 = i /\ i \in 0..Len(rows) /\ i + 1 \in 0..Len(rows)
    BY <1>1
  <2>2. f[i + 1] = f[i] + Worth(rows, k, i + 1)
    BY <2>1 DEF Sums
  <2>3. Worth(rows, k, i + 1) \in Nat /\ f[i] \in Nat /\ f[i + 1] \in Nat /\ f[m] \in Nat
    BY <1>1, <2>1, WorthIs
  <2>4. CASE m <= i
    BY <1>3, <2>1, <2>2, <2>3, <2>4
  <2>5. CASE ~(m <= i)
    <3>1. m = i + 1
      BY <1>1, <2>5
    <3>2. QED
      BY <2>3, <3>1
  <2>6. QED
    BY <2>4, <2>5
<1> HIDE DEF T
<1>4. Nat \subseteq T
  BY <1>2, <1>3, NatAll
<1>5. n \in T
  BY <1>1, <1>4
<1>6. QED
  BY <1>1, <1>5 DEF T

\* The rows of q count no more than those of p, and more by what the b-th may,
\* if each is worth no more than the row of p that it follows.
Follows(at, q, p, k, b, extra) ==
    /\ at \in [0..Len(q) -> 0..Len(p)] /\ at[0] = 0
    /\ \A n \in 1..Len(q) :
          /\ at[n - 1] <= at[n]
          /\ Worth(q, k, n) <= (IF n = b THEN extra ELSE 0)
                               + (IF at[n - 1] = at[n] THEN 0 ELSE Worth(p, k, at[n]))

LEMMA AddUp ==
    ASSUME NEW gm \in Nat, NEW gn \in Nat, NEW fi \in Nat, NEW fj \in Nat, NEW w \in Nat,
           NEW more \in Nat, NEW new \in Nat, NEW before \in Nat, NEW after \in Nat,
           gm = gn + w, gn <= fi + before, w <= more + new, fi + new <= fj,
           more + before = after
    PROVE  gm <= fj + after
OBVIOUS

LEMMA CountsCompare ==
    ASSUME NEW p \in Seq(Reports), NEW q \in Seq(Reports), NEW k, NEW at, NEW b \in Int,
           NEW extra \in Nat, Follows(at, q, p, k, b, extra)
    PROVE  Count(q, k) <= Count(p, k) + extra
<1>1. PICK f : Sums(f, p, k) /\ Count(p, k) = f[Len(p)]
  BY CountIs
<1>2. PICK g : Sums(g, q, k) /\ Count(q, k) = g[Len(q)]
  BY CountIs
<1>3. /\ Len(p) \in Nat /\ Len(q) \in Nat
      /\ \A i \in 0..Len(p) : f[i] \in Nat
      /\ \A i \in 0..Len(q) : g[i] \in Nat /\ at[i] \in 0..Len(p)
  <2>1. f \in [0..Len(p) -> Nat] /\ g \in [0..Len(q) -> Nat]
    BY <1>1, <1>2 DEF Sums
  <2>2. at \in [0..Len(q) -> 0..Len(p)]
    BY DEF Follows
  <2>3. Len(p) \in Nat /\ Len(q) \in Nat
    OBVIOUS
  <2>4. \A i \in 0..Len(p) : f[i] \in Nat
    BY <2>1
  <2>5. \A i \in 0..Len(q) : g[i] \in Nat
    BY <2>1
  <2>6. \A i \in 0..Len(q) : at[i] \in 0..Len(p)
    BY <2>2
  <2>7. QED
    BY <2>3, <2>4, <2>5, <2>6
<1> DEFINE Over(n) == IF b <= n THEN extra ELSE 0
           T == {n \in Nat : n <= Len(q) => g[n] <= f[at[n]] + Over(n)}
<1>4. 0 \in T
  <2>1. g[0] = 0 /\ f[at[0]] \in Nat /\ Over(0) \in Nat
    BY <1>2, <1>3 DEF Sums
  <2>2. QED
    BY <2>1
<1>5. ASSUME NEW n \in Nat, n \in T PROVE n + 1 \in T
  <2> SUFFICES ASSUME n + 1 <= Len(q) PROVE g[n + 1] <= f[at[n + 1]] + Over(n + 1)
    OBVIOUS
  <2>1. PICK m \in 1..Len(q) : m = n + 1 /\ m - 1 = n
    BY <1>3
  <2>2. n \in 0..Len(q) /\ m \in 0..Len(q) /\ n <= Len(q)
    BY <1>3, <2>1
  <2>3. PICK i \in 0..Len(p), j \in 0..Len(p) : i = at[n] /\ j = at[m]
    BY <1>3, <2>2
  <2>4. g[m] = g[n] + Worth(q, k, m)
    BY <1>2, <2>1 DEF Sums
  <2>5. g[n] <= f[i] + Over(n)
    BY <1>5, <2>2, <2>3
  <2> DEFINE new == IF i = j THEN 0 ELSE Worth(p, k, j)
             more == IF m = b THEN extra ELSE 0
  <2>6. i <= j /\ Worth(q, k, m) <= more + new
    BY <2>1, <2>3 DEF Follows
  <2>7. more + Over(n) = Over(m) /\ more \in Nat /\ Over(n) \in Nat /\ Over(m) \in Nat
    BY <2>1
  <2>8. /\ g[n] \in Nat /\ g[m] \in Nat /\ f[i] \in Nat /\ f[j] \in Nat
        /\ Worth(q, k, m) \in Nat /\ new \in Nat
    BY <1>3, <2>2, WorthIs
  <2>9. f[i] + new <= f[j]
    <3>1. CASE i = j
      BY <2>8, <3>1
    <3>2. CASE i # j
      <4>1. PICK h \in 0..Len(p) : h = j - 1 /\ i <= h /\ j \in 1..Len(p)
        BY <1>3, <2>6, <3>2
      <4>2. f[j] = f[h] + Worth(p, k, j)
        BY <1>1, <4>1 DEF Sums
      <4>3. f[i] <= f[h]
        BY <1>1, <4>1, SumsGrow
      <4>4. f[h] \in Nat /\ Worth(p, k, j) = new
        BY <1>3, <3>2
      <4> HIDE DEF new
      <4>5. QED
        BY <2>8, <4>2, <4>3, <4>4
    <3>3. QED
      BY <3>1, <3>2
  <2> HIDE DEF new, more, Over
  <2>10. g[m] <= f[j] + Over(m)
    <3>1. PICK gm \in Nat, gn \in Nat, fi \in Nat, fj \in Nat :
                  gm = g[m] /\ gn = g[n] /\ fi = f[i] /\ fj = f[j]
      BY <2>8
    <3>2. PICK w \in Nat, before \in Nat, after \in Nat :
                  w = Worth(q, k, m) /\ before = Over(n) /\ after = Over(m)
      BY <2>7, <2>8
    <3>3. /\ gm = gn + w /\ gn <= fi + before /\ w <= more + new /\ fi + new <= fj
          /\ more + before = after /\ more \in Nat /\ new \in Nat
      BY <2>4, <2>5, <2>6, <2>7, <2>8, <2>9, <3>1, <3>2
    <3>4. gm <= fj + after
      BY <3>3, AddUp
    <3>5. QED
      BY <3>1, <3>2, <3>4
  <2>11. QED
    BY <2>1, <2>3, <2>10
<1> HIDE DEF T
<1>6. Nat \subseteq T
  BY <1>4, <1>5, NatAll
<1>7. g[Len(q)] <= f[at[Len(q)]] + Over(Len(q))
  BY <1>3, <1>6 DEF T
<1>8. f[at[Len(q)]] <= f[Len(p)]
  <2>1. Len(q) \in 0..Len(q) /\ Len(p) \in 0..Len(p) /\ at[Len(q)] \in 0..Len(p)
    BY <1>3
  <2>2. at[Len(q)] <= Len(p)
    BY <1>3, <2>1
  <2>3. QED
    BY <1>1, <2>1, <2>2, SumsGrow
<1>9. /\ f[at[Len(q)]] \in Nat /\ f[Len(p)] \in Nat /\ g[Len(q)] \in Nat
      /\ Over(Len(q)) \in Nat /\ Over(Len(q)) <= extra
  BY <1>3
<1>10. QED
  BY <1>1, <1>2, <1>7, <1>8, <1>9

\* Rows of q are compared with those of p at the same place, new ones with none.
LEMMA InPlace ==
    ASSUME NEW p \in Seq(Reports), NEW q \in Seq(Reports), NEW k, NEW b \in Int, NEW extra \in Nat,
           \A n \in 1..Len(q) :
               Worth(q, k, n) <= (IF n = b THEN extra ELSE 0)
                                 + (IF n <= Len(p) THEN Worth(p, k, n) ELSE 0)
    PROVE  Count(q, k) <= Count(p, k) + extra
<1>1. Len(p) \in Nat /\ Len(q) \in Nat
  OBVIOUS
<1>2. PICK at : at = [n \in 0..Len(q) |-> IF n <= Len(p) THEN n ELSE Len(p)]
  OBVIOUS
<1>3. at \in [0..Len(q) -> 0..Len(p)] /\ at[0] = 0
  BY <1>1, <1>2
<1>4. ASSUME NEW n \in 1..Len(q)
      PROVE  /\ at[n - 1] <= at[n]
             /\ Worth(q, k, n) <= (IF n = b THEN extra ELSE 0)
                                  + (IF at[n - 1] = at[n] THEN 0 ELSE Worth(p, k, at[n]))
  <2>1. PICK m \in 0..Len(q) : m = n - 1 /\ n \in 0..Len(q)
    BY <1>1
  <2>2. CASE n <= Len(p)
    <3>1. at[n] = n /\ at[m] = m /\ m < n
      BY <1>1, <1>2, <2>1, <2>2
    <3>2. QED
      BY <1>1, <2>1, <2>2, <3>1
  <2>3. CASE ~(n <= Len(p))
    <3>1. at[n] = Len(p) /\ at[m] = Len(p)
      BY <1>1, <1>2, <2>1, <2>3
    <3>2. QED
      BY <1>1, <2>1, <2>3, <3>1
  <2>4. QED
    BY <2>2, <2>3
<1>5. Follows(at, q, p, k, b, extra)
  BY <1>3, <1>4 DEF Follows
<1>6. QED
  BY <1>5, CountsCompare

LEMMA GrownCounts ==
    ASSUME NEW p \in Seq(Row), NEW q \in Seq(Row), GrownFrom(q, p), NEW k
    PROVE  Count(p, k) <= Count(q, k)
<1>1. Len(p) \in Nat /\ Len(q) \in Nat /\ Len(p) <= Len(q)
  BY DEF GrownFrom
<1> DEFINE zero == 0
<1>0. zero \in Nat /\ zero \in Int
  OBVIOUS
<1> HIDE DEF zero
<1>2. ASSUME NEW n \in 1..Len(p)
      PROVE  Worth(p, k, n) <= (IF n = zero THEN zero ELSE 0)
                               + (IF n <= Len(q) THEN Worth(q, k, n) ELSE 0)
  <2>1. n \in DOMAIN p /\ n \in DOMAIN q /\ n <= Len(q)
    BY <1>1
  <2>2. Key(q[n]) = Key(p[n]) /\ q[n].count >= p[n].count
    BY <2>1 DEF GrownFrom, Same, Later
  <2>3. q[n].count \in Int /\ p[n].count \in Int
    <3>1. q[n] \in Row /\ p[n] \in Row
      BY <2>1
    <3>2. QED
      BY <3>1, RowIs
  <2>4. Worth(p, k, n) <= Worth(q, k, n) /\ Worth(q, k, n) \in Nat
    BY <2>1, <2>2, <2>3 DEF Worth, RowsOf, Weight
  <2>5. QED
    BY <2>1, <2>4 DEF zero
<1>3. p \in Seq(Reports) /\ q \in Seq(Reports)
  BY ReportSeqs
<1>4. Count(p, k) <= Count(q, k) + zero
  BY <1>0, <1>2, <1>3, InPlace
<1>5. QED
  BY <1>4, RowsCount DEF zero

\* What a record adds.
Adds(d, k) == IF Key(d) = k THEN Weight(d) ELSE 0

LEMMA AddsIs ==
    \A d \in Records : \A k : Adds(d, k) \in Nat /\ (Key(d) = k => Adds(d, k) >= 1)
BY RecordsAre DEF Adds, Weight

LEMMA UpdateCounts ==
    ASSUME RowsInv, NEW d \in Records, NEW j \in First(d), NEW k, NEW q,
           q = [view EXCEPT ![j] = Updated(@, d)]
    PROVE  q \in Seq(Row) /\ Count(q, k) <= Count(view, k) + Adds(d, k)
<1>1. view \in Seq(Row) /\ db \in Seq(Row) /\ GrownFrom(view, db)
  BY DEF RowsInv
<1>2. /\ DOMAIN view = 1..Len(view) /\ DOMAIN db = 1..Len(db)
      /\ Len(view) \in Nat /\ Len(db) \in Nat /\ Len(view) >= Len(db)
  BY <1>1 DEF GrownFrom
<1>3. j \in DOMAIN view /\ Key(view[j]) = Key(d)
  <2>1. j \in DOMAIN Seen /\ Key(Seen[j]) = Key(d)
    BY DEF First, Matches
  <2>2. CASE AUTOFLUSH
    BY <2>1, <2>2 DEF Seen
  <2>3. CASE ~AUTOFLUSH
    <3>1. j \in DOMAIN db /\ Key(db[j]) = Key(d) /\ j \in DOMAIN view
      BY <1>2, <2>1, <2>3 DEF Seen
    <3>2. QED
      BY <1>1, <3>1 DEF GrownFrom, Same
  <2>4. QED
    BY <2>2, <2>3
<1>4. /\ Updated(view[j], d) \in Row /\ Key(Updated(view[j], d)) = Key(d)
      /\ Weight(Updated(view[j], d)) <= Weight(view[j]) + 1
      /\ Weight(view[j]) \in Nat /\ Weight(Updated(view[j], d)) \in Nat
  <2>1. view[j] \in Row
    BY <1>1, <1>3
  <2>2. Updated(view[j], d) \in Row /\ Key(Updated(view[j], d)) = Key(d)
    BY <1>3, <2>1, UpdatedIs DEF Same
  <2>3. Weight(view[j]) \in Nat /\ Weight(Updated(view[j], d)) \in Nat
    BY <2>1, <2>2, ReportIs DEF Reports
  <2>4. Weight(Updated(view[j], d)) <= Weight(view[j]) + 1
    BY <2>1, UpdatedIs
  <2>5. QED
    BY <2>2, <2>3, <2>4
<1>5. /\ q \in Seq(Row) /\ Len(q) = Len(view) /\ DOMAIN q = DOMAIN view
      /\ q[j] = Updated(view[j], d)
      /\ \A n \in DOMAIN view : n # j => q[n] = view[n]
  BY <1>1, <1>3, <1>4
<1>6. ASSUME NEW n \in 1..Len(q)
      PROVE  Worth(q, k, n) <= (IF n = j THEN Adds(d, k) ELSE 0)
                               + (IF n <= Len(view) THEN Worth(view, k, n) ELSE 0)
  <2>1. n \in DOMAIN view /\ n \in DOMAIN q /\ n <= Len(view)
    BY <1>2, <1>5
  <2>2. Worth(view, k, n) \in Nat
    BY <1>1, ReportSeqs, WorthIs
  <2>3. CASE n = j
    <3>1. CASE Key(d) = k
      <4>1. Worth(q, k, n) = Weight(Updated(view[j], d)) /\ Worth(view, k, n) = Weight(view[j])
        BY <1>3, <1>4, <1>5, <2>1, <2>3, <3>1 DEF Worth, RowsOf
      <4>2. Adds(d, k) \in Nat /\ Adds(d, k) >= 1
        BY <3>1, AddsIs
      <4>3. QED
        BY <1>4, <2>1, <2>3, <4>1, <4>2
    <3>2. CASE Key(d) # k
      <4>1. Worth(q, k, n) = 0 /\ Adds(d, k) = 0
        BY <1>4, <1>5, <2>3, <3>2 DEF Worth, RowsOf, Adds
      <4>2. QED
        BY <2>1, <2>2, <4>1
    <3>3. QED
      BY <3>1, <3>2
  <2>4. CASE n # j
    <3>1. Worth(q, k, n) = Worth(view, k, n)
      BY <1>5, <2>1, <2>4 DEF Worth, RowsOf
    <3>2. QED
      BY <2>1, <2>2, <2>4, <3>1
  <2>5. QED
    BY <2>3, <2>4
<1>7. j \in Int /\ Adds(d, k) \in Nat
  BY <1>2, <1>3, AddsIs
<1>8. Count(q, k) <= Count(view, k) + Adds(d, k)
  <2>1. q \in Seq(Reports) /\ view \in Seq(Reports)
    BY <1>1, <1>5, ReportSeqs
  <2>2. QED
    BY <1>6, <1>7, <2>1, InPlace
<1>9. QED
  BY <1>5, <1>8

LEMMA NewCounts ==
    ASSUME NEW p \in Seq(Row), NEW d \in Records, NEW k, NEW q, q = Append(p, NewRow(d))
    PROVE  q \in Seq(Row) /\ Count(q, k) <= Count(p, k) + Adds(d, k)
<1> DEFINE new == NewRow(d)
<1>1. new \in Row /\ Key(new) = Key(d) /\ Weight(new) = Weight(d)
  BY NewRowIs
<1>2. q = Append(p, new)
  OBVIOUS
<1> HIDE DEF new
<1>3. PICK b \in Nat : b = Len(p) + 1 /\ Len(p) \in Nat
  OBVIOUS
<1>4. /\ q \in Seq(Row) /\ Len(q) = b /\ DOMAIN q = 1..b /\ DOMAIN p = 1..Len(p)
      /\ q[b] = new /\ \A n \in DOMAIN p : q[n] = p[n]
  BY <1>1, <1>2, <1>3
<1>5. ASSUME NEW n \in 1..Len(q)
      PROVE  Worth(q, k, n) <= (IF n = b THEN Adds(d, k) ELSE 0)
                               + (IF n <= Len(p) THEN Worth(p, k, n) ELSE 0)
  <2>1. CASE n = b
    <3>1. Worth(q, k, n) = Adds(d, k) /\ ~(n <= Len(p))
      BY <1>1, <1>3, <1>4, <2>1 DEF Worth, RowsOf, Adds
    <3>2. QED
      BY <2>1, <3>1, AddsIs
  <2>2. CASE n # b
    <3>1. n \in DOMAIN p /\ n <= Len(p)
      BY <1>3, <1>4, <2>2
    <3>2. Worth(q, k, n) = Worth(p, k, n) /\ Worth(p, k, n) \in Nat
      BY <1>4, <3>1, ReportSeqs, WorthIs DEF Worth, RowsOf
    <3>3. QED
      BY <2>2, <3>1, <3>2
  <2>3. QED
    BY <2>1, <2>2
<1>6. Count(q, k) <= Count(p, k) + Adds(d, k)
  <2>1. Adds(d, k) \in Nat /\ b \in Int
    BY AddsIs
  <2>2. p \in Seq(Reports) /\ q \in Seq(Reports)
    BY <1>4, ReportSeqs
  <2> HIDE DEF new
  <2>3. QED
    BY <1>5, <2>1, <2>2, InPlace
<1>7. QED
  BY <1>4, <1>6

\* What a delete leaves counts no more than what was there.
LEMMA PartCounts ==
    ASSUME NEW p \in Seq(Row), NEW q \in Seq(Row), PartOf(q, p), NEW k
    PROVE  Count(q, k) <= Count(p, k)
<1>1. /\ Len(p) \in Nat /\ Len(q) \in Nat
      /\ DOMAIN p = 1..Len(p) /\ DOMAIN q = 1..Len(q)
  OBVIOUS
<1>2. PICK h \in [1..Len(q) -> 1..Len(p)] :
              /\ \A n \in 1..Len(q) : q[n] = p[h[n]]
              /\ \A m, n \in 1..Len(q) : m < n => h[m] < h[n]
  BY <1>1 DEF PartOf
<1>3. PICK at : at = [n \in 0..Len(q) |-> IF n = 0 THEN 0 ELSE h[n]]
  OBVIOUS
<1>4. \A n \in 1..Len(q) : at[n] = h[n] /\ h[n] \in 1..Len(p)
  BY <1>1, <1>2, <1>3
<1>5. at[0] = 0
  BY <1>1, <1>3
<1>6. at \in [0..Len(q) -> 0..Len(p)]
  <2> SUFFICES ASSUME NEW n \in 0..Len(q)
               PROVE  (IF n = 0 THEN 0 ELSE h[n]) \in 0..Len(p)
    BY <1>3
  <2>1. n # 0 => n \in 1..Len(q)
    BY <1>1
  <2>2. QED
    BY <1>1, <1>4, <2>1
<1>7. ASSUME NEW n \in 1..Len(q)
      PROVE  /\ at[n - 1] <= at[n]
             /\ Worth(q, k, n) <= (IF n = 0 THEN 0 ELSE 0)
                                  + (IF at[n - 1] = at[n] THEN 0 ELSE Worth(p, k, at[n]))
  <2>1. PICK m \in 0..Len(q) : m = n - 1
    BY <1>1
  <2>2. PICK i \in 0..Len(p), j \in 1..Len(p) : i = at[m] /\ j = at[n] /\ j = h[n]
    BY <1>4, <1>6
  <2>3. i < j
    <3>1. CASE m = 0
      BY <1>1, <1>5, <2>2, <3>1
    <3>2. CASE m # 0
      <4>1. m \in 1..Len(q) /\ m < n
        BY <1>1, <2>1, <3>2
      <4>2. QED
        BY <1>2, <1>4, <2>2, <4>1
    <3>3. QED
      BY <3>1, <3>2
  <2>4. Worth(q, k, n) = Worth(p, k, j) /\ Worth(p, k, j) \in Nat
    BY <1>1, <1>2, <2>2, ReportSeqs, WorthIs DEF Worth, RowsOf
  <2>5. i \in Int /\ j \in Int
    BY <1>1
  <2>6. i <= j /\ i # j
    BY <2>3, <2>5
  <2>7. QED
    BY <2>1, <2>2, <2>4, <2>6
<1>8. Follows(at, q, p, k, 0, 0)
  BY <1>5, <1>6, <1>7 DEF Follows
<1>9. p \in Seq(Reports) /\ q \in Seq(Reports)
  BY ReportSeqs
<1>10. Count(q, k) <= Count(p, k) + 0
  BY <1>8, <1>9, CountsCompare
<1>11. QED
  BY <1>10, RowsCount

-----------------------------------------------------------------------------
(* Counts and what was received. What the rows of the session count and    *)
(* what is yet to be taken of the batch are no more than was received; in  *)
(* one transaction, which may start over, so are the committed rows and    *)
(* all of the batch.                                                       *)

TheSums(s, k) == CHOOSE f : Sums(f, s, k) /\ Count(s, k) = f[Len(s)]
ToCome(s, n, k) == Count(s, k) - TheSums(s, k)[n - 1]

CountInv == \A k \in Keys :
    /\ mode = "idle" => Count(view, k) <= received[k]
    /\ mode # "idle" => Count(view, k) + ToCome(data, idx, k) <= received[k]
    /\ mode = "batch" => Count(db, k) + ToCome(data, 1, k) <= received[k]

LEMMA TheSumsAre ==
    ASSUME NEW s \in Seq(Records), NEW k
    PROVE  Sums(TheSums(s, k), s, k) /\ Count(s, k) = TheSums(s, k)[Len(s)]
<1>1. \E f : Sums(f, s, k) /\ Count(s, k) = f[Len(s)]
  BY ReportSeqs, CountIs
<1>2. QED
  BY <1>1 DEF TheSums

LEMMA ToComeNat ==
    ASSUME NEW s \in Seq(Records), NEW n \in 1..Len(s) + 1, NEW k
    PROVE  ToCome(s, n, k) \in Nat
<1>1. PICK f : f = TheSums(s, k) /\ Sums(f, s, k) /\ Count(s, k) = f[Len(s)]
  BY TheSumsAre
<1>2. PICK m \in 0..Len(s) : m = n - 1
  OBVIOUS
<1>3. Len(s) \in 0..Len(s) /\ m <= Len(s)
  OBVIOUS
<1>4. f[m] \in Nat /\ f[Len(s)] \in Nat
  BY <1>1, <1>3 DEF Sums
<1>5. f[m] <= f[Len(s)]
  BY <1>1, <1>3, ReportSeqs, SumsGrow
<1>6. QED
  BY <1>1, <1>2, <1>4, <1>5 DEF ToCome

\* At first all of the records are to come.
LEMMA ToComeAll ==
    ASSUME NEW s \in Seq(Records), NEW k
    PROVE  ToCome(s, 1, k) = Count(s, k)
<1>1. TheSums(s, k)[0] = 0 /\ Count(s, k) \in Nat
  BY TheSumsAre, ReportSeqs, CountNat DEF Sums
<1>2. QED
  BY <1>1 DEF ToCome

\* Taking a record leaves so much less of its key to come.
LEMMA ToComeNext ==
    ASSUME NEW s \in Seq(Records), NEW n \in DOMAIN s, NEW k
    PROVE  ToCome(s, n, k) = ToCome(s, n + 1, k) + Adds(s[n], k)
<1>1. PICK f : f = TheSums(s, k) /\ Sums(f, s, k) /\ Count(s, k) = f[Len(s)]
  BY TheSumsAre
<1>2. n \in 1..Len(s) /\ Len(s) \in Nat /\ n + 1 - 1 = n
  OBVIOUS
<1>3. PICK m \in 0..Len(s) : m = n - 1 /\ n \in 0..Len(s) /\ Len(s) \in 0..Len(s)
  BY <1>2
<1>4. f[n] = f[n - 1] + Worth(s, k, n)
  BY <1>1, <1>2 DEF Sums
<1>5. Worth(s, k, n) = Adds(s[n], k) /\ Adds(s[n], k) \in Nat
  BY AddsIs DEF Worth, RowsOf, Adds
<1>6. f[m] \in Nat /\ f[n] \in Nat /\ f[Len(s)] \in Nat
  BY <1>1, <1>3 DEF Sums
<1>7. f[n] = f[m] + Adds(s[n], k)
  BY <1>3, <1>4, <1>5
<1>8. ToCome(s, n, k) = f[Len(s)] - f[m]
  BY <1>1, <1>3 DEF ToCome
<1>9. ToCome(s, n + 1, k) = f[Len(s)] - f[n]
  BY <1>1, <1>2 DEF ToCome
<1> HIDE DEF ToCome, Adds
<1>10. QED
  BY <1>5, <1>6, <1>7, <1>8, <1>9

LEMMA CountTakes ==
    ASSUME IInv, CountInv, mode # "idle", idx <= Len(data),
           idx' = idx + 1, UNCHANGED <<mode, data, received>>, view' \in Seq(Row),
           mode = "batch" => db' = db,
           \A k \in Keys : Count(view', k) <= Count(view, k) + Adds(Current, k)
    PROVE  CountInv'
<1>1. /\ data \in Seq(Records) /\ idx \in Nat /\ idx \in DOMAIN data /\ Current = data[idx]
      /\ view \in Seq(Row) /\ received \in [Keys -> Nat]
  BY InHand DEF IInv, BatchInv, RowsInv
<1>2. ASSUME NEW k \in Keys
      PROVE  Count(view', k) + ToCome(data, idx + 1, k) <= received[k]
  <2>1. Count(view, k) + ToCome(data, idx, k) <= received[k]
    BY DEF CountInv
  <2>2. ToCome(data, idx, k) = ToCome(data, idx + 1, k) + Adds(Current, k)
    BY <1>1, ToComeNext
  <2>3. Count(view', k) <= Count(view, k) + Adds(Current, k)
    OBVIOUS
  <2>4. /\ Count(view', k) \in Nat /\ Count(view, k) \in Nat /\ received[k] \in Nat
        /\ ToCome(data, idx + 1, k) \in Nat /\ Adds(Current, k) \in Nat
    <3>1. idx + 1 \in 1..Len(data) + 1 /\ Current \in Records
      BY <1>1
    <3>2. QED
      BY <1>1, <3>1, RowsCount, ToComeNat, AddsIs
  <2>5. QED
    BY <2>1, <2>2, <2>3, <2>4
<1>3. QED
  BY <1>2 DEF CountInv

LEMMA CountSkip ==
    ASSUME IInv, CountInv, Skip, mode # "idle", idx <= Len(data)
    PROVE  CountInv'
<1>1. /\ idx' = idx + 1 /\ UNCHANGED <<mode, data, received, view, db>>
      /\ view \in Seq(Row)
  BY DEF Skip, Advance, batchVars, IInv, RowsInv
<1>2. \A k \in Keys : Count(view', k) <= Count(view, k) + Adds(Current, k)
  BY <1>1, RowsCount, AddsIs, InHand DEF IInv
<1>3. QED
  BY <1>1, <1>2, CountTakes

LEMMA CountStartOver ==
    ASSUME IInv, CountInv, StartOver, mode = "batch", UNCHANGED <<data, received>>
    PROVE  CountInv'
BY DEF CountInv, StartOver

LEMMA CountBatchRecord ==
    ASSUME IInv, CountInv, BatchRecord
    PROVE  CountInv'
<1>1. mode = "batch" /\ idx <= Len(data) /\ Current \in Records
  BY InHand DEF BatchRecord, IInv
<1>2. CASE Skip
  BY <1>1, <1>2, CountSkip
<1>3. CASE Strip /\ Take(Current) /\ Advance /\ UNCHANGED <<db, failed>>
  <2>1. idx' = idx + 1 /\ UNCHANGED <<mode, data, received, db>>
    BY <1>3 DEF Advance, Strip
  <2>2. PICK d \in Records : d = Current /\ Take(d)
    BY <1>1, <1>3
  <2>3. PICK q : q = view'
    OBVIOUS
  <2>4. \/ \E j \in First(d) : q = [view EXCEPT ![j] = Updated(@, d)]
        \/ q = Append(view, NewRow(d))
    BY <2>2, <2>3 DEF Take
  <2>5. q \in Seq(Row) /\ \A k \in Keys : Count(q, k) <= Count(view, k) + Adds(d, k)
    <3>1. CASE \E j \in First(d) : q = [view EXCEPT ![j] = Updated(@, d)]
      BY <3>1, UpdateCounts DEF IInv
    <3>2. CASE q = Append(view, NewRow(d))
      BY <3>2, NewCounts DEF IInv, RowsInv
    <3>3. QED
      BY <2>4, <3>1, <3>2
  <2>6. \A k \in Keys : Count(view', k) <= Count(view, k) + Adds(Current, k)
    BY <2>2, <2>3, <2>5
  <2>7. QED
    BY <1>1, <2>1, <2>3, <2>5, <2>6, CountTakes
<1>4. CASE Strip /\ StartOver
  BY <1>1, <1>4, CountStartOver DEF Strip
<1>5. QED
  BY <1>2, <1>3, <1>4 DEF BatchRecord

LEMMA CountAloneRecord ==
    ASSUME IInv, CountInv, AloneRecord
    PROVE  CountInv'
<1>1. mode = "alone" /\ idx <= Len(data) /\ Current \in Records
  BY InHand DEF AloneRecord, IInv
<1>2. CASE Skip
  BY <1>1, <1>2, CountSkip
<1>3. CASE Strip /\ Advance /\ (AloneKnown \/ AloneNew \/ AloneBroken)
  <2>1. idx' = idx + 1 /\ UNCHANGED <<mode, data, received>>
    BY <1>3 DEF Advance, Strip
  <2>2. PICK d \in Records : d = Current
    BY <1>1
  <2>3. PICK q : q = view'
    OBVIOUS
  <2>4. \/ \E j \in First(d) : q = [view EXCEPT ![j] = Updated(@, d)]
        \/ q = Append(view, NewRow(d))
        \/ q = db
    BY <1>3, <2>2, <2>3 DEF AloneKnown, AloneNew, AloneBroken, Fail
  <2>5. q \in Seq(Row) /\ \A k \in Keys : Count(q, k) <= Count(view, k) + Adds(d, k)
    <3>1. CASE \E j \in First(d) : q = [view EXCEPT ![j] = Updated(@, d)]
      BY <3>1, UpdateCounts DEF IInv
    <3>2. CASE q = Append(view, NewRow(d))
      BY <3>2, NewCounts DEF IInv, RowsInv
    <3>3. CASE q = db
      <4>1. db \in Seq(Row) /\ view \in Seq(Row) /\ GrownFrom(view, db)
        BY DEF IInv, RowsInv
      <4>2. \A k \in Keys : Count(db, k) <= Count(view, k)
        BY <4>1, GrownCounts
      <4>3. \A k \in Keys : Count(db, k) \in Nat /\ Count(view, k) \in Nat /\ Adds(d, k) \in Nat
        BY <4>1, RowsCount, AddsIs
      <4>4. \A k \in Keys : Count(db, k) <= Count(view, k) + Adds(d, k)
        BY <4>2, <4>3
      <4>5. QED
        BY <3>3, <4>1, <4>4
    <3>4. QED
      BY <2>4, <3>1, <3>2, <3>3
  <2>6. \A k \in Keys : Count(view', k) <= Count(view, k) + Adds(Current, k)
    BY <2>2, <2>3, <2>5
  <2>7. QED
    BY <1>1, <2>1, <2>3, <2>5, <2>6, CountTakes
<1>4. QED
  BY <1>2, <1>3 DEF AloneRecord

\* At any time the rows of the session count no more than was received.
LEMMA CountNow ==
    ASSUME IInv, CountInv, NEW k \in Keys
    PROVE  Count(view, k) <= received[k]
<1>1. CASE mode = "idle"
  BY <1>1 DEF CountInv
<1>2. CASE mode # "idle"
  <2>1. Count(view, k) + ToCome(data, idx, k) <= received[k]
    BY <1>2 DEF CountInv
  <2>2. data \in Seq(Records)
    <3>1. <<>> \in Seq(Records)
      OBVIOUS
    <3>2. data = <<>> \/ data \in Seq(Records)
      BY RecordsAre DEF IInv, BatchInv
    <3>3. QED
      BY <3>1, <3>2
  <2>3. idx \in 1..Len(data) + 1
    BY DEF IInv, BatchInv
  <2>4. ToCome(data, idx, k) \in Nat
    BY <2>2, <2>3, ToComeNat
  <2>5. Count(view, k) \in Nat /\ received[k] \in Nat
    BY RowsCount DEF IInv, BatchInv, RowsInv
  <2>6. QED
    BY <2>1, <2>4, <2>5
<1>3. QED
  BY <1>1, <1>2

\* An upsert that is done, a delete or a restart leave rows that count no more.
LEMMA CountLess ==
    ASSUME IInv, CountInv, mode' = "idle", received' = received,
           NEW q \in Seq(Row), q = view', \A k \in Keys : Count(q, k) <= Count(view, k)
    PROVE  CountInv'
<1>1. ASSUME NEW k \in Keys PROVE Count(q, k) <= received[k]
  <2>1. Count(view, k) <= received[k] /\ Count(q, k) <= Count(view, k)
    BY CountNow
  <2>2. Count(q, k) \in Nat /\ Count(view, k) \in Nat /\ received[k] \in Nat
    BY RowsCount DEF IInv, BatchInv, RowsInv
  <2>3. QED
    BY <2>1, <2>2
<1>2. QED
  BY <1>1 DEF CountInv

LEMMA CountSame ==
    ASSUME IInv, CountInv, mode' = "idle", UNCHANGED <<received, view>>
    PROVE  CountInv'
<1>1. view \in Seq(Row) /\ \A k \in Keys : Count(view, k) <= Count(view, k)
  BY RowsCount DEF IInv, RowsInv
<1>2. QED
  BY <1>1, CountLess

LEMMA CountBegin ==
    ASSUME IInv, CountInv, NEW b \in Batches, Begin(b)
    PROVE  CountInv'
<1>1. /\ data' = b /\ idx' = 1 /\ mode' = "batch" /\ UNCHANGED <<db, view>>
      /\ received' = [k \in Keys |-> received[k] + Count(b, k)]
  BY DEF Begin
<1>2. b \in Seq(Records) /\ 1 \in 1..Len(b) + 1
  BY RecordsAre
<1>3. ASSUME NEW k \in Keys
      PROVE  /\ Count(view, k) + ToCome(b, 1, k) <= received'[k]
             /\ Count(db, k) + ToCome(b, 1, k) <= received'[k]
  <2>1. ToCome(b, 1, k) = Count(b, k)
    BY <1>2, ToComeAll
  <2>2. received'[k] = received[k] + ToCome(b, 1, k)
    BY <1>1, <2>1
  <2>3. Count(view, k) <= received[k]
    BY CountNow
  <2>4. Count(db, k) <= Count(view, k)
    BY GrownCounts DEF IInv, RowsInv
  <2>5. /\ Count(db, k) \in Nat /\ Count(view, k) \in Nat /\ received[k] \in Nat
        /\ ToCome(b, 1, k) \in Nat
    BY <1>2, RowsCount, ToComeNat DEF IInv, RowsInv, BatchInv
  <2>6. QED
    BY <2>2, <2>3, <2>4, <2>5
<1>4. QED
  BY <1>1, <1>3 DEF CountInv

LEMMA CountDelete ==
    ASSUME IInv, CountInv, NEW gone, DeleteRows(gone)
    PROVE  CountInv'
<1>1. mode' = "idle" /\ received' = received /\ view' = Without(view, gone)
  BY DEF DeleteRows, batchVars
<1>2. view \in Seq(Row)
  BY DEF IInv, RowsInv
<1>3. Without(view, gone) \in Seq(Row) /\ PartOf(Without(view, gone), view)
  BY <1>2, WithoutIs
<1>4. \A k \in Keys : Count(Without(view, gone), k) <= Count(view, k)
  BY <1>2, <1>3, PartCounts
<1>5. QED
  BY <1>1, <1>3, <1>4, CountLess

LEMMA CountNext == IInv /\ CountInv /\ [Next]_vars => CountInv'
<1> SUFFICES ASSUME IInv, CountInv, [Next]_vars PROVE CountInv'
  OBVIOUS
<1>1. CASE UNCHANGED vars
  BY <1>1 DEF CountInv, vars, batchVars
<1>2. ASSUME BatchCommit PROVE CountInv'
  <2>1. CASE StartOver /\ mode = "batch" /\ UNCHANGED batchVars
    BY <2>1, CountStartOver DEF batchVars
  <2>2. CASE mode' = "idle" /\ view' = view /\ UNCHANGED batchVars
    BY <2>2, CountSame DEF batchVars
  <2>3. QED
    BY <1>2, <2>1, <2>2 DEF BatchCommit
<1>3. CASE Upsert
  BY <1>2, <1>3, CountBegin, CountBatchRecord, CountAloneRecord, CountSame
     DEF Upsert, AloneDone, batchVars
<1>4. CASE Delete
  BY <1>4, CountDelete DEF Delete, DeleteById, DeleteBySearch
<1>5. CASE TokenCommit
  BY <1>5, CountSame DEF TokenCommit, batchVars
<1>6. CASE Restart
  <2>1. mode' = "idle" /\ view' = db /\ received' = received
    BY <1>6 DEF Restart
  <2>2. db \in Seq(Row) /\ \A k \in Keys : Count(db, k) <= Count(view, k)
    BY GrownCounts DEF IInv, RowsInv
  <2>3. QED
    BY <2>1, <2>2, CountLess
<1>7. QED
  BY <1>1, <1>3, <1>4, <1>5, <1>6 DEF Next

LEMMA CountInit == Init => CountInv
<1> SUFFICES ASSUME Init, NEW k \in Keys PROVE Count(<<>>, k) <= received[k]
  BY DEF Init, CountInv
<1>1. <<>> \in Seq(Row) /\ Len(<<>>) = 0
  OBVIOUS
<1>2. PICK f : Sums(f, <<>>, k) /\ Count(<<>>, k) = f[Len(<<>>)]
  BY <1>1, ReportSeqs, CountIs
<1>3. Count(<<>>, k) = 0
  BY <1>1, <1>2 DEF Sums
<1>4. QED
  BY <1>3 DEF Init

-----------------------------------------------------------------------------
(* What follows.                                                           *)

\* The invariant is inductive.
THEOREM Invariance == Spec => []IInv
BY InitInv, StepNext, StepStutter, PTL DEF Spec

\* Every variable stays in its range.
THEOREM TypeCorrect == Spec => []TypeOK
BY Invariance, InvTypes, PTL

\* With AUTOFLUSH no two rows agree on key and first tag, hashes apart, however
\* batches fail and are taken again and whatever is deleted
\* (sqlite/indicator.py: _upsert).
THEOREM RowsStayUnique == Spec => []KeyUnique
<1>1. IInv => KeyUnique
  BY DEF IInv, RowsInv, Unique, Same, KeyUnique
<1>2. QED
  BY Invariance, <1>1, PTL

\* Unless rows are deleted, no committed row changes place, goes back in time
\* or loses counts (sqlite/indicator.py: _upsert, upsert).
THEOREM NeverRegresses == Spec => NoRegress
<1>1. IInv /\ [Next]_vars =>
        [Len(db') >= Len(db) =>
            \A j \in DOMAIN db :
                /\ Key(db'[j]) = Key(db[j]) /\ db'[j].tag = db[j].tag
                /\ db'[j].last_at >= db[j].last_at /\ db'[j].count >= db[j].count]_vars
  BY StepNext DEF NoLoss, GrownFrom, Same, Later
<1>2. QED
  BY Invariance, <1>1, PTL DEF Spec, NoRegress

LEMMA SaveInvariance == Spec => []SaveInv
<1>1. Init => SaveInv
  BY DEF Init, SaveInv
<1>2. QED
  BY Invariance, <1>1, SaveNext, PTL DEF Spec

\* When an upsert of distinct records ends, every record that did not fail by
\* itself has a committed row of its key; if it took one transaction, with the
\* record's tag and as recent as it (sqlite/indicator.py: upsert).
THEOREM RecordsAreSalvaged == Spec => Salvaged
<1>1. IInv /\ SaveInv /\ [Next]_vars =>
        [UpsertEnds /\ Distinct(data) =>
            \A j \in Sound : \E r \in RowsOf(db', Key(data[j])) :
                mode = "batch" =>
                    db'[r].tag = data[j].tag /\ db'[r].last_at >= data[j].last_at]_vars
  BY EndSaves
<1>2. QED
  BY Invariance, SaveInvariance, <1>1, PTL DEF Spec, Salvaged

\* A batch taken twice counts once: the rows of a key never count more sightings
\* than were received, each record standing for as many as it says (sqlite/indicator.py: _upsert, upsert).
THEOREM CountedOnce == Spec => []CountOnce
<1>1. IInv /\ CountInv => CountOnce
  BY CountNow DEF CountOnce
<1>2. QED
  BY Invariance, CountInit, CountNext, <1>1, PTL DEF Spec
=============================================================================
