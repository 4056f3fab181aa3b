---------------------------- MODULE BackfillProofs ---------------------------
(***************************************************************************)
(* Proofs about Backfill, for any workers, jobs, documents, securities,    *)
(* page sizes and ranges, and any number of runs, kills and failures.      *)
(***************************************************************************)
EXTENDS Backfill, FiniteSetTheorems, WellFoundedInduction, TLAPS

(* Induction over the numbers, as a fact about a set.                      *)
LEMMA Numbers ==
  ASSUME NEW T, 0 \in T, \A n \in Nat : n \in T => n + 1 \in T
  PROVE  Nat \subseteq T
<1> SUFFICES ASSUME Nat \ T # {} PROVE FALSE
  OBVIOUS
<1>1. PICK x \in Nat \ T : \A y \in Nat \ T : ~(y < x)
  <2>1. PICK x \in Nat \ T : \A y \in Nat \ T : ~(<<y, x>> \in OpToRel(<, Nat))
    BY NatLessThanWellFounded, WFMin
  <2>2. \A y \in Nat \ T : ~(y < x) BY <2>1 DEF OpToRel
  <2> QED BY <2>2
<1>2. x \in Nat /\ x \notin T BY <1>1
<1>3. x # 0 BY <1>2
<1>4. x - 1 \in Nat BY <1>2, <1>3
<1>5. x - 1 < x BY <1>2
<1>6. x - 1 \in T BY <1>1, <1>4, <1>5
<1>7. (x - 1) + 1 \in T BY <1>4, <1>6
<1> QED BY <1>2, <1>7

LEMMA LeastNumber ==
  ASSUME NEW T, T \subseteq Nat, T # {}
  PROVE  \E x \in T : \A y \in T : x <= y
<1>1. PICK x \in T : \A y \in T : ~(<<y, x>> \in OpToRel(<, Nat))
  BY NatLessThanWellFounded, WFMin
<1>2. \A y \in T : ~(y < x) BY <1>1 DEF OpToRel
<1> QED BY <1>2

LEMMA PartitionParts ==
  /\ \A p \in Partition : p = <<p[1], p[2]>> /\ p[1] \in Nat /\ p[2] \in Nat /\ p[1] <= p[2]
  /\ \A p \in Partition : p[1] \in Day /\ p[2] \in Day
<1> SUFFICES ASSUME NEW p \in Partition
             PROVE  /\ p = <<p[1], p[2]>> /\ p[1] \in Nat /\ p[2] \in Nat /\ p[1] <= p[2]
                    /\ p[1] \in Day /\ p[2] \in Day
  OBVIOUS
<1>1. p \in Day \X Day /\ p[1] <= p[2] BY DEF Partition
<1>2. p = <<p[1], p[2]>> /\ p[1] \in Day /\ p[2] \in Day BY <1>1
<1> QED BY <1>1, <1>2, BackfillAssumption

LEMMA FinitePartitions ==
  ASSUME NEW rows \in SUBSET Partition
  PROVE  IsFiniteSet(rows)
<1>1. IsFiniteSet(Day \X Day) BY BackfillAssumption, FS_Product
<1>2. rows \subseteq Day \X Day BY DEF Partition
<1> QED BY <1>1, <1>2, FS_Subset

(* Rows have a first one.                                                  *)
LEMMA FirstExists ==
  ASSUME NEW rows \in SUBSET Partition, rows # {}
  PROVE  First(rows) \in rows
<1> USE PartitionParts
<1> DEFINE starts == {p[1] : p \in rows}
<1>1. PICK x \in starts : \A y \in starts : x <= y
  <2>1. starts \subseteq Nat /\ starts # {} OBVIOUS
  <2> QED BY <2>1, LeastNumber
<1> DEFINE ends == {p[2] : p \in {q \in rows : q[1] = x}}
<1>2. PICK z \in ends : \A y \in ends : z <= y
  <2>1. ends \subseteq Nat /\ ends # {} BY <1>1
  <2> QED BY <2>1, LeastNumber
<1>3. PICK p \in rows : p[1] = x /\ p[2] = z BY <1>2
<1>4. \A q \in rows \ {p} : Before(p, q)
  <2> SUFFICES ASSUME NEW q \in rows, q # p PROVE Before(p, q)
    OBVIOUS
  <2>1. p \in Partition /\ q \in Partition OBVIOUS
  <2>2. x <= q[1] BY <1>1
  <2>3. q[1] = x => z <= q[2] BY <1>2
  <2>4. q[1] = x => q[2] # z BY <1>3, <2>1
  <2> QED BY <1>3, <2>1, <2>2, <2>3, <2>4 DEF Before
<1> QED BY <1>3, <1>4 DEF First

(* A loop over rows stays in every set that its step does not leave.       *)
LEMMA LeafLoop ==
  ASSUME NEW S, NEW d \in S, NEW rows \in SUBSET Partition,
         \A e \in S : \A q \in rows : ReopenLeaf(e, q) \in S
  PROVE  ForEach(ReopenLeaf, d, rows) \in S
<1> DEFINE N == Cardinality(rows)
           Step(x) == <<ReopenLeaf(x[1], First(x[2])), x[2] \ {First(x[2])}>>
           From(f, n) == [k \in 0..n |-> IF k = 0 THEN <<d, rows>> ELSE Step(f[k - 1])]
           Runs(n) == \E f : f = From(f, n)
<1>1. N \in Nat BY FinitePartitions, FS_CardinalityType
<1> HIDE DEF N
<1>2. \A n \in Nat : Runs(n)
  <2> DEFINE T == {n \in Nat : Runs(n)}
  <2> HIDE DEF Step
  <2>1. 0 \in T
    <3> DEFINE f == [k \in 0..0 |-> <<d, rows>>]
    <3>1. f = From(f, 0) OBVIOUS
    <3> QED BY <3>1
  <2>2. ASSUME NEW n \in Nat, n \in T PROVE n + 1 \in T
    <3>1. PICK f : f = From(f, n) BY <2>2
    <3> DEFINE g == [k \in 0..(n + 1) |-> IF k <= n THEN f[k] ELSE Step(f[n])]
    <3>2. \A k \in 0..(n + 1) : g[k] = IF k = 0 THEN <<d, rows>> ELSE Step(g[k - 1])
      <4> SUFFICES ASSUME NEW k \in 0..(n + 1)
                   PROVE  g[k] = IF k = 0 THEN <<d, rows>> ELSE Step(g[k - 1])
        OBVIOUS
      <4>1. CASE k = 0
        <5>1. f[0] = <<d, rows>> BY <3>1
        <5> QED BY <4>1, <5>1
      <4>2. CASE k \in 1..n
        <5>1. f[k] = Step(f[k - 1]) BY <3>1, <4>2
        <5>2. g[k] = f[k] /\ g[k - 1] = f[k - 1] BY <4>2
        <5> QED BY <4>2, <5>1, <5>2
      <4>3. CASE k = n + 1
        <5>1. g[k] = Step(f[n]) /\ g[k - 1] = f[n] BY <4>3
        <5> QED BY <4>3, <5>1
      <4> QED BY <4>1, <4>2, <4>3
    <3>3. g = From(g, n + 1) BY <3>2
    <3> HIDE DEF g
    <3> QED BY <3>3
  <2> HIDE DEF T
  <2>3. Nat \subseteq T BY <2>1, <2>2, Numbers
  <2> QED BY <2>3 DEF T
<1> DEFINE loop == CHOOSE f : f = From(f, N)
<1>3. loop = From(loop, N) BY <1>1, <1>2
<1>4. ForEach(ReopenLeaf, d, rows) = loop[N][1] BY DEF ForEach, N
<1> HIDE DEF loop
<1> DEFINE Good(x) == x[1] \in S /\ x[2] \in SUBSET rows
<1> DEFINE Rest(n) == n <= N => Good(loop[n]) /\ Cardinality(loop[n][2]) = N - n
<1>5. \A n \in Nat : Rest(n)
  <2> DEFINE T == {n \in Nat : Rest(n)}
  <2>1. 0 \in T
    <3>1. loop[0] = <<d, rows>> BY <1>1, <1>3
    <3> QED BY <1>1, <3>1 DEF N
  <2>2. ASSUME NEW n \in Nat, n \in T PROVE n + 1 \in T
    <3> SUFFICES ASSUME n + 1 <= N
                 PROVE  Good(loop[n + 1]) /\ Cardinality(loop[n + 1][2]) = N - (n + 1)
      OBVIOUS
    <3> DEFINE e == loop[n][1]
               left == loop[n][2]
               q == First(left)
    <3>1. n <= N BY <1>1
    <3>2. e \in S /\ left \in SUBSET rows /\ Cardinality(left) = N - n BY <2>2, <3>1
    <3>3. loop[n + 1] = <<ReopenLeaf(e, q), left \ {q}>>
      <4>1. n + 1 \in 0..N /\ n + 1 # 0 /\ (n + 1) - 1 = n BY <1>1
      <4>2. loop[n + 1] = Step(loop[(n + 1) - 1]) BY <1>3, <4>1
      <4> QED BY <4>1, <4>2
    <3> HIDE DEF e, left
    <3>4. IsFiniteSet(left) BY <3>2, FinitePartitions
    <3>5. left # {} BY <3>2, <3>4, <1>1, FS_EmptySet
    <3>6. q \in left BY <3>2, <3>5, FirstExists
    <3> HIDE DEF q
    <3>7. Cardinality(left \ {q}) = N - (n + 1) 
      <4>1. Cardinality(left \ {q}) = Cardinality(left) - 1 BY <3>4, <3>6, FS_RemoveElement
      <4> QED BY <3>2, <4>1, <1>1
    <3>8. ReopenLeaf(e, q) \in S BY <3>2, <3>6
    <3> QED BY <3>2, <3>3, <3>7, <3>8
  <2> HIDE DEF T
  <2>3. Nat \subseteq T BY <2>1, <2>2, Numbers
  <2> QED BY <2>3 DEF T
<1> QED BY <1>1, <1>4, <1>5

(* The same for the other loop, and its last step is one of them.           *)
LEMMA AboveLoop ==
  ASSUME NEW S, NEW d \in S, NEW rows \in SUBSET Partition,
         \A e \in S : \A q \in rows : ReopenAbove(e, q) \in S
  PROVE  /\ ForEach(ReopenAbove, d, rows) \in S
         /\ rows # {} =>
              \E e \in S : \E q \in rows : ForEach(ReopenAbove, d, rows) = ReopenAbove(e, q)
<1> DEFINE N == Cardinality(rows)
           Step(x) == <<ReopenAbove(x[1], First(x[2])), x[2] \ {First(x[2])}>>
           From(f, n) == [k \in 0..n |-> IF k = 0 THEN <<d, rows>> ELSE Step(f[k - 1])]
           Runs(n) == \E f : f = From(f, n)
<1>1. N \in Nat BY FinitePartitions, FS_CardinalityType
<1> HIDE DEF N
<1>2. \A n \in Nat : Runs(n)
  <2> DEFINE T == {n \in Nat : Runs(n)}
  <2> HIDE DEF Step
  <2>1. 0 \in T
    <3> DEFINE f == [k \in 0..0 |-> <<d, rows>>]
    <3>1. f = From(f, 0) OBVIOUS
    <3> QED BY <3>1
  <2>2. ASSUME NEW n \in Nat, n \in T PROVE n + 1 \in T
    <3>1. PICK f : f = From(f, n) BY <2>2
    <3> DEFINE g == [k \in 0..(n + 1) |-> IF k <= n THEN f[k] ELSE Step(f[n])]
    <3>2. \A k \in 0..(n + 1) : g[k] = IF k = 0 THEN <<d, rows>> ELSE Step(g[k - 1])
      <4> SUFFICES ASSUME NEW k \in 0..(n + 1)
                   PROVE  g[k] = IF k = 0 THEN <<d, rows>> ELSE Step(g[k - 1])
        OBVIOUS
      <4>1. CASE k = 0
        <5>1. f[0] = <<d, rows>> BY <3>1
        <5> QED BY <4>1, <5>1
      <4>2. CASE k \in 1..n
        <5>1. f[k] = Step(f[k - 1]) BY <3>1, <4>2
        <5>2. g[k] = f[k] /\ g[k - 1] = f[k - 1] BY <4>2
        <5> QED BY <4>2, <5>1, <5>2
      <4>3. CASE k = n + 1
        <5>1. g[k] = Step(f[n]) /\ g[k - 1] = f[n] BY <4>3
        <5> QED BY <4>3, <5>1
      <4> QED BY <4>1, <4>2, <4>3
    <3>3. g = From(g, n + 1) BY <3>2
    <3> HIDE DEF g
    <3> QED BY <3>3
  <2> HIDE DEF T
  <2>3. Nat \subseteq T BY <2>1, <2>2, Numbers
  <2> QED BY <2>3 DEF T
<1> DEFINE loop == CHOOSE f : f = From(f, N)
<1>3. loop = From(loop, N) BY <1>1, <1>2
<1>4. ForEach(ReopenAbove, d, rows) = loop[N][1] BY DEF ForEach, N
<1> HIDE DEF loop
<1> DEFINE Good(x) == x[1] \in S /\ x[2] \in SUBSET rows
<1> DEFINE Rest(n) == n <= N => Good(loop[n]) /\ Cardinality(loop[n][2]) = N - n
<1>5. \A n \in Nat : Rest(n)
  <2> DEFINE T == {n \in Nat : Rest(n)}
  <2>1. 0 \in T
    <3>1. loop[0] = <<d, rows>> BY <1>1, <1>3
    <3> QED BY <1>1, <3>1 DEF N
  <2>2. ASSUME NEW n \in Nat, n \in T PROVE n + 1 \in T
    <3> SUFFICES ASSUME n + 1 <= N
                 PROVE  Good(loop[n + 1]) /\ Cardinality(loop[n + 1][2]) = N - (n + 1)
      OBVIOUS
    <3> DEFINE e == loop[n][1]
               left == loop[n][2]
               q == First(left)
    <3>1. n <= N BY <1>1
    <3>2. e \in S /\ left \in SUBSET rows /\ Cardinality(left) = N - n BY <2>2, <3>1
    <3>3. loop[n + 1] = <<ReopenAbove(e, q), left \ {q}>>
      <4>1. n + 1 \in 0..N /\ n + 1 # 0 /\ (n + 1) - 1 = n BY <1>1
      <4>2. loop[n + 1] = Step(loop[(n + 1) - 1]) BY <1>3, <4>1
      <4> QED BY <4>1, <4>2
    <3> HIDE DEF e, left
    <3>4. IsFiniteSet(left) BY <3>2, FinitePartitions
    <3>5. left # {} BY <3>2, <3>4, <1>1, FS_EmptySet
    <3>6. q \in left BY <3>2, <3>5, FirstExists
    <3> HIDE DEF q
    <3>7. Cardinality(left \ {q}) = N - (n + 1) 
      <4>1. Cardinality(left \ {q}) = Cardinality(left) - 1 BY <3>4, <3>6, FS_RemoveElement
      <4> QED BY <3>2, <4>1, <1>1
    <3>8. ReopenAbove(e, q) \in S BY <3>2, <3>6
    <3> QED BY <3>2, <3>3, <3>7, <3>8
  <2> HIDE DEF T
  <2>3. Nat \subseteq T BY <2>1, <2>2, Numbers
  <2> QED BY <2>3 DEF T
<1>6. ASSUME rows # {}
      PROVE  \E e \in S : \E q \in rows : ForEach(ReopenAbove, d, rows) = ReopenAbove(e, q)
  <2>1. N # 0 BY <1>6, FinitePartitions, FS_EmptySet DEF N
  <2>2. N - 1 \in Nat /\ N - 1 <= N /\ N - (N - 1) = 1 BY <1>1, <2>1
  <2> DEFINE e == loop[N - 1][1]
             left == loop[N - 1][2]
             q == First(left)
  <2>3. e \in S /\ left \in SUBSET rows /\ Cardinality(left) = 1 BY <1>5, <2>2
  <2>4. loop[N] = <<ReopenAbove(e, q), left \ {q}>>
    <3>1. N \in 0..N BY <1>1
    <3>2. loop[N] = Step(loop[N - 1]) BY <1>3, <2>1, <3>1
    <3> QED BY <3>2
  <2> HIDE DEF e, left
  <2>5. left # {} BY <2>3, FS_EmptySet
  <2>6. q \in left BY <2>3, <2>5, FirstExists
  <2> HIDE DEF q
  <2>7. ForEach(ReopenAbove, d, rows) = ReopenAbove(e, q) BY <1>4, <2>4
  <2> QED BY <2>3, <2>6, <2>7
<1> QED BY <1>1, <1>4, <1>5, <1>6
-----------------------------------------------------------------------------
(* The inductive invariant.                                                *)

References == {"none", "current", "needs_revalidation"}
Database ==
  [docs : SUBSET Doc, catalog : SUBSET Code, part : [Partition -> PartitionRow],
   ref : [Job -> [Partition -> References]], job : [Job -> JobRow],
   members : [Job -> SUBSET Code], bound : [Partition -> Job \cup {None}],
   item : [Partition -> [Code -> ItemRow]], probed : [Partition -> SUBSET Doc],
   stable : [Partition -> 0..Rounds]]

IsComplete(d, p) == d.part[p].status = "complete"

(* What completes a partition is one of three things, and the last for a   *)
(* day that was probed.                                                    *)
BasisOK(d) ==
  \A p \in Partition :
    /\ d.part[p].probe => IsDay(p)
    /\ IsComplete(d, p) =>
         d.part[p].basis \in {"short_page", "split_children", "saturated_catalog_convergence"}
    /\ IsComplete(d, p) /\ d.part[p].probe => d.part[p].basis = "saturated_catalog_convergence"

(* CompleteJobIsTrusted of a database.                                     *)
Trusted(d) ==
  \A j \in Job : d.job[j].status = "complete" =>
    \A p \in Partition : d.ref[j][p] = "none" \/ (d.ref[j][p] = "current" /\ IsComplete(d, p))

(* LeafHoldsItsDocuments of a database, and why: what an item or a probe   *)
(* saw is stored.                                                          *)
Holding(d, p) ==
  IsComplete(d, p) =>
    /\ d.part[p].basis = "short_page" => DocsIn(p) \subseteq d.docs
    /\ d.part[p].basis = "saturated_catalog_convergence" =>
         /\ CodesOf(d.probed[p]) \subseteq d.part[p].catalog
         /\ {x \in DocsIn(p) : x.code \in d.part[p].catalog} \subseteq d.docs
ItemHolds(d, p, c) ==
  d.item[p][c].status = "complete" => {x \in DocsIn(p) : x.code = c} \subseteq d.docs
Stored(d) ==
  /\ d.catalog = CodesOf(d.docs)
  /\ \A p \in Partition : d.probed[p] \subseteq d.docs
  /\ \A p \in Partition : \A c \in Code : ItemHolds(d, p, c)
  /\ \A p \in Partition : Holding(d, p)

DbOK(d) == d \in Database /\ BasisOK(d) /\ Trusted(d) /\ Stored(d)
-----------------------------------------------------------------------------
(* What a transaction that finds evidence outdated does to the database:   *)
(* it reopens partitions for a cause, it turns every reference to them     *)
(* suspect, and it takes reports of completeness back.                     *)

Cause(d, p) ==
  \/ /\ d.part[p].basis = "saturated_catalog_convergence"
     /\ d.part[p].catalog # d.catalog
  \/ /\ d.part[p].basis = "split_children"
     /\ \E q \in Partition :
          /\ Above(p, q) /\ d.part[q].probe
          /\ IsComplete(d, q) => d.part[q].catalog # d.catalog
Caused(d, e) ==
  \A p \in Partition : IsComplete(d, p) /\ ~IsComplete(e, p) => Cause(d, p)

SameStore(d, e) == e.docs = d.docs /\ e.catalog = d.catalog /\ e.probed = d.probed
SameRow(d, e, p) ==
  /\ e.part[p].probe = d.part[p].probe
  /\ e.part[p].catalog = d.part[p].catalog
  /\ e.part[p].holder = d.part[p].holder
RowsReopened(d, e) ==
  \A p \in Partition :
    /\ SameRow(d, e, p)
    /\ \/ e.part[p].status = d.part[p].status /\ e.part[p].basis = d.part[p].basis
       \/ e.part[p].status = "failed_overflow"
ItemsKept(d, e) ==
  \A p \in Partition : \A c \in Code :
    e.item[p][c].status = "complete" => d.item[p][c].status = "complete"
RefsSuspected(d, e) ==
  \A j \in Job : \A p \in Partition :
    /\ \/ e.ref[j][p] = d.ref[j][p]
       \/ d.ref[j][p] = "current" /\ e.ref[j][p] = "needs_revalidation"
    /\ IsComplete(d, p) /\ ~IsComplete(e, p) => e.ref[j][p] # "current"
JobsTakenBack(d, e) ==
  \A j \in Job :
    \/ e.job[j] = d.job[j]
    \/ /\ e.job[j].holder = d.job[j].holder
       /\ e.job[j].status = "partial" /\ e.job[j].stale

(* A day that is reopened reopens the split ranges above it.               *)
Upward(d, e) ==
  \A q \in Partition : IsDay(q) /\ IsComplete(d, q) /\ ~IsComplete(e, q) =>
    \A p \in Partition :
      Above(p, q) /\ IsComplete(d, p) /\ d.part[p].basis = "split_children" => ~IsComplete(e, p)

Reopens(d, e) ==
  /\ SameStore(d, e) /\ RowsReopened(d, e) /\ ItemsKept(d, e)
  /\ RefsSuspected(d, e) /\ JobsTakenBack(d, e) /\ Caused(d, e) /\ Upward(d, e)

LEMMA ReopensNothing ==
  ASSUME NEW d
  PROVE  Reopens(d, d)
BY DEF Reopens, SameStore, RowsReopened, SameRow, ItemsKept, RefsSuspected, JobsTakenBack, Caused,
       Upward

(* Below a day there is only the day itself.                               *)
LEMMA DaysAreLowest ==
  ASSUME NEW p \in Partition, IsDay(p), NEW q \in Partition, Within(q, p)
  PROVE  q = p
BY PartitionParts DEF IsDay, Within

LEMMA BasisKept ==
  ASSUME NEW d, NEW e, BasisOK(d), RowsReopened(d, e)
  PROVE  BasisOK(e)
BY DEF BasisOK, RowsReopened, SameRow, IsComplete

(* One reopening after another is a reopening.                             *)
LEMMA ReopensFurther ==
  ASSUME NEW d, NEW e, NEW f, BasisOK(d), Reopens(d, e), Reopens(e, f)
  PROVE  Reopens(d, f)
<1>1. SameStore(d, f) BY DEF Reopens, SameStore
<1>2. RowsReopened(d, f) BY DEF Reopens, RowsReopened, SameRow
<1>3. ItemsKept(d, f) BY DEF Reopens, ItemsKept
<1>4. RefsSuspected(d, f)
  <2> SUFFICES ASSUME NEW j \in Job, NEW p \in Partition
               PROVE  /\ \/ f.ref[j][p] = d.ref[j][p]
                         \/ d.ref[j][p] = "current" /\ f.ref[j][p] = "needs_revalidation"
                      /\ IsComplete(d, p) /\ ~IsComplete(f, p) => f.ref[j][p] # "current"
    BY DEF RefsSuspected
  <2> QED BY DEF Reopens, RefsSuspected
<1>5. JobsTakenBack(d, f) BY DEF Reopens, JobsTakenBack
<1>6. Caused(d, f)
  <2> SUFFICES ASSUME NEW p \in Partition, IsComplete(d, p), ~IsComplete(f, p)
               PROVE  Cause(d, p)
    BY DEF Caused
  <2>1. CASE ~IsComplete(e, p) BY <2>1 DEF Reopens, Caused
  <2>2. CASE IsComplete(e, p)
    <3>1. Cause(e, p) BY <2>2 DEF Reopens, Caused
    <3>2. /\ e.part[p].basis = d.part[p].basis /\ e.part[p].catalog = d.part[p].catalog
          /\ e.catalog = d.catalog
      BY <2>2 DEF Reopens, RowsReopened, SameRow, SameStore, IsComplete
    <3>3. CASE e.part[p].basis = "saturated_catalog_convergence"
      BY <3>1, <3>2, <3>3 DEF Cause
    <3>4. CASE e.part[p].basis = "split_children"
      <4>1. PICK q \in Partition : /\ Above(p, q) /\ e.part[q].probe
                                   /\ IsComplete(e, q) => e.part[q].catalog # e.catalog
        BY <3>1, <3>4 DEF Cause
      <4>2. d.part[q].probe /\ d.part[q].catalog = e.part[q].catalog
        BY <4>1 DEF Reopens, RowsReopened, SameRow
      <4>3. IsComplete(d, q) => d.part[q].catalog # d.catalog
        <5>1. CASE IsComplete(e, q) BY <3>2, <4>1, <4>2, <5>1
        <5>2. CASE IsComplete(d, q) /\ ~IsComplete(e, q)
          <6>1. Cause(d, q) BY <5>2 DEF Reopens, Caused
          <6>2. d.part[q].basis = "saturated_catalog_convergence" BY <4>2, <5>2 DEF BasisOK
          <6> QED BY <6>1, <6>2 DEF Cause
        <5> QED BY <5>1, <5>2
      <4> QED BY <3>2, <3>4, <4>1, <4>2, <4>3 DEF Cause
    <3> QED BY <3>1, <3>3, <3>4 DEF Cause
  <2> QED BY <2>1, <2>2
<1>7. Upward(d, f)
  <2> SUFFICES ASSUME NEW q \in Partition, IsDay(q), IsComplete(d, q), ~IsComplete(f, q),
                      NEW p \in Partition, Above(p, q), IsComplete(d, p),
                      d.part[p].basis = "split_children", IsComplete(f, p)
               PROVE  FALSE
    BY DEF Upward
  <2>1. IsComplete(e, p) BY DEF Reopens, RowsReopened, IsComplete
  <2>2. e.part[p].basis = "split_children" BY <2>1 DEF Reopens, RowsReopened, IsComplete
  <2>3. CASE IsComplete(e, q) BY <2>1, <2>2, <2>3 DEF Reopens, Upward
  <2>4. CASE ~IsComplete(e, q) BY <2>1, <2>4 DEF Reopens, Upward
  <2> QED BY <2>3, <2>4
<1> QED BY <1>1, <1>2, <1>3, <1>4, <1>5, <1>6, <1>7 DEF Reopens
-----------------------------------------------------------------------------
(* What the parts of a transaction change.                                 *)

(* Expanding a universe adds members and makes absent items pending.       *)
LEMMA ExpandUniverseParts ==
  ASSUME NEW d \in Database, NEW j \in Job
  PROVE  /\ ExpandUniverse(d, j) \in Database
         /\ ExpandUniverse(d, j) =
              [d EXCEPT !.members = ExpandUniverse(d, j).members, !.item = ExpandUniverse(d, j).item]
         /\ ItemsKept(d, ExpandUniverse(d, j))
         /\ ExpandUniverse(d, j).members[j] = d.members[j] \cup d.catalog
<1> DEFINE e == ExpandUniverse(d, j)
           new == d.catalog \ d.members[j]
<1>1. e.members = [d.members EXCEPT ![j] = @ \cup new] BY DEF ExpandUniverse, Database
<1>2. e.item = [p \in Partition |-> [c \in Code |->
                 IF d.bound[p] = j /\ c \in new /\ d.item[p][c].status = "absent"
                 THEN [NoItem EXCEPT !.status = "pending"] ELSE d.item[p][c]]]
  BY DEF ExpandUniverse, Database
<1>3. e = [d EXCEPT !.members = e.members, !.item = e.item]
  BY DEF ExpandUniverse, Database
<1> HIDE DEF e
<1>4. e.members \in [Job -> SUBSET Code]
  <2>1. new \subseteq Code /\ d.members \in [Job -> SUBSET Code] BY DEF Database
  <2> QED BY <1>1, <2>1
<1>5. e.item \in [Partition -> [Code -> ItemRow]]
  <2>1. [NoItem EXCEPT !.status = "pending"] \in ItemRow BY DEF NoItem, ItemRow, Statuses
  <2>2. \A p \in Partition : \A c \in Code : d.item[p][c] \in ItemRow BY DEF Database
  <2> QED BY <1>2, <2>1, <2>2
<1>6. e \in Database BY <1>3, <1>4, <1>5 DEF Database
<1>7. ItemsKept(d, e)
  <2> SUFFICES ASSUME NEW p \in Partition, NEW c \in Code, e.item[p][c].status = "complete"
               PROVE  d.item[p][c].status = "complete"
    BY DEF ItemsKept
  <2>1. [NoItem EXCEPT !.status = "pending"].status = "pending" BY DEF NoItem
  <2> QED BY <1>2, <2>1
<1>8. e.members[j] = d.members[j] \cup d.catalog BY <1>1 DEF Database
<1> QED BY <1>3, <1>6, <1>7, <1>8 DEF e

(* All operators that expand a universe change the same fields.            *)
Expanded(d, e) ==
  /\ e \in Database
  /\ e = [d EXCEPT !.members = e.members, !.item = e.item]
  /\ ItemsKept(d, e)

LEMMA ExpandParts ==
  ASSUME NEW d \in Database
  PROVE  /\ \A j \in Job : Expanded(d, ExpandJob(d, j))
         /\ \A p \in Partition : Expanded(d, ExpandPartition(d, p))
         /\ \A p \in Partition : d.bound[p] # None =>
              d.catalog \subseteq ExpandPartition(d, p).members[d.bound[p]]
<1>1. Expanded(d, d) BY DEF Expanded, ItemsKept, Database
<1>2. \A j \in Job : Expanded(d, ExpandUniverse(d, j))
  BY ExpandUniverseParts DEF Expanded
<1>3. \A p \in Partition : d.bound[p] \in Job \cup {None} BY DEF Database
<1>4. \A p \in Partition : d.bound[p] # None =>
        d.catalog \subseteq ExpandPartition(d, p).members[d.bound[p]]
  <2> SUFFICES ASSUME NEW p \in Partition, d.bound[p] # None
               PROVE  d.catalog \subseteq ExpandPartition(d, p).members[d.bound[p]]
    OBVIOUS
  <2>1. d.bound[p] \in Job BY <1>3
  <2>2. ExpandPartition(d, p) = ExpandUniverse(d, d.bound[p]) BY DEF ExpandPartition
  <2>3. ExpandUniverse(d, d.bound[p]).members[d.bound[p]] = d.members[d.bound[p]] \cup d.catalog
    BY <2>1, ExpandUniverseParts
  <2> QED BY <2>2, <2>3
<1> QED BY <1>1, <1>2, <1>3, <1>4 DEF ExpandJob, ExpandPartition

LEMMA ExpandedFields ==
  ASSUME NEW d \in Database, NEW e, Expanded(d, e)
  PROVE  /\ e.docs = d.docs /\ e.catalog = d.catalog /\ e.part = d.part /\ e.ref = d.ref
         /\ e.job = d.job /\ e.bound = d.bound /\ e.probed = d.probed /\ e.stable = d.stable
BY DEF Expanded, Database

LEMMA SuspectParts ==
  ASSUME NEW d \in Database, NEW ps
  PROVE  /\ Suspect(d, ps) \in Database
         /\ Suspect(d, ps) = [d EXCEPT !.ref = Suspect(d, ps).ref]
         /\ \A j \in Job : \A p \in Partition :
              Suspect(d, ps).ref[j][p] = IF p \in ps /\ d.ref[j][p] = "current"
                                         THEN "needs_revalidation" ELSE d.ref[j][p]
<1> DEFINE e == Suspect(d, ps)
<1>1. e.ref = [j \in Job |-> [p \in Partition |->
                 IF p \in ps /\ d.ref[j][p] = "current" THEN "needs_revalidation" ELSE d.ref[j][p]]]
  BY DEF Suspect, Database
<1>2. e = [d EXCEPT !.ref = e.ref] BY DEF Suspect, Database
<1> HIDE DEF e
<1>3. e.ref \in [Job -> [Partition -> References]]
  <2>1. \A j \in Job : \A p \in Partition : d.ref[j][p] \in References BY DEF Database
  <2> QED BY <1>1, <2>1 DEF References
<1>4. e \in Database BY <1>2, <1>3 DEF Database
<1> QED BY <1>1, <1>2, <1>4 DEF e

LEMMA DowngradeParts ==
  ASSUME NEW d \in Database
  PROVE  /\ Downgrade(d) \in Database
         /\ Downgrade(d) = [d EXCEPT !.job = Downgrade(d).job]
         /\ \A j \in Job :
              Downgrade(d).job[j] = IF \E p \in Partition : d.ref[j][p] = "needs_revalidation"
                                    THEN [d.job[j] EXCEPT !.status = "partial", !.stale = TRUE]
                                    ELSE d.job[j]
<1> DEFINE e == Downgrade(d)
<1>1. e.job = [j \in Job |-> IF \E p \in Partition : d.ref[j][p] = "needs_revalidation"
                             THEN [d.job[j] EXCEPT !.status = "partial", !.stale = TRUE]
                             ELSE d.job[j]]
  BY DEF Downgrade, Database
<1>2. e = [d EXCEPT !.job = e.job] BY DEF Downgrade, Database
<1> HIDE DEF e
<1>3. e.job \in [Job -> JobRow]
  <2>1. \A j \in Job : /\ d.job[j] \in JobRow
                       /\ [d.job[j] EXCEPT !.status = "partial", !.stale = TRUE] \in JobRow
    <3> SUFFICES ASSUME NEW j \in Job
                 PROVE  /\ d.job[j] \in JobRow
                        /\ [d.job[j] EXCEPT !.status = "partial", !.stale = TRUE] \in JobRow
      OBVIOUS
    <3>1. d.job[j] \in JobRow BY DEF Database
    <3> QED BY <3>1 DEF JobRow
  <2> QED BY <1>1, <2>1
<1>4. e \in Database BY <1>2, <1>3 DEF Database
<1> QED BY <1>1, <1>2, <1>4 DEF e

(* A reopening without jobs leaves the jobs to Downgrade.                  *)
LEMMA DowngradeReopens ==
  ASSUME NEW d \in Database, NEW e \in Database, BasisOK(d), Trusted(d), Reopens(d, e)
  PROVE  /\ Downgrade(e) \in Database /\ Reopens(d, Downgrade(e)) /\ Trusted(Downgrade(e))
<1> DEFINE f == Downgrade(e)
<1>1. f \in Database /\ f = [e EXCEPT !.job = f.job] BY DowngradeParts
<1>2. \A j \in Job : f.job[j] = IF \E p \in Partition : e.ref[j][p] = "needs_revalidation"
                                THEN [e.job[j] EXCEPT !.status = "partial", !.stale = TRUE]
                                ELSE e.job[j]
  BY DowngradeParts
<1> HIDE DEF f
<1>3. /\ f.docs = e.docs /\ f.catalog = e.catalog /\ f.probed = e.probed
      /\ f.part = e.part /\ f.item = e.item /\ f.ref = e.ref
  BY <1>1 DEF Database
<1>4. Reopens(d, f)
  <2>1. SameStore(d, f) BY <1>3 DEF Reopens, SameStore
  <2>2. RowsReopened(d, f) BY <1>3 DEF Reopens, RowsReopened, SameRow
  <2>3. ItemsKept(d, f) BY <1>3 DEF Reopens, ItemsKept
  <2>4. RefsSuspected(d, f) BY <1>3 DEF Reopens, RefsSuspected, IsComplete
  <2>5. JobsTakenBack(d, f)
    <3> SUFFICES ASSUME NEW j \in Job
                 PROVE  \/ f.job[j] = d.job[j]
                        \/ /\ f.job[j].holder = d.job[j].holder
                           /\ f.job[j].status = "partial" /\ f.job[j].stale
      BY DEF JobsTakenBack
    <3>1. e.job[j] \in JobRow BY DEF Database
    <3>2. e.job[j].holder = d.job[j].holder BY DEF Reopens, JobsTakenBack
    <3>3. CASE f.job[j] = e.job[j] BY <3>3 DEF Reopens, JobsTakenBack
    <3>4. CASE f.job[j] = [e.job[j] EXCEPT !.status = "partial", !.stale = TRUE]
      BY <3>1, <3>2, <3>4 DEF JobRow
    <3> QED BY <1>2, <3>3, <3>4
  <2>6. Caused(d, f) BY <1>3 DEF Reopens, Caused, IsComplete
  <2>7. Upward(d, f) BY <1>3 DEF Reopens, Upward, IsComplete
  <2> QED BY <2>1, <2>2, <2>3, <2>4, <2>5, <2>6, <2>7 DEF Reopens
<1>5. Trusted(f)
  <2> SUFFICES ASSUME NEW j \in Job, f.job[j].status = "complete", NEW p \in Partition
               PROVE  f.ref[j][p] = "none" \/ (f.ref[j][p] = "current" /\ IsComplete(f, p))
    BY DEF Trusted
  <2>1. d.job[j].status = "complete" BY <1>4 DEF Reopens, JobsTakenBack
  <2>2. d.ref[j][p] = "none" \/ (d.ref[j][p] = "current" /\ IsComplete(d, p))
    BY <2>1 DEF Trusted
  <2>3. e.ref[j][p] # "needs_revalidation"
    <3>1. [e.job[j] EXCEPT !.status = "partial", !.stale = TRUE].status = "partial"
      <4>1. e.job[j] \in JobRow BY DEF Database
      <4> QED BY <4>1 DEF JobRow
    <3> QED BY <1>2, <3>1
  <2>4. f.ref[j][p] = d.ref[j][p] BY <1>3, <2>3 DEF Reopens, RefsSuspected
  <2>5. d.ref[j][p] = "current" => IsComplete(f, p)
    BY <1>4, <2>2, <2>4 DEF Reopens, RefsSuspected
  <2> QED BY <2>2, <2>4, <2>5
<1> QED BY <1>1, <1>4, <1>5 DEF f

(* A reopened saturated day, and the ranges above it.                      *)
LEMMA LeafReopens ==
  ASSUME NEW d \in Database, BasisOK(d),
         NEW q \in Partition, d.part[q].probe, d.part[q].catalog # d.catalog
  PROVE  /\ ReopenLeaf(d, q) \in Database
         /\ Reopens(d, ReopenLeaf(d, q))
         /\ ReopenLeaf(d, q).job = d.job
<1> DEFINE above == {p \in Partition : Above(p, q) /\ d.part[p].basis \in
                       {"split_children", "split_children_revalidation"}}
           complete == d.part[q].status = "complete"
           row(p) == CASE p = q /\ complete ->
                            [d.part[p] EXCEPT !.status = "failed_overflow",
                                              !.basis = "saturated_catalog_revalidation"]
                       [] p \in above ->
                            [d.part[p] EXCEPT !.status = "failed_overflow",
                                              !.basis = "split_children_revalidation"]
                       [] OTHER -> d.part[p]
           r == [d EXCEPT !.part = [p \in Partition |-> row(p)], !.stable[q] = 0]
           x == ExpandPartition(r, q)
           e == Suspect(x, above \cup {q})
<1>1. ReopenLeaf(d, q) = e \/ ReopenLeaf(d, q) = d
  <2>1. r = [d EXCEPT !.part = [p \in Partition |->
        CASE p = q /\ complete ->
               [@[p] EXCEPT !.status = "failed_overflow", !.basis = "saturated_catalog_revalidation"]
          [] p \in above ->
               [@[p] EXCEPT !.status = "failed_overflow", !.basis = "split_children_revalidation"]
          [] OTHER -> @[p]], !.stable[q] = 0]
    OBVIOUS
  <2> HIDE DEF r
  <2> QED BY <2>1 DEF ReopenLeaf
<1>2. \A p \in Partition : row(p) \in PartitionRow /\ row(p).probe = d.part[p].probe
        /\ row(p).catalog = d.part[p].catalog /\ row(p).holder = d.part[p].holder
  <2> SUFFICES ASSUME NEW p \in Partition
               PROVE  /\ row(p) \in PartitionRow /\ row(p).probe = d.part[p].probe
                      /\ row(p).catalog = d.part[p].catalog /\ row(p).holder = d.part[p].holder
    OBVIOUS
  <2>1. d.part[p] \in PartitionRow BY DEF Database
  <2> HIDE DEF above, complete
  <2> QED BY ZenonT(60), <2>1 DEF PartitionRow, Statuses, Failed, Bases
<1>3. \A p \in Partition : \/ row(p) = d.part[p]
                           \/ p = q /\ complete /\ row(p).status = "failed_overflow"
                           \/ p \in above /\ row(p).status = "failed_overflow"
  <2> SUFFICES ASSUME NEW p \in Partition
               PROVE  \/ row(p) = d.part[p]
                      \/ p = q /\ complete /\ row(p).status = "failed_overflow"
                      \/ p \in above /\ row(p).status = "failed_overflow"
    OBVIOUS
  <2>1. d.part[p] \in PartitionRow BY DEF Database
  <2> HIDE DEF above, complete
  <2> QED BY <2>1 DEF PartitionRow
<1>31. \A p \in above : row(p).status = "failed_overflow"
  <2> SUFFICES ASSUME NEW p \in above PROVE row(p).status = "failed_overflow"
    OBVIOUS
  <2>1. d.part[p] \in PartitionRow /\ p # q BY DEF Database, Above
  <2> HIDE DEF above, complete
  <2> QED BY <2>1 DEF PartitionRow
<1> HIDE DEF row
<1>4. /\ r \in Database /\ r.docs = d.docs /\ r.catalog = d.catalog /\ r.ref = d.ref
      /\ r.job = d.job /\ r.item = d.item /\ r.bound = d.bound /\ r.probed = d.probed
      /\ \A p \in Partition : r.part[p] = row(p)
  <2>1. [d.stable EXCEPT ![q] = 0] \in [Partition -> 0..Rounds]
    BY BackfillAssumption DEF Database
  <2> QED BY <1>2, <2>1 DEF Database
<1> HIDE DEF r
<1>5. Expanded(r, x) BY <1>4, ExpandParts
<1>6. /\ x \in Database /\ x.docs = d.docs /\ x.catalog = d.catalog /\ x.ref = d.ref
      /\ x.job = d.job /\ x.probed = d.probed /\ x.part = r.part /\ ItemsKept(r, x)
  BY ZenonT(60), <1>4, <1>5, ExpandedFields DEF Expanded
<1> HIDE DEF x
<1>7. /\ e \in Database /\ e = [x EXCEPT !.ref = e.ref]
      /\ \A j \in Job : \A p \in Partition :
           e.ref[j][p] = IF p \in above \cup {q} /\ d.ref[j][p] = "current"
                         THEN "needs_revalidation" ELSE d.ref[j][p]
  <2> HIDE DEF above
  <2> DEFINE ps == above \cup {q}
  <2>0. x \in Database BY <1>6
  <2>1. /\ e \in Database /\ e = [x EXCEPT !.ref = e.ref]
        /\ \A j \in Job : \A p \in Partition :
             e.ref[j][p] = IF p \in above \cup {q} /\ x.ref[j][p] = "current"
                           THEN "needs_revalidation" ELSE x.ref[j][p]
    <3> HIDE DEF ps
    <3>1. /\ Suspect(x, ps) \in Database
          /\ Suspect(x, ps) = [x EXCEPT !.ref = Suspect(x, ps).ref]
          /\ \A j \in Job : \A p \in Partition :
               Suspect(x, ps).ref[j][p] = IF p \in ps /\ x.ref[j][p] = "current"
                                          THEN "needs_revalidation" ELSE x.ref[j][p]
      BY <2>0, SuspectParts
    <3> QED BY <3>1 DEF ps
  <2>2. x.ref = d.ref BY <1>6
  <2> HIDE DEF e
  <2> QED BY <2>1, <2>2
<1> HIDE DEF e
<1>8. /\ e.docs = d.docs /\ e.catalog = d.catalog /\ e.probed = d.probed /\ e.job = d.job
      /\ \A p \in Partition : e.part[p] = row(p)
      /\ ItemsKept(d, e)
  <2>1. /\ e.docs = x.docs /\ e.catalog = x.catalog /\ e.probed = x.probed /\ e.job = x.job
        /\ e.part = x.part /\ e.item = x.item
    BY <1>6, <1>7 DEF Database
  <2>2. ItemsKept(d, e) BY <1>4, <1>6, <2>1 DEF ItemsKept
  <2> QED BY <1>4, <1>6, <2>1, <2>2
<1>9. Reopens(d, e)
  <2>1. SameStore(d, e) BY <1>8 DEF SameStore
  <2>2. RowsReopened(d, e) BY <1>2, <1>3, <1>8 DEF RowsReopened, SameRow
  <2>3. RefsSuspected(d, e)
    <3> SUFFICES ASSUME NEW j \in Job, NEW p \in Partition
                 PROVE  /\ \/ e.ref[j][p] = d.ref[j][p]
                           \/ d.ref[j][p] = "current" /\ e.ref[j][p] = "needs_revalidation"
                        /\ IsComplete(d, p) /\ ~IsComplete(e, p) => e.ref[j][p] # "current"
      BY DEF RefsSuspected
    <3>1. IsComplete(d, p) /\ ~IsComplete(e, p) => p \in above \cup {q}
      BY <1>3, <1>8 DEF IsComplete
    <3> HIDE DEF above
    <3> QED BY <1>7, <3>1
  <2>4. JobsTakenBack(d, e) BY <1>8 DEF JobsTakenBack
  <2>5. Caused(d, e)
    <3> SUFFICES ASSUME NEW p \in Partition, IsComplete(d, p), ~IsComplete(e, p)
                 PROVE  Cause(d, p)
      BY DEF Caused
    <3>1. p = q \/ p \in above BY <1>3, <1>8 DEF IsComplete
    <3>2. CASE p = q BY <3>2 DEF Cause, BasisOK
    <3>3. CASE p \in above
      <4>1. d.part[p].basis = "split_children" BY <3>3 DEF BasisOK
      <4> QED BY <3>3, <4>1 DEF Cause
    <3> QED BY <3>1, <3>2, <3>3
  <2>6. Upward(d, e)
    <3> SUFFICES ASSUME NEW o \in Partition, IsDay(o), IsComplete(d, o), ~IsComplete(e, o),
                        NEW p \in Partition, Above(p, o), d.part[p].basis = "split_children"
                 PROVE  ~IsComplete(e, p)
      BY DEF Upward
    <3>1. o = q \/ o \in above BY <1>3, <1>8 DEF IsComplete
    <3>2. o = q BY <3>1, DaysAreLowest DEF Above
    <3>3. p \in above BY <3>2
    <3> QED BY <1>31, <1>8, <3>3 DEF IsComplete
  <2> QED BY <1>8, <2>1, <2>2, <2>3, <2>4, <2>5, <2>6 DEF Reopens
<1> QED BY <1>1, <1>7, <1>8, <1>9, ReopensNothing

(* A reopened range over a probed day that is not complete.                *)
LEMMA AboveReopens ==
  ASSUME NEW d \in Database, BasisOK(d), Trusted(d),
         NEW q \in Partition, d.part[q].probe, ~IsComplete(d, q)
  PROVE  /\ ReopenAbove(d, q) \in Database
         /\ Reopens(d, ReopenAbove(d, q))
         /\ Trusted(ReopenAbove(d, q))
         /\ \A p \in Partition :
              Above(p, q) /\ IsComplete(d, p) /\ d.part[p].basis = "split_children" =>
                ~IsComplete(ReopenAbove(d, q), p)
<1> DEFINE above == {p \in Partition : /\ Above(p, q) /\ d.part[p].status = "complete"
                                       /\ d.part[p].basis = "split_children"}
           row(p) == IF p \in above
                     THEN [d.part[p] EXCEPT !.status = "failed_overflow",
                                            !.basis = "split_children_revalidation"]
                     ELSE d.part[p]
           r == [d EXCEPT !.stable[q] = 0, !.part = [p \in Partition |-> row(p)]]
           e == Suspect(r, above \cup {q})
<1>1. ReopenAbove(d, q) = Downgrade(e) \/ (ReopenAbove(d, q) = d /\ above = {})
  <2>1. r = [d EXCEPT
            !.stable[q] = 0,
            !.part = [p \in Partition |-> IF p \in above
              THEN [@[p] EXCEPT !.status = "failed_overflow", !.basis = "split_children_revalidation"]
              ELSE @[p]]]
    OBVIOUS
  <2> HIDE DEF r
  <2> QED BY <2>1 DEF ReopenAbove
<1>2. \A p \in Partition :
        /\ row(p) \in PartitionRow /\ row(p).probe = d.part[p].probe
        /\ row(p).catalog = d.part[p].catalog /\ row(p).holder = d.part[p].holder
        /\ row(p) = d.part[p] \/ (p \in above /\ row(p).status = "failed_overflow")
  <2> SUFFICES ASSUME NEW p \in Partition
               PROVE  /\ row(p) \in PartitionRow /\ row(p).probe = d.part[p].probe
                      /\ row(p).catalog = d.part[p].catalog /\ row(p).holder = d.part[p].holder
                      /\ row(p) = d.part[p] \/ (p \in above /\ row(p).status = "failed_overflow")
    OBVIOUS
  <2>1. d.part[p] \in PartitionRow BY DEF Database
  <2> HIDE DEF above
  <2> QED BY ZenonT(60), <2>1 DEF PartitionRow, Statuses, Failed, Bases
<1>21. \A p \in above : row(p).status = "failed_overflow"
  <2> SUFFICES ASSUME NEW p \in above PROVE row(p).status = "failed_overflow"
    OBVIOUS
  <2>1. d.part[p] \in PartitionRow BY DEF Database
  <2> HIDE DEF above
  <2> QED BY <2>1 DEF PartitionRow
<1> HIDE DEF row
<1>3. /\ r \in Database /\ r.docs = d.docs /\ r.catalog = d.catalog /\ r.ref = d.ref
      /\ r.job = d.job /\ r.item = d.item /\ r.probed = d.probed
      /\ \A p \in Partition : r.part[p] = row(p)
  <2>1. [d.stable EXCEPT ![q] = 0] \in [Partition -> 0..Rounds]
    BY BackfillAssumption DEF Database
  <2> QED BY <1>2, <2>1 DEF Database
<1> HIDE DEF r
<1>4. /\ e \in Database /\ e = [r EXCEPT !.ref = e.ref]
      /\ \A j \in Job : \A p \in Partition :
           e.ref[j][p] = IF p \in above \cup {q} /\ d.ref[j][p] = "current"
                         THEN "needs_revalidation" ELSE d.ref[j][p]
  <2> HIDE DEF above
  <2> QED BY <1>3, SuspectParts
<1> HIDE DEF e
<1>5. /\ e.docs = d.docs /\ e.catalog = d.catalog /\ e.probed = d.probed /\ e.job = d.job
      /\ e.item = d.item /\ \A p \in Partition : e.part[p] = row(p)
  BY <1>3, <1>4 DEF Database
<1>6. Reopens(d, e)
  <2>1. SameStore(d, e) BY <1>5 DEF SameStore
  <2>2. RowsReopened(d, e) BY <1>2, <1>5 DEF RowsReopened, SameRow
  <2>3. ItemsKept(d, e) BY <1>5 DEF ItemsKept
  <2>4. RefsSuspected(d, e)
    <3> SUFFICES ASSUME NEW j \in Job, NEW p \in Partition
                 PROVE  /\ \/ e.ref[j][p] = d.ref[j][p]
                           \/ d.ref[j][p] = "current" /\ e.ref[j][p] = "needs_revalidation"
                        /\ IsComplete(d, p) /\ ~IsComplete(e, p) => e.ref[j][p] # "current"
      BY DEF RefsSuspected
    <3>1. IsComplete(d, p) /\ ~IsComplete(e, p) => p \in above \cup {q}
      BY <1>2, <1>5 DEF IsComplete
    <3> HIDE DEF above
    <3> QED BY <1>4, <3>1
  <2>5. JobsTakenBack(d, e) BY <1>5 DEF JobsTakenBack
  <2>6. Caused(d, e)
    <3> SUFFICES ASSUME NEW p \in Partition, IsComplete(d, p), ~IsComplete(e, p)
                 PROVE  Cause(d, p)
      BY DEF Caused
    <3>1. p \in above BY <1>2, <1>5 DEF IsComplete
    <3> QED BY <3>1 DEF Cause
  <2>7. Upward(d, e)
    <3> SUFFICES ASSUME NEW o \in Partition, IsDay(o), IsComplete(d, o), ~IsComplete(e, o)
                 PROVE  FALSE
      BY DEF Upward
    <3>1. o \in above BY <1>2, <1>5 DEF IsComplete
    <3>2. q = o BY <3>1, DaysAreLowest DEF Above
    <3> QED BY <3>1, <3>2 DEF Above
  <2> QED BY <2>1, <2>2, <2>3, <2>4, <2>5, <2>6, <2>7 DEF Reopens
<1>7. Downgrade(e) \in Database /\ Reopens(d, Downgrade(e)) /\ Trusted(Downgrade(e))
  BY <1>4, <1>6, DowngradeReopens
<1>8. \A p \in above : ~IsComplete(Downgrade(e), p)
  <2> DEFINE f == Downgrade(e)
  <2>0. f = [e EXCEPT !.job = f.job] BY <1>4, DowngradeParts
  <2> HIDE DEF f
  <2>1. f.part = e.part BY <1>4, <2>0 DEF Database
  <2> QED BY <1>5, <1>21, <2>1 DEF IsComplete, f
<1>9. \A p \in Partition :
        Above(p, q) /\ IsComplete(d, p) /\ d.part[p].basis = "split_children" => p \in above
  BY DEF IsComplete
<1> HIDE DEF above
<1> QED BY <1>1, <1>7, <1>8, <1>9, ReopensNothing

LEMMA GrowthReopens ==
  ASSUME NEW d \in Database, BasisOK(d), Trusted(d), NEW p \in Partition
  PROVE  /\ ReopenForCatalogGrowth(d, p) \in Database
         /\ Reopens(d, ReopenForCatalogGrowth(d, p))
         /\ Trusted(ReopenForCatalogGrowth(d, p))
<1> DEFINE leaves == {q \in Partition : /\ Within(q, p) /\ d.part[q].probe
                                        /\ d.part[q].catalog # d.catalog}
           S == {e \in Database : Reopens(d, e)}
           last == ForEach(ReopenLeaf, d, leaves)
<1>1. \A e \in S : \A q \in leaves : ReopenLeaf(e, q) \in S
  <2> SUFFICES ASSUME NEW e \in S, NEW q \in leaves PROVE ReopenLeaf(e, q) \in S
    OBVIOUS
  <2>1. RowsReopened(d, e) /\ SameStore(d, e) BY DEF Reopens
  <2>2. BasisOK(e) BY <2>1, BasisKept
  <2>3. q \in Partition /\ e.part[q].probe /\ e.part[q].catalog # e.catalog
    BY <2>1 DEF RowsReopened, SameRow, SameStore
  <2>4. ReopenLeaf(e, q) \in Database /\ Reopens(e, ReopenLeaf(e, q))
    BY <2>2, <2>3, LeafReopens
  <2>5. Reopens(d, ReopenLeaf(e, q)) BY <2>4, ReopensFurther
  <2> QED BY <2>4, <2>5
<1>2. d \in S BY ReopensNothing
<1>3. leaves \in SUBSET Partition OBVIOUS
<1>4. last \in S
  <2> HIDE DEF S, leaves
  <2> QED BY <1>1, <1>2, <1>3, LeafLoop
<1>5. ReopenForCatalogGrowth(d, p) = Downgrade(last) \/ ReopenForCatalogGrowth(d, p) = d
  BY DEF ReopenForCatalogGrowth
<1> HIDE DEF last
<1>6. Downgrade(last) \in Database /\ Reopens(d, Downgrade(last)) /\ Trusted(Downgrade(last))
  BY <1>4, DowngradeReopens
<1> QED BY <1>5, <1>6, ReopensNothing

LEMMA DescendantsReopen ==
  ASSUME NEW d \in Database, BasisOK(d), Trusted(d), NEW p \in Partition
  PROVE  /\ ReopenForInvalidDescendants(d, p) \in Database
         /\ Reopens(d, ReopenForInvalidDescendants(d, p))
         /\ Trusted(ReopenForInvalidDescendants(d, p))
<1> DEFINE leaves == {q \in Partition : /\ Within(q, p) /\ d.part[q].probe
                                        /\ d.part[q].status # "complete"}
           S == {e \in Database : Reopens(d, e) /\ Trusted(e)}
<1>1. \A e \in S : \A q \in leaves : ReopenAbove(e, q) \in S
  <2> SUFFICES ASSUME NEW e \in S, NEW q \in leaves PROVE ReopenAbove(e, q) \in S
    OBVIOUS
  <2>1. RowsReopened(d, e) BY DEF Reopens
  <2>2. BasisOK(e) BY <2>1, BasisKept
  <2>3. q \in Partition /\ e.part[q].probe /\ ~IsComplete(e, q)
    BY <2>1 DEF RowsReopened, SameRow, IsComplete
  <2>4. /\ ReopenAbove(e, q) \in Database /\ Reopens(e, ReopenAbove(e, q))
        /\ Trusted(ReopenAbove(e, q))
    BY <2>2, <2>3, AboveReopens
  <2>5. Reopens(d, ReopenAbove(e, q)) BY <2>4, ReopensFurther
  <2> QED BY <2>4, <2>5
<1>2. d \in S BY ReopensNothing
<1>3. leaves \in SUBSET Partition OBVIOUS
<1>4. ForEach(ReopenAbove, d, leaves) \in S
  <2> HIDE DEF S, leaves
  <2> QED BY <1>1, <1>2, <1>3, AboveLoop
<1>5. ReopenForInvalidDescendants(d, p) = ForEach(ReopenAbove, d, leaves)
  BY DEF ReopenForInvalidDescendants
<1> QED BY <1>4, <1>5

LEMMA RevalidateReopens ==
  ASSUME NEW d \in Database, BasisOK(d), Trusted(d), NEW p \in Partition
  PROVE  /\ Revalidate(d, p) \in Database
         /\ Reopens(d, Revalidate(d, p))
         /\ Trusted(Revalidate(d, p))
<1> DEFINE e == ReopenForCatalogGrowth(d, p)
<1>1. e \in Database /\ Reopens(d, e) /\ Trusted(e) BY GrowthReopens
<1>2. Revalidate(d, p) = ReopenForInvalidDescendants(e, p) BY DEF Revalidate
<1> HIDE DEF e
<1>3. BasisOK(e) BY <1>1, BasisKept DEF Reopens
<1>4. /\ Revalidate(d, p) \in Database /\ Reopens(e, Revalidate(d, p))
      /\ Trusted(Revalidate(d, p))
  BY <1>1, <1>2, <1>3, DescendantsReopen
<1>5. Reopens(d, Revalidate(d, p)) BY <1>1, <1>4, ReopensFurther
<1> QED BY <1>4, <1>5
-----------------------------------------------------------------------------
(* A transaction that refers to a partition: it may reopen some, and adds  *)
(* a row and a reference.                                                  *)
RowsRefreshed(d, e) ==
  \A p \in Partition :
    /\ SameRow(d, e, p)
    /\ \/ e.part[p].status = d.part[p].status /\ e.part[p].basis = d.part[p].basis
       \/ e.part[p].status \in {"failed_overflow", "pending"}
JobsRefreshed(d, e) ==
  \A j \in Job :
    /\ e.job[j].holder = d.job[j].holder
    /\ e.job[j].status = "complete" => d.job[j].status = "complete"
    /\ d.job[j].status = "complete" /\ e.job[j].status # "complete" => e.job[j].stale

Refreshes(d, e) ==
  /\ SameStore(d, e) /\ RowsRefreshed(d, e) /\ ItemsKept(d, e)
  /\ JobsRefreshed(d, e) /\ Caused(d, e) /\ Upward(d, e)

(* Only the reference of job j to p is made, others turn suspect.           *)
RefsRecorded(d, e, p, j) ==
  \A i \in Job : \A g \in Partition :
    /\ \/ e.ref[i][g] = d.ref[i][g]
       \/ d.ref[i][g] = "current" /\ e.ref[i][g] = "needs_revalidation"
       \/ i = j /\ g = p
    /\ IsComplete(d, g) /\ ~IsComplete(e, g) => e.ref[i][g] # "current"
    /\ i = j /\ g = p => e.ref[i][g] # "none"

LEMMA RefreshKeeps ==
  ASSUME NEW d, NEW e \in Database, DbOK(d), Refreshes(d, e), Trusted(e)
  PROVE  DbOK(e)
<1>1. \A p \in Partition : IsComplete(e, p) =>
        IsComplete(d, p) /\ e.part[p].basis = d.part[p].basis
  BY DEF Refreshes, RowsRefreshed, IsComplete
<1>2. BasisOK(e) BY <1>1 DEF DbOK, BasisOK, Refreshes, RowsRefreshed, SameRow
<1>3. Stored(e)
  <2>1. /\ e.docs = d.docs /\ e.catalog = d.catalog /\ e.probed = d.probed
        /\ \A p \in Partition : e.part[p].catalog = d.part[p].catalog
    BY DEF Refreshes, SameStore, RowsRefreshed, SameRow
  <2>2. \A p \in Partition : Holding(e, p) BY <1>1, <2>1 DEF DbOK, Stored, Holding
  <2>3. \A p \in Partition : \A c \in Code : ItemHolds(e, p, c)
    BY <2>1 DEF DbOK, Stored, ItemHolds, Refreshes, ItemsKept
  <2> QED BY <2>1, <2>2, <2>3 DEF DbOK, Stored
<1> QED BY <1>2, <1>3 DEF DbOK

(* A reference makes its job partial unless all the job refers to is       *)
(* complete.                                                               *)
LEMMA RecordParts ==
  ASSUME NEW d \in Database, Trusted(d), NEW p \in Partition, NEW j \in Job
  PROVE  /\ Record(d, p, j) \in Database /\ Trusted(Record(d, p, j))
         /\ SameStore(d, Record(d, p, j)) /\ ItemsKept(d, Record(d, p, j))
         /\ JobsRefreshed(d, Record(d, p, j))
         /\ \A q \in Partition : /\ SameRow(d, Record(d, p, j), q)
                                 /\ Record(d, p, j).part[q].status = d.part[q].status
                                 /\ Record(d, p, j).part[q].basis = d.part[q].basis
         /\ Record(d, p, j).ref = [d.ref EXCEPT ![j][p] = EvidenceStatus(d, p, j)]
<1> DEFINE r == [d.ref EXCEPT ![j][p] = EvidenceStatus(d, p, j)]
           bad == \E q \in Partition :
                    \/ r[j][q] = "needs_revalidation"
                    \/ r[j][q] = "current" /\ d.part[q].status # "complete"
           status == CASE bad -> "partial"
                       [] ~bad /\ d.job[j].status = "partial" -> "running"
                       [] OTHER -> d.job[j].status
           e == Record(d, p, j)
<1>1. /\ d.part \in [Partition -> PartitionRow] /\ d.job \in [Job -> JobRow]
      /\ d.ref \in [Job -> [Partition -> References]]
  BY DEF Database
<1>2. r \in [Job -> [Partition -> References]]
  <2>1. EvidenceStatus(d, p, j) \in References BY DEF EvidenceStatus, References
  <2> QED BY <1>1, <2>1
<1>3. /\ e.docs = d.docs /\ e.catalog = d.catalog /\ e.members = d.members /\ e.bound = d.bound
      /\ e.item = d.item /\ e.probed = d.probed /\ e.stable = d.stable /\ e.ref = r
      /\ e.part = [d.part EXCEPT ![p].evidence = IF @ = None THEN j ELSE @]
      /\ e.job = [d.job EXCEPT ![j] = [d.job[j] EXCEPT !.stale = bad, !.status = status]]
      /\ e = [docs |-> e.docs, catalog |-> e.catalog, part |-> e.part, ref |-> e.ref,
              job |-> e.job, members |-> e.members, bound |-> e.bound, item |-> e.item,
              probed |-> e.probed, stable |-> e.stable]
  <2>1. e = [d EXCEPT !.part[p].evidence = IF @ = None THEN j ELSE @,
                      !.ref = r,
                      !.job[j].stale = bad,
                      !.job[j].status = CASE bad -> "partial"
                                          [] ~bad /\ @ = "partial" -> "running"
                                          [] OTHER -> @]
    BY DEF Record
  <2> HIDE DEF e, r, bad
  <2>2. /\ e.docs = d.docs /\ e.catalog = d.catalog /\ e.members = d.members
        /\ e.bound = d.bound /\ e.item = d.item /\ e.probed = d.probed
        /\ e.stable = d.stable /\ e.ref = r
    BY <2>1 DEF Database
  <2>3. e.part = [d.part EXCEPT ![p].evidence = IF @ = None THEN j ELSE @]
    BY <2>1 DEF Database
  <2>4. e.job = [d.job EXCEPT ![j] = [d.job[j] EXCEPT !.stale = bad, !.status = status]]
    <3>1. d.job[j] \in JobRow BY <1>1
    <3>2. e.job = [d.job EXCEPT ![j].stale = bad,
                                ![j].status = CASE bad -> "partial"
                                                [] ~bad /\ @ = "partial" -> "running"
                                                [] OTHER -> @]
      BY <2>1 DEF Database
    <3> QED BY <1>1, <3>1, <3>2 DEF JobRow
  <2>5. e = [docs |-> e.docs, catalog |-> e.catalog, part |-> e.part, ref |-> e.ref,
             job |-> e.job, members |-> e.members, bound |-> e.bound, item |-> e.item,
             probed |-> e.probed, stable |-> e.stable]
    BY <2>1 DEF Database
  <2> QED BY <2>2, <2>3, <2>4, <2>5
<1> HIDE DEF e, r, bad
<1>4. e.part \in [Partition -> PartitionRow]
  <2>1. d.part[p] \in PartitionRow BY <1>1
  <2>2. [d.part[p] EXCEPT !.evidence = IF @ = None THEN j ELSE @] \in PartitionRow
    BY <2>1 DEF PartitionRow
  <2> QED BY <1>1, <1>3, <2>2
<1>5. \A q \in Partition : /\ SameRow(d, e, q) /\ e.part[q].status = d.part[q].status
                           /\ e.part[q].basis = d.part[q].basis
  BY <1>1, <1>3 DEF SameRow, PartitionRow
<1>6. /\ e.job[j] \in JobRow /\ e.job[j].holder = d.job[j].holder
      /\ (e.job[j].stale <=> bad) /\ e.job[j].status = status
  <2>1. d.job[j] \in JobRow /\ bad \in BOOLEAN BY <1>1 DEF bad
  <2>2. status \in {"absent", "running", "partial", "complete"} BY <2>1 DEF JobRow
  <2>3. e.job[j] = [d.job[j] EXCEPT !.stale = bad, !.status = status] BY <1>1, <1>3
  <2> HIDE DEF status
  <2> QED BY <2>1, <2>2, <2>3 DEF JobRow
<1>7. \A i \in Job : i # j => e.job[i] = d.job[i] BY <1>1, <1>3
<1>8. e \in Database
  <2>1. e.job \in [Job -> JobRow] BY <1>1, <1>3, <1>6
  <2> QED BY <1>2, <1>3, <1>4, <2>1 DEF Database
<1>9. JobsRefreshed(d, e)
  <2> SUFFICES ASSUME NEW i \in Job
               PROVE  /\ e.job[i].holder = d.job[i].holder
                      /\ e.job[i].status = "complete" => d.job[i].status = "complete"
                      /\ d.job[i].status = "complete" /\ e.job[i].status # "complete"
                           => e.job[i].stale
    BY DEF JobsRefreshed
  <2>1. CASE i = j BY <1>6, <2>1
  <2>2. CASE i # j BY <1>7, <2>2
  <2> QED BY <2>1, <2>2
<1>10. Trusted(e)
  <2> SUFFICES ASSUME NEW i \in Job, e.job[i].status = "complete", NEW q \in Partition
               PROVE  e.ref[i][q] = "none" \/ (e.ref[i][q] = "current" /\ IsComplete(e, q))
    BY DEF Trusted
  <2>1. IsComplete(e, q) <=> IsComplete(d, q) BY <1>5 DEF IsComplete
  <2>2. CASE i = j
    <3>1. ~bad BY <1>6, <2>2
    <3>2. r[j][q] \in References BY <1>2
    <3> QED BY <1>3, <2>1, <2>2, <3>1, <3>2 DEF bad, References, IsComplete
  <2>3. CASE i # j
    <3>1. e.ref[i] = d.ref[i] BY <1>1, <1>3, <2>3 DEF r
    <3>2. d.job[i].status = "complete" BY <1>7, <2>3
    <3> QED BY <2>1, <3>1, <3>2 DEF Trusted
  <2> QED BY <2>2, <2>3
<1>11. SameStore(d, e) /\ ItemsKept(d, e) BY <1>3 DEF SameStore, ItemsKept
<1> QED BY <1>3, <1>5, <1>8, <1>9, <1>10, <1>11 DEF e, r

LEMMA ReferenceRefreshes ==
  ASSUME NEW d \in Database, BasisOK(d), Trusted(d), NEW p \in Partition, NEW j \in Job
  PROVE  /\ Reference(d, p, j) \in Database /\ Trusted(Reference(d, p, j))
         /\ Refreshes(d, Reference(d, p, j))
         /\ RefsRecorded(d, Reference(d, p, j), p, j)
<1> DEFINE r == Record(d, p, j)
           e == Reference(d, p, j)
<1>1. /\ r \in Database /\ Trusted(r) /\ SameStore(d, r) /\ ItemsKept(d, r)
      /\ JobsRefreshed(d, r)
      /\ \A q \in Partition : /\ SameRow(d, r, q)
                              /\ r.part[q].status = d.part[q].status
                              /\ r.part[q].basis = d.part[q].basis
      /\ r.ref = [d.ref EXCEPT ![j][p] = EvidenceStatus(d, p, j)]
  BY RecordParts
<1>2. e = r \/ e = Revalidate(r, p) BY DEF Reference
<1> HIDE DEF r, e
<1>3. BasisOK(r) BY <1>1 DEF BasisOK, SameRow, IsComplete
<1>4. e \in Database /\ Trusted(e) /\ Reopens(r, e)
  BY <1>1, <1>2, <1>3, RevalidateReopens, ReopensNothing
<1>5. SameStore(d, e) BY <1>1, <1>4 DEF Reopens, SameStore
<1>6. RowsRefreshed(d, e) BY <1>1, <1>4 DEF Reopens, RowsReopened, RowsRefreshed, SameRow
<1>7. ItemsKept(d, e) BY <1>1, <1>4 DEF Reopens, ItemsKept
<1>8. JobsRefreshed(d, e) BY <1>1, <1>4 DEF Reopens, JobsTakenBack, JobsRefreshed
<1>9. Caused(d, e)
  <2> SUFFICES ASSUME NEW q \in Partition, IsComplete(d, q), ~IsComplete(e, q)
               PROVE  Cause(d, q)
    BY DEF Caused
  <2>1. Cause(r, q) BY <1>1, <1>4 DEF Reopens, Caused, IsComplete
  <2> QED BY <1>1, <2>1 DEF Cause, SameRow, SameStore, IsComplete
<1>10. Upward(d, e)
  <2>1. Upward(r, e) BY <1>4 DEF Reopens
  <2> QED BY <1>1, <2>1 DEF Upward, IsComplete
<1>11. RefsRecorded(d, e, p, j)
  <2>1. EvidenceStatus(d, p, j) # "none" BY DEF EvidenceStatus
  <2>2. d.ref \in [Job -> [Partition -> References]] BY DEF Database
  <2>3. /\ r.ref[j][p] # "none"
        /\ \A i \in Job : \A g \in Partition : i # j \/ g # p => r.ref[i][g] = d.ref[i][g]
    BY <1>1, <2>1, <2>2
  <2> SUFFICES ASSUME NEW i \in Job, NEW g \in Partition
               PROVE  /\ \/ e.ref[i][g] = d.ref[i][g]
                         \/ d.ref[i][g] = "current" /\ e.ref[i][g] = "needs_revalidation"
                         \/ i = j /\ g = p
                      /\ IsComplete(d, g) /\ ~IsComplete(e, g) => e.ref[i][g] # "current"
                      /\ i = j /\ g = p => e.ref[i][g] # "none"
    BY DEF RefsRecorded
  <2>4. /\ \/ e.ref[i][g] = r.ref[i][g]
           \/ r.ref[i][g] = "current" /\ e.ref[i][g] = "needs_revalidation"
        /\ IsComplete(r, g) /\ ~IsComplete(e, g) => e.ref[i][g] # "current"
    BY <1>4 DEF Reopens, RefsSuspected
  <2>5. IsComplete(r, g) <=> IsComplete(d, g) BY <1>1 DEF IsComplete
  <2> QED BY <2>3, <2>4, <2>5
<1> QED BY <1>4, <1>5, <1>6, <1>7, <1>8, <1>9, <1>10, <1>11 DEF Refreshes, e

LEMMA PrepareRefreshes ==
  ASSUME NEW d \in Database, BasisOK(d), Trusted(d), NEW p \in Partition, NEW j \in Job
  PROVE  /\ Prepare(d, p, j) \in Database /\ Trusted(Prepare(d, p, j))
         /\ Refreshes(d, Prepare(d, p, j))
         /\ RefsRecorded(d, Prepare(d, p, j), p, j)
<1>1. CASE d.part[p].status # "absent"
  <2>1. Prepare(d, p, j) = Reference(d, p, j) BY <1>1 DEF Prepare
  <2> QED BY <2>1, ReferenceRefreshes
<1>2. CASE d.part[p].status = "absent"
  <2> DEFINE a == [d EXCEPT !.part[p] = [@ EXCEPT !.status = "pending", !.evidence = j]]
             e == Reference(a, p, j)
  <2>1. Prepare(d, p, j) = e BY <1>2 DEF Prepare
  <2>2. d.part \in [Partition -> PartitionRow] BY DEF Database
  <2>3. a.part = [d.part EXCEPT ![p] = [d.part[p] EXCEPT !.status = "pending", !.evidence = j]]
    BY DEF Database
  <2>4. /\ a.docs = d.docs /\ a.catalog = d.catalog /\ a.probed = d.probed /\ a.item = d.item
        /\ a.job = d.job /\ a.ref = d.ref
    BY DEF Database
  <2>5. a.part \in [Partition -> PartitionRow]
    <3>1. d.part[p] \in PartitionRow BY <2>2
    <3>2. [d.part[p] EXCEPT !.status = "pending", !.evidence = j] \in PartitionRow
      BY <3>1 DEF PartitionRow, Statuses
    <3> QED BY <2>2, <2>3, <3>2
  <2>6. a \in Database BY <2>3, <2>5 DEF Database
  <2> HIDE DEF a
  <2>7. /\ \A q \in Partition : SameRow(d, a, q)
        /\ \A q \in Partition : q # p => a.part[q] = d.part[q]
        /\ a.part[p].status = "pending"
    BY <2>2, <2>3 DEF SameRow, PartitionRow
  <2>8. \A q \in Partition : IsComplete(a, q) <=> IsComplete(d, q)
    BY <1>2, <2>7 DEF IsComplete
  <2>9. BasisOK(a)
    <3> SUFFICES ASSUME NEW q \in Partition
                 PROVE  /\ a.part[q].probe => IsDay(q)
                        /\ IsComplete(a, q) => a.part[q].basis \in
                             {"short_page", "split_children", "saturated_catalog_convergence"}
                        /\ IsComplete(a, q) /\ a.part[q].probe
                             => a.part[q].basis = "saturated_catalog_convergence"
      BY DEF BasisOK
    <3>1. CASE q = p BY <1>2, <2>7, <2>8, <3>1 DEF IsComplete, BasisOK, SameRow
    <3>2. CASE q # p BY <2>7, <3>2 DEF IsComplete, BasisOK
    <3> QED BY <3>1, <3>2
  <2>10. Trusted(a) BY <2>4, <2>8 DEF Trusted
  <2>11. e \in Database /\ Trusted(e) /\ Refreshes(a, e) /\ RefsRecorded(a, e, p, j)
    BY <2>6, <2>9, <2>10, ReferenceRefreshes
  <2> HIDE DEF e
  <2>12. SameStore(d, e) BY <2>4, <2>11 DEF Refreshes, SameStore
  <2>13. RowsRefreshed(d, e)
    <3> SUFFICES ASSUME NEW q \in Partition
                 PROVE  /\ SameRow(d, e, q)
                        /\ \/ /\ e.part[q].status = d.part[q].status
                              /\ e.part[q].basis = d.part[q].basis
                           \/ e.part[q].status \in {"failed_overflow", "pending"}
      BY DEF RowsRefreshed
    <3>1. SameRow(d, e, q) BY <2>7, <2>11 DEF Refreshes, RowsRefreshed, SameRow
    <3>2. \/ e.part[q].status = a.part[q].status /\ e.part[q].basis = a.part[q].basis
          \/ e.part[q].status \in {"failed_overflow", "pending"}
      BY <2>11 DEF Refreshes, RowsRefreshed
    <3>3. CASE q = p BY <2>7, <3>1, <3>2, <3>3
    <3>4. CASE q # p BY <2>7, <3>1, <3>2, <3>4
    <3> QED BY <3>3, <3>4
  <2>14. ItemsKept(d, e) BY <2>4, <2>11 DEF Refreshes, ItemsKept
  <2>15. JobsRefreshed(d, e) BY <2>4, <2>11 DEF Refreshes, JobsRefreshed
  <2>16. Caused(d, e)
    <3> SUFFICES ASSUME NEW q \in Partition, IsComplete(d, q), ~IsComplete(e, q)
                 PROVE  Cause(d, q)
      BY DEF Caused
    <3>1. Cause(a, q) BY <2>8, <2>11 DEF Refreshes, Caused
    <3>2. a.part[q] = d.part[q] BY <1>2, <2>7 DEF IsComplete
    <3>3. \A o \in Partition : a.part[o].probe => d.part[o].probe /\ a.part[o].catalog = d.part[o].catalog
      BY <2>7 DEF SameRow
    <3> QED BY <2>4, <2>8, <3>1, <3>2, <3>3 DEF Cause
  <2>17. Upward(d, e)
    <3> SUFFICES ASSUME NEW q \in Partition, IsDay(q), IsComplete(d, q), ~IsComplete(e, q),
                        NEW o \in Partition, Above(o, q), IsComplete(d, o),
                        d.part[o].basis = "split_children"
                 PROVE  ~IsComplete(e, o)
      BY DEF Upward
    <3>1. o # p BY <1>2 DEF IsComplete
    <3>2. a.part[o] = d.part[o] BY <2>7, <3>1
    <3> QED BY <2>8, <2>11, <3>2 DEF Refreshes, Upward
  <2>18. RefsRecorded(d, e, p, j) BY <2>4, <2>8, <2>11 DEF RefsRecorded
  <2> QED BY <2>1, <2>11, <2>12, <2>13, <2>14, <2>15, <2>16, <2>17, <2>18 DEF Refreshes
<1> QED BY <1>1, <1>2
-----------------------------------------------------------------------------
(* The memory of a worker: frames of ranges that can be split where they   *)
(* were split, of days where they are asked security by security.          *)

FrameRow ==
  [part : Partition, at : Ats, left : Outcomes, right : Outcomes, todo : SUBSET Code,
   code : Code \cup {None}, bad : BOOLEAN]
Halves == {"left", "right"}
Splitting == Halves \cup {"join", "joining"}
Gathering == {"bind", "scan", "items", "item", "verify", "verifying", "fold", "folding"}
Frames ==
  {f \in FrameRow : /\ f.at \in Splitting => ~IsDay(f.part)
                    /\ f.at \in Gathering => IsDay(f.part)
                    /\ f.at = "item" => f.code \in Code}

(* All frames but the top one wait for a half.                             *)
Stacks == {s \in Seq(Frames) : \A k \in 2..Len(s) : s[k].at \in Halves}
MemoryRow ==
  [job : Job \cup {None}, resume : BOOLEAN, fuel : BOOLEAN, root : Nat,
   sound : BOOLEAN, stack : Stacks]
Memories ==
  {m \in MemoryRow : m.stack # <<>> => m.job \in Job /\ m.root \in 1..Len(Roots[m.job])}

LEMMA StackParts ==
  ASSUME NEW s \in Stacks, s # <<>>
  PROVE  /\ s[1] \in Frames /\ Tail(s) \in Stacks
         /\ Tail(s) # <<>> => Tail(s)[1] \in Frames /\ Tail(s)[1].at \in Halves
         /\ \A f \in Frames : [s EXCEPT ![1] = f] \in Stacks
         /\ \A f, g \in Frames : g.at \in Halves => <<f, g>> \o Tail(s) \in Stacks
         /\ \A f \in Frames : <<f>> \o Tail(s) \in Stacks
<1>1. s \in Seq(Frames) /\ Len(s) \in Nat /\ Len(s) >= 1 /\ \A k \in 2..Len(s) : s[k].at \in Halves
  BY DEF Stacks
<1>2. s[1] \in Frames BY <1>1
<1> DEFINE t == Tail(s)
<1>3. /\ t \in Seq(Frames) /\ Len(t) = Len(s) - 1
      /\ \A k \in 1..Len(t) : t[k] = s[k + 1] /\ t[k] \in Frames /\ t[k].at \in Halves
  <2>1. t \in Seq(Frames) /\ Len(t) = Len(s) - 1 BY <1>1
  <2>2. \A k \in 1..Len(t) : t[k] = s[k + 1] BY <1>1, <2>1
  <2>3. \A k \in 1..Len(t) : k + 1 \in 2..Len(s) BY <1>1, <2>1
  <2>4. \A k \in 1..Len(t) : t[k] \in Frames BY <2>1
  <2> QED BY <1>1, <2>1, <2>2, <2>3, <2>4
<1> HIDE DEF t
<1>4. t \in Stacks
  <2>1. \A k \in 2..Len(t) : k \in 1..Len(t) BY <1>1, <1>3
  <2> QED BY <1>3, <2>1 DEF Stacks
<1>5. t # <<>> => t[1] \in Frames /\ t[1].at \in Halves
  <2> SUFFICES ASSUME t # <<>> PROVE 1 \in 1..Len(t)
    BY <1>3
  <2> QED BY <1>3
<1>6. ASSUME NEW f \in Frames PROVE [s EXCEPT ![1] = f] \in Stacks
  <2> DEFINE u == [s EXCEPT ![1] = f]
  <2>1. u \in Seq(Frames) /\ Len(u) = Len(s) BY <1>1
  <2>2. \A k \in 2..Len(s) : u[k] = s[k] BY <1>1
  <2> QED BY <1>1, <2>1, <2>2 DEF Stacks
<1>7. ASSUME NEW f \in Frames, NEW g \in Frames, g.at \in Halves
      PROVE  <<f, g>> \o t \in Stacks
  <2> DEFINE u == <<f, g>> \o t
  <2>1. <<f, g>> \in Seq(Frames) OBVIOUS
  <2>2. u \in Seq(Frames) /\ Len(u) = Len(t) + 2 BY <1>3, <2>1
  <2>3. u[2] = g /\ \A k \in 3..Len(u) : u[k] = t[k - 2] BY <1>3, <2>2
  <2>4. \A k \in 3..Len(u) : k - 2 \in 1..Len(t) BY <1>3, <2>2
  <2>5. \A k \in 2..Len(u) : k = 2 \/ k \in 3..Len(u) BY <2>2
  <2> HIDE DEF u
  <2>6. \A k \in 2..Len(u) : u[k].at \in Halves BY <1>3, <1>7, <2>3, <2>4, <2>5
  <2> QED BY <2>2, <2>6 DEF Stacks, u
<1>8. ASSUME NEW f \in Frames PROVE <<f>> \o t \in Stacks
  <2> DEFINE u == <<f>> \o t
  <2>1. <<f>> \in Seq(Frames) OBVIOUS
  <2>2. u \in Seq(Frames) /\ Len(u) = Len(t) + 1 BY <1>3, <2>1
  <2>3. \A k \in 2..Len(u) : u[k] = t[k - 1] BY <1>3, <2>2
  <2>4. \A k \in 2..Len(u) : k - 1 \in 1..Len(t) BY <1>3, <2>2
  <2> HIDE DEF u
  <2>5. \A k \in 2..Len(u) : u[k].at \in Halves BY <1>3, <2>3, <2>4
  <2> QED BY <2>2, <2>5 DEF Stacks, u
<1> QED BY <1>2, <1>4, <1>5, <1>6, <1>7, <1>8 DEF t

(* The halves of a range of several days are ranges.                       *)
LEMMA HalvesOfRange ==
  ASSUME NEW p \in Partition, ~IsDay(p)
  PROVE  Left(p) \in Partition /\ Right(p) \in Partition
<1>1. /\ p[1] \in Day /\ p[2] \in Day /\ p[1] \in Nat /\ p[2] \in Nat /\ p[1] <= p[2]
  BY PartitionParts
<1>2. p[1] < p[2] BY <1>1 DEF IsDay
<1> DEFINE m == Midpoint(p)
<1>3. m \in Nat /\ p[1] <= m /\ m < p[2] BY <1>1, <1>2 DEF Midpoint
<1> HIDE DEF m
<1>4. m \in p[1]..p[2] /\ m + 1 \in p[1]..p[2] BY <1>1, <1>3
<1>5. m \in Day /\ m + 1 \in Day
  <2>1. p[1]..p[2] \subseteq Day BY <1>1, BackfillAssumption
  <2> QED BY <1>4, <2>1
<1>6. <<p[1], m>> \in Partition /\ <<m + 1, p[2]>> \in Partition
  BY <1>1, <1>3, <1>5 DEF Partition
<1> QED BY <1>6 DEF Left, Right, m

LEMMA FrameOfPartition ==
  ASSUME NEW p \in Partition
  PROVE  Frame(p) \in Frames
BY DEF Frame, Frames, FrameRow, Ats, Outcomes, Splitting, Halves, Gathering

LEMMA RootsAreRanges ==
  ASSUME NEW j \in Job
  PROVE  /\ Len(Roots[j]) \in Nat /\ Len(Roots[j]) >= 1
         /\ \A k \in 1..Len(Roots[j]) : Roots[j][k] \in Partition
<1>1. Roots[j] \in Seq(Partition) /\ Roots[j] # <<>> BY BackfillAssumption
<1> QED BY <1>1

(* A frame that moves on keeps its range.                                  *)
LEMMA FrameMoves ==
  ASSUME NEW f \in Frames, NEW at \in Ats,
         at \in Splitting => ~IsDay(f.part), at \in Gathering => IsDay(f.part), at # "item"
  PROVE  [f EXCEPT !.at = at] \in Frames
BY DEF Frames, FrameRow

LEMMA TopMoves ==
  ASSUME NEW m \in Memories, m.stack # <<>>, NEW f \in Frames
  PROVE  [m EXCEPT !.stack[1] = f] \in Memories
<1> DEFINE s == [m.stack EXCEPT ![1] = f]
<1>1. m \in MemoryRow /\ m.stack \in Stacks BY DEF Memories, MemoryRow
<1>2. s \in Stacks BY <1>1, StackParts
<1>3. [m EXCEPT !.stack[1] = f] = [m EXCEPT !.stack = s] BY <1>1 DEF MemoryRow
<1> HIDE DEF s
<1>4. [m EXCEPT !.stack = s] \in Memories BY <1>1, <1>2 DEF Memories, MemoryRow
<1> QED BY <1>3, <1>4

LEMMA WithStack ==
  ASSUME NEW m \in Memories, m.stack # <<>>, NEW s \in Stacks
  PROVE  [m EXCEPT !.stack = s] \in Memories
BY DEF Memories, MemoryRow

LEMMA EmptyStack == <<>> \in Stacks
<1>1. <<>> \in Seq(Frames) /\ Len(<<>>) = 0 OBVIOUS
<1> QED BY <1>1 DEF Stacks

LEMMA UnwoundParts ==
  ASSUME NEW m \in Memories
  PROVE  Unwound(m) \in Memories /\ Unwound(m).job = m.job
BY EmptyStack DEF Unwound, Memories, MemoryRow

LEMMA DescendParts ==
  ASSUME NEW m \in Memories, m.stack # <<>>, ~IsDay(m.stack[1].part)
  PROVE  Descend(m) \in Memories /\ Descend(m).job = m.job
<1> DEFINE f == Frame(Left(m.stack[1].part))
           g == [m.stack[1] EXCEPT !.at = "left"]
           s == <<f, g>> \o Tail(m.stack)
<1>1. m \in MemoryRow /\ m.stack \in Stacks BY DEF Memories, MemoryRow
<1>2. m.stack[1] \in Frames BY <1>1, StackParts
<1>3. m.stack[1].part \in Partition BY <1>2 DEF Frames, FrameRow
<1>4. f \in Frames BY <1>3, HalvesOfRange, FrameOfPartition
<1>5. g \in Frames
  <2>1. "left" \in Ats /\ "left" \notin Gathering BY DEF Ats, Gathering
  <2> QED BY <1>2, <2>1, FrameMoves
<1>6. g.at = "left" BY <1>2 DEF Frames, FrameRow
<1>7. s \in Stacks
  <2> HIDE DEF f, g
  <2>1. g.at \in Halves BY <1>6 DEF Halves
  <2> QED BY <1>1, <1>4, <1>5, <2>1, StackParts
<1>8. Descend(m) = [m EXCEPT !.stack = s] BY <1>1 DEF Descend, MemoryRow
<1> HIDE DEF s
<1>9. [m EXCEPT !.stack = s].job = m.job BY <1>1 DEF MemoryRow
<1> QED BY <1>7, <1>8, <1>9, WithStack

LEMMA ResumedParts ==
  ASSUME NEW m \in Memories, m.stack # <<>>, NEW out \in Outcomes
  PROVE  Resumed(m, out) \in Memories /\ Resumed(m, out).job = m.job
<1> DEFINE below == Tail(m.stack)
           last == m.root = Len(Roots[m.job]) \/ (~m.fuel /\ out # "true")
<1>1. /\ m \in MemoryRow /\ m.stack \in Stacks /\ m.job \in Job
      /\ m.root \in 1..Len(Roots[m.job])
  BY DEF Memories, MemoryRow
<1>2. /\ below \in Stacks
      /\ below # <<>> => below[1] \in Frames /\ below[1].at \in Halves
  BY <1>1, StackParts
<1>3. CASE below = <<>>
  <2> DEFINE sound == m.sound /\ out = "true"
             root == IF last THEN m.root ELSE m.root + 1
             s == IF last THEN <<>> ELSE <<Frame(Roots[m.job][m.root + 1])>>
  <2>1. Resumed(m, out) = [m EXCEPT !.sound = sound, !.root = root, !.stack = s]
    BY <1>1, <1>3 DEF Resumed, MemoryRow
  <2>2. sound \in BOOLEAN OBVIOUS
  <2>3. root \in 1..Len(Roots[m.job]) /\ root \in Nat BY <1>1, RootsAreRanges
  <2>4. s \in Stacks
    <3>1. CASE last BY <3>1, EmptyStack
    <3>2. CASE ~last
      <4>1. m.root + 1 \in 1..Len(Roots[m.job]) BY <1>1, <3>2, RootsAreRanges
      <4>2. Roots[m.job][m.root + 1] \in Partition BY <1>1, <4>1, RootsAreRanges
      <4> DEFINE f == Frame(Roots[m.job][m.root + 1])
      <4>3. f \in Frames BY <4>2, FrameOfPartition
      <4> HIDE DEF f
      <4>4. <<f>> \in Seq(Frames) /\ Len(<<f>>) = 1 BY <4>3
      <4>5. <<f>> \in Stacks BY <4>4 DEF Stacks
      <4> QED BY <3>2, <4>5 DEF f
    <3> QED BY <3>1, <3>2
  <2> HIDE DEF sound, root, s
  <2>5. [m EXCEPT !.sound = sound, !.root = root, !.stack = s] \in Memories
    BY <1>1, <2>2, <2>3, <2>4 DEF Memories, MemoryRow
  <2>6. [m EXCEPT !.sound = sound, !.root = root, !.stack = s].job = m.job
    BY <1>1 DEF MemoryRow
  <2> QED BY <2>1, <2>5, <2>6
<1>4. CASE below # <<>>
  <2> DEFINE f == Frame(Right(below[1].part))
             g == [below[1] EXCEPT !.at = "right", !.left = out]
             h == [below[1] EXCEPT !.at = "join", !.right = out]
             s == IF below[1].at = "left" THEN <<f, g>> \o Tail(below) ELSE <<h>> \o Tail(below)
  <2>1. Resumed(m, out) = [m EXCEPT !.stack = s]
    BY <1>1, <1>4 DEF Resumed, MemoryRow
  <2>2. below[1] \in Frames /\ below[1].at \in Halves BY <1>2, <1>4
  <2>3. below[1].part \in Partition /\ ~IsDay(below[1].part)
    BY <2>2 DEF Frames, FrameRow, Splitting
  <2>4. f \in Frames BY <2>3, HalvesOfRange, FrameOfPartition
  <2>5. g \in Frames /\ g.at \in Halves
    <3>1. "right" \in Ats /\ "right" \notin Gathering /\ "right" \in Halves
      BY DEF Ats, Gathering, Halves
    <3> QED BY <2>2, <2>3, <3>1 DEF Frames, FrameRow
  <2>6. h \in Frames
    <3>1. "join" \in Ats /\ "join" \notin Gathering BY DEF Ats, Gathering
    <3> QED BY <2>2, <2>3, <3>1 DEF Frames, FrameRow
  <2>7. s \in Stacks
    <3> HIDE DEF f, g, h, below
    <3> QED BY <1>2, <1>4, <2>4, <2>5, <2>6, StackParts
  <2> HIDE DEF s
  <2>8. [m EXCEPT !.stack = s].job = m.job BY <1>1 DEF MemoryRow
  <2> QED BY <2>1, <2>7, <2>8, WithStack
<1> QED BY <1>3, <1>4

Moved(w) == \E m \in Memories : m.job = work[w].job /\ work' = [work EXCEPT ![w] = m]
Working == work \in [Worker -> Memories]

LEMMA Acting ==
  ASSUME Working, NEW w \in Worker, NEW at, At(w, at)
  PROVE  /\ work[w] \in Memories /\ work[w].job \in Job /\ work[w].stack # <<>>
         /\ work[w].stack \in Stacks
         /\ Top(w) \in Frames /\ Top(w).at = at /\ Top(w).part \in Partition
         /\ at \in Splitting => ~IsDay(Top(w).part)
         /\ at \in Gathering => IsDay(Top(w).part)
         /\ at = "item" => Top(w).code \in Code
         /\ Top(w).todo \subseteq Code /\ Top(w).bad \in BOOLEAN
         /\ Top(w).left \in Outcomes /\ Top(w).right \in Outcomes
<1>1. work[w] \in Memories BY DEF Working
<1>2. work[w].stack # <<>> /\ Top(w).at = at BY DEF At
<1>3. work[w].job \in Job /\ work[w].stack \in Stacks BY <1>1, <1>2 DEF Memories, MemoryRow
<1>4. Top(w) \in Frames BY <1>2, <1>3, StackParts DEF Top
<1> QED BY <1>1, <1>2, <1>3, <1>4 DEF Frames, FrameRow

LEMMA Returns ==
  ASSUME Working, NEW w \in Worker, NEW at, At(w, at), NEW out \in Outcomes, Return(w, out)
  PROVE  Moved(w)
<1>1. work[w] \in Memories /\ work[w].stack # <<>> BY Acting
<1>2. Resumed(work[w], out) \in Memories /\ Resumed(work[w], out).job = work[w].job
  BY <1>1, ResumedParts
<1> QED BY <1>2 DEF Return, Moved

(* The top frame is replaced by another of the same job.                   *)
LEMMA TopReplaced ==
  ASSUME Working, NEW w \in Worker, NEW at, At(w, at), NEW f \in Frames,
         work' = [work EXCEPT ![w].stack[1] = f]
  PROVE  Moved(w)
<1> DEFINE m == [work[w] EXCEPT !.stack[1] = f]
<1>1. work[w] \in Memories /\ work[w].stack # <<>> BY Acting
<1>2. m \in Memories BY <1>1, TopMoves
<1>3. m.job = work[w].job BY <1>1 DEF Memories, MemoryRow
<1>4. work' = [work EXCEPT ![w] = m] BY DEF Working
<1> HIDE DEF m
<1> QED BY <1>2, <1>3, <1>4 DEF Moved

LEMMA Goes ==
  ASSUME Working, NEW w \in Worker, NEW from, At(w, from), NEW at \in Ats, Goto(w, at),
         at \in Splitting => ~IsDay(Top(w).part), at \in Gathering => IsDay(Top(w).part),
         at # "item"
  PROVE  Moved(w)
<1> DEFINE f == [Top(w) EXCEPT !.at = at]
<1>1. Top(w) \in Frames BY Acting
<1>2. f \in Frames BY <1>1, FrameMoves
<1>3. work' = [work EXCEPT ![w].stack[1] = f] BY DEF Goto, Top, Working
<1> HIDE DEF f
<1> QED BY <1>2, <1>3, TopReplaced

LEMMA Unwinds ==
  ASSUME Working, NEW w \in Worker, work' = [work EXCEPT ![w] = Unwound(work[w])]
  PROVE  Moved(w)
BY UnwoundParts DEF Moved, Working

(* A claim leaves fuel or not.                                             *)
LEMMA Spent ==
  ASSUME NEW m \in Memories, NEW fuel \in BOOLEAN
  PROVE  Spend(m, fuel) \in Memories /\ Spend(m, fuel).job = m.job
BY DEF Spend, Memories, MemoryRow
-----------------------------------------------------------------------------
(* Transactions of one partition or one item.                              *)

Sound(d, e) == DbOK(e) /\ Caused(d, e) /\ JobsRefreshed(d, e)
(* What is complete stays so, and no job changes.                          *)
Keeps(d, e) ==
  /\ DbOK(e) /\ e.job = d.job
  /\ \A p \in Partition : IsComplete(d, p) => IsComplete(e, p)

LEMMA KeepsIsSound ==
  ASSUME NEW d, NEW e, Keeps(d, e)
  PROVE  Sound(d, e)
BY DEF Keeps, Sound, Caused, JobsRefreshed

LEMMA RefreshIsSound ==
  ASSUME NEW d, NEW e \in Database, DbOK(d), Refreshes(d, e), Trusted(e)
  PROVE  Sound(d, e)
BY RefreshKeeps DEF Refreshes, Sound

LEMMA RefreshAndKeep ==
  ASSUME NEW d, NEW e, NEW f, Refreshes(d, e), Keeps(e, f)
  PROVE  Sound(d, f)
<1>1. Caused(d, f) BY DEF Refreshes, Keeps, Caused
<1>2. JobsRefreshed(d, f) BY DEF Refreshes, Keeps, JobsRefreshed
<1> QED BY <1>1, <1>2 DEF Keeps, Sound

(* The row of a partition not complete is written, with what a page or     *)
(* its items brought.                                                      *)
LEMMA RowWritten ==
  ASSUME NEW d, NEW e \in Database, DbOK(d), NEW p \in Partition, ~IsComplete(d, p),
         \A q \in Partition : q # p => e.part[q] = d.part[q] /\ e.probed[q] = d.probed[q],
         e.ref = d.ref, e.job = d.job,
         d.docs \subseteq e.docs, e.catalog = CodesOf(e.docs), e.probed[p] \subseteq e.docs,
         ItemsKept(d, e),
         e.part[p].probe => IsDay(p),
         IsComplete(e, p) => e.part[p].basis \in
           {"short_page", "split_children", "saturated_catalog_convergence"},
         IsComplete(e, p) /\ e.part[p].probe => e.part[p].basis = "saturated_catalog_convergence",
         Holding(e, p)
  PROVE  Keeps(d, e)
<1>1. BasisOK(e)
  <2> SUFFICES ASSUME NEW q \in Partition
               PROVE  /\ e.part[q].probe => IsDay(q)
                      /\ IsComplete(e, q) => e.part[q].basis \in
                           {"short_page", "split_children", "saturated_catalog_convergence"}
                      /\ IsComplete(e, q) /\ e.part[q].probe
                           => e.part[q].basis = "saturated_catalog_convergence"
    BY DEF BasisOK
  <2>1. CASE q = p BY <2>1
  <2>2. CASE q # p BY <2>2 DEF DbOK, BasisOK, IsComplete
  <2> QED BY <2>1, <2>2
<1>2. \A q \in Partition : IsComplete(d, q) => IsComplete(e, q) BY DEF IsComplete
<1>3. Trusted(e) BY <1>2 DEF DbOK, Trusted
<1>4. Stored(e)
  <2>1. \A q \in Partition : e.probed[q] \subseteq e.docs
    <3> SUFFICES ASSUME NEW q \in Partition PROVE e.probed[q] \subseteq e.docs
      OBVIOUS
    <3>1. CASE q = p BY <3>1
    <3>2. CASE q # p
      <4>1. d.probed[q] \subseteq d.docs BY DEF DbOK, Stored
      <4> QED BY <3>2, <4>1
    <3> QED BY <3>1, <3>2
  <2>2. \A q \in Partition : \A c \in Code : ItemHolds(e, q, c)
    <3> SUFFICES ASSUME NEW q \in Partition, NEW c \in Code, e.item[q][c].status = "complete"
                 PROVE  {x \in DocsIn(q) : x.code = c} \subseteq e.docs
      BY DEF ItemHolds
    <3>1. {x \in DocsIn(q) : x.code = c} \subseteq d.docs
      BY DEF ItemsKept, DbOK, Stored, ItemHolds
    <3> QED BY <3>1
  <2>3. \A q \in Partition : Holding(e, q)
    <3> SUFFICES ASSUME NEW q \in Partition, q # p PROVE Holding(e, q)
      OBVIOUS
    <3>1. Holding(d, q) BY DEF DbOK, Stored
    <3>2. e.part[q] = d.part[q] /\ e.probed[q] = d.probed[q] OBVIOUS
    <3> QED BY <3>1, <3>2 DEF Holding, IsComplete
  <2> QED BY <2>1, <2>2, <2>3 DEF Stored
<1> QED BY <1>1, <1>2, <1>3, <1>4 DEF Keeps, DbOK

(* Items and universes change, and documents are added.                    *)
LEMMA ItemsWritten ==
  ASSUME NEW d, NEW e \in Database, DbOK(d),
         e.part = d.part, e.ref = d.ref, e.job = d.job, e.probed = d.probed,
         d.docs \subseteq e.docs, e.catalog = CodesOf(e.docs),
         \A p \in Partition : \A c \in Code : ItemHolds(e, p, c)
  PROVE  Keeps(d, e)
<1>1. BasisOK(e) BY DEF DbOK, BasisOK, IsComplete
<1>2. Trusted(e) BY DEF DbOK, Trusted, IsComplete
<1>3. Stored(e)
  <2>1. \A p \in Partition : e.probed[p] \subseteq e.docs BY DEF DbOK, Stored
  <2>2. \A p \in Partition : Holding(e, p) BY DEF DbOK, Stored, Holding, IsComplete
  <2> QED BY <2>1, <2>2 DEF Stored
<1> QED BY <1>1, <1>2, <1>3 DEF Keeps, DbOK, IsComplete

LEMMA ItemsKeptHold ==
  ASSUME NEW d, NEW e, DbOK(d), ItemsKept(d, e), d.docs \subseteq e.docs
  PROVE  \A p \in Partition : \A c \in Code : ItemHolds(e, p, c)
<1> SUFFICES ASSUME NEW p \in Partition, NEW c \in Code, e.item[p][c].status = "complete"
             PROVE  {x \in DocsIn(p) : x.code = c} \subseteq e.docs
  BY DEF ItemHolds
<1>1. {x \in DocsIn(p) : x.code = c} \subseteq d.docs
  BY DEF ItemsKept, DbOK, Stored, ItemHolds
<1> QED BY <1>1

LEMMA ExpandKeeps ==
  ASSUME NEW d, NEW e, DbOK(d), Expanded(d, e)
  PROVE  Keeps(d, e)
<1>1. d \in Database /\ e \in Database /\ ItemsKept(d, e) BY DEF DbOK, Expanded
<1>2. /\ e.docs = d.docs /\ e.catalog = d.catalog /\ e.part = d.part /\ e.ref = d.ref
      /\ e.job = d.job /\ e.probed = d.probed
  BY <1>1, ExpandedFields
<1>3. \A p \in Partition : \A c \in Code : ItemHolds(e, p, c) BY <1>1, <1>2, ItemsKeptHold
<1>4. e.catalog = CodesOf(e.docs) BY <1>2 DEF DbOK, Stored
<1> QED BY <1>1, <1>2, <1>3, <1>4, ItemsWritten

LEMMA CodesAreCodes ==
  ASSUME NEW docs \in SUBSET Doc
  PROVE  CodesOf(docs) \in SUBSET Code
<1>1. \A x \in docs : x.code \in Code BY BackfillAssumption
<1> QED BY <1>1 DEF CodesOf

LEMMA StoreParts ==
  ASSUME NEW d, DbOK(d), NEW docs \in SUBSET Doc
  PROVE  /\ Store(d, docs) \in Database
         /\ Store(d, docs).docs = d.docs \cup docs
         /\ Store(d, docs).catalog = CodesOf(Store(d, docs).docs)
         /\ Store(d, docs).part = d.part /\ Store(d, docs).ref = d.ref
         /\ Store(d, docs).job = d.job /\ Store(d, docs).item = d.item
         /\ Store(d, docs).bound = d.bound /\ Store(d, docs).members = d.members
         /\ Store(d, docs).probed = d.probed /\ Store(d, docs).stable = d.stable
<1> DEFINE e == Store(d, docs)
<1>1. d \in Database BY DEF DbOK
<1>2. /\ e.docs = d.docs \cup docs /\ e.catalog = d.catalog \cup CodesOf(docs)
      /\ e.part = d.part /\ e.ref = d.ref /\ e.job = d.job /\ e.item = d.item
      /\ e.bound = d.bound /\ e.members = d.members /\ e.probed = d.probed /\ e.stable = d.stable
  BY <1>1 DEF Store, Database
<1>3. e = [d EXCEPT !.docs = e.docs, !.catalog = e.catalog]
  BY <1>1 DEF Store, Database
<1> HIDE DEF e
<1>4. e.docs \in SUBSET Doc /\ e.catalog \in SUBSET Code
  BY <1>1, <1>2, CodesAreCodes DEF Database
<1>5. e \in Database BY <1>1, <1>3, <1>4 DEF Database
<1>6. e.catalog = CodesOf(e.docs) BY <1>2 DEF DbOK, Stored, CodesOf
<1> QED BY <1>2, <1>5, <1>6 DEF e

LEMMA PageParts ==
  ASSUME NEW docs, NEW limit \in Nat, NEW page \in Pages(docs, limit)
  PROVE  /\ page \subseteq docs
         /\ Short(page, limit) => page = docs
<1>1. CASE page = docs BY <1>1
<1>2. CASE page \in kSubset(limit, docs)
  <2>1. page \in SUBSET docs /\ Cardinality(page) = limit BY <1>2 DEF kSubset
  <2>2. ~Short(page, limit) BY <2>1 DEF Short
  <2> QED BY <2>1, <2>2
<1> QED BY <1>1, <1>2 DEF Pages

LEMMA LimitIsNumber ==
  ASSUME NEW j \in Job
  PROVE  Limit[j] \in Nat
BY BackfillAssumption

(* The row of a partition in a database where nothing else changes.        *)
LEMMA RowSet ==
  ASSUME NEW d \in Database, NEW p \in Partition, NEW r \in PartitionRow
  PROVE  /\ [d EXCEPT !.part[p] = r] \in Database
         /\ [d EXCEPT !.part[p] = r].part[p] = r
         /\ \A q \in Partition : q # p => [d EXCEPT !.part[p] = r].part[q] = d.part[q]
         /\ [d EXCEPT !.part[p] = r] = [d EXCEPT !.part = [d EXCEPT !.part[p] = r].part]
<1> DEFINE e == [d EXCEPT !.part[p] = r]
<1>1. e.part = [d.part EXCEPT ![p] = r] /\ e = [d EXCEPT !.part = e.part]
  BY DEF Database
<1> HIDE DEF e
<1>2. d.part \in [Partition -> PartitionRow] BY DEF Database
<1>3. e.part \in [Partition -> PartitionRow] BY <1>1, <1>2
<1>4. e \in Database BY <1>1, <1>3 DEF Database
<1> QED BY <1>1, <1>2, <1>4 DEF e

LEMMA RowSetKeeps ==
  ASSUME NEW d, DbOK(d), NEW p \in Partition, ~IsComplete(d, p), NEW r \in PartitionRow,
         r.status # "complete" \/ (r.basis = "split_children" /\ ~r.probe),
         r.probe => d.part[p].probe
  PROVE  Keeps(d, [d EXCEPT !.part[p] = r])
<1> DEFINE e == [d EXCEPT !.part[p] = r]
<1>1. d \in Database BY DEF DbOK
<1>2. /\ e \in Database /\ e.part[p] = r /\ e = [d EXCEPT !.part = e.part]
      /\ \A q \in Partition : q # p => e.part[q] = d.part[q]
  BY <1>1, RowSet
<1> HIDE DEF e
<1>3. /\ e.docs = d.docs /\ e.catalog = d.catalog /\ e.ref = d.ref /\ e.job = d.job
      /\ e.item = d.item /\ e.probed = d.probed
  BY <1>1, <1>2 DEF Database
<1>4. e.catalog = CodesOf(e.docs) /\ e.probed[p] \subseteq e.docs
  BY <1>3 DEF DbOK, Stored
<1>5. ItemsKept(d, e) BY <1>3 DEF ItemsKept
<1>6. e.part[p].probe => IsDay(p) BY <1>2 DEF DbOK, BasisOK
<1>7. IsComplete(e, p) => e.part[p].basis = "split_children" /\ ~e.part[p].probe
  BY <1>2 DEF IsComplete
<1>8. Holding(e, p) BY <1>7 DEF Holding
<1>9. Keeps(d, e) BY <1>2, <1>3, <1>4, <1>5, <1>6, <1>7, <1>8, RowWritten
<1> QED BY <1>9 DEF e

LEMMA FailKeeps ==
  ASSUME NEW d, DbOK(d), NEW p \in Partition, ~IsComplete(d, p), NEW status \in Failed
  PROVE  Keeps(d, Fail(d, p, status))
<1> DEFINE r == [d.part[p] EXCEPT !.status = status]
<1>1. d \in Database /\ d.part[p] \in PartitionRow BY DEF DbOK, Database
<1>2. r \in PartitionRow /\ r.status = status /\ r.probe = d.part[p].probe
  BY <1>1 DEF PartitionRow, Statuses
<1>3. status # "complete" BY DEF Failed
<1>4. Fail(d, p, status) = [d EXCEPT !.part[p] = r] BY <1>1 DEF Fail, Database
<1> HIDE DEF r
<1> QED BY <1>2, <1>3, <1>4, RowSetKeeps

LEMMA ClaimKeeps ==
  ASSUME NEW d, DbOK(d), NEW p \in Partition, ~IsComplete(d, p), NEW w \in Worker,
         NEW resume \in BOOLEAN
  PROVE  Keeps(d, Claim(d, p, w, resume)) /\ ~IsComplete(Claim(d, p, w, resume), p)
<1> DEFINE reset == ~resume /\ Cardinality({j \in Job : d.ref[j][p] # "none"}) <= 1
           r == [d.part[p] EXCEPT !.status = "running", !.holder = w, !.probe = @ /\ ~reset]
<1>1. d \in Database /\ d.part[p] \in PartitionRow BY DEF DbOK, Database
<1>2. Claim(d, p, w, resume) = [d EXCEPT !.part[p] = r] BY DEF Claim
<1> HIDE DEF reset
<1>3. /\ r \in PartitionRow /\ r.status = "running"
      /\ r.probe = (d.part[p].probe /\ ~reset)
  <2>1. (d.part[p].probe /\ ~reset) \in BOOLEAN OBVIOUS
  <2> DEFINE probe == d.part[p].probe /\ ~reset
  <2>2. r = [d.part[p] EXCEPT !.status = "running", !.holder = w, !.probe = probe] OBVIOUS
  <2> HIDE DEF r, probe
  <2>3. probe \in BOOLEAN BY <2>1 DEF probe
  <2>4. r \in PartitionRow /\ r.status = "running" /\ r.probe = probe
    BY <1>1, <2>2, <2>3 DEF PartitionRow, Statuses
  <2> QED BY <2>4 DEF probe
<1> HIDE DEF r
<1>4. Keeps(d, [d EXCEPT !.part[p] = r]) BY <1>1, <1>3, RowSetKeeps
<1>5. [d EXCEPT !.part[p] = r].part[p] = r BY <1>1 DEF Database
<1> QED BY <1>2, <1>3, <1>4, <1>5 DEF IsComplete
-----------------------------------------------------------------------------
(* The actions: each leaves a sound database and a memory of the same job. *)

LEMMA Still ==
  ASSUME NEW d, DbOK(d)
  PROVE  Keeps(d, d) /\ Sound(d, d)
BY DEF Keeps, Sound, Caused, JobsRefreshed

LEMMA MovedTop ==
  ASSUME Working, NEW w \in Worker, NEW from, At(w, from), NEW at \in Ats,
         at \in Splitting => ~IsDay(Top(w).part), at \in Gathering => IsDay(Top(w).part),
         at # "item"
  PROVE  /\ [work[w] EXCEPT !.stack[1].at = at] \in Memories
         /\ [work[w] EXCEPT !.stack[1].at = at].job = work[w].job
<1> DEFINE f == [Top(w) EXCEPT !.at = at]
<1>1. Top(w) \in Frames /\ work[w] \in Memories /\ work[w].stack # <<>> BY Acting
<1>2. f \in Frames BY <1>1, FrameMoves
<1>3. [work[w] EXCEPT !.stack[1].at = at] = [work[w] EXCEPT !.stack[1] = f]
  BY <1>1 DEF Top
<1> HIDE DEF f
<1>4. [work[w] EXCEPT !.stack[1] = f] \in Memories BY <1>1, <1>2, TopMoves
<1>5. [work[w] EXCEPT !.stack[1] = f].job = work[w].job BY <1>1 DEF Memories, MemoryRow
<1> QED BY <1>3, <1>4, <1>5

LEMMA Takes ==
  ASSUME DbOK(db), Working, NEW w \in Worker, NEW from, At(w, from), NEW at \in Ats,
         at \in Splitting => ~IsDay(Top(w).part), at \in Gathering => IsDay(Top(w).part),
         at # "item", NEW m \in Memories, m.job = work[w].job, NEW fuel \in BOOLEAN,
         TakePartition(w, at, fuel, m)
  PROVE  Sound(db, db') /\ Moved(w)
<1> DEFINE p == Top(w).part
           j == work[w].job
           d == Prepare(db, p, j)
           resume == at # "fetch" \/ work[w].resume
<1>1. p \in Partition /\ j \in Job /\ work[w] \in Memories BY Acting
<1>2. d \in Database /\ Trusted(d) /\ Refreshes(db, d) BY <1>1, PrepareRefreshes DEF DbOK
<1>3. resume \in BOOLEAN BY <1>1 DEF Memories, MemoryRow
<1> DEFINE n == [work[w] EXCEPT !.stack[1].at = at]
<1>4. n \in Memories /\ n.job = work[w].job BY MovedTop
<1>5. \/ Return(w, "none") /\ (db' = db \/ db' = d)
      \/ db' = d /\ work' = [work EXCEPT ![w] = m]
      \/ /\ d.part[p].status # "complete" /\ db' = Claim(d, p, w, resume)
         /\ work' = [work EXCEPT ![w] = Spend(n, fuel)]
  BY DEF TakePartition
<1> HIDE DEF p, j, d, n, resume
<1>6. DbOK(d) BY <1>2, RefreshKeeps
<1>7. CASE Return(w, "none") /\ (db' = db \/ db' = d)
  <2>1. Moved(w) BY <1>7, Returns DEF Outcomes
  <2>2. Sound(db, db') BY <1>2, <1>7, Still, RefreshIsSound
  <2> QED BY <2>1, <2>2
<1>8. CASE db' = d /\ work' = [work EXCEPT ![w] = m]
  <2>1. Moved(w) BY <1>8 DEF Moved
  <2>2. Sound(db, db') BY <1>2, <1>8, RefreshIsSound
  <2> QED BY <2>1, <2>2
<1>9. CASE /\ d.part[p].status # "complete" /\ db' = Claim(d, p, w, resume)
           /\ work' = [work EXCEPT ![w] = Spend(n, fuel)]
  <2>1. Spend(n, fuel) \in Memories /\ Spend(n, fuel).job = work[w].job BY <1>4, Spent
  <2>2. Moved(w) BY <1>9, <2>1 DEF Moved
  <2>3. Keeps(d, Claim(d, p, w, resume)) BY <1>1, <1>3, <1>6, <1>9, ClaimKeeps DEF IsComplete
  <2>4. Sound(db, db') BY <1>2, <1>9, <2>3, RefreshAndKeep
  <2> QED BY <2>2, <2>4
<1> QED BY <1>5, <1>7, <1>8, <1>9

LEMMA EnterKeeps ==
  ASSUME DbOK(db), Working, NEW w \in Worker, Enter(w)
  PROVE  Sound(db, db') /\ Moved(w)
<1> DEFINE p == Top(w).part
           d == Reference(db, p, work[w].job)
<1>1. At(w, "enter") BY DEF Enter
<1>2. p \in Partition /\ work[w].job \in Job /\ work[w] \in Memories /\ work[w].stack # <<>>
  BY <1>1, Acting
<1>3. d \in Database /\ Trusted(d) /\ Refreshes(db, d)
  BY <1>2, ReferenceRefreshes DEF DbOK
<1>4. Sound(db, db')
  <2>1. db' = db \/ db' = d BY DEF Enter
  <2> HIDE DEF d
  <2> QED BY <1>3, <2>1, Still, RefreshIsSound
<1>5. \/ Goto(w, "claim") \/ Return(w, "false") \/ Return(w, "true")
      \/ IsDay(p) /\ Goto(w, "bind")
      \/ ~IsDay(p) /\ work' = [work EXCEPT ![w] = Descend(work[w])]
  BY DEF Enter
<1>6. CASE Goto(w, "claim") BY <1>1, <1>4, <1>6, Goes DEF Ats, Splitting, Halves, Gathering
<1>7. CASE Return(w, "false") \/ Return(w, "true") BY <1>1, <1>4, <1>7, Returns DEF Outcomes
<1>8. CASE IsDay(p) /\ Goto(w, "bind")
  BY <1>1, <1>4, <1>8, Goes DEF Ats, Splitting, Halves, Gathering
<1>9. CASE ~IsDay(p) /\ work' = [work EXCEPT ![w] = Descend(work[w])]
  <2>1. Descend(work[w]) \in Memories /\ Descend(work[w]).job = work[w].job
    BY <1>2, <1>9, DescendParts DEF Top
  <2> QED BY <1>4, <1>9, <2>1 DEF Moved
<1> QED BY <1>5, <1>6, <1>7, <1>8, <1>9

LEMMA ClaimProbeKeeps ==
  ASSUME DbOK(db), Working, NEW w \in Worker, ClaimProbe(w)
  PROVE  Sound(db, db') /\ Moved(w)
<1>1. At(w, "claim") BY DEF ClaimProbe
<1>2. CASE Return(w, "none") /\ UNCHANGED db BY <1>1, <1>2, Returns, Still DEF Outcomes
<1>3. CASE \E fuel \in BOOLEAN : TakePartition(w, "fetch", fuel, Resumed(work[w], "true"))
  <2>1. PICK fuel \in BOOLEAN : TakePartition(w, "fetch", fuel, Resumed(work[w], "true"))
    BY <1>3
  <2>2. /\ Resumed(work[w], "true") \in Memories
        /\ Resumed(work[w], "true").job = work[w].job
    BY <1>1, Acting, ResumedParts DEF Outcomes
  <2>3. "fetch" \in Ats /\ "fetch" \notin Splitting /\ "fetch" \notin Gathering
    BY DEF Ats, Splitting, Halves, Gathering
  <2> QED BY <1>1, <2>1, <2>2, <2>3, Takes
<1> QED BY <1>2, <1>3 DEF ClaimProbe

LEMMA HeldIsOpen ==
  ASSUME NEW p \in Partition, NEW w, Holds(db.part[p], w)
  PROVE  ~IsComplete(db, p)
BY SMTT(30) DEF Holds, IsComplete

LEMMA CommitLeafKeeps ==
  ASSUME DbOK(db), Working, NEW w \in Worker, CommitLeaf(w)
  PROVE  Sound(db, db') /\ Moved(w)
<1> DEFINE p == Top(w).part
<1>1. At(w, "fetch") BY DEF CommitLeaf
<1>2. p \in Partition /\ work[w].job \in Job BY <1>1, Acting
<1>3. CASE Return(w, "none") /\ UNCHANGED db BY <1>1, <1>3, Returns, Still DEF Outcomes
<1>4. ASSUME NEW page \in Pages(DocsIn(p), Limit[work[w].job]),
             Short(page, Limit[work[w].job]), Holds(db.part[p], w),
             db' = [Store(db, page) EXCEPT !.part[p] =
                     [@ EXCEPT !.status = "complete", !.basis = "short_page",
                               !.probe = FALSE, !.catalog = {}]],
             Return(w, "true")
      PROVE  Sound(db, db') /\ Moved(w)
  <2> DEFINE s == Store(db, page)
             r == [s.part[p] EXCEPT !.status = "complete", !.basis = "short_page",
                                    !.probe = FALSE, !.catalog = {}]
             e == [s EXCEPT !.part[p] = r]
  <2>1. Moved(w) BY <1>1, <1>4, Returns DEF Outcomes
  <2>2. page = DocsIn(p) BY <1>2, <1>4, PageParts, LimitIsNumber
  <2>3. page \in SUBSET Doc BY <2>2 DEF DocsIn
  <2>4. /\ s \in Database /\ s.docs = db.docs \cup page /\ s.catalog = CodesOf(s.docs)
        /\ s.part = db.part /\ s.ref = db.ref /\ s.job = db.job /\ s.item = db.item
        /\ s.probed = db.probed
    BY <2>3, StoreParts
  <2>5. db' = e BY <1>4
  <2> HIDE DEF p, s
  <2>6. r \in PartitionRow /\ r.status = "complete" /\ r.basis = "short_page" /\ ~r.probe
    <3>1. s.part[p] \in PartitionRow BY <1>2, <2>4 DEF Database
    <3> QED BY <3>1 DEF PartitionRow, Statuses, Bases
  <2> HIDE DEF r
  <2>7. /\ e \in Database /\ e.part[p] = r /\ e = [s EXCEPT !.part = e.part]
        /\ \A q \in Partition : q # p => e.part[q] = s.part[q]
    BY <1>2, <2>4, <2>6, RowSet
  <2> HIDE DEF e
  <2>8. /\ e.docs = s.docs /\ e.catalog = s.catalog /\ e.ref = s.ref /\ e.job = s.job
        /\ e.item = s.item /\ e.probed = s.probed
    BY <2>4, <2>7 DEF Database
  <2>9. ~IsComplete(db, p) BY <1>2, <1>4, HeldIsOpen DEF p
  <2>10. e.probed[p] \subseteq e.docs
    <3>1. db.probed[p] \subseteq db.docs BY <1>2 DEF DbOK, Stored
    <3> QED BY <2>4, <2>8, <3>1
  <2>11. ItemsKept(db, e) BY <2>4, <2>8 DEF ItemsKept
  <2>12. Holding(e, p) BY <2>2, <2>4, <2>6, <2>7, <2>8 DEF Holding, p
  <2>13. /\ db.docs \subseteq e.docs /\ e.catalog = CodesOf(e.docs)
         /\ e.ref = db.ref /\ e.job = db.job
         /\ \A q \in Partition : q # p => e.part[q] = db.part[q] /\ e.probed[q] = db.probed[q]
    BY <2>4, <2>7, <2>8
  <2>14. Keeps(db, e)
    BY <1>2, <2>6, <2>7, <2>9, <2>10, <2>11, <2>12, <2>13, RowWritten
  <2> QED BY <2>1, <2>5, <2>14, KeepsIsSound
<1> QED BY <1>3, <1>4 DEF CommitLeaf

(* What a probe or a verification round brought is stored with the page    *)
(* itself, and the day stays open.                                         *)
LEMMA ProbeWritten ==
  ASSUME NEW d, DbOK(d), NEW p \in Partition, IsDay(p), ~IsComplete(d, p),
         NEW page \in SUBSET DocsIn(p), NEW x, Expanded(Store(d, page), x),
         NEW stable \in [Partition -> 0..Rounds], NEW e,
         e = [x EXCEPT !.probed = [x.probed EXCEPT ![p] = @ \cup page],
                       !.stable = stable,
                       !.part = [x.part EXCEPT ![p] =
                                  [@ EXCEPT !.status = "failed_overflow", !.probe = TRUE]]]
  PROVE  Keeps(d, e)
<1> DEFINE s == Store(d, page)
           r == [x.part[p] EXCEPT !.status = "failed_overflow", !.probe = TRUE]
<1>1. page \in SUBSET Doc BY DEF DocsIn
<1>2. /\ s \in Database /\ s.docs = d.docs \cup page /\ s.catalog = CodesOf(s.docs)
      /\ s.part = d.part /\ s.ref = d.ref /\ s.job = d.job /\ s.item = d.item
      /\ s.probed = d.probed
  BY <1>1, StoreParts
<1> HIDE DEF s
<1>3. x \in Database /\ ItemsKept(s, x) BY DEF Expanded, s
<1>4. /\ x.docs = s.docs /\ x.catalog = s.catalog /\ x.part = s.part /\ x.ref = s.ref
      /\ x.job = s.job /\ x.probed = s.probed
  BY <1>2, ExpandedFields DEF s
<1>5. r \in PartitionRow /\ r.status = "failed_overflow"
  <2>1. x.part[p] \in PartitionRow BY <1>3 DEF Database
  <2> QED BY <2>1 DEF PartitionRow, Statuses, Failed
<1> HIDE DEF r
<1>6. /\ x.part \in [Partition -> PartitionRow] /\ x.probed \in [Partition -> SUBSET Doc]
  BY <1>3 DEF Database
<1> DEFINE rows == [x.part EXCEPT ![p] = r]
           seen == [x.probed EXCEPT ![p] = x.probed[p] \cup page]
<1>7. /\ rows \in [Partition -> PartitionRow] /\ seen \in [Partition -> SUBSET Doc]
      /\ rows[p] = r /\ seen[p] = x.probed[p] \cup page
      /\ \A q \in Partition : q # p => rows[q] = x.part[q] /\ seen[q] = x.probed[q]
  BY <1>1, <1>5, <1>6
<1>8. e = [x EXCEPT !.probed = seen, !.stable = stable, !.part = rows]
  BY <1>6 DEF r
<1> HIDE DEF rows, seen
<1>9. e \in Database BY ZenonT(60), <1>3, <1>7, <1>8 DEF Database
<1>10. /\ e.docs = x.docs /\ e.catalog = x.catalog /\ e.ref = x.ref /\ e.job = x.job
       /\ e.item = x.item /\ e.probed = seen /\ e.part = rows
  BY <1>3, <1>8 DEF Database
<1>11. e.probed[p] \subseteq e.docs
  <2>1. d.probed[p] \subseteq d.docs BY DEF DbOK, Stored
  <2> QED BY <1>2, <1>4, <1>7, <1>10, <2>1
<1>12. ItemsKept(d, e) BY <1>2, <1>3, <1>10 DEF ItemsKept
<1>13. ~IsComplete(e, p) BY <1>5, <1>7, <1>10 DEF IsComplete
<1>14. Holding(e, p) BY <1>13 DEF Holding
<1>15. /\ d.docs \subseteq e.docs /\ e.catalog = CodesOf(e.docs)
       /\ e.ref = d.ref /\ e.job = d.job
       /\ \A q \in Partition : q # p => e.part[q] = d.part[q] /\ e.probed[q] = d.probed[q]
  <2>1. e.docs = s.docs /\ e.catalog = s.catalog BY <1>4, <1>10
  <2>2. d.docs \subseteq e.docs BY <1>2, <2>1
  <2>3. e.catalog = CodesOf(e.docs) BY <1>2, <2>1
  <2>4. e.ref = d.ref /\ e.job = d.job BY <1>2, <1>4, <1>10
  <2>5. x.part = d.part /\ x.probed = d.probed BY <1>2, <1>4
  <2>6. \A q \in Partition : q # p => e.part[q] = d.part[q] /\ e.probed[q] = d.probed[q]
    BY <1>7, <1>10, <2>5
  <2> QED BY <2>2, <2>3, <2>4, <2>6
<1> QED BY <1>9, <1>11, <1>12, <1>13, <1>14, <1>15, RowWritten

LEMMA CommitProbeKeeps ==
  ASSUME DbOK(db), Working, NEW w \in Worker, CommitProbe(w)
  PROVE  Sound(db, db') /\ Moved(w)
<1> DEFINE p == Top(w).part
<1>1. At(w, "fetch") /\ IsDay(p) BY DEF CommitProbe
<1>2. p \in Partition /\ work[w].job \in Job BY <1>1, Acting
<1>3. CASE Return(w, "none") /\ UNCHANGED db BY <1>1, <1>3, Returns, Still DEF Outcomes
<1>4. ASSUME NEW page \in Pages(DocsIn(p), Limit[work[w].job]), Holds(db.part[p], w),
             db' = [ExpandPartition(Store(db, page), p) EXCEPT
                     !.probed[p] = @ \cup page,
                     !.part[p] = [@ EXCEPT !.status = "failed_overflow", !.probe = TRUE]],
             Goto(w, "bind")
      PROVE  Sound(db, db') /\ Moved(w)
  <2> DEFINE s == Store(db, page)
             x == ExpandPartition(s, p)
  <2>1. Moved(w) BY <1>1, <1>4, Goes DEF Ats, Splitting, Halves, Gathering
  <2>2. page \in SUBSET DocsIn(p) BY <1>2, <1>4, PageParts, LimitIsNumber
  <2>3. page \in SUBSET Doc BY <2>2 DEF DocsIn
  <2>4. s \in Database BY <2>3, StoreParts
  <2> HIDE DEF p, s
  <2>5. Expanded(s, x) BY <1>2, <2>4, ExpandParts
  <2>6. db' = [x EXCEPT !.probed[p] = @ \cup page,
                        !.part[p] = [@ EXCEPT !.status = "failed_overflow", !.probe = TRUE]]
    BY <1>4 DEF s, p
  <2> HIDE DEF x
  <2>7. x \in Database BY <2>5 DEF Expanded
  <2>8. /\ db' = [x EXCEPT !.probed = [x.probed EXCEPT ![p] = @ \cup page],
                          !.stable = x.stable,
                          !.part = [x.part EXCEPT ![p] =
                                     [@ EXCEPT !.status = "failed_overflow", !.probe = TRUE]]]
        /\ x.stable \in [Partition -> 0..Rounds]
    BY <2>6, <2>7 DEF Database
  <2>9. ~IsComplete(db, p) BY <1>2, <1>4, HeldIsOpen DEF p
  <2>10. IsDay(p) BY <1>1 DEF p
  <2>11. Keeps(db, db')
    BY <1>2, <2>2, <2>5, <2>8, <2>9, <2>10, ProbeWritten DEF s
  <2> QED BY <2>1, <2>11, KeepsIsSound
<1> QED BY <1>3, <1>4 DEF CommitProbe

LEMMA DiscardPageKeeps ==
  ASSUME DbOK(db), Working, NEW w \in Worker, DiscardPage(w)
  PROVE  Sound(db, db') /\ Moved(w)
<1> DEFINE p == Top(w).part
<1>1. At(w, "fetch") /\ ~IsDay(p) BY DEF DiscardPage
<1>2. p \in Partition /\ work[w] \in Memories /\ work[w].stack # <<>> BY <1>1, Acting
<1>3. CASE Return(w, "none") /\ UNCHANGED db BY <1>1, <1>3, Returns, Still DEF Outcomes
<1>4. CASE /\ Holds(db.part[p], w) /\ db' = Fail(db, p, "failed_overflow")
           /\ work' = [work EXCEPT ![w] = Descend(work[w])]
  <2>1. Descend(work[w]) \in Memories /\ Descend(work[w]).job = work[w].job
    BY <1>1, <1>2, DescendParts DEF Top
  <2>2. Moved(w) BY <1>4, <2>1 DEF Moved
  <2>3. Keeps(db, db') BY <1>2, <1>4, HeldIsOpen, FailKeeps DEF Failed
  <2> QED BY <2>2, <2>3, KeepsIsSound
<1> QED BY <1>3, <1>4 DEF DiscardPage

LEMMA FetchFailsKeeps ==
  ASSUME DbOK(db), Working, NEW w \in Worker, FetchFails(w)
  PROVE  Sound(db, db') /\ Moved(w)
<1> DEFINE p == Top(w).part
<1>1. p \in Partition BY Acting DEF FetchFails
<1>2. Moved(w)
  <2>1. CASE work' = [work EXCEPT ![w] = Unwound(work[w])] BY <2>1, Unwinds
  <2>2. CASE Return(w, "false") BY <2>2, Returns DEF Outcomes, FetchFails
  <2> QED BY <2>1, <2>2 DEF FetchFails
<1>3. CASE Holds(db.part[p], w)
  <2>1. db' = Fail(db, p, "failed_retryable") BY <1>3 DEF FetchFails
  <2>2. Keeps(db, db') BY <1>1, <1>3, <2>1, HeldIsOpen, FailKeeps DEF Failed
  <2> QED BY <1>2, <2>2, KeepsIsSound
<1>4. CASE ~Holds(db.part[p], w) BY <1>2, <1>4, Still DEF FetchFails
<1> QED BY <1>3, <1>4

LEMMA JoinKeeps ==
  ASSUME DbOK(db), Working, NEW w \in Worker, Join(w)
  PROVE  Sound(db, db') /\ Moved(w)
<1>1. At(w, "join") BY DEF Join
<1>2. CASE TakePartition(w, "joining", work[w].fuel, Resumed(work[w], "true"))
  <2>1. /\ Resumed(work[w], "true") \in Memories
        /\ Resumed(work[w], "true").job = work[w].job
    BY <1>1, Acting, ResumedParts DEF Outcomes
  <2>2. "join" \in Splitting /\ "joining" \in Ats /\ "joining" \notin Gathering
    BY DEF Ats, Splitting, Halves, Gathering
  <2>3. ~IsDay(Top(w).part) BY <1>1, <2>2, Acting
  <2>4. work[w].fuel \in BOOLEAN BY <1>1, Acting DEF Memories, MemoryRow
  <2> QED BY <1>1, <1>2, <2>1, <2>2, <2>3, <2>4, Takes
<1>3. CASE /\ Return(w, IF "none" \in {Top(w).left, Top(w).right} THEN "none" ELSE "false")
           /\ UNCHANGED db
  BY <1>1, <1>3, Returns, Still DEF Outcomes
<1> QED BY <1>2, <1>3 DEF Join

LEMMA FinishSplitKeeps ==
  ASSUME DbOK(db), Working, NEW w \in Worker, FinishSplit(w)
  PROVE  Sound(db, db') /\ Moved(w)
<1> DEFINE p == Top(w).part
           r == [db.part[p] EXCEPT !.status = "complete", !.basis = "split_children"]
<1>1. At(w, "joining") BY DEF FinishSplit
<1>2. p \in Partition /\ ~IsDay(p)
  <2>1. "joining" \in Splitting BY DEF Splitting
  <2> QED BY <1>1, <2>1, Acting
<1>3. CASE Return(w, "none") /\ UNCHANGED db BY <1>1, <1>3, Returns, Still DEF Outcomes
<1>4. CASE /\ Holds(db.part[p], w) /\ Return(w, "true")
           /\ db' = [db EXCEPT !.part[p] =
                      [@ EXCEPT !.status = "complete", !.basis = "split_children"]]
  <2>1. Moved(w) BY <1>1, <1>4, Returns DEF Outcomes
  <2>2. db' = [db EXCEPT !.part[p] = r] BY <1>4
  <2>3. ~db.part[p].probe BY <1>2 DEF DbOK, BasisOK
  <2>4. /\ r \in PartitionRow /\ r.basis = "split_children" /\ r.probe = db.part[p].probe
    <3>1. db.part[p] \in PartitionRow BY <1>2 DEF DbOK, Database
    <3> QED BY <3>1 DEF PartitionRow, Statuses, Bases
  <2>5. ~IsComplete(db, p) BY <1>2, <1>4, HeldIsOpen
  <2> HIDE DEF p, r
  <2>6. Keeps(db, db') BY <1>2, <2>2, <2>3, <2>4, <2>5, RowSetKeeps
  <2> QED BY <2>1, <2>6, KeepsIsSound
<1> QED BY <1>3, <1>4 DEF FinishSplit

LEMMA KeepsFurther ==
  ASSUME NEW d, NEW e, NEW f, Keeps(d, e), Keeps(e, f)
  PROVE  Keeps(d, f)
BY DEF Keeps

(* The row of an item in a database where nothing else changes.            *)
WithItem(d, p, c, r) == [d EXCEPT !.item[p][c] = r]
OneItem(d, e, p, c, r) ==
  /\ e \in Database
  /\ e.docs = d.docs /\ e.catalog = d.catalog /\ e.part = d.part /\ e.ref = d.ref
  /\ e.job = d.job /\ e.probed = d.probed
  /\ e.item[p][c] = r
  /\ \A q \in Partition : \A b \in Code :
       q # p \/ b # c => e.item[q][b] = d.item[q][b]

LEMMA ItemSet ==
  ASSUME NEW d \in Database, NEW p \in Partition, NEW c \in Code, NEW r \in ItemRow
  PROVE  OneItem(d, WithItem(d, p, c, r), p, c, r)
<1> DEFINE e == WithItem(d, p, c, r)
<1>0. e = [d EXCEPT !.item[p][c] = r] BY DEF WithItem
<1> HIDE DEF e
<1>1. /\ e.item = [d.item EXCEPT ![p][c] = r] /\ e = [d EXCEPT !.item = e.item]
      /\ d.item \in [Partition -> [Code -> ItemRow]]
  BY <1>0 DEF Database
<1>2. d.item[p] \in [Code -> ItemRow] BY <1>1
<1> DEFINE row == [d.item[p] EXCEPT ![c] = r]
<1>3. /\ row \in [Code -> ItemRow] /\ row[c] = r
      /\ \A b \in Code : b # c => row[b] = d.item[p][b]
  BY <1>2
<1>4. e.item = [d.item EXCEPT ![p] = row] BY <1>1
<1> HIDE DEF row
<1>5. /\ e.item \in [Partition -> [Code -> ItemRow]] /\ e.item[p] = row
      /\ \A q \in Partition : q # p => e.item[q] = d.item[q]
  BY <1>1, <1>3, <1>4
<1>6. e \in Database BY <1>1, <1>5 DEF Database
<1>7. /\ e.docs = d.docs /\ e.catalog = d.catalog /\ e.part = d.part /\ e.ref = d.ref
      /\ e.job = d.job /\ e.probed = d.probed
  BY <1>1 DEF Database
<1>8. ASSUME NEW q \in Partition, NEW b \in Code, q # p \/ b # c
      PROVE  e.item[q][b] = d.item[q][b]
  <2>1. CASE q # p BY <1>5, <2>1
  <2>2. CASE q = p /\ b # c BY <1>3, <1>5, <2>2
  <2> QED BY <1>8, <2>1, <2>2
<1> QED BY <1>3, <1>5, <1>6, <1>7, <1>8 DEF OneItem, e

(* The row of an item that does not become complete.                       *)
LEMMA ItemSetKeeps ==
  ASSUME NEW d, DbOK(d), NEW p \in Partition, NEW c \in Code, NEW r \in ItemRow,
         r.status # "complete"
  PROVE  Keeps(d, WithItem(d, p, c, r))
<1> DEFINE e == WithItem(d, p, c, r)
<1>1. d \in Database BY DEF DbOK
<1>2. OneItem(d, e, p, c, r) BY <1>1, ItemSet
<1> HIDE DEF e
<1>3. /\ e \in Database
      /\ e.docs = d.docs /\ e.catalog = d.catalog /\ e.part = d.part /\ e.ref = d.ref
      /\ e.job = d.job /\ e.probed = d.probed
      /\ e.item[p][c] = r
      /\ \A q \in Partition : \A b \in Code : q # p \/ b # c => e.item[q][b] = d.item[q][b]
  BY <1>2 DEF OneItem
<1>4. ItemsKept(d, e)
  <2> SUFFICES ASSUME NEW q \in Partition, NEW b \in Code, e.item[q][b].status = "complete"
               PROVE  d.item[q][b].status = "complete"
    BY DEF ItemsKept
  <2>1. q # p \/ b # c BY <1>3
  <2> QED BY <1>3, <2>1
<1>5. \A q \in Partition : \A b \in Code : ItemHolds(e, q, b) BY <1>3, <1>4, ItemsKeptHold
<1>6. e.catalog = CodesOf(e.docs) BY <1>3 DEF DbOK, Stored
<1>7. Keeps(d, e) BY <1>3, <1>5, <1>6, ItemsWritten
<1> QED BY <1>7 DEF e

LEMMA BindKeeps ==
  ASSUME DbOK(db), Working, NEW w \in Worker, Bind(w)
  PROVE  Sound(db, db') /\ Moved(w)
<1> DEFINE p == Top(w).part
           j == work[w].job
           frozen == IF db.members[j] = {}
                     THEN [db EXCEPT !.members[j] = Listed \cup db.catalog] ELSE ExpandJob(db, j)
<1>1. At(w, "bind") BY DEF Bind
<1>2. p \in Partition /\ j \in Job /\ IsDay(p)
  <2>1. "bind" \in Gathering BY DEF Gathering
  <2> QED BY <1>1, <2>1, Acting
<1>3. CASE (Return(w, "false") \/ Return(w, "none")) /\ UNCHANGED db
  BY <1>1, <1>3, Returns, Still DEF Outcomes
<1>4. ASSUME Goto(w, "scan") PROVE Moved(w)
  BY <1>1, <1>2, <1>4, Goes DEF Ats, Splitting, Halves, Gathering
<1>5. CASE Goto(w, "scan") /\ UNCHANGED db BY <1>4, <1>5, Still
<1>6. CASE /\ Goto(w, "scan")
           /\ db' = [frozen EXCEPT
                !.bound[p] = j,
                !.item[p] = [c \in Code |-> IF c \in frozen.members[j]
                               THEN [NoItem EXCEPT !.status = "pending"] ELSE NoItem]]
  <2>1. db \in Database BY DEF DbOK
  <2> DEFINE row == [c \in Code |-> IF c \in frozen.members[j]
                       THEN [NoItem EXCEPT !.status = "pending"] ELSE NoItem]
             e == [frozen EXCEPT !.bound[p] = j, !.item[p] = row]
  <2>2. db' = e BY <1>6
  <2>3. row \in [Code -> ItemRow] /\ \A c \in Code : row[c].status # "complete"
    BY DEF NoItem, ItemRow, Statuses
  <2>4. Expanded(db, frozen)
    <3>1. CASE db.members[j] = {}
      <4> DEFINE f == [db EXCEPT !.members[j] = Listed \cup db.catalog]
      <4>1. Listed \cup db.catalog \in SUBSET Code
        BY <2>1, BackfillAssumption DEF Database
      <4>2. f = [db EXCEPT !.members = f.members, !.item = f.item] /\ f.item = db.item
            /\ f.members \in [Job -> SUBSET Code]
        BY <1>2, <2>1, <4>1 DEF Database
      <4> HIDE DEF f
      <4>3. f \in Database BY <2>1, <4>2 DEF Database
      <4>4. ItemsKept(db, f) BY <4>2 DEF ItemsKept
      <4>5. Expanded(db, f) BY <4>2, <4>3, <4>4 DEF Expanded
      <4>6. frozen = f BY <3>1 DEF f
      <4> QED BY <4>5, <4>6
    <3>2. CASE db.members[j] # {}
      <4>1. frozen = ExpandJob(db, j) BY <3>2
      <4>2. Expanded(db, ExpandJob(db, j)) BY <1>2, <2>1, ExpandParts
      <4> QED BY <4>1, <4>2
    <3> QED BY <3>1, <3>2
  <2> HIDE DEF frozen, p, j, row
  <2>5. /\ frozen \in Database /\ ItemsKept(db, frozen)
        /\ frozen.docs = db.docs /\ frozen.catalog = db.catalog /\ frozen.part = db.part
        /\ frozen.ref = db.ref /\ frozen.job = db.job /\ frozen.probed = db.probed
    BY <2>1, <2>4, ExpandedFields DEF Expanded
  <2>6. /\ e.docs = frozen.docs /\ e.catalog = frozen.catalog /\ e.part = frozen.part
        /\ e.ref = frozen.ref /\ e.job = frozen.job /\ e.probed = frozen.probed
        /\ e.bound = [frozen.bound EXCEPT ![p] = j] /\ e.item = [frozen.item EXCEPT ![p] = row]
        /\ e = [frozen EXCEPT !.bound = e.bound, !.item = e.item]
    BY <2>5 DEF Database
  <2> HIDE DEF e
  <2>7. e.bound \in [Partition -> Job \cup {None}] /\ e.item \in [Partition -> [Code -> ItemRow]]
    BY <1>2, <2>3, <2>5, <2>6 DEF Database, p, j
  <2>8. e \in Database BY <2>5, <2>6, <2>7 DEF Database
  <2>9. ItemsKept(db, e)
    <3> SUFFICES ASSUME NEW q \in Partition, NEW c \in Code, e.item[q][c].status = "complete"
                 PROVE  db.item[q][c].status = "complete"
      BY DEF ItemsKept
    <3>1. frozen.item \in [Partition -> [Code -> ItemRow]] BY <2>5 DEF Database
    <3>2. q # p
      <4> SUFFICES ASSUME q = p PROVE FALSE
        OBVIOUS
      <4>1. e.item[q] = row BY <2>6, <3>1
      <4> QED BY <2>3, <4>1
    <3>3. e.item[q] = frozen.item[q] BY <2>6, <3>1, <3>2
    <3> QED BY <2>5, <3>3 DEF ItemsKept
  <2>10. \A q \in Partition : \A c \in Code : ItemHolds(e, q, c)
    BY <2>5, <2>6, <2>9, ItemsKeptHold
  <2>11. e.catalog = CodesOf(e.docs) BY <2>5, <2>6 DEF DbOK, Stored
  <2>12. Keeps(db, e) BY <2>5, <2>6, <2>8, <2>10, <2>11, ItemsWritten
  <2> QED BY <1>4, <1>6, <2>2, <2>12, KeepsIsSound
<1> QED BY <1>3, <1>5, <1>6 DEF Bind

LEMMA BindFailsKeeps ==
  ASSUME DbOK(db), Working, NEW w \in Worker, BindFails(w)
  PROVE  Sound(db, db') /\ Moved(w)
<1> DEFINE p == Top(w).part
           j == work[w].job
           d == Prepare(db, p, j)
           c == Claim(d, p, w, TRUE)
<1>1. p \in Partition /\ j \in Job BY Acting DEF BindFails
<1>2. Moved(w) BY Unwinds DEF BindFails
<1>3. d \in Database /\ Trusted(d) /\ Refreshes(db, d) BY <1>1, PrepareRefreshes DEF DbOK
<1>4. \/ db' = db
      \/ db' = d
      \/ d.part[p].status # "complete" /\ db' = Fail(c, p, "failed_retryable")
  BY DEF BindFails
<1> HIDE DEF p, j, d, c
<1>5. DbOK(d) BY <1>3, RefreshKeeps
<1>6. ASSUME d.part[p].status # "complete"
      PROVE  Keeps(d, Fail(c, p, "failed_retryable"))
  <2>1. ~IsComplete(d, p) BY <1>6 DEF IsComplete
  <2>2. Keeps(d, c) /\ ~IsComplete(c, p) BY <1>1, <1>5, <2>1, ClaimKeeps DEF c
  <2>3. DbOK(c) BY <2>2 DEF Keeps
  <2>4. Keeps(c, Fail(c, p, "failed_retryable")) BY <1>1, <2>2, <2>3, FailKeeps DEF Failed
  <2> QED BY <2>2, <2>4, KeepsFurther
<1>7. CASE db' = db BY <1>2, <1>7, Still
<1>8. CASE db' = d BY <1>2, <1>3, <1>8, RefreshIsSound
<1>9. CASE d.part[p].status # "complete" /\ db' = Fail(c, p, "failed_retryable")
  BY <1>2, <1>3, <1>6, <1>9, RefreshAndKeep
<1> QED BY <1>4, <1>7, <1>8, <1>9

LEMMA ScanKeeps ==
  ASSUME DbOK(db), Working, NEW w \in Worker, Scan(w)
  PROVE  Sound(db, db') /\ Moved(w)
<1> DEFINE p == Top(w).part
           j == work[w].job
           d == ExpandJob(db, j)
           open == {c \in Code : d.item[p][c].status \notin {"absent", "complete"}}
           hopeless == {c \in open : /\ d.item[p][c].status = "failed_overflow"
                                     /\ d.item[p][c].limit = Limit[j] /\ work[w].resume}
           todo == open \ hopeless
           bad == hopeless # {}
           f == [Top(w) EXCEPT !.at = "items", !.todo = todo, !.bad = bad]
<1>1. At(w, "scan") BY DEF Scan
<1>2. "scan" \in Gathering BY DEF Gathering
<1>3. j \in Job /\ Top(w) \in Frames /\ IsDay(p) BY <1>1, <1>2, Acting
<1>4. db' = d BY DEF Scan
<1>5. Sound(db, db')
  <2>1. Expanded(db, d) BY <1>3, ExpandParts DEF DbOK
  <2> HIDE DEF d
  <2> QED BY <1>4, <2>1, ExpandKeeps, KeepsIsSound
<1>6. work' = [work EXCEPT ![w].stack[1] = f] BY DEF Scan, Top, Working
<1>7. todo \in SUBSET Code /\ bad \in BOOLEAN OBVIOUS
<1> HIDE DEF todo, bad
<1>8. f \in Frames
  <2>1. "items" \in Ats /\ "items" \notin Splitting BY DEF Ats, Splitting, Halves
  <2> QED BY <1>3, <1>7, <2>1 DEF Frames, FrameRow
<1> HIDE DEF f
<1>9. Moved(w) BY <1>1, <1>6, <1>8, TopReplaced
<1> QED BY <1>5, <1>9

(* The row of an item with another status.                                 *)
LEMMA ItemStatus ==
  ASSUME NEW d \in Database, NEW p \in Partition, NEW c \in Code, NEW status \in Statuses
  PROVE  /\ [d EXCEPT !.item[p][c].status = status] =
              WithItem(d, p, c, [d.item[p][c] EXCEPT !.status = status])
         /\ [d.item[p][c] EXCEPT !.status = status] \in ItemRow
         /\ [d.item[p][c] EXCEPT !.status = status].status = status
<1>1. d.item \in [Partition -> [Code -> ItemRow]] BY DEF Database
<1>2. d.item[p][c] \in ItemRow BY <1>1
<1>3. [d EXCEPT !.item[p][c].status = status] =
        WithItem(d, p, c, [d.item[p][c] EXCEPT !.status = status])
  BY <1>1 DEF WithItem, Database
<1>4. /\ [d.item[p][c] EXCEPT !.status = status] \in ItemRow
      /\ [d.item[p][c] EXCEPT !.status = status].status = status
  BY <1>2 DEF ItemRow
<1> QED BY <1>3, <1>4

LEMMA NextItems ==
  ASSUME Working, NEW w \in Worker, At(w, "item"), NEW bad \in BOOLEAN, NextItem(w, bad)
  PROVE  Moved(w)
<1> DEFINE todo == Top(w).todo \ {Top(w).code}
           worse == Top(w).bad \/ bad
           f == [Top(w) EXCEPT !.at = "items", !.code = None, !.todo = todo, !.bad = worse]
<1>1. Top(w) \in Frames /\ IsDay(Top(w).part) /\ Top(w).todo \subseteq Code
  <2>1. "item" \in Gathering BY DEF Gathering
  <2> QED BY <2>1, Acting
<1>2. work' = [work EXCEPT ![w].stack[1] = f] BY DEF NextItem
<1>3. todo \in SUBSET Code /\ worse \in BOOLEAN BY <1>1
<1> HIDE DEF todo, worse
<1>4. f \in Frames
  <2>1. "items" \in Ats /\ "items" \notin Splitting BY DEF Ats, Splitting, Halves
  <2> QED BY <1>1, <1>3, <2>1 DEF Frames, FrameRow
<1> HIDE DEF f
<1> QED BY <1>2, <1>4, TopReplaced

LEMMA ClaimItemKeeps ==
  ASSUME DbOK(db), Working, NEW w \in Worker, ClaimItem(w)
  PROVE  Sound(db, db') /\ Moved(w)
<1> DEFINE p == Top(w).part
<1>1. At(w, "items") BY DEF ClaimItem
<1>2. /\ p \in Partition /\ IsDay(p) /\ Top(w) \in Frames /\ Top(w).todo \subseteq Code
      /\ work[w] \in Memories /\ work[w].stack # <<>> /\ work[w].job \in Job
  <2>1. "items" \in Gathering BY DEF Gathering
  <2> QED BY <1>1, <2>1, Acting
<1>3. CASE Return(w, "none") /\ UNCHANGED db BY <1>1, <1>3, Returns, Still DEF Outcomes
<1>4. ASSUME NEW c \in Top(w).todo, UNCHANGED db,
             work' = [work EXCEPT ![w].stack[1].todo = @ \ {c}]
      PROVE  Sound(db, db') /\ Moved(w)
  <2> DEFINE todo == Top(w).todo \ {c}
             f == [Top(w) EXCEPT !.todo = todo]
  <2>1. work' = [work EXCEPT ![w].stack[1] = f] BY <1>4 DEF Top, Working
  <2>2. todo \in SUBSET Code BY <1>2
  <2> HIDE DEF todo
  <2>3. f \in Frames BY <1>2, <2>2 DEF Frames, FrameRow
  <2> HIDE DEF f
  <2>4. Moved(w) BY <1>1, <2>1, <2>3, TopReplaced
  <2> QED BY <1>4, <2>4, Still
<1>5. ASSUME NEW c \in Top(w).todo, NEW fuel \in BOOLEAN,
             db' = [db EXCEPT !.item[p][c] =
                     [status |-> "running", holder |-> w, limit |-> Limit[work[w].job]]],
             work' = [work EXCEPT ![w] =
                       Spend([work[w] EXCEPT !.stack[1].at = "item", !.stack[1].code = c], fuel)]
      PROVE  Sound(db, db') /\ Moved(w)
  <2> DEFINE r == [status |-> "running", holder |-> w, limit |-> Limit[work[w].job]]
             f == [Top(w) EXCEPT !.at = "item", !.code = c]
             m == [work[w] EXCEPT !.stack[1] = f]
  <2>1. c \in Code BY <1>2
  <2>2. r \in ItemRow /\ r.status # "complete" BY <1>2, LimitIsNumber DEF ItemRow, Statuses
  <2>3. db' = WithItem(db, p, c, r) BY <1>5 DEF WithItem
  <2>4. [work[w] EXCEPT !.stack[1].at = "item", !.stack[1].code = c] = m
    BY <1>2 DEF Top, Memories, MemoryRow
  <2>5. work' = [work EXCEPT ![w] = Spend(m, fuel)] BY <1>5, <2>4
  <2>6. f \in Frames
    <3>1. "item" \in Ats /\ "item" \notin Splitting BY DEF Ats, Splitting, Halves
    <3> QED BY <1>2, <2>1, <3>1 DEF Frames, FrameRow
  <2> HIDE DEF f, r, p
  <2>7. m \in Memories BY <1>2, <2>6, TopMoves
  <2>8. m.job = work[w].job BY <1>2 DEF Memories, MemoryRow
  <2> HIDE DEF m
  <2>9. Spend(m, fuel) \in Memories /\ Spend(m, fuel).job = work[w].job
    BY <2>7, <2>8, Spent
  <2>10. Moved(w) BY <2>5, <2>9 DEF Moved
  <2>11. Keeps(db, db') BY <1>2, <2>1, <2>2, <2>3, ItemSetKeeps DEF p
  <2> QED BY <2>10, <2>11, KeepsIsSound
<1> QED BY <1>3, <1>4, <1>5 DEF ClaimItem

LEMMA CommitItemKeeps ==
  ASSUME DbOK(db), Working, NEW w \in Worker, CommitItem(w)
  PROVE  Sound(db, db') /\ Moved(w)
<1> DEFINE p == Top(w).part
           c == Top(w).code
           limit == Limit[work[w].job]
<1>1. At(w, "item") BY DEF CommitItem
<1>2. p \in Partition /\ c \in Code /\ work[w].job \in Job BY <1>1, Acting
<1>3. limit \in Nat BY <1>2, LimitIsNumber
<1>4. db \in Database BY DEF DbOK
<1>5. CASE NextItem(w, FALSE) /\ UNCHANGED db
  <2>1. Moved(w) BY <1>1, <1>5, NextItems
  <2> QED BY <1>5, <2>1, Still
<1>6. ASSUME NEW page \in Pages({x \in DocsIn(p) : x.code = c}, limit),
             db' = IF Short(page, limit)
                   THEN [Store(db, page) EXCEPT !.item[p][c].status = "complete"]
                   ELSE [db EXCEPT !.item[p][c].status = "failed_overflow"],
             NextItem(w, ~Short(page, limit))
      PROVE  Sound(db, db') /\ Moved(w)
  <2>1. Moved(w)
    <3>1. (~Short(page, limit)) \in BOOLEAN OBVIOUS
    <3> QED BY <1>1, <1>6, <3>1, NextItems
  <2>2. CASE ~Short(page, limit)
    <3> DEFINE r == [db.item[p][c] EXCEPT !.status = "failed_overflow"]
    <3>1. "failed_overflow" \in Statuses BY DEF Statuses, Failed
    <3>2. /\ [db EXCEPT !.item[p][c].status = "failed_overflow"] = WithItem(db, p, c, r)
          /\ r \in ItemRow /\ r.status = "failed_overflow"
      BY <1>2, <1>4, <3>1, ItemStatus
    <3> HIDE DEF r
    <3>3. db' = WithItem(db, p, c, r) BY <1>6, <2>2, <3>2
    <3>4. Keeps(db, db') BY <1>2, <3>2, <3>3, ItemSetKeeps
    <3> QED BY <2>1, <3>4, KeepsIsSound
  <2>3. CASE Short(page, limit)
    <3> DEFINE s == Store(db, page)
               r == [s.item[p][c] EXCEPT !.status = "complete"]
               e == WithItem(s, p, c, r)
    <3>1. page = {x \in DocsIn(p) : x.code = c} BY <1>3, <1>6, <2>3, PageParts
    <3>2. page \in SUBSET Doc BY <3>1 DEF DocsIn
    <3>3. /\ s \in Database /\ s.docs = db.docs \cup page /\ s.catalog = CodesOf(s.docs)
          /\ s.part = db.part /\ s.ref = db.ref /\ s.job = db.job /\ s.item = db.item
          /\ s.probed = db.probed
      BY <3>2, StoreParts
    <3>4. db' = [s EXCEPT !.item[p][c].status = "complete"] BY <1>6, <2>3
    <3> HIDE DEF p, c, s
    <3>5. "complete" \in Statuses BY DEF Statuses
    <3>6. [s EXCEPT !.item[p][c].status = "complete"] = e /\ r \in ItemRow
      BY <1>2, <3>3, <3>5, ItemStatus
    <3> HIDE DEF r
    <3>7. OneItem(s, e, p, c, r) BY <1>2, <3>3, <3>6, ItemSet
    <3> HIDE DEF e
    <3>8. /\ e \in Database /\ e.docs = s.docs /\ e.catalog = s.catalog /\ e.part = s.part
          /\ e.ref = s.ref /\ e.job = s.job /\ e.probed = s.probed
          /\ \A q \in Partition : \A b \in Code : q # p \/ b # c => e.item[q][b] = s.item[q][b]
      BY <3>7 DEF OneItem
    <3>9. \A q \in Partition : \A b \in Code : ItemHolds(e, q, b)
      <4> SUFFICES ASSUME NEW q \in Partition, NEW b \in Code, e.item[q][b].status = "complete"
                   PROVE  {x \in DocsIn(q) : x.code = b} \subseteq e.docs
        BY DEF ItemHolds
      <4>1. CASE q = p /\ b = c
        <5>1. page \subseteq e.docs BY <3>3, <3>8
        <5>2. {x \in DocsIn(q) : x.code = b} = page BY <3>1, <4>1 DEF p, c
        <5> QED BY <5>1, <5>2
      <4>2. CASE q # p \/ b # c
        <5>1. db.item[q][b].status = "complete" BY <3>3, <3>8, <4>2
        <5>2. {x \in DocsIn(q) : x.code = b} \subseteq db.docs
          BY <5>1 DEF DbOK, Stored, ItemHolds
        <5>3. db.docs \subseteq e.docs BY <3>3, <3>8
        <5> QED BY <5>2, <5>3
      <4> QED BY <4>1, <4>2
    <3>10. db.docs \subseteq e.docs /\ e.catalog = CodesOf(e.docs) BY <3>3, <3>8
    <3>11. e.part = db.part /\ e.ref = db.ref /\ e.job = db.job /\ e.probed = db.probed
      BY <3>3, <3>8
    <3>12. Keeps(db, e) BY <3>8, <3>9, <3>10, <3>11, ItemsWritten
    <3> QED BY <2>1, <3>4, <3>6, <3>12, KeepsIsSound
  <2> QED BY <2>2, <2>3
<1> QED BY <1>5, <1>6 DEF CommitItem

LEMMA ItemFailsKeeps ==
  ASSUME DbOK(db), Working, NEW w \in Worker, ItemFails(w)
  PROVE  Sound(db, db') /\ Moved(w)
<1> DEFINE p == Top(w).part
           c == Top(w).code
           r == [db.item[p][c] EXCEPT !.status = "failed_retryable"]
<1>1. At(w, "item") BY DEF ItemFails
<1>2. p \in Partition /\ c \in Code BY <1>1, Acting
<1>3. Moved(w)
  <2>1. CASE work' = [work EXCEPT ![w] = Unwound(work[w])] BY <2>1, Unwinds
  <2>2. CASE NextItem(w, TRUE) BY <1>1, <2>2, NextItems
  <2> QED BY <2>1, <2>2 DEF ItemFails
<1>4. CASE Holds(db.item[p][c], w)
  <2>1. db \in Database BY DEF DbOK
  <2>2. "failed_retryable" \in Statuses BY DEF Statuses, Failed
  <2>3. /\ [db EXCEPT !.item[p][c].status = "failed_retryable"] = WithItem(db, p, c, r)
        /\ r \in ItemRow /\ r.status = "failed_retryable"
    BY <1>2, <2>1, <2>2, ItemStatus
  <2>4. db' = [db EXCEPT !.item[p][c].status = "failed_retryable"] BY <1>4 DEF ItemFails
  <2> HIDE DEF r
  <2>5. Keeps(db, db') BY <1>2, <2>3, <2>4, ItemSetKeeps
  <2> QED BY <1>3, <2>5, KeepsIsSound
<1>5. CASE ~Holds(db.item[p][c], w) BY <1>3, <1>5, Still DEF ItemFails
<1> QED BY <1>4, <1>5

LEMMA ItemsDoneKeeps ==
  ASSUME DbOK(db), Working, NEW w \in Worker, ItemsDone(w)
  PROVE  Sound(db, db') /\ Moved(w)
<1>1. At(w, "items") BY DEF ItemsDone
<1>2. IsDay(Top(w).part)
  <2>1. "items" \in Gathering BY DEF Gathering
  <2> QED BY <1>1, <2>1, Acting
<1>3. Sound(db, db') BY Still DEF ItemsDone
<1>4. CASE Return(w, "false") \/ Return(w, "none") BY <1>1, <1>3, <1>4, Returns DEF Outcomes
<1>5. CASE Goto(w, "fold") \/ Goto(w, "verify")
  <2>1. /\ "fold" \in Ats /\ "verify" \in Ats
        /\ "fold" \notin Splitting /\ "verify" \notin Splitting
    BY DEF Ats, Splitting, Halves
  <2> QED BY <1>1, <1>2, <1>3, <1>5, <2>1, Goes
<1> QED BY <1>4, <1>5 DEF ItemsDone

LEMMA ClaimVerificationKeeps ==
  ASSUME DbOK(db), Working, NEW w \in Worker, ClaimVerification(w)
  PROVE  Sound(db, db') /\ Moved(w)
<1> DEFINE m == [work[w] EXCEPT !.stack[1].at = "scan"]
<1>1. At(w, "verify") BY DEF ClaimVerification
<1>2. IsDay(Top(w).part)
  <2>1. "verify" \in Gathering BY DEF Gathering
  <2> QED BY <1>1, <2>1, Acting
<1>3. /\ "scan" \in Ats /\ "scan" \notin Splitting
      /\ "verifying" \in Ats /\ "verifying" \notin Splitting
  BY DEF Ats, Splitting, Halves
<1>4. m \in Memories /\ m.job = work[w].job BY <1>1, <1>2, <1>3, MovedTop
<1>5. PICK fuel \in BOOLEAN : TakePartition(w, "verifying", fuel, m) BY DEF ClaimVerification
<1> HIDE DEF m
<1> QED BY <1>1, <1>2, <1>3, <1>4, <1>5, Takes

LEMMA CommitRoundKeeps ==
  ASSUME DbOK(db), Working, NEW w \in Worker, CommitRound(w)
  PROVE  Sound(db, db') /\ Moved(w)
<1> DEFINE p == Top(w).part
<1>1. At(w, "verifying") BY DEF CommitRound
<1>2. p \in Partition /\ work[w].job \in Job /\ IsDay(p)
  <2>1. "verifying" \in Gathering BY DEF Gathering
  <2> QED BY <1>1, <2>1, Acting
<1>3. CASE Return(w, "none") /\ UNCHANGED db BY <1>1, <1>3, Returns, Still DEF Outcomes
<1>4. ASSUME NEW page \in Pages(DocsIn(p), Limit[work[w].job]), NEW calm, calm \in BOOLEAN,
             Holds(db.part[p], w),
             db' = [ExpandPartition(Store(db, page), p) EXCEPT
                     !.probed[p] = @ \cup page,
                     !.stable[p] = IF calm THEN Min({@ + 1, Rounds}) ELSE 0,
                     !.part[p] = [@ EXCEPT !.status = "failed_overflow", !.probe = TRUE]],
             Goto(w, "scan")
      PROVE  Sound(db, db') /\ Moved(w)
  <2> DEFINE s == Store(db, page)
             x == ExpandPartition(s, p)
             stable == [x.stable EXCEPT ![p] = IF calm THEN Min({@ + 1, Rounds}) ELSE 0]
  <2>1. Moved(w) BY <1>1, <1>2, <1>4, Goes DEF Ats, Splitting, Halves, Gathering
  <2>2. page \in SUBSET DocsIn(p) BY <1>2, <1>4, PageParts, LimitIsNumber
  <2>3. page \in SUBSET Doc BY <2>2 DEF DocsIn
  <2>4. s \in Database BY <2>3, StoreParts
  <2> HIDE DEF p, s
  <2>5. Expanded(s, x) BY <1>2, <2>4, ExpandParts
  <2>6. db' = [x EXCEPT !.probed[p] = @ \cup page,
                        !.stable[p] = IF calm THEN Min({@ + 1, Rounds}) ELSE 0,
                        !.part[p] = [@ EXCEPT !.status = "failed_overflow", !.probe = TRUE]]
    BY <1>4 DEF s, p
  <2> HIDE DEF x
  <2>7. x \in Database BY <2>5 DEF Expanded
  <2>8. db' = [x EXCEPT !.probed = [x.probed EXCEPT ![p] = @ \cup page],
                        !.stable = stable,
                        !.part = [x.part EXCEPT ![p] =
                                   [@ EXCEPT !.status = "failed_overflow", !.probe = TRUE]]]
    BY <2>6, <2>7 DEF Database
  <2>9. stable \in [Partition -> 0..Rounds]
    <3>1. x.stable \in [Partition -> 0..Rounds] /\ Rounds \in Nat
      BY <2>7, BackfillAssumption DEF Database
    <3>2. x.stable[p] \in 0..Rounds BY <1>2, <3>1 DEF p
    <3> DEFINE n == x.stable[p] + 1
    <3>3. n \in Nat BY <3>1, <3>2
    <3>4. Min({n, Rounds}) \in 0..Rounds
      <4>1. Min({n, Rounds}) = CHOOSE y \in {n, Rounds} : \A z \in {n, Rounds} : y <= z
        BY DEF Min
      <4>2. \E y \in {n, Rounds} : \A z \in {n, Rounds} : y <= z BY <3>1, <3>3
      <4>3. /\ Min({n, Rounds}) \in {n, Rounds}
            /\ \A z \in {n, Rounds} : Min({n, Rounds}) <= z
        BY <4>1, <4>2
      <4> HIDE DEF n
      <4> QED BY <3>1, <3>3, <4>3
    <3>5. (IF calm THEN Min({n, Rounds}) ELSE 0) \in 0..Rounds BY <3>1, <3>4
    <3> QED BY <3>1, <3>5
  <2> HIDE DEF stable
  <2>10. ~IsComplete(db, p) BY <1>2, <1>4, HeldIsOpen DEF p
  <2>11. IsDay(p) BY <1>2 DEF p
  <2>12. Keeps(db, db')
    BY <1>2, <2>2, <2>5, <2>8, <2>9, <2>10, <2>11, ProbeWritten DEF s
  <2> QED BY <2>1, <2>12, KeepsIsSound
<1>5. ASSUME NEW page \in Pages(DocsIn(p), Limit[work[w].job])
      PROVE  (page \subseteq db.probed[p] /\ NewCodes(Store(db, page), p) = {}) \in BOOLEAN
  OBVIOUS
<1> QED BY ZenonT(60), <1>3, <1>4, <1>5 DEF CommitRound

LEMMA ClaimFoldKeeps ==
  ASSUME DbOK(db), Working, NEW w \in Worker, ClaimFold(w)
  PROVE  Sound(db, db') /\ Moved(w)
<1>1. At(w, "fold") BY DEF ClaimFold
<1>2. /\ Resumed(work[w], "true") \in Memories
      /\ Resumed(work[w], "true").job = work[w].job
  BY <1>1, Acting, ResumedParts DEF Outcomes
<1>3. "fold" \in Gathering /\ "folding" \in Ats /\ "folding" \notin Splitting
  BY DEF Ats, Splitting, Halves, Gathering
<1>4. IsDay(Top(w).part) BY <1>1, <1>3, Acting
<1>5. work[w].fuel \in BOOLEAN BY <1>1, Acting DEF Memories, MemoryRow
<1>6. TakePartition(w, "folding", work[w].fuel, Resumed(work[w], "true")) BY DEF ClaimFold
<1> QED BY <1>1, <1>2, <1>3, <1>4, <1>5, <1>6, Takes

LEMMA FoldKeeps ==
  ASSUME DbOK(db), Working, NEW w \in Worker, Fold(w)
  PROVE  Sound(db, db') /\ Moved(w)
<1> DEFINE p == Top(w).part
           d == ExpandPartition(db, p)
<1>1. At(w, "folding") BY DEF Fold
<1>2. p \in Partition /\ IsDay(p)
  <2>1. "folding" \in Gathering BY DEF Gathering
  <2> QED BY <1>1, <2>1, Acting
<1>3. db \in Database BY DEF DbOK
<1>4. /\ Expanded(db, d)
      /\ db.bound[p] # None => db.catalog \subseteq d.members[db.bound[p]]
  BY <1>2, <1>3, ExpandParts
<1>5. CASE Return(w, "none") /\ UNCHANGED db BY <1>1, <1>5, Returns, Still DEF Outcomes
<1>6. CASE Holds(db.part[p], w) /\ db' = Fail(d, p, "failed_overflow") /\ Return(w, "false")
  <2>1. Moved(w) BY <1>1, <1>6, Returns DEF Outcomes
  <2> HIDE DEF d
  <2>2. Keeps(db, d) BY <1>4, ExpandKeeps
  <2>3. DbOK(d) /\ d.part = db.part BY <1>3, <1>4, <2>2, ExpandedFields DEF Keeps
  <2>4. ~IsComplete(d, p) BY <1>2, <1>6, <2>3, HeldIsOpen DEF IsComplete
  <2>5. Keeps(d, db') BY <1>2, <1>6, <2>3, <2>4, FailKeeps DEF Failed
  <2> QED BY <2>1, <2>2, <2>5, KeepsFurther, KeepsIsSound
<1>7. CASE /\ Holds(db.part[p], w) /\ Converged(d, p) /\ Return(w, "true")
           /\ db' = [d EXCEPT !.part[p] =
                      [@ EXCEPT !.status = "complete", !.catalog = d.catalog,
                                !.basis = "saturated_catalog_convergence"]]
  <2> DEFINE r == [d.part[p] EXCEPT !.status = "complete", !.catalog = d.catalog,
                                    !.basis = "saturated_catalog_convergence"]
             e == [d EXCEPT !.part[p] = r]
  <2>1. Moved(w) BY <1>1, <1>7, Returns DEF Outcomes
  <2>2. db' = e BY <1>7
  <2>3. Keeps(db, d)
    <3> HIDE DEF d
    <3> QED BY <1>4, ExpandKeeps
  <2>4. DbOK(d) /\ d \in Database BY <2>3 DEF Keeps, DbOK
  <2> HIDE DEF d
  <2>5. d.part = db.part /\ d.bound = db.bound /\ d.catalog = db.catalog
    BY <1>3, <1>4, ExpandedFields
  <2> HIDE DEF p
  <2>6. /\ r \in PartitionRow /\ r.status = "complete" /\ r.catalog = d.catalog
        /\ r.basis = "saturated_catalog_convergence"
    <3>1. d.part[p] \in PartitionRow /\ d.catalog \in SUBSET Code BY <1>2, <2>4 DEF Database
    <3> QED BY <3>1 DEF PartitionRow, Statuses, Bases
  <2> HIDE DEF r
  <2>7. /\ e \in Database /\ e.part[p] = r /\ e = [d EXCEPT !.part = e.part]
        /\ \A q \in Partition : q # p => e.part[q] = d.part[q]
    BY <1>2, <2>4, <2>6, RowSet
  <2> HIDE DEF e
  <2>8. /\ e.docs = d.docs /\ e.catalog = d.catalog /\ e.ref = d.ref /\ e.job = d.job
        /\ e.item = d.item /\ e.probed = d.probed
    BY <2>4, <2>7 DEF Database
  <2>9. ~IsComplete(d, p) BY <1>2, <1>7, <2>5, HeldIsOpen DEF IsComplete, p
  <2>10. /\ d.catalog = CodesOf(d.docs) /\ d.probed[p] \subseteq d.docs
         /\ \A c \in Code : ItemHolds(d, p, c)
    BY <1>2, <2>4 DEF DbOK, Stored
  <2>11. {x \in DocsIn(p) : x.code \in d.catalog} \subseteq d.docs
    <3> SUFFICES ASSUME NEW x \in DocsIn(p), x.code \in d.catalog
                 PROVE  x \in d.docs
      OBVIOUS
    <3>1. d.bound[p] # None /\ \A c \in d.members[d.bound[p]] : d.item[p][c].status = "complete"
      BY <1>7 DEF Converged, p
    <3>2. x.code \in d.members[d.bound[p]] BY <1>4, <2>5, <3>1 DEF p
    <3>3. d.item[p][x.code].status = "complete" BY <3>1, <3>2
    <3>4. x.code \in Code BY <2>4 DEF Database
    <3>5. {y \in DocsIn(p) : y.code = x.code} \subseteq d.docs
      BY <2>10, <3>3, <3>4 DEF ItemHolds
    <3> QED BY <3>5
  <2>12. Holding(e, p)
    <3>1. CodesOf(d.probed[p]) \subseteq d.catalog BY <2>10 DEF CodesOf
    <3> QED BY <2>6, <2>7, <2>8, <2>11, <3>1 DEF Holding
  <2>13. ItemsKept(d, e) BY <2>8 DEF ItemsKept
  <2>14. e.catalog = CodesOf(e.docs) /\ e.probed[p] \subseteq e.docs BY <2>8, <2>10
  <2>15. IsDay(p) BY <1>2 DEF p
  <2>16. p \in Partition BY <1>2 DEF p
  <2>17. \A q \in Partition : q # p => e.part[q] = d.part[q] /\ e.probed[q] = d.probed[q]
    BY <2>7, <2>8
  <2>18. Keeps(d, e)
    BY <2>4, <2>6, <2>7, <2>8, <2>9, <2>12, <2>13, <2>14, <2>15, <2>16, <2>17, RowWritten
  <2> QED BY <2>1, <2>2, <2>3, <2>18, KeepsFurther, KeepsIsSound
<1> QED BY <1>5, <1>6, <1>7 DEF Fold
-----------------------------------------------------------------------------
(* The last run of a job has not ended while it is at work, and only its   *)
(* end reports the job complete.                                           *)
Reporting ==
  \A j \in Job : \A w \in Worker :
    work[w].job = j /\ db.job[j].holder = w => db.job[j].status # "complete"

IInv == DbOK(db) /\ Working /\ Reporting

JobsStep ==
  \A j \in Job : db.job[j].status = "complete" /\ db'.job[j].status # "complete" =>
    \/ db'.job[j].stale
    \/ \E w \in Worker : ~Busy(w) /\ work'[w].job = j

LEMMA InitIInv == Init => IInv
<1> SUFFICES ASSUME Init PROVE IInv
  OBVIOUS
<1>1. \A p \in Partition : db.part[p] = NoPartition BY DEF Init
<1>2. NoPartition \in PartitionRow /\ NoPartition.status = "absent" /\ ~NoPartition.probe
  BY DEF NoPartition, PartitionRow, Statuses, Bases
<1>3. NoItem \in ItemRow /\ NoItem.status = "absent" BY DEF NoItem, ItemRow, Statuses
<1>4. db \in Database
  <2>1. Rounds \in Nat BY BackfillAssumption
  <2>2. [status |-> "absent", stale |-> FALSE, holder |-> None] \in JobRow BY DEF JobRow
  <2>3. 0 \in 0..Rounds BY <2>1
  <2> HIDE DEF NoPartition, NoItem
  <2> QED BY <1>2, <1>3, <2>2, <2>3 DEF Init, Database, References
<1>5. BasisOK(db) BY <1>1, <1>2 DEF BasisOK, IsComplete
<1>6. \A j \in Job : db.job[j].status = "absent" BY DEF Init
<1>7. Trusted(db) /\ Reporting BY <1>6 DEF Trusted, Reporting
<1>8. Stored(db)
  <2>1. \A p \in Partition : db.probed[p] \subseteq db.docs BY DEF Init
  <2>2. \A p \in Partition : \A c \in Code : db.item[p][c] = NoItem BY DEF Init
  <2>3. \A p \in Partition : \A c \in Code : ItemHolds(db, p, c)
    BY <1>3, <2>2 DEF ItemHolds
  <2>4. \A p \in Partition : Holding(db, p) BY <1>1, <1>2 DEF Holding, IsComplete
  <2>5. db.catalog = CodesOf(db.docs) BY DEF Init, CodesOf
  <2> QED BY <2>1, <2>3, <2>4, <2>5 DEF Stored
<1>9. Working
  <2>1. Idle \in Memories BY EmptyStack DEF Idle, Memories, MemoryRow
  <2> QED BY <2>1 DEF Init, Working
<1> QED BY <1>4, <1>5, <1>7, <1>8, <1>9 DEF IInv, DbOK

(* The row of a job: nothing a partition has stored depends on it.         *)
WithJob(d, j, refs, r) == [d EXCEPT !.ref[j] = refs, !.job[j] = r]
OtherJobs(d, e, j) == e.part = d.part /\ \A i \in Job : i # j => e.job[i] = d.job[i]

LEMMA JobSet ==
  ASSUME NEW d, DbOK(d), NEW j \in Job, NEW refs \in [Partition -> References], NEW r \in JobRow,
         r.status = "complete" =>
           \A p \in Partition : refs[p] = "none" \/ (refs[p] = "current" /\ IsComplete(d, p))
  PROVE  /\ DbOK(WithJob(d, j, refs, r)) /\ WithJob(d, j, refs, r).job[j] = r
         /\ OtherJobs(d, WithJob(d, j, refs, r), j)
<1> DEFINE e == WithJob(d, j, refs, r)
<1>0. e = [d EXCEPT !.ref[j] = refs, !.job[j] = r] BY DEF WithJob
<1> HIDE DEF e
<1>1. d \in Database BY DEF DbOK
<1>2. /\ d.job \in [Job -> JobRow] /\ d.ref \in [Job -> [Partition -> References]]
  BY <1>1 DEF Database
<1>3. /\ e.job = [d.job EXCEPT ![j] = r] /\ e.ref = [d.ref EXCEPT ![j] = refs]
      /\ e = [d EXCEPT !.ref = e.ref, !.job = e.job]
      /\ e.docs = d.docs /\ e.catalog = d.catalog /\ e.part = d.part /\ e.item = d.item
      /\ e.probed = d.probed
  BY <1>0, <1>1 DEF Database
<1>4. /\ e.job \in [Job -> JobRow] /\ e.ref \in [Job -> [Partition -> References]]
      /\ e.job[j] = r /\ e.ref[j] = refs
      /\ \A i \in Job : i # j => e.job[i] = d.job[i] /\ e.ref[i] = d.ref[i]
  BY <1>2, <1>3
<1>5. e \in Database BY <1>1, <1>3, <1>4 DEF Database
<1>6. BasisOK(e) BY <1>3 DEF DbOK, BasisOK, IsComplete
<1>7. Trusted(e)
  <2> SUFFICES ASSUME NEW i \in Job, e.job[i].status = "complete", NEW p \in Partition
               PROVE  e.ref[i][p] = "none" \/ (e.ref[i][p] = "current" /\ IsComplete(e, p))
    BY DEF Trusted
  <2>1. IsComplete(e, p) <=> IsComplete(d, p) BY <1>3 DEF IsComplete
  <2>2. CASE i = j BY <1>4, <2>1, <2>2
  <2>3. CASE i # j BY <1>4, <2>1, <2>3 DEF DbOK, Trusted
  <2> QED BY <2>2, <2>3
<1>8. Stored(e) BY <1>3 DEF DbOK, Stored, Holding, ItemHolds, IsComplete
<1> QED BY <1>3, <1>4, <1>5, <1>6, <1>7, <1>8 DEF DbOK, OtherJobs, e

LEMMA BeginKeeps ==
  ASSUME IInv, NEW w \in Worker, NEW j \in Job, NEW resume \in Resume[j], Begin(w, j, resume)
  PROVE  IInv' /\ Caused(db, db') /\ JobsStep
<1> DEFINE status == IF db.job[j].stale THEN "partial" ELSE "running"
           r == [db.job[j] EXCEPT !.holder = w, !.status = status]
           f == Frame(Roots[j][1])
           m == [job |-> j, resume |-> resume, fuel |-> TRUE, root |-> 1,
                 sound |-> TRUE, stack |-> <<f>>]
<1>1. db \in Database /\ DbOK(db) /\ work \in [Worker -> Memories] BY DEF IInv, DbOK, Working
<1>2. /\ db.job \in [Job -> JobRow] /\ db.ref \in [Job -> [Partition -> References]]
  BY <1>1 DEF Database
<1>3. status \in {"partial", "running"} OBVIOUS
<1>4. db' = WithJob(db, j, db.ref[j], r)
  <2>1. db' = [db EXCEPT !.job[j] = r] BY DEF Begin
  <2> HIDE DEF r
  <2>2. db.ref = [db.ref EXCEPT ![j] = db.ref[j]] BY <1>2
  <2> QED BY <1>1, <2>1, <2>2 DEF Database, WithJob
<1> HIDE DEF status
<1>5. r \in JobRow /\ r.status = status /\ r.holder = w
  <2>1. db.job[j] \in JobRow BY <1>2
  <2> QED BY <1>3, <2>1 DEF JobRow
<1> HIDE DEF r
<1>6. db.ref[j] \in [Partition -> References] /\ r.status # "complete" BY <1>2, <1>3, <1>5
<1>7. /\ DbOK(db') /\ db'.part = db.part /\ db'.job[j] = r
      /\ \A i \in Job : i # j => db'.job[i] = db.job[i]
  BY <1>1, <1>4, <1>5, <1>6, JobSet DEF OtherJobs
<1>8. m \in Memories /\ m.job = j
  <2>1. 1 \in 1..Len(Roots[j]) /\ Roots[j][1] \in Partition BY RootsAreRanges
  <2>2. f \in Frames BY <2>1, FrameOfPartition
  <2> HIDE DEF f
  <2>3. <<f>> \in Seq(Frames) /\ Len(<<f>>) = 1 BY <2>2
  <2>4. <<f>> \in Stacks BY <2>3 DEF Stacks
  <2>5. resume \in BOOLEAN BY BackfillAssumption
  <2> QED BY <2>1, <2>4, <2>5 DEF Memories, MemoryRow
<1>9. work' = [work EXCEPT ![w] = m] /\ ~Busy(w) BY DEF Begin
<1> HIDE DEF m
<1>10. Working' BY <1>1, <1>8, <1>9 DEF Working
<1>11. Reporting'
  <2> SUFFICES ASSUME NEW i \in Job, NEW v \in Worker, work'[v].job = i, db'.job[i].holder = v
               PROVE  db'.job[i].status # "complete"
    BY DEF Reporting
  <2>1. CASE i = j BY <1>5, <1>6, <1>7, <2>1
  <2>2. CASE i # j
    <3>1. v # w BY <1>1, <1>8, <1>9, <2>2
    <3>2. work'[v] = work[v] BY <1>1, <1>9, <3>1
    <3> QED BY <1>7, <2>2, <3>2 DEF IInv, Reporting
  <2> QED BY <2>1, <2>2
<1>12. Caused(db, db') BY <1>7 DEF Caused, IsComplete
<1>13. JobsStep
  <2> SUFFICES ASSUME NEW i \in Job, db.job[i].status = "complete", db'.job[i].status # "complete"
               PROVE  \E v \in Worker : ~Busy(v) /\ work'[v].job = i
    BY DEF JobsStep
  <2>1. i = j BY <1>7
  <2>2. work'[w].job = j BY <1>1, <1>8, <1>9
  <2> QED BY <1>9, <2>1, <2>2
<1> QED BY <1>7, <1>10, <1>11, <1>12, <1>13 DEF IInv

LEMMA FinishKeeps ==
  ASSUME IInv, NEW w \in Worker, Finish(w)
  PROVE  IInv' /\ Caused(db, db') /\ JobsStep
<1> DEFINE j == work[w].job
           refs == [p \in Partition |->
                     IF db.ref[j][p] # "none" /\ db.part[p].status # "complete"
                     THEN "needs_revalidation" ELSE db.ref[j][p]]
           invalid == \E p \in Partition : refs[p] = "needs_revalidation"
           complete == work[w].sound /\ ~invalid /\ \E p \in Partition : refs[p] # "none"
           status == IF complete THEN "complete" ELSE "partial"
           r == [db.job[j] EXCEPT !.status = status, !.stale = invalid]
<1>1. db \in Database /\ DbOK(db) /\ work \in [Worker -> Memories] BY DEF IInv, DbOK, Working
<1>2. /\ db.job \in [Job -> JobRow] /\ db.ref \in [Job -> [Partition -> References]]
  BY <1>1 DEF Database
<1>3. j \in Job BY <1>1 DEF Finish, Busy, Memories, MemoryRow
<1>4. /\ work' = [work EXCEPT ![w] = Idle]
      /\ db' = IF RunsJob(db, j, w) THEN [db EXCEPT !.ref[j] = refs, !.job[j] = r] ELSE db
  BY DEF Finish
<1>5. Idle \in Memories BY EmptyStack DEF Idle, Memories, MemoryRow
<1>6. Working' BY <1>1, <1>4, <1>5 DEF Working
<1>7. \A v \in Worker : v # w => work'[v] = work[v] BY <1>1, <1>4
<1>8. work'[w].job = None /\ None \notin Job
  BY <1>1, <1>4, BackfillAssumption DEF Idle
<1>9. CASE ~RunsJob(db, j, w)
  <2>1. db' = db BY <1>4, <1>9
  <2>2. Reporting' BY <1>7, <1>8, <2>1 DEF IInv, Reporting
  <2> QED BY <1>1, <1>6, <2>1, <2>2 DEF IInv, Caused, JobsStep
<1>10. CASE RunsJob(db, j, w)
  <2>1. refs \in [Partition -> References]
    <3>1. \A p \in Partition : db.ref[j][p] \in References BY <1>2, <1>3
    <3> QED BY <3>1 DEF References
  <2>2. \A p \in Partition : db.part[p].status = "complete" \/ refs[p] \in {"none", "needs_revalidation"}
    BY SMTT(30), <1>2, <1>3 DEF References
  <2>3. db' = WithJob(db, j, refs, r) BY <1>4, <1>10 DEF WithJob
  <2>4. db.job[j].holder = w BY <1>10 DEF RunsJob
  <2> HIDE DEF refs, j
  <2>5. complete => \A p \in Partition : refs[p] # "needs_revalidation" OBVIOUS
  <2>6. invalid \in BOOLEAN /\ status \in {"complete", "partial"}
        /\ (status = "complete" => complete)
    OBVIOUS
  <2> HIDE DEF status, complete, invalid
  <2>7. r \in JobRow /\ r.status = status /\ r.holder = w
    <3>1. db.job[j] \in JobRow BY <1>2, <1>3 DEF j
    <3> QED BY <2>4, <2>6, <3>1 DEF JobRow
  <2> HIDE DEF r
  <2>8. r.status = "complete" =>
          \A p \in Partition : refs[p] = "none" \/ (refs[p] = "current" /\ IsComplete(db, p))
    BY <2>1, <2>2, <2>5, <2>6, <2>7 DEF References, IsComplete
  <2>9. j \in Job BY <1>3 DEF j
  <2>10. /\ DbOK(db') /\ db'.part = db.part /\ db'.job[j] = r
         /\ \A i \in Job : i # j => db'.job[i] = db.job[i]
    BY <1>1, <2>1, <2>3, <2>7, <2>8, <2>9, JobSet DEF OtherJobs
  <2>11. Reporting'
    <3> SUFFICES ASSUME NEW i \in Job, NEW v \in Worker, work'[v].job = i, db'.job[i].holder = v
                 PROVE  db'.job[i].status # "complete"
      BY DEF Reporting
    <3>1. v # w BY <1>8
    <3>2. i # j BY <2>7, <2>10, <3>1
    <3> QED BY <1>7, <2>10, <3>1, <3>2 DEF IInv, Reporting
  <2>12. Caused(db, db') BY <2>10 DEF Caused, IsComplete
  <2>13. db.job[j].status # "complete" BY <2>4, <2>9 DEF IInv, Reporting, j
  <2>14. JobsStep BY <2>10, <2>13 DEF JobsStep
  <2> QED BY <1>6, <2>10, <2>11, <2>12, <2>14 DEF IInv
<1> QED BY <1>9, <1>10

LEMMA KillKeeps ==
  ASSUME IInv, NEW w \in Worker, Kill(w)
  PROVE  IInv' /\ Caused(db, db') /\ JobsStep
<1>1. DbOK(db) /\ work \in [Worker -> Memories] BY DEF IInv, Working
<1>2. work' = [work EXCEPT ![w] = Idle] /\ db' = db BY DEF Kill
<1>3. Idle \in Memories BY EmptyStack DEF Idle, Memories, MemoryRow
<1>4. Working' BY <1>1, <1>2, <1>3 DEF Working
<1>5. \A v \in Worker : v # w => work'[v] = work[v] BY <1>1, <1>2
<1>6. work'[w].job = None /\ None \notin Job BY <1>1, <1>2, BackfillAssumption DEF Idle
<1>7. Reporting' BY <1>2, <1>5, <1>6 DEF IInv, Reporting
<1> QED BY <1>1, <1>2, <1>4, <1>7 DEF IInv, Caused, JobsStep

(* An action of a run leaves the invariant and takes back only what has    *)
(* gone stale.                                                             *)
LEMMA SoundStep ==
  ASSUME IInv, NEW w \in Worker, Sound(db, db'), Moved(w)
  PROVE  IInv' /\ Caused(db, db') /\ JobsStep
<1>1. work \in [Worker -> Memories] BY DEF IInv, Working
<1>2. PICK m \in Memories : m.job = work[w].job /\ work' = [work EXCEPT ![w] = m] BY DEF Moved
<1>3. Working' BY <1>1, <1>2 DEF Working
<1>4. \A v \in Worker : work'[v].job = work[v].job BY <1>1, <1>2
<1>5. Reporting' BY <1>4 DEF IInv, Reporting, Sound, JobsRefreshed
<1>6. JobsStep BY DEF Sound, JobsRefreshed, JobsStep
<1> QED BY <1>3, <1>5, <1>6 DEF IInv, Sound

LEMMA NextStep ==
  ASSUME IInv, Next
  PROVE  IInv' /\ Caused(db, db') /\ JobsStep
<1>1. DbOK(db) /\ Working BY DEF IInv
<1>2. PICK w \in Worker :
        \/ Advance(w) \/ FetchFails(w) \/ BindFails(w) \/ ItemFails(w) \/ Kill(w)
        \/ \E j \in Job : \E resume \in Resume[j] : Begin(w, j, resume)
  BY DEF Next
<1>3. CASE \/ Enter(w) \/ ClaimProbe(w) \/ CommitLeaf(w) \/ CommitProbe(w) \/ DiscardPage(w)
           \/ Join(w) \/ FinishSplit(w) \/ Bind(w) \/ BindFails(w) \/ FetchFails(w)
  BY <1>1, <1>3, SoundStep, EnterKeeps, ClaimProbeKeeps, CommitLeafKeeps, CommitProbeKeeps,
     DiscardPageKeeps, JoinKeeps, FinishSplitKeeps, BindKeeps, BindFailsKeeps, FetchFailsKeeps
<1>4. CASE \/ Scan(w) \/ ClaimItem(w) \/ CommitItem(w) \/ ItemFails(w) \/ ItemsDone(w)
           \/ ClaimVerification(w) \/ CommitRound(w) \/ ClaimFold(w) \/ Fold(w)
  BY <1>1, <1>4, SoundStep, ScanKeeps, ClaimItemKeeps, CommitItemKeeps, ItemFailsKeeps,
     ItemsDoneKeeps, ClaimVerificationKeeps, CommitRoundKeeps, ClaimFoldKeeps, FoldKeeps
<1>5. CASE Finish(w) BY <1>5, FinishKeeps
<1>6. CASE Kill(w) BY <1>6, KillKeeps
<1>7. CASE \E j \in Job : \E resume \in Resume[j] : Begin(w, j, resume) BY <1>7, BeginKeeps
<1> QED BY <1>2, <1>3, <1>4, <1>5, <1>6, <1>7 DEF Advance

LEMMA StepIInv == IInv /\ [Next]_vars => IInv'
<1> SUFFICES ASSUME IInv, [Next]_vars PROVE IInv'
  OBVIOUS
<1>1. CASE Next BY <1>1, NextStep
<1>2. CASE UNCHANGED vars
  BY <1>2 DEF vars, IInv, Working, Reporting
<1> QED BY <1>1, <1>2

LEMMA BackfillInvariance == Spec => []IInv
BY InitIInv, StepIInv, PTL DEF Spec
-----------------------------------------------------------------------------
(* Every row has the type its schema gives it and the catalog is the codes *)
(* of the documents stored, whatever runs, kills and failures there are.   *)
THEOREM BackfillTypeCorrect == Spec => []TypeOK
<1>1. IInv => TypeOK
  <2> SUFFICES ASSUME IInv PROVE TypeOK
    OBVIOUS
  <2>1. db \in Database /\ db.catalog = CodesOf(db.docs) BY DEF IInv, DbOK, Stored
  <2>2. \A w \in Worker : \A k \in DOMAIN work[w].stack : work[w].stack[k].at \in Ats
    <3> SUFFICES ASSUME NEW w \in Worker, NEW k \in DOMAIN work[w].stack
                 PROVE  work[w].stack[k].at \in Ats
      OBVIOUS
    <3>1. work[w].stack \in Seq(Frames) BY DEF IInv, Working, Memories, MemoryRow, Stacks
    <3>2. work[w].stack[k] \in Frames BY <3>1
    <3> QED BY <3>2 DEF Frames, FrameRow
  <2> QED BY <2>1, <2>2 DEF Database, References, TypeOK
<1> QED BY <1>1, BackfillInvariance, PTL

(* A partition that counts as complete has stored what its basis promises: *)
(* all announcements of its days after a short page, all of the securities *)
(* its catalog revision knew after a saturated day.                        *)
THEOREM BackfillLeavesHold == Spec => []LeafHoldsItsDocuments
<1>1. IInv => LeafHoldsItsDocuments
  BY DEF IInv, DbOK, Stored, Holding, IsComplete, LeafHoldsItsDocuments
<1> QED BY <1>1, BackfillInvariance, PTL

(* A job reported complete refers to completed partitions only, whatever   *)
(* other jobs reopen or claim again.                                       *)
THEOREM BackfillCompleteIsTrusted == Spec => []CompleteJobIsTrusted
<1>1. IInv => CompleteJobIsTrusted
  BY DEF IInv, DbOK, Trusted, IsComplete, CompleteJobIsTrusted
<1> QED BY <1>1, BackfillInvariance, PTL

(* A report of completeness is taken back by a new run of its job or by    *)
(* stale evidence, never by an earlier run that ends late.                 *)
THEOREM BackfillReportTakenBack == Spec => ReportIsTakenBackForCause
<1>1. IInv /\ [Next]_vars =>
  [\A j \in Job : db.job[j].status = "complete" /\ db'.job[j].status # "complete" =>
       \/ db'.job[j].stale
       \/ \E w \in Worker : ~Busy(w) /\ work'[w].job = j]_vars
  BY NextStep DEF JobsStep
<1> QED BY <1>1, BackfillInvariance, PTL DEF Spec, ReportIsTakenBackForCause

(* A completed partition is asked for again only when the catalog outgrew  *)
(* it or a saturated day below it.                                         *)
THEOREM BackfillReopenedForCause == Spec => ReopenedForCause
<1>1. IInv /\ [Next]_vars =>
  [\A p \in Partition :
       db.part[p].status = "complete" /\ db'.part[p].status # "complete" =>
         \/ /\ db.part[p].basis = "saturated_catalog_convergence"
            /\ db.part[p].catalog # db.catalog
         \/ /\ db.part[p].basis = "split_children"
            /\ \E q \in Partition :
                 /\ Above(p, q) /\ db.part[q].probe
                 /\ db.part[q].status = "complete" => db.part[q].catalog # db.catalog]_vars
  BY NextStep DEF Caused, Cause, IsComplete
<1> QED BY <1>1, BackfillInvariance, PTL DEF Spec, ReopenedForCause
=============================================================================
