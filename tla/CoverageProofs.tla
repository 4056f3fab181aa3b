---------------------------- MODULE CoverageProofs ---------------------------
(***************************************************************************)
(* A proof that a job reported complete has every day of its range under a *)
(* completed leaf, for any workers, jobs, documents, securities and page   *)
(* sizes, and any number of runs, kills and failures, when every run is    *)
(* started with --resume and the ranges of a job do not overlap.           *)
(***************************************************************************)
EXTENDS BackfillProofs

Days(p) == p[1]..p[2]

(* The service passes --resume; a run without it may drop the probe of a   *)
(* day between the completion of a range and the join above it.            *)
ResumesOnly == \A j \in Job : Resume[j] \subseteq {TRUE}

(* The roots of a job are its months.                                      *)
RootsApart ==
  \A j \in Job : \A k, l \in 1..Len(Roots[j]) :
    k # l => Days(Roots[j][k]) \cap Days(Roots[j][l]) = {}
-----------------------------------------------------------------------------
(* The inductive invariant.                                                *)

(* A day is known when a leaf covers it or was once probed for it: a known *)
(* day that is not covered has been reopened.                              *)
Leaf(d, p) ==
  IsComplete(d, p) /\ d.part[p].basis \in {"short_page", "saturated_catalog_convergence"}
CoveredIn(d, t) == \E p \in Partition : t \in Days(p) /\ Leaf(d, p)
Known(d, t) == CoveredIn(d, t) \/ d.part[<<t, t>>].probe
AllKnown(d, p) == \A t \in Days(p) : Known(d, t)
AllCovered(d, p) == \A t \in Days(p) : CoveredIn(d, t)

LeavesOK(d) ==
  \A p \in Partition : IsComplete(d, p) =>
    /\ d.part[p].basis = "saturated_catalog_convergence" => d.part[p].probe
    /\ d.part[p].basis = "split_children" => ~IsDay(p)
RangesKnown(d) == \A p \in Partition : IsComplete(d, p) => AllKnown(d, p)

(* A range a job has done is covered, or a reference of the job says that  *)
(* some of it was reopened.                                                *)
Doubted(d, j, h) == \E g \in Partition : Within(g, h) /\ d.ref[j][g] = "needs_revalidation"
Settled(d, j, h) ==
  /\ d.ref[j][h] # "none"
  /\ d.ref[j][h] = "current" => IsComplete(d, h)
  /\ Doubted(d, j, h) \/ AllCovered(d, h)
JobsSettled(d) ==
  \A j \in Job : d.job[j].status = "complete" =>
    \A k \in 1..Len(Roots[j]) : Settled(d, j, Roots[j][k])

(* A worker's stack is a path down the tree of ranges ...                  *)
Half(f) == IF f.at = "left" THEN Left(f.part) ELSE Right(f.part)
FrameShape(f) ==
  /\ f.left = "true" => f.at \in {"right", "join", "joining"}
  /\ f.right = "true" => f.at \in {"join", "joining"}
  /\ f.at = "joining" => BothHalvesDone(f)
Path(s) ==
  /\ \A k \in 1..Len(s) : FrameShape(s[k])
  /\ \A k \in 1..Len(s) : k + 1 \in 1..Len(s) => s[k].part = Half(s[k + 1])
  /\ \A i, k \in 1..Len(s) : i < k => Within(s[i].part, Half(s[k]))
Bottom(s) == s[Len(s)].part
Shape(m) ==
  /\ m.resume
  /\ m.root \in 1..Len(Roots[m.job])
  /\ Path(m.stack)
  /\ m.stack # <<>> => Bottom(m.stack) = Roots[m.job][m.root]
  /\ m.stack = <<>> /\ m.sound => m.root = Len(Roots[m.job])

(* ... beside which lie the halves and the roots it has done.              *)
DoneHalves(f) ==
  {h \in Partition : (f.left = "true" /\ h = Left(f.part)) \/ (f.right = "true" /\ h = Right(f.part))}
PastHalves(s) == {h \in Partition : \E k \in 1..Len(s) : h \in DoneHalves(s[k])}
PastRoots(m) ==
  {h \in Partition : /\ m.sound
                     /\ \E k \in 1..m.root : /\ h = Roots[m.job][k]
                                             /\ k < m.root \/ m.stack = <<>>}
Past(m) == PastHalves(m.stack) \cup PastRoots(m)
Done(d, w, j, h) == AllKnown(d, h) /\ (RunsJob(d, j, w) => Settled(d, j, h))
Noted(d, m) ==
  m.stack # <<>> /\ m.stack[1].at \in {"fetch", "joining"} => d.ref[m.job][m.stack[1].part] # "none"
MemoryOK(d, w, m) ==
  m.job # None => Shape(m) /\ Noted(d, m) /\ \A h \in Past(m) : Done(d, w, m.job, h)

Coverage ==
  /\ LeavesOK(db) /\ RangesKnown(db) /\ JobsSettled(db)
  /\ \A w \in Worker : MemoryOK(db, w, work[w])
-----------------------------------------------------------------------------
(* Days and ranges.                                                        *)

LEMMA DaysAreDays ==
  ASSUME NEW p \in Partition, NEW t \in Days(p)
  PROVE  /\ t \in Nat /\ t \in Day /\ <<t, t>> \in Partition /\ IsDay(<<t, t>>)
         /\ Within(<<t, t>>, p) /\ t \in Days(<<t, t>>)
         /\ IsDay(p) => p = <<t, t>>
<1>1. /\ p = <<p[1], p[2]>> /\ p[1] \in Nat /\ p[2] \in Nat /\ p[1] <= p[2]
      /\ p[1] \in Day /\ p[2] \in Day
  BY PartitionParts
<1>2. t \in Nat /\ p[1] <= t /\ t <= p[2] BY <1>1 DEF Days
<1>3. t \in Day BY <1>1, BackfillAssumption DEF Days
<1>4. <<t, t>> \in Partition BY <1>2, <1>3 DEF Partition
<1>5. t \in Days(<<t, t>>) BY <1>2 DEF Days
<1>6. IsDay(p) => p = <<t, t>> BY <1>1, <1>2 DEF IsDay
<1> QED BY <1>2, <1>3, <1>4, <1>5, <1>6 DEF IsDay, Within

LEMMA HalvesCover ==
  ASSUME NEW p \in Partition, ~IsDay(p)
  PROVE  /\ Left(p) \in Partition /\ Right(p) \in Partition
         /\ Within(Left(p), p) /\ Within(Right(p), p)
         /\ ~Within(p, Left(p)) /\ ~Within(p, Right(p))
         /\ \A q \in Partition : ~(Within(q, Left(p)) /\ Within(q, Right(p)))
         /\ \A t \in Days(p) : t \in Days(Left(p)) \/ t \in Days(Right(p))
<1>1. /\ p = <<p[1], p[2]>> /\ p[1] \in Nat /\ p[2] \in Nat /\ p[1] <= p[2] /\ p[1] # p[2]
  BY PartitionParts DEF IsDay
<1>2. Left(p) \in Partition /\ Right(p) \in Partition BY HalvesOfRange
<1> DEFINE mid == Midpoint(p)
<1>3. mid \in Nat /\ p[1] <= mid /\ mid < p[2]
  <2>1. (p[2] - p[1]) \div 2 \in Nat /\ (p[2] - p[1]) \div 2 < p[2] - p[1] BY <1>1
  <2> QED BY <1>1, <2>1 DEF Midpoint
<1>4. Left(p) = <<p[1], mid>> /\ Right(p) = <<mid + 1, p[2]>> BY DEF Left, Right
<1> HIDE DEF mid
<1>5. \A q \in Partition : ~(Within(q, Left(p)) /\ Within(q, Right(p)))
  <2> SUFFICES ASSUME NEW q \in Partition, Within(q, Left(p)), Within(q, Right(p)) PROVE FALSE
    OBVIOUS
  <2>1. q[1] \in Nat /\ q[2] \in Nat /\ q[1] <= q[2] BY PartitionParts
  <2>2. q[2] <= mid /\ mid + 1 <= q[1] BY <1>4 DEF Within
  <2> QED BY <1>3, <2>1, <2>2
<1>6. \A t \in Days(p) : t \in Days(Left(p)) \/ t \in Days(Right(p))
  BY <1>1, <1>3, <1>4 DEF Days
<1> QED BY <1>1, <1>2, <1>3, <1>4, <1>5, <1>6 DEF Within

LEMMA WithinFurther ==
  ASSUME NEW p \in Partition, NEW q \in Partition, NEW r \in Partition, Within(p, q), Within(q, r)
  PROVE  Within(p, r)
BY PartitionParts DEF Within

LEMMA WithinDays ==
  ASSUME NEW p \in Partition, NEW q \in Partition, Within(p, q)
  PROVE  p[1] \in Days(p) /\ \A t \in Days(p) : t \in Days(q)
BY PartitionParts DEF Within, Days
-----------------------------------------------------------------------------
(* What a transaction leaves of the coverage: every day stays known, only  *)
(* the reference of job j to p is made anew, and a range that stays        *)
(* complete keeps its days covered.                                        *)
StaysCovered(d, e) ==
  \A h \in Partition : IsComplete(d, h) /\ IsComplete(e, h) =>
    \A t \in Days(h) : CoveredIn(d, t) => CoveredIn(e, t)
Carries(d, e, j, p) ==
  /\ \A i \in Job : e.job[i].holder = d.job[i].holder
  /\ \A t \in Day : Known(d, t) => Known(e, t)
  /\ RefsRecorded(d, e, p, j)
  /\ StaysCovered(d, e)
CoverageOK(d) == BasisOK(d) /\ LeavesOK(d) /\ RangesKnown(d)

LEMMA KnownStays ==
  ASSUME NEW d, NEW e, \A t \in Day : Known(d, t) => Known(e, t), NEW p \in Partition, AllKnown(d, p)
  PROVE  AllKnown(e, p)
BY DaysAreDays DEF AllKnown

(* What a job has done stays done while the job does not refer to a part   *)
(* of it again.                                                            *)
LEMMA SettledStays ==
  ASSUME NEW d \in Database, NEW e, NEW j, NEW p \in Partition, Carries(d, e, j, p),
         NEW i \in Job, NEW h \in Partition, Settled(d, i, h), i = j => ~Within(p, h)
  PROVE  Settled(e, i, h)
<1>1. \A g \in Partition : Within(g, h) =>
        \/ e.ref[i][g] = d.ref[i][g]
        \/ d.ref[i][g] = "current" /\ e.ref[i][g] = "needs_revalidation"
  BY DEF Carries, RefsRecorded
<1>2. Within(h, h) BY PartitionParts DEF Within
<1>3. e.ref[i][h] # "none" BY <1>1, <1>2 DEF Settled
<1>4. ASSUME e.ref[i][h] = "current" PROVE IsComplete(d, h) /\ IsComplete(e, h)
  <2>1. d.ref[i][h] = "current" BY <1>1, <1>2, <1>4
  <2>2. IsComplete(d, h) BY <2>1 DEF Settled
  <2> QED BY <1>4, <2>2 DEF Carries, RefsRecorded
<1>5. Doubted(d, i, h) => Doubted(e, i, h) BY <1>1 DEF Doubted
<1>6. ASSUME AllCovered(d, h) PROVE Doubted(e, i, h) \/ AllCovered(e, h)
  <2>1. CASE IsComplete(d, h) /\ IsComplete(e, h)
    BY <1>6, <2>1 DEF Carries, StaysCovered, AllCovered
  <2>2. CASE ~(IsComplete(d, h) /\ IsComplete(e, h))
    <3>1. e.ref[i][h] # "current" BY <1>4, <2>2
    <3>2. d.ref[i][h] \in {"none", "current", "needs_revalidation"} BY DEF Database, References
    <3>3. e.ref[i][h] = "needs_revalidation" BY <1>1, <1>2, <1>3, <3>1, <3>2
    <3> QED BY <1>2, <3>3 DEF Doubted
  <2> QED BY <2>1, <2>2
<1> QED BY <1>3, <1>4, <1>5, <1>6 DEF Settled

(* A database where the same partitions stand as before.                   *)
LEMMA SameParts ==
  ASSUME NEW d, NEW e, e.part = d.part
  PROVE  /\ \A p \in Partition : (IsComplete(e, p) <=> IsComplete(d, p)) /\ (Leaf(e, p) <=> Leaf(d, p))
         /\ \A t : (CoveredIn(e, t) <=> CoveredIn(d, t)) /\ (Known(e, t) <=> Known(d, t))
         /\ CoverageOK(d) => CoverageOK(e)
<1>1. \A p \in Partition : (IsComplete(e, p) <=> IsComplete(d, p)) /\ (Leaf(e, p) <=> Leaf(d, p))
  BY DEF IsComplete, Leaf
<1>2. \A t : (CoveredIn(e, t) <=> CoveredIn(d, t)) /\ (Known(e, t) <=> Known(d, t))
  BY <1>1 DEF CoveredIn, Known
<1>3. CoverageOK(d) => BasisOK(e) /\ LeavesOK(e) BY <1>1 DEF CoverageOK, BasisOK, LeavesOK
<1>4. CoverageOK(d) => RangesKnown(e) BY <1>1, <1>2 DEF CoverageOK, RangesKnown, AllKnown
<1> QED BY <1>1, <1>2, <1>3, <1>4 DEF CoverageOK

LEMMA SamePartsCarry ==
  ASSUME NEW d, NEW e, e.part = d.part, e.ref = d.ref, e.job = d.job, NEW p,
         CoverageOK(d)
  PROVE  CoverageOK(e) /\ Carries(d, e, None, p)
<1>1. /\ \A g \in Partition : IsComplete(e, g) <=> IsComplete(d, g)
      /\ \A t : (CoveredIn(e, t) <=> CoveredIn(d, t)) /\ (Known(e, t) <=> Known(d, t))
      /\ CoverageOK(e)
  BY SameParts
<1>2. RefsRecorded(d, e, p, None) BY <1>1, BackfillAssumption DEF RefsRecorded
<1> QED BY <1>1, <1>2 DEF Carries, StaysCovered

(* A reopening leaves all days known: what it reopens was probed.          *)
LEMMA RefreshCarries ==
  ASSUME NEW d, NEW e, CoverageOK(d), NEW p \in Partition, NEW j \in Job,
         Refreshes(d, e), RefsRecorded(d, e, p, j)
  PROVE  CoverageOK(e) /\ Carries(d, e, j, p)
<1>1. \A q \in Partition :
        /\ e.part[q].probe = d.part[q].probe
        /\ IsComplete(e, q) => IsComplete(d, q) /\ e.part[q].basis = d.part[q].basis
  BY DEF Refreshes, RowsRefreshed, SameRow, IsComplete
<1>2. \A q \in Partition : IsComplete(d, q) /\ d.part[q].basis = "short_page" =>
        IsComplete(e, q) /\ e.part[q].basis = "short_page"
  BY <1>1 DEF Refreshes, Caused, Cause
<1>3. ASSUME NEW q \in Partition, Leaf(d, q), ~Leaf(e, q)
      PROVE  IsDay(q) /\ d.part[q].probe /\ IsComplete(d, q) /\ ~IsComplete(e, q)
  <2>1. IsComplete(d, q) /\ d.part[q].basis = "saturated_catalog_convergence"
    BY <1>2, <1>3 DEF Leaf
  <2>2. d.part[q].probe /\ IsDay(q) BY <2>1 DEF CoverageOK, LeavesOK, BasisOK
  <2> QED BY <1>1, <1>3, <2>1, <2>2 DEF Leaf
<1>4. BasisOK(e) BY <1>1 DEF CoverageOK, BasisOK
<1>5. LeavesOK(e) BY <1>1 DEF CoverageOK, LeavesOK
<1>6. ASSUME NEW t \in Day, Known(d, t) PROVE Known(e, t)
  <2>1. CASE d.part[<<t, t>>].probe
    <3>1. <<t, t>> \in Partition BY <1>6, BackfillAssumption DEF Partition
    <3> QED BY <1>1, <2>1, <3>1 DEF Known
  <2>2. CASE CoveredIn(d, t)
    <3>1. PICK q \in Partition : t \in Days(q) /\ Leaf(d, q) BY <2>2 DEF CoveredIn
    <3>2. CASE Leaf(e, q) BY <3>1, <3>2 DEF Known, CoveredIn
    <3>3. CASE ~Leaf(e, q)
      <4>1. IsDay(q) /\ d.part[q].probe BY <1>3, <3>1, <3>3
      <4>2. q = <<t, t>> BY <3>1, <4>1, DaysAreDays
      <4>3. e.part[q].probe BY <1>1, <4>1
      <4> QED BY <4>2, <4>3 DEF Known
    <3> QED BY <3>2, <3>3
  <2> QED BY <1>6, <2>1, <2>2 DEF Known
<1>7. RangesKnown(e)
  <2> SUFFICES ASSUME NEW q \in Partition, IsComplete(e, q) PROVE AllKnown(e, q)
    BY DEF RangesKnown
  <2>1. AllKnown(d, q) BY <1>1 DEF CoverageOK, RangesKnown
  <2> QED BY <1>6, <2>1, KnownStays
<1>8. StaysCovered(d, e)
  <2> SUFFICES ASSUME NEW h \in Partition, IsComplete(d, h), IsComplete(e, h),
                      NEW t \in Days(h), CoveredIn(d, t)
               PROVE  CoveredIn(e, t)
    BY DEF StaysCovered
  <2>1. PICK q \in Partition : t \in Days(q) /\ Leaf(d, q) BY DEF CoveredIn
  <2>2. CASE Leaf(e, q) BY <2>1, <2>2 DEF CoveredIn
  <2>3. CASE Leaf(e, h) BY <2>3 DEF CoveredIn
  <2>4. CASE ~Leaf(e, q) /\ ~Leaf(e, h)
    <3>1. IsDay(q) /\ IsComplete(d, q) /\ ~IsComplete(e, q) BY <1>3, <2>1, <2>4
    <3>2. q = <<t, t>> BY <2>1, <3>1, DaysAreDays
    <3>5. Within(q, h) BY <3>2, DaysAreDays
    <3>3. Above(h, q) BY <3>1, <3>5 DEF Above
    <3>4. d.part[h].basis = "split_children"
      <4>1. e.part[h].basis = d.part[h].basis BY <1>1
      <4>2. e.part[h].basis \notin {"short_page", "saturated_catalog_convergence"}
        BY <2>4 DEF Leaf
      <4> QED BY <4>1, <4>2 DEF CoverageOK, BasisOK
    <3> QED BY <3>1, <3>3, <3>4 DEF Refreshes, Upward
  <2> QED BY <2>2, <2>3, <2>4
<1>9. \A i \in Job : e.job[i].holder = d.job[i].holder BY DEF Refreshes, JobsRefreshed
<1> QED BY <1>4, <1>5, <1>6, <1>7, <1>8, <1>9 DEF CoverageOK, Carries

(* The row of a partition not complete is written: it becomes a leaf, a    *)
(* split over known days, or stays open with what was probed.              *)
LEMMA RowCarries ==
  ASSUME NEW d, NEW e, CoverageOK(d), NEW p \in Partition, ~IsComplete(d, p),
         \A q \in Partition : q # p => e.part[q] = d.part[q],
         e.ref = d.ref, e.job = d.job,
         e.part[p].probe => IsDay(p),
         \/ ~IsComplete(e, p) /\ (d.part[p].probe => e.part[p].probe)
         \/ IsComplete(e, p) /\ e.part[p].basis = "short_page" /\ ~e.part[p].probe
         \/ /\ IsComplete(e, p) /\ e.part[p].basis = "saturated_catalog_convergence"
            /\ e.part[p].probe
         \/ /\ IsComplete(e, p) /\ e.part[p].basis = "split_children"
            /\ ~IsDay(p) /\ AllKnown(d, p)
  PROVE  CoverageOK(e) /\ Carries(d, e, None, p)
<1>1. \A q \in Partition : IsComplete(d, q) =>
        IsComplete(e, q) /\ e.part[q].basis = d.part[q].basis
  BY DEF IsComplete
<1>2. \A t : CoveredIn(d, t) => CoveredIn(e, t) BY <1>1 DEF CoveredIn, Leaf
<1>3. BasisOK(e) BY DEF CoverageOK, BasisOK, IsComplete
<1>4. LeavesOK(e)
  <2> SUFFICES ASSUME NEW q \in Partition, IsComplete(e, q)
               PROVE  /\ e.part[q].basis = "saturated_catalog_convergence" => e.part[q].probe
                      /\ e.part[q].basis = "split_children" => ~IsDay(q)
    BY DEF LeavesOK
  <2>1. CASE q = p BY <2>1
  <2>2. CASE q # p BY <2>2 DEF CoverageOK, LeavesOK, IsComplete
  <2> QED BY <2>1, <2>2
<1>5. ASSUME NEW t \in Day, Known(d, t) PROVE Known(e, t)
  <2>1. CASE CoveredIn(d, t) BY <1>2, <2>1 DEF Known
  <2>2. CASE d.part[<<t, t>>].probe
    <3>1. <<t, t>> \in Partition BY <1>5, BackfillAssumption DEF Partition
    <3>2. CASE <<t, t>> # p BY <2>2, <3>1, <3>2 DEF Known
    <3>3. CASE <<t, t>> = p
      <4>1. t \in Days(p) BY <3>3, <3>1, PartitionParts DEF Days
      <4>2. IsDay(p) BY <3>3 DEF IsDay
      <4>3. e.part[p].probe \/ Leaf(e, p) BY <2>2, <3>3, <4>2 DEF Leaf
      <4> QED BY <3>3, <4>1, <4>3 DEF Known, CoveredIn
    <3> QED BY <3>2, <3>3
  <2> QED BY <1>5, <2>1, <2>2 DEF Known
<1>6. RangesKnown(e)
  <2> SUFFICES ASSUME NEW q \in Partition, IsComplete(e, q) PROVE AllKnown(e, q)
    BY DEF RangesKnown
  <2>1. CASE Leaf(e, q) BY <2>1 DEF AllKnown, Known, CoveredIn
  <2>2. CASE ~Leaf(e, q)
    <3>1. AllKnown(d, q)
      <4>1. CASE q = p BY <2>2, <4>1 DEF Leaf
      <4>2. CASE q # p BY <4>2 DEF CoverageOK, RangesKnown, IsComplete
      <4> QED BY <4>1, <4>2
    <3> QED BY <1>5, <3>1, KnownStays
  <2> QED BY <2>1, <2>2
<1>7. StaysCovered(d, e) BY <1>2 DEF StaysCovered
<1>8. RefsRecorded(d, e, p, None) BY <1>1, BackfillAssumption DEF RefsRecorded
<1> QED BY <1>3, <1>4, <1>5, <1>6, <1>7, <1>8 DEF CoverageOK, Carries

(* A claim after a reference.                                              *)
LEMMA CarriesFurther ==
  ASSUME NEW d, NEW e, NEW f, NEW j, NEW p, Carries(d, e, j, p), Carries(e, f, None, p),
         \A q \in Partition : IsComplete(f, q) => IsComplete(e, q)
  PROVE  Carries(d, f, j, p)
<1>1. \A i \in Job : f.job[i].holder = d.job[i].holder BY DEF Carries
<1>2. \A t \in Day : Known(d, t) => Known(f, t) BY DEF Carries
<1>3. RefsRecorded(d, f, p, j)
  <2> SUFFICES ASSUME NEW i \in Job, NEW g \in Partition
               PROVE  /\ \/ f.ref[i][g] = d.ref[i][g]
                         \/ d.ref[i][g] = "current" /\ f.ref[i][g] = "needs_revalidation"
                         \/ i = j /\ g = p
                      /\ IsComplete(d, g) /\ ~IsComplete(f, g) => f.ref[i][g] # "current"
                      /\ i = j /\ g = p => f.ref[i][g] # "none"
    BY DEF RefsRecorded
  <2>1. /\ \/ f.ref[i][g] = e.ref[i][g]
           \/ e.ref[i][g] = "current" /\ f.ref[i][g] = "needs_revalidation"
        /\ IsComplete(e, g) /\ ~IsComplete(f, g) => f.ref[i][g] # "current"
    BY BackfillAssumption DEF Carries, RefsRecorded
  <2>2. /\ \/ e.ref[i][g] = d.ref[i][g]
           \/ d.ref[i][g] = "current" /\ e.ref[i][g] = "needs_revalidation"
           \/ i = j /\ g = p
        /\ IsComplete(d, g) /\ ~IsComplete(e, g) => e.ref[i][g] # "current"
        /\ i = j /\ g = p => e.ref[i][g] # "none"
    BY DEF Carries, RefsRecorded
  <2> QED BY <2>1, <2>2
<1>4. StaysCovered(d, f)
  <2> SUFFICES ASSUME NEW h \in Partition, IsComplete(d, h), IsComplete(f, h),
                      NEW t \in Days(h), CoveredIn(d, t)
               PROVE  CoveredIn(f, t)
    BY DEF StaysCovered
  <2>1. IsComplete(e, h) OBVIOUS
  <2>2. CoveredIn(e, t) BY <2>1 DEF Carries, StaysCovered
  <2> QED BY <2>1, <2>2 DEF Carries, StaysCovered
<1> QED BY <1>1, <1>2, <1>3, <1>4 DEF Carries
-----------------------------------------------------------------------------
(* A range a job finds complete when it refers to it is covered: were a    *)
(* probed day in it open, the reference would have reopened the range.     *)

LEMMA NoDescendants ==
  ASSUME NEW d
  PROVE  ForEach(ReopenAbove, d, {}) = d
<1>1. {} \in SUBSET Partition /\ d \in {d} OBVIOUS
<1>2. \A e \in {d} : \A q \in {} : ReopenAbove(e, q) \in {d} OBVIOUS
<1>3. ForEach(ReopenAbove, d, {}) \in {d}
  <2> DEFINE S == {d}
  <2> HIDE DEF S
  <2>1. d \in S /\ \A e \in S : \A q \in {} : ReopenAbove(e, q) \in S BY DEF S
  <2>2. ForEach(ReopenAbove, d, {}) \in S BY <1>1, <2>1, AboveLoop
  <2> QED BY <2>2 DEF S
<1> QED BY <1>3

LEMMA DescendantsComplete ==
  ASSUME NEW d \in Database, BasisOK(d), Trusted(d), NEW p \in Partition,
         NEW e, e = ReopenForInvalidDescendants(d, p),
         IsComplete(e, p), e.part[p].basis = "split_children",
         NEW q \in Partition, Within(q, p), d.part[q].probe
  PROVE  IsComplete(e, q)
<1> DEFINE rows == {o \in Partition : /\ Within(o, p) /\ d.part[o].probe
                                      /\ d.part[o].status # "complete"}
           S == {x \in Database : Reopens(d, x) /\ Trusted(x)}
<1>1. \A x \in S : \A o \in rows : ReopenAbove(x, o) \in S
  <2> SUFFICES ASSUME NEW x \in S, NEW o \in rows PROVE ReopenAbove(x, o) \in S
    OBVIOUS
  <2>1. RowsReopened(d, x) BY DEF Reopens
  <2>2. BasisOK(x) BY <2>1, BasisKept
  <2>3. o \in Partition /\ x.part[o].probe /\ ~IsComplete(x, o)
    BY <2>1 DEF RowsReopened, SameRow, IsComplete
  <2>4. /\ ReopenAbove(x, o) \in Database /\ Reopens(x, ReopenAbove(x, o))
        /\ Trusted(ReopenAbove(x, o))
    BY <2>2, <2>3, AboveReopens
  <2>5. Reopens(d, ReopenAbove(x, o)) BY <2>4, ReopensFurther
  <2> QED BY <2>4, <2>5
<1>2. d \in S BY ReopensNothing
<1>3. rows \in SUBSET Partition OBVIOUS
<1>4. e = ForEach(ReopenAbove, d, rows) BY DEF ReopenForInvalidDescendants
<1>5. rows = {}
  <2> SUFFICES ASSUME rows # {} PROVE FALSE
    OBVIOUS
  <2>1. PICK x \in S : \E o \in rows : e = ReopenAbove(x, o)
    <3> HIDE DEF S, rows
    <3>1. rows # {} =>
            \E x \in S : \E o \in rows : ForEach(ReopenAbove, d, rows) = ReopenAbove(x, o)
      BY <1>1, <1>2, <1>3, AboveLoop
    <3> QED BY <1>4, <3>1
  <2>2. PICK o \in rows : e = ReopenAbove(x, o) BY <2>1
  <2>3. RowsReopened(d, x) /\ x \in Database /\ Trusted(x) BY DEF Reopens
  <2>4. BasisOK(x) BY <2>3, BasisKept
  <2>5. o \in Partition /\ x.part[o].probe /\ ~IsComplete(x, o)
    BY <2>3 DEF RowsReopened, SameRow, IsComplete
  <2>6. /\ Reopens(x, e)
        /\ \A r \in Partition :
              Above(r, o) /\ IsComplete(x, r) /\ x.part[r].basis = "split_children" =>
                ~IsComplete(e, r)
    BY <2>2, <2>3, <2>4, <2>5, AboveReopens
  <2>7. IsComplete(x, p) /\ x.part[p].basis = "split_children"
    BY <2>6 DEF Reopens, RowsReopened, IsComplete
  <2>8. Above(p, o) BY <2>5, <2>7 DEF Above
  <2> QED BY <2>6, <2>7, <2>8
<1>6. e = d BY <1>4, <1>5, NoDescendants
<1> QED BY <1>5, <1>6 DEF IsComplete

LEMMA RevalidatedIsCovered ==
  ASSUME NEW d \in Database, CoverageOK(d), Trusted(d), NEW p \in Partition,
         IsComplete(Revalidate(d, p), p), CoverageOK(Revalidate(d, p))
  PROVE  AllCovered(Revalidate(d, p), p)
<1> DEFINE x == ReopenForCatalogGrowth(d, p)
           e == Revalidate(d, p)
<1>1. BasisOK(d) BY DEF CoverageOK
<1>2. x \in Database /\ Reopens(d, x) /\ Trusted(x) BY <1>1, GrowthReopens
<1>3. e = ReopenForInvalidDescendants(x, p) BY DEF Revalidate
<1>4. IsComplete(e, p) /\ CoverageOK(e) OBVIOUS
<1> HIDE DEF x, e
<1>5. BasisOK(x) BY <1>1, <1>2, BasisKept DEF Reopens
<1>6. Reopens(x, e) BY <1>2, <1>3, <1>5, DescendantsReopen
<1>7. CASE Leaf(e, p) BY <1>7 DEF AllCovered, CoveredIn, e
<1>8. CASE ~Leaf(e, p)
  <2>1. e.part[p].basis = "split_children" BY <1>4, <1>8 DEF Leaf, CoverageOK, BasisOK
  <2> SUFFICES ASSUME NEW t \in Days(p) PROVE CoveredIn(e, t)
    BY DEF AllCovered, e
  <2>2. Known(e, t) BY <1>4 DEF CoverageOK, RangesKnown, AllKnown
  <2>3. CASE e.part[<<t, t>>].probe
    <3>1. <<t, t>> \in Partition /\ Within(<<t, t>>, p) /\ t \in Days(<<t, t>>)
      BY DaysAreDays
    <3>2. x.part[<<t, t>>].probe BY <1>6, <2>3, <3>1 DEF Reopens, RowsReopened, SameRow
    <3>3. IsComplete(e, <<t, t>>) BY <1>2, <1>3, <1>4, <1>5, <2>1, <3>1, <3>2, DescendantsComplete
    <3>4. Leaf(e, <<t, t>>) BY <1>4, <2>3, <3>1, <3>3 DEF CoverageOK, BasisOK, Leaf
    <3> QED BY <3>1, <3>4 DEF CoveredIn
  <2> QED BY <2>2, <2>3 DEF Known
<1> QED BY <1>7, <1>8

(* What reference_backfill_partition and start_backfill_partition leave.   *)
LEMMA ReferenceCarries ==
  ASSUME NEW d \in Database, CoverageOK(d), Trusted(d), NEW p \in Partition, NEW j \in Job
  PROVE  /\ CoverageOK(Reference(d, p, j)) /\ Carries(d, Reference(d, p, j), j, p)
         /\ EvidenceStatus(d, p, j) = "current" /\ IsComplete(Reference(d, p, j), p) =>
              AllCovered(Reference(d, p, j), p)
<1> DEFINE r == Record(d, p, j)
           e == Reference(d, p, j)
<1>1. BasisOK(d) BY DEF CoverageOK
<1>2. e \in Database /\ Trusted(e) /\ Refreshes(d, e) /\ RefsRecorded(d, e, p, j)
  BY <1>1, ReferenceRefreshes
<1> HIDE DEF e
<1>3. CoverageOK(e) /\ Carries(d, e, j, p) BY <1>2, RefreshCarries
<1>4. ASSUME EvidenceStatus(d, p, j) = "current", IsComplete(e, p) PROVE AllCovered(e, p)
  <2>1. /\ r \in Database /\ Trusted(r)
        /\ \A q \in Partition : /\ r.part[q].probe = d.part[q].probe
                                /\ r.part[q].status = d.part[q].status
                                /\ r.part[q].basis = d.part[q].basis
        /\ r.ref = [d.ref EXCEPT ![j][p] = EvidenceStatus(d, p, j)]
    BY RecordParts DEF SameRow
  <2>2. d.ref \in [Job -> [Partition -> References]] BY DEF Database
  <2>3. r.ref[j][p] = "current" BY <1>4, <2>1, <2>2
  <2>4. e = Revalidate(r, p) BY <2>3 DEF Reference, e
  <2> HIDE DEF r
  <2>5. CoverageOK(r)
    <3>1. \A q \in Partition : (IsComplete(r, q) <=> IsComplete(d, q)) /\ (Leaf(r, q) <=> Leaf(d, q))
      BY <2>1 DEF IsComplete, Leaf
    <3>2. BasisOK(r) /\ LeavesOK(r) BY <2>1, <3>1 DEF CoverageOK, BasisOK, LeavesOK
    <3>3. \A t \in Day : Known(d, t) => Known(r, t)
      <4> SUFFICES ASSUME NEW t \in Day, Known(d, t) PROVE Known(r, t)
        OBVIOUS
      <4>1. <<t, t>> \in Partition BY BackfillAssumption DEF Partition
      <4> QED BY <2>1, <3>1, <4>1 DEF Known, CoveredIn
    <3>4. RangesKnown(r) BY <3>1, <3>3, KnownStays DEF CoverageOK, RangesKnown
    <3> QED BY <3>2, <3>4 DEF CoverageOK
  <2> QED BY <1>3, <1>4, <2>1, <2>4, <2>5, RevalidatedIsCovered
<1> QED BY <1>3, <1>4 DEF e

LEMMA PrepareCarries ==
  ASSUME NEW d \in Database, CoverageOK(d), Trusted(d), NEW p \in Partition, NEW j \in Job
  PROVE  /\ CoverageOK(Prepare(d, p, j)) /\ Carries(d, Prepare(d, p, j), j, p)
         /\ EvidenceStatus(d, p, j) = "current" /\ IsComplete(Prepare(d, p, j), p) =>
              AllCovered(Prepare(d, p, j), p)
<1> DEFINE e == Prepare(d, p, j)
<1>1. BasisOK(d) BY DEF CoverageOK
<1>2. e \in Database /\ Trusted(e) /\ Refreshes(d, e) /\ RefsRecorded(d, e, p, j)
  BY <1>1, PrepareRefreshes
<1>3. CASE d.part[p].status # "absent"
  <2>1. e = Reference(d, p, j) BY <1>3 DEF Prepare
  <2> QED BY <2>1, ReferenceCarries
<1>4. CASE d.part[p].status = "absent"
  <2> HIDE DEF e
  <2>1. CoverageOK(e) /\ Carries(d, e, j, p) BY <1>2, RefreshCarries
  <2>2. ~IsComplete(e, p) BY <1>2, <1>4 DEF Refreshes, RowsRefreshed, IsComplete
  <2> QED BY <2>1, <2>2 DEF e
<1> QED BY <1>3, <1>4

(* The job that refers to a complete partition has done it.                *)
LEMMA FoundComplete ==
  ASSUME NEW d, NEW e, NEW j \in Job, NEW p \in Partition, NEW w,
         Carries(d, e, j, p), IsComplete(e, p), AllCovered(e, p)
  PROVE  Done(e, w, j, p)
BY DEF Carries, RefsRecorded, Done, Settled, AllKnown, AllCovered, Known
-----------------------------------------------------------------------------
(* Stacks: what is done beside the path never contains the range at work.  *)

LEMMA FrameParts ==
  ASSUME NEW s \in Stacks
  PROVE  /\ s \in Seq(Frames) /\ Len(s) \in Nat
         /\ s # <<>> => 1 \in 1..Len(s)
         /\ \A k \in 1..Len(s) :
              /\ s[k] \in Frames /\ s[k].part \in Partition
              /\ s[k].at \in Splitting => ~IsDay(s[k].part)
              /\ k # 1 => s[k].at \in Halves /\ ~IsDay(s[k].part) /\ Half(s[k]) \in Partition
                          /\ Within(Half(s[k]), s[k].part)
<1>1. s \in Seq(Frames) /\ Len(s) \in Nat BY DEF Stacks
<1>2. s # <<>> => 1 \in 1..Len(s) BY <1>1
<1>3. ASSUME NEW k \in 1..Len(s)
      PROVE  /\ s[k] \in Frames /\ s[k].part \in Partition
             /\ s[k].at \in Splitting => ~IsDay(s[k].part)
             /\ k # 1 => s[k].at \in Halves /\ ~IsDay(s[k].part) /\ Half(s[k]) \in Partition
                         /\ Within(Half(s[k]), s[k].part)
  <2>1. s[k] \in Frames BY <1>1
  <2>2. s[k].part \in Partition /\ (s[k].at \in Splitting => ~IsDay(s[k].part))
    BY <2>1 DEF Frames, FrameRow
  <2>3. k # 1 => s[k].at \in Halves BY <1>1, <1>3 DEF Stacks
  <2>4. k # 1 => ~IsDay(s[k].part) BY <2>2, <2>3 DEF Splitting
  <2>5. k # 1 => Half(s[k]) \in Partition /\ Within(Half(s[k]), s[k].part)
    BY <2>2, <2>4, HalvesCover DEF Half
  <2> QED BY <2>1, <2>2, <2>3, <2>4, <2>5
<1> QED BY <1>1, <1>2, <1>3

(* The top frame is replaced by one of the same range.                     *)
LEMMA PathReplaced ==
  ASSUME NEW s \in Stacks, s # <<>>, Path(s),
         NEW f \in Frames, FrameShape(f), f.part = s[1].part,
         NEW t, Len(t) = Len(s), t[1] = f, \A k \in 2..Len(s) : t[k] = s[k]
  PROVE  /\ Path(t) /\ Bottom(t) = Bottom(s)
         /\ \A h \in PastHalves(t) : h \in PastHalves(s) \/ h \in DoneHalves(f)
<1>1. /\ Len(s) \in Nat /\ 1 \in 1..Len(s)
      /\ \A k \in 1..Len(s) : k = 1 \/ k \in 2..Len(s)
  BY FrameParts
<1>2. \A k \in 1..Len(s) : t[k].part = s[k].part BY <1>1
<1>3. \A k \in 1..Len(s) : k # 1 => t[k] = s[k] BY <1>1
<1>4. \A k \in 1..Len(t) : FrameShape(t[k]) BY <1>3 DEF Path
<1>5. \A k \in 1..Len(t) : k + 1 \in 1..Len(t) => t[k].part = Half(t[k + 1])
  BY <1>1, <1>2, <1>3 DEF Path
<1>6. \A i, k \in 1..Len(t) : i < k => Within(t[i].part, Half(t[k]))
  BY <1>1, <1>2, <1>3 DEF Path
<1>7. Bottom(t) = Bottom(s) BY <1>1, <1>2 DEF Bottom
<1>8. \A h \in PastHalves(t) : h \in PastHalves(s) \/ h \in DoneHalves(f)
  BY <1>3 DEF PastHalves
<1> QED BY <1>4, <1>5, <1>6, <1>7, <1>8 DEF Path

(* A frame is pushed for a half of the range below it.                     *)
LEMMA PathPushed ==
  ASSUME NEW s \in Stacks, s # <<>>, Path(s),
         NEW f \in Frames, FrameShape(f), NEW g \in Frames, FrameShape(g),
         g.at \in Halves, g.part = s[1].part, f.part = Half(g),
         NEW t, Len(t) = Len(s) + 1, t[1] = f, t[2] = g, \A k \in 3..(Len(s) + 1) : t[k] = s[k - 1]
  PROVE  /\ Path(t) /\ Bottom(t) = Bottom(s)
         /\ \A h \in PastHalves(t) :
              h \in PastHalves(s) \/ h \in DoneHalves(f) \/ h \in DoneHalves(g)
<1>1. Len(s) \in Nat /\ 1 \in 1..Len(s) BY FrameParts
<1>2. \A k \in 1..Len(t) : k = 1 \/ k = 2 \/ (k \in 3..(Len(s) + 1) /\ k - 1 \in 2..Len(s))
  BY <1>1
<1>3. \A k \in 1..Len(t) : k # 1 => t[k].part = s[k - 1].part BY <1>1, <1>2
<1>4. \A k \in 1..Len(t) : k # 1 /\ k # 2 => t[k] = s[k - 1] /\ k - 1 \in 1..Len(s) BY <1>1, <1>2
<1>5. \A k \in 1..Len(t) : FrameShape(t[k]) BY <1>2, <1>4 DEF Path
<1>6. ASSUME NEW k \in 1..Len(t), k + 1 \in 1..Len(t) PROVE t[k].part = Half(t[k + 1])
  <2>1. CASE k = 1 BY <2>1
  <2>2. CASE k # 1
    <3>1. t[k].part = s[k - 1].part BY <1>3, <2>2
    <3>2. t[k + 1] = s[k] /\ k \in 1..Len(s) /\ k - 1 \in 1..Len(s) BY <1>1, <1>4, <1>6, <2>2
    <3>3. s[k - 1].part = Half(s[(k - 1) + 1])
      <4>1. (k - 1) + 1 = k OBVIOUS
      <4> QED BY <3>2, <4>1 DEF Path
    <3> QED BY <3>1, <3>2, <3>3
  <2> QED BY <2>1, <2>2
<1>7. ASSUME NEW i \in 1..Len(t), NEW k \in 1..Len(t), i < k
      PROVE  Within(t[i].part, Half(t[k]))
  <2>1. f.part \in Partition /\ g.part \in Partition /\ ~IsDay(g.part)
    BY DEF Frames, FrameRow, Splitting
  <2>2. Within(f.part, g.part) BY <2>1, HalvesCover DEF Half
  <2>3. CASE k = 2
    <3>1. i = 1 BY <1>7, <2>3
    <3> QED BY <2>1, <2>3, <3>1, PartitionParts DEF Within
  <2>4. CASE k # 2
    <3>1. k # 1 BY <1>7
    <3>2. t[k] = s[k - 1] /\ k - 1 \in 1..Len(s) BY <1>4, <2>4, <3>1
    <3>3. k - 1 # 1 BY <2>4
    <3>4. CASE i # 1
      <4>1. t[i].part = s[i - 1].part /\ i - 1 \in 1..Len(s) /\ i - 1 < k - 1
        BY <1>1, <1>3, <1>7, <3>4
      <4> QED BY <3>2, <4>1 DEF Path
    <3>5. CASE i = 1
      <4>1. 1 < k - 1 BY <3>2, <3>3
      <4>2. Within(s[1].part, Half(s[k - 1])) BY <1>1, <3>2, <4>1 DEF Path
      <4>3. Half(s[k - 1]) \in Partition BY <3>2, <3>3, FrameParts
      <4>4. Within(f.part, Half(s[k - 1])) BY <2>1, <2>2, <4>2, <4>3, WithinFurther
      <4> QED BY <3>2, <3>5, <4>4
    <3> QED BY <3>4, <3>5
  <2> QED BY <2>3, <2>4
<1>8. Bottom(t) = Bottom(s)
  <2>1. Len(t) \in 1..Len(t) /\ Len(t) # 1 /\ Len(t) - 1 = Len(s) BY <1>1
  <2> QED BY <1>3, <2>1 DEF Bottom
<1>9. \A h \in PastHalves(t) :
        h \in PastHalves(s) \/ h \in DoneHalves(f) \/ h \in DoneHalves(g)
  BY <1>4 DEF PastHalves
<1> QED BY <1>5, <1>6, <1>7, <1>8, <1>9 DEF Path

LEMMA PathPopped ==
  ASSUME NEW s \in Stacks, s # <<>>, Path(s), Tail(s) # <<>>
  PROVE  /\ Tail(s) \in Stacks /\ Path(Tail(s)) /\ Bottom(Tail(s)) = Bottom(s)
         /\ Tail(s)[1] \in Frames /\ Tail(s)[1].at \in Halves /\ s[1].part = Half(Tail(s)[1])
         /\ FrameShape(Tail(s)[1]) /\ ~IsDay(Tail(s)[1].part)
         /\ PastHalves(Tail(s)) \subseteq PastHalves(s)
         /\ DoneHalves(Tail(s)[1]) \subseteq PastHalves(s)
<1> DEFINE t == Tail(s)
<1>1. s \in Seq(Frames) /\ Len(s) \in Nat /\ 1 \in 1..Len(s) BY FrameParts
<1>2. Len(t) = Len(s) - 1 /\ (\A k \in 1..Len(t) : t[k] = s[k + 1] /\ k + 1 \in 1..Len(s))
  BY <1>1
<1>3. t \in Stacks BY StackParts
<1>4. Len(t) \in Nat /\ 1 \in 1..Len(t) BY <1>3, FrameParts
<1>5. t[1] = s[2] /\ 2 \in 1..Len(s) BY <1>2, <1>4
<1>6. Path(t)
  <2>1. \A k \in 1..Len(t) : FrameShape(t[k]) BY <1>2 DEF Path
  <2>2. \A k \in 1..Len(t) : k + 1 \in 1..Len(t) => t[k].part = Half(t[k + 1])
    BY <1>2 DEF Path
  <2>3. ASSUME NEW i \in 1..Len(t), NEW k \in 1..Len(t), i < k
        PROVE  Within(t[i].part, Half(t[k]))
    <3>1. i + 1 < k + 1 BY <2>3
    <3> QED BY <1>2, <3>1 DEF Path
  <2> QED BY <2>1, <2>2, <2>3 DEF Path
<1>7. Bottom(t) = Bottom(s)
  <2>1. Len(t) \in 1..Len(t) /\ Len(t) + 1 = Len(s) BY <1>1, <1>2, <1>4
  <2> QED BY <1>2, <2>1 DEF Bottom
<1>8. s[2] \in Frames /\ s[2].at \in Halves /\ ~IsDay(s[2].part) BY <1>5, FrameParts
<1>9. s[1].part = Half(s[2]) /\ FrameShape(s[2])
  <2>1. 1 + 1 = 2 OBVIOUS
  <2> QED BY <1>1, <1>5, <2>1 DEF Path
<1>10. PastHalves(t) \subseteq PastHalves(s) BY <1>2 DEF PastHalves
<1>11. DoneHalves(t[1]) \subseteq PastHalves(s) BY <1>5 DEF PastHalves, DoneHalves
<1> QED BY <1>3, <1>5, <1>6, <1>7, <1>8, <1>9, <1>10, <1>11

(* The sequences the worker makes of its stack.                            *)
LEMMA Stacked ==
  ASSUME NEW s \in Stacks, s # <<>>, NEW f \in Frames, NEW g \in Frames
  PROVE  /\ Len(<<f>> \o Tail(s)) = Len(s) /\ (<<f>> \o Tail(s))[1] = f
         /\ \A k \in 2..Len(s) : (<<f>> \o Tail(s))[k] = s[k]
         /\ Len(<<f, g>> \o Tail(s)) = Len(s) + 1
         /\ (<<f, g>> \o Tail(s))[1] = f /\ (<<f, g>> \o Tail(s))[2] = g
         /\ \A k \in 3..(Len(s) + 1) : (<<f, g>> \o Tail(s))[k] = s[k - 1]
         /\ Len([s EXCEPT ![1] = f]) = Len(s) /\ [s EXCEPT ![1] = f][1] = f
         /\ \A k \in 2..Len(s) : [s EXCEPT ![1] = f][k] = s[k]
<1>1. s \in Seq(Frames) /\ Len(s) \in Nat /\ 1 \in 1..Len(s) BY FrameParts
<1>2. Tail(s) \in Seq(Frames) /\ Len(Tail(s)) = Len(s) - 1
      /\ \A k \in 1..(Len(s) - 1) : Tail(s)[k] = s[k + 1]
  BY <1>1
<1>3. /\ Len(<<f>> \o Tail(s)) = Len(s) /\ (<<f>> \o Tail(s))[1] = f
      /\ \A k \in 2..Len(s) : (<<f>> \o Tail(s))[k] = s[k]
  <2>1. <<f>> \in Seq(Frames) /\ Len(<<f>>) = 1 OBVIOUS
  <2>2. \A k \in 2..Len(s) : k - 1 \in 1..(Len(s) - 1) /\ (k - 1) + 1 = k BY <1>1
  <2> QED BY <1>1, <1>2, <2>1, <2>2
<1>4. /\ Len(<<f, g>> \o Tail(s)) = Len(s) + 1
      /\ (<<f, g>> \o Tail(s))[1] = f /\ (<<f, g>> \o Tail(s))[2] = g
      /\ \A k \in 3..(Len(s) + 1) : (<<f, g>> \o Tail(s))[k] = s[k - 1]
  <2>1. <<f, g>> \in Seq(Frames) /\ Len(<<f, g>>) = 2 OBVIOUS
  <2>2. \A k \in 3..(Len(s) + 1) : k - 2 \in 1..(Len(s) - 1) /\ (k - 2) + 1 = k - 1 BY <1>1
  <2> QED BY <1>1, <1>2, <2>1, <2>2
<1>5. /\ Len([s EXCEPT ![1] = f]) = Len(s) /\ [s EXCEPT ![1] = f][1] = f
      /\ \A k \in 2..Len(s) : [s EXCEPT ![1] = f][k] = s[k]
  BY <1>1
<1> QED BY <1>3, <1>4, <1>5

(* What is done does not contain the range at work.                        *)
LEMMA PastIsApart ==
  ASSUME RootsApart, NEW m \in Memories, m.job \in Job, m.stack # <<>>, Shape(m), NEW h \in Past(m)
  PROVE  h \in Partition /\ ~Within(m.stack[1].part, h)
<1> DEFINE s == m.stack
           p == s[1].part
<1>1. s \in Stacks /\ s # <<>> BY DEF Memories, MemoryRow
<1>2. Path(s) /\ Bottom(s) = Roots[m.job][m.root] BY DEF Shape
<1>3. p \in Partition /\ Len(s) \in Nat /\ 1 \in 1..Len(s) BY <1>1, FrameParts
<1>4. h \in Partition BY DEF Past, PastHalves, PastRoots
<1>5. CASE h \in PastHalves(s)
  <2>1. PICK k \in 1..Len(s) : h \in DoneHalves(s[k]) BY <1>5 DEF PastHalves
  <2>2. s[k].at \in Splitting /\ s[k].part \in Partition /\ ~IsDay(s[k].part)
    <3>1. FrameShape(s[k]) BY <1>2 DEF Path
    <3>2. s[k].at \in Splitting BY <2>1, <3>1 DEF DoneHalves, FrameShape, Splitting, Halves
    <3> QED BY <1>1, <3>2, FrameParts
  <2>3. CASE k = 1
    BY <2>1, <2>2, <2>3, HalvesCover DEF DoneHalves
  <2>4. CASE k # 1
    <3>1. Within(p, Half(s[k])) BY <1>2, <1>3, <2>4 DEF Path
    <3>2. s[k].at \in Halves BY <1>1, <2>4, FrameParts
    <3>3. FrameShape(s[k]) BY <1>2 DEF Path
    <3>4. s[k].at = "right" /\ h = Left(s[k].part)
      BY <2>1, <3>2, <3>3 DEF DoneHalves, FrameShape, Halves
    <3>5. Within(p, Right(s[k].part)) BY <3>1, <3>4 DEF Half
    <3> QED BY <1>3, <2>2, <3>4, <3>5, HalvesCover
  <2> QED BY <1>4, <2>3, <2>4
<1>6. CASE h \in PastRoots(m)
  <2>1. PICK k \in 1..m.root : h = Roots[m.job][k] /\ k < m.root BY <1>1, <1>6 DEF PastRoots
  <2>2. m.root \in 1..Len(Roots[m.job]) /\ Len(Roots[m.job]) \in Nat BY RootsAreRanges DEF Shape
  <2>3. k \in 1..Len(Roots[m.job]) /\ k # m.root BY <2>1, <2>2
  <2>4. Days(h) \cap Days(Bottom(s)) = {} BY <1>2, <2>1, <2>2, <2>3 DEF RootsApart
  <2>5. Bottom(s) \in Partition /\ Within(p, Bottom(s))
    <3>1. Len(s) \in 1..Len(s) BY <1>3
    <3>2. Bottom(s) \in Partition BY <1>1, <3>1, FrameParts DEF Bottom
    <3>3. CASE Len(s) = 1 BY <1>3, <3>2, <3>3, PartitionParts DEF Bottom, Within
    <3>4. CASE Len(s) # 1
      <4>1. 1 < Len(s)
        <5>1. \A n \in Nat : 1 \in 1..n /\ n # 1 => 1 < n OBVIOUS
        <5> QED BY <1>3, <3>4, <5>1
      <4>2. Within(p, Half(s[Len(s)])) BY <1>2, <1>3, <3>1, <4>1 DEF Path
      <4>3. Half(s[Len(s)]) \in Partition /\ Within(Half(s[Len(s)]), Bottom(s))
        BY <1>1, <3>1, <3>4, FrameParts DEF Bottom
      <4> QED BY <1>3, <3>2, <4>2, <4>3, WithinFurther
    <3> QED BY <3>2, <3>3, <3>4
  <2>6. p[1] \in Days(p) /\ p[1] \in Days(Bottom(s)) BY <1>3, <2>5, WithinDays
  <2>7. Within(p, h) => p[1] \in Days(h) BY <1>3, <1>4, <2>6, WithinDays
  <2> QED BY <1>4, <2>4, <2>6, <2>7
<1> QED BY <1>5, <1>6 DEF Past
-----------------------------------------------------------------------------
(* What a worker's memory holds after a step.                              *)

(* m follows from n: its past is that of n and perhaps p.                  *)
Follows(m, n, ps) ==
  m.job = n.job /\ Shape(m) /\ \A h \in Past(m) : h \in Past(n) \/ h \in ps

LEMMA HalvesOfFrame ==
  ASSUME NEW p \in Partition
  PROVE  /\ Frame(p) \in Frames /\ Frame(p).part = p /\ Frame(p).at = "enter"
         /\ FrameShape(Frame(p)) /\ DoneHalves(Frame(p)) = {}
<1>1. Frame(p) \in Frames BY FrameOfPartition
<1>2. /\ Frame(p).part = p /\ Frame(p).at = "enter"
      /\ Frame(p).left = "none" /\ Frame(p).right = "none"
  BY DEF Frame
<1> QED BY <1>1, <1>2 DEF FrameShape, DoneHalves

(* A worker that moves on within a root.                                   *)
LEMMA FollowsStack ==
  ASSUME NEW m \in Memories, m.job \in Job, m.stack # <<>>, Shape(m),
         NEW n, n.job = m.job, n.resume = m.resume, n.root = m.root, n.sound = m.sound,
         n.stack # <<>>, Path(n.stack), Bottom(n.stack) = Bottom(m.stack),
         NEW ps, \A h \in PastHalves(n.stack) : h \in PastHalves(m.stack) \/ h \in ps
  PROVE  Follows(n, m, ps)
<1>1. Shape(n) BY DEF Shape
<1>2. PastRoots(n) = PastRoots(m) BY DEF PastRoots
<1> QED BY <1>1, <1>2 DEF Follows, Past

LEMMA ResumedFollows ==
  ASSUME NEW m \in Memories, m.job \in Job, m.stack # <<>>, Shape(m), NEW out \in Outcomes
  PROVE  /\ Follows(Resumed(m, out), m, IF out = "true" THEN {m.stack[1].part} ELSE {})
         /\ Resumed(m, out).stack # <<>> => Resumed(m, out).stack[1].at \in {"enter", "join"}
<1> DEFINE s == m.stack
           p == s[1].part
           below == Tail(s)
           b == below[1]
           r == Resumed(m, out)
           ps == IF out = "true" THEN {p} ELSE {}
<1>1. /\ s \in Stacks /\ s # <<>> /\ m \in MemoryRow /\ Path(s)
      /\ Bottom(s) = Roots[m.job][m.root] /\ m.root \in 1..Len(Roots[m.job])
  BY DEF Memories, MemoryRow, Shape
<1>2. /\ Len(s) \in Nat /\ 1 \in 1..Len(s) /\ p \in Partition /\ s \in Seq(Frames)
  BY <1>1, FrameParts
<1>3. Len(Roots[m.job]) \in Nat /\ \A k \in 1..Len(Roots[m.job]) : Roots[m.job][k] \in Partition
  BY RootsAreRanges
<1>4. CASE below = <<>>
  <2> DEFINE last == m.root = Len(Roots[m.job]) \/ (~m.fuel /\ out # "true")
             f == Frame(Roots[m.job][m.root + 1])
  <2>1. r = [m EXCEPT !.sound = @ /\ out = "true",
                      !.root = IF last THEN @ ELSE @ + 1,
                      !.stack = IF last THEN <<>> ELSE <<f>>]
    BY <1>4 DEF Resumed
  <2> HIDE DEF r, f
  <2>2. /\ r.job = m.job /\ r.resume = m.resume /\ r.sound = (m.sound /\ out = "true")
        /\ r.root = (IF last THEN m.root ELSE m.root + 1)
        /\ r.stack = (IF last THEN <<>> ELSE <<f>>)
    BY <1>1, <2>1 DEF MemoryRow
  <2>3. Len(s) = 1 /\ Bottom(s) = p
    <3>1. Len(below) = Len(s) - 1 BY <1>1, <1>2
    <3>2. Len(below) = 0
      <4>1. Len(<<>>) = 0 OBVIOUS
      <4> HIDE DEF below
      <4> QED BY <1>4, <4>1
    <3>3. Len(s) = 1
      <4>1. \A n \in Nat : n - 1 = 0 => n = 1 OBVIOUS
      <4> QED BY <1>2, <3>1, <3>2, <4>1
    <3> QED BY <3>3 DEF Bottom
  <2>4. r.sound /\ m.root \in 1..m.root => m.sound /\ p \in ps BY <2>2
  <2>5. m.root \in Nat /\ m.root \in 1..m.root BY <1>1, <1>3
  <2>6. CASE last
    <3>1. r.stack = <<>> /\ r.root = m.root BY <2>2, <2>6
    <3>2. Shape(r)
      <4>1. Path(<<>>) BY DEF Path
      <4>2. r.sound => m.root = Len(Roots[m.job]) BY <2>2, <2>6
      <4> QED BY <1>1, <2>2, <3>1, <4>1, <4>2 DEF Shape
    <3>3. ASSUME NEW h \in Past(r) PROVE h \in Past(m) \/ h \in ps
      <4>1. h \in PastRoots(r) BY <3>1 DEF Past, PastHalves
      <4>2. PICK k \in 1..m.root : h = Roots[m.job][k]
        BY <2>2, <3>1, <4>1 DEF PastRoots
      <4>3. r.sound BY <4>1 DEF PastRoots
      <4>4. CASE k = m.root BY <1>1, <2>3, <2>4, <2>5, <4>2, <4>3, <4>4
      <4>5. CASE k # m.root
        <5>1. k < m.root BY <2>5, <4>5
        <5>2. h \in Partition BY <4>1 DEF PastRoots
        <5> QED BY <2>4, <2>5, <4>2, <4>3, <5>1, <5>2 DEF Past, PastRoots
      <4> QED BY <4>4, <4>5
    <3> QED BY <2>2, <3>1, <3>2, <3>3 DEF Follows, r
  <2>7. CASE ~last
    <3>1. r.stack = <<f>> /\ r.root = m.root + 1 BY <2>2, <2>7
    <3>2. m.root + 1 \in 1..Len(Roots[m.job]) BY <1>1, <1>3, <2>7
    <3>3. /\ f \in Frames /\ f.part = Roots[m.job][m.root + 1] /\ f.at = "enter"
          /\ FrameShape(f) /\ DoneHalves(f) = {}
      BY <1>3, <3>2, HalvesOfFrame DEF f
    <3>4. Len(<<f>>) = 1 /\ <<f>>[1] = f /\ <<f>> # <<>> OBVIOUS
    <3>5. \A k \in 1..Len(<<f>>) : k = 1 BY <3>4
    <3>6. Path(<<f>>) BY <3>3, <3>4, <3>5 DEF Path
    <3>7. Shape(r)
      <4>1. Bottom(r.stack) = Roots[m.job][m.root + 1] BY <3>1, <3>3, <3>4 DEF Bottom
      <4>2. r.stack # <<>> BY <3>1, <3>4
      <4>3. Path(r.stack) BY <3>1, <3>6
      <4>4. r.resume BY <2>2 DEF Shape
      <4> HIDE DEF last
      <4> QED BY <2>2, <3>1, <3>2, <4>1, <4>2, <4>3, <4>4 DEF Shape
    <3>8. ASSUME NEW h \in Past(r) PROVE h \in Past(m) \/ h \in ps
      <4>1. h \notin PastHalves(<<f>>) BY <3>3, <3>4, <3>5 DEF PastHalves
      <4>2. h \in PastRoots(r) BY <3>1, <3>8, <4>1 DEF Past
      <4>3. r.stack # <<>> BY <3>1, <3>4
      <4>4. PICK k \in 1..r.root : h = Roots[r.job][k] /\ k < r.root
        BY <4>2, <4>3 DEF PastRoots
      <4>5. r.sound /\ h \in Partition BY <4>2 DEF PastRoots
      <4>6. h = Roots[m.job][k] /\ k \in 1..m.root BY <2>2, <2>5, <3>1, <4>4
      <4>7. CASE k = m.root BY <1>1, <2>3, <2>4, <2>5, <4>5, <4>6, <4>7
      <4>8. CASE k # m.root
        <5>1. k < m.root BY <2>5, <4>6, <4>8
        <5> QED BY <2>4, <2>5, <4>5, <4>6, <5>1 DEF Past, PastRoots
      <4> QED BY <4>7, <4>8
    <3>9. r.stack[1].at = "enter" BY <3>1, <3>3, <3>4
    <3> QED BY <2>2, <3>7, <3>8, <3>9 DEF Follows, r
  <2> QED BY <2>6, <2>7
<1>5. CASE below # <<>>
  <2>1. /\ below \in Stacks /\ Path(below) /\ Bottom(below) = Bottom(s)
        /\ b \in Frames /\ b.at \in Halves /\ p = Half(b) /\ FrameShape(b) /\ ~IsDay(b.part)
        /\ PastHalves(below) \subseteq PastHalves(s) /\ DoneHalves(b) \subseteq PastHalves(s)
    BY <1>1, <1>5, PathPopped
  <2> HIDE DEF s
  <2>2. b \in FrameRow /\ b.part \in Partition BY <2>1 DEF Frames, FrameRow
  <2>3. ASSUME NEW n, n = [m EXCEPT !.stack = n.stack], n.stack # <<>>, Path(n.stack),
               Bottom(n.stack) = Bottom(below),
               \A h \in PastHalves(n.stack) : h \in PastHalves(s) \/ h \in ps
        PROVE  Follows(n, m, ps)
    <3>1. n.job = m.job /\ n.resume = m.resume /\ n.root = m.root /\ n.sound = m.sound
      BY <1>1, <2>3 DEF MemoryRow
    <3> QED BY <2>1, <2>3, <3>1, FollowsStack DEF s
  <2>4. CASE b.at = "left"
    <3> DEFINE f == Frame(Right(b.part))
               g == [b EXCEPT !.at = "right", !.left = out]
               t == <<f, g>> \o Tail(below)
    <3>1. r = [m EXCEPT !.stack = t] BY <1>5, <2>4 DEF Resumed, s
    <3>2. /\ g.at = "right" /\ g.left = out /\ g.right = b.right /\ g.part = b.part
          /\ g \in Frames
      <4>1. "right" \in Ats BY DEF Ats
      <4>2. g \in FrameRow /\ g.at = "right" /\ g.left = out /\ g.right = b.right /\ g.part = b.part
        BY <2>2, <4>1 DEF FrameRow
      <4> HIDE DEF g
      <4> QED BY <2>1, <4>2 DEF Frames, Gathering, Splitting, Halves
    <3>3. FrameShape(g) BY <2>1, <2>4, <3>2 DEF FrameShape
    <3>4. \A h \in DoneHalves(g) : h \in ps BY <2>1, <2>4, <3>2 DEF DoneHalves, FrameShape, Half
    <3>5. Right(b.part) \in Partition BY <2>1, <2>2, HalvesOfRange
    <3>6. f \in Frames /\ f.part = Right(b.part) /\ f.at = "enter" /\ FrameShape(f) /\ DoneHalves(f) = {}
      BY <3>5, HalvesOfFrame
    <3>7. f.part = Half(g) /\ g.at \in Halves BY <3>2, <3>6 DEF Half, Halves
    <3> HIDE DEF f, g
    <3>8. /\ Len(t) = Len(below) + 1 /\ t[1] = f /\ t[2] = g
          /\ \A k \in 3..(Len(below) + 1) : t[k] = below[k - 1]
      BY <1>5, <2>1, <3>2, <3>6, Stacked
    <3> HIDE DEF t
    <3>9. /\ Path(t) /\ Bottom(t) = Bottom(below)
          /\ \A h \in PastHalves(t) :
               h \in PastHalves(below) \/ h \in DoneHalves(f) \/ h \in DoneHalves(g)
      <4> HIDE DEF below
      <4>1. g.part = below[1].part BY <3>2
      <4> QED BY <1>5, <2>1, <3>2, <3>3, <3>6, <3>7, <3>8, <4>1, PathPushed
    <3>10. t # <<>>
      <4>1. Len(below) \in Nat BY <2>1, FrameParts
      <4> QED BY <3>8, <4>1
    <3>11. r.stack = t BY <1>1, <3>1 DEF MemoryRow
    <3> HIDE DEF r
    <3>12. Follows(r, m, ps) BY <2>1, <2>3, <3>1, <3>4, <3>6, <3>9, <3>10, <3>11
    <3> QED BY <3>6, <3>8, <3>11, <3>12 DEF r, s
  <2>5. CASE b.at # "left"
    <3> DEFINE g == [b EXCEPT !.at = "join", !.right = out]
               t == <<g>> \o Tail(below)
    <3>1. r = [m EXCEPT !.stack = t] BY <1>5, <2>5 DEF Resumed, s
    <3>0. b.at = "right" BY <2>1, <2>5 DEF Halves
    <3>2. /\ g.at = "join" /\ g.left = b.left /\ g.right = out /\ g.part = b.part
          /\ g \in Frames
      <4>1. "join" \in Ats BY DEF Ats
      <4>2. g \in FrameRow /\ g.at = "join" /\ g.left = b.left /\ g.right = out /\ g.part = b.part
        BY <2>2, <4>1 DEF FrameRow
      <4> HIDE DEF g
      <4> QED BY <2>1, <4>2 DEF Frames, Gathering, Splitting, Halves
    <3>3. FrameShape(g) BY <3>2 DEF FrameShape
    <3>4. \A h \in DoneHalves(g) : h \in DoneHalves(b) \/ h \in ps
      BY <2>1, <3>0, <3>2 DEF DoneHalves, Half
    <3> HIDE DEF g
    <3>8. Len(t) = Len(below) /\ t[1] = g /\ \A k \in 2..Len(below) : t[k] = below[k]
      BY <1>5, <2>1, <3>2, Stacked
    <3> HIDE DEF t
    <3>9. /\ Path(t) /\ Bottom(t) = Bottom(below)
          /\ \A h \in PastHalves(t) : h \in PastHalves(below) \/ h \in DoneHalves(g)
      <4>1. g.part = below[1].part BY <3>2
      <4> HIDE DEF below
      <4> QED BY <1>5, <2>1, <3>2, <3>3, <3>8, <4>1, PathReplaced
    <3>10. t # <<>>
      <4>1. Len(below) \in Nat /\ 1 \in 1..Len(below) BY <1>5, <2>1, FrameParts
      <4> QED BY <3>8, <4>1
    <3>11. r.stack = t BY <1>1, <3>1 DEF MemoryRow
    <3> HIDE DEF r
    <3>12. Follows(r, m, ps) BY <2>1, <2>3, <3>1, <3>4, <3>9, <3>10, <3>11
    <3> QED BY <3>2, <3>8, <3>11, <3>12 DEF r, s
  <2> QED BY <2>4, <2>5
<1> QED BY <1>4, <1>5

LEMMA DescendFollows ==
  ASSUME NEW m \in Memories, m.job \in Job, m.stack # <<>>, Shape(m), ~IsDay(m.stack[1].part),
         m.stack[1].at \notin Splitting
  PROVE  /\ Follows(Descend(m), m, {})
         /\ Descend(m).stack # <<>> /\ Descend(m).stack[1].at = "enter"
<1> DEFINE s == m.stack
           p == s[1].part
           f == Frame(Left(p))
           g == [s[1] EXCEPT !.at = "left"]
           t == <<f, g>> \o Tail(s)
           n == Descend(m)
<1>1. s \in Stacks /\ s # <<>> /\ m \in MemoryRow /\ Path(s) BY DEF Memories, MemoryRow, Shape
<1>2. Len(s) \in Nat /\ 1 \in 1..Len(s) /\ p \in Partition /\ s[1] \in Frames
  BY <1>1, FrameParts
<1>3. n = [m EXCEPT !.stack = t] BY DEF Descend
<1>4. s[1] \in FrameRow /\ FrameShape(s[1]) BY <1>1, <1>2 DEF Frames, Path
<1>5. s[1].left # "true" /\ s[1].right # "true" BY <1>4 DEF FrameShape, Splitting, Halves
<1>6. /\ g.at = "left" /\ g.left = s[1].left /\ g.right = s[1].right /\ g.part = p
      /\ g \in Frames
  <2>1. "left" \in Ats BY DEF Ats
  <2>2. /\ g \in FrameRow /\ g.at = "left" /\ g.left = s[1].left /\ g.right = s[1].right
        /\ g.part = p
    BY <1>4, <2>1 DEF FrameRow
  <2> HIDE DEF g
  <2> QED BY <2>2 DEF Frames, Gathering, Splitting, Halves
<1>7. FrameShape(g) /\ DoneHalves(g) = {} BY <1>5, <1>6 DEF FrameShape, DoneHalves
<1>8. Left(p) \in Partition BY <1>2, HalvesOfRange
<1>9. f \in Frames /\ f.part = Left(p) /\ f.at = "enter" /\ FrameShape(f) /\ DoneHalves(f) = {}
  BY <1>8, HalvesOfFrame
<1>10. f.part = Half(g) /\ g.at \in Halves BY <1>6, <1>9 DEF Half, Halves
<1> HIDE DEF f, g
<1>11. /\ Len(t) = Len(s) + 1 /\ t[1] = f /\ t[2] = g
       /\ \A k \in 3..(Len(s) + 1) : t[k] = s[k - 1]
  BY <1>1, <1>6, <1>9, Stacked
<1> HIDE DEF t
<1>12. /\ Path(t) /\ Bottom(t) = Bottom(s)
       /\ \A h \in PastHalves(t) : h \in PastHalves(s) \/ h \in DoneHalves(f) \/ h \in DoneHalves(g)
  <2> HIDE DEF s
  <2>1. g.part = s[1].part BY <1>6
  <2> QED BY <1>1, <1>6, <1>7, <1>9, <1>10, <1>11, <2>1, PathPushed
<1>13. t # <<>> BY <1>2, <1>11
<1> HIDE DEF n
<1>14. n.stack = t /\ n.job = m.job /\ n.resume = m.resume /\ n.root = m.root /\ n.sound = m.sound
  BY <1>1, <1>3 DEF MemoryRow
<1>15. Follows(n, m, {}) BY <1>7, <1>9, <1>12, <1>13, <1>14, FollowsStack
<1> QED BY <1>9, <1>11, <1>13, <1>14, <1>15 DEF n

LEMMA UnwoundFollows ==
  ASSUME NEW m \in Memories, Shape(m)
  PROVE  Follows(Unwound(m), m, {}) /\ Unwound(m).stack = <<>>
<1> DEFINE n == Unwound(m)
<1>1. m \in MemoryRow BY DEF Memories
<1>2. /\ n.job = m.job /\ n.resume = m.resume /\ n.root = m.root /\ n.sound = FALSE
      /\ n.stack = <<>>
  BY <1>1 DEF Unwound, MemoryRow
<1> HIDE DEF n
<1>3. Path(<<>>) BY DEF Path
<1>4. Shape(n) BY <1>2, <1>3 DEF Shape
<1>5. Past(n) = {} BY <1>2 DEF Past, PastHalves, PastRoots
<1> QED BY <1>2, <1>4, <1>5 DEF Follows, n

(* The top frame is replaced, perhaps with the last of the budget.         *)
LEMMA TopFollows ==
  ASSUME NEW m \in Memories, m.job \in Job, m.stack # <<>>, Shape(m),
         NEW f \in Frames, FrameShape(f), f.part = m.stack[1].part,
         f.left = m.stack[1].left, f.right = m.stack[1].right,
         NEW n, n.job = m.job, n.resume = m.resume, n.root = m.root, n.sound = m.sound,
         n.stack = [m.stack EXCEPT ![1] = f]
  PROVE  Follows(n, m, {}) /\ n.stack # <<>> /\ n.stack[1] = f
<1> DEFINE s == m.stack
           t == [s EXCEPT ![1] = f]
<1>1. s \in Stacks /\ s # <<>> /\ Path(s) BY DEF Memories, MemoryRow, Shape
<1>2. Len(s) \in Nat /\ 1 \in 1..Len(s) BY <1>1, FrameParts
<1>3. Len(t) = Len(s) /\ t[1] = f /\ \A k \in 2..Len(s) : t[k] = s[k] BY ZenonT(60), <1>1, Stacked
<1>4. \A h \in DoneHalves(f) : h \in PastHalves(s)
  <2>1. DoneHalves(f) = DoneHalves(s[1]) BY DEF DoneHalves
  <2>2. DoneHalves(s[1]) \subseteq Partition BY DEF DoneHalves
  <2> QED BY <1>2, <2>1, <2>2 DEF PastHalves
<1>5. /\ Path(t) /\ Bottom(t) = Bottom(s)
      /\ \A h \in PastHalves(t) : h \in PastHalves(s) \/ h \in DoneHalves(f)
  <2> HIDE DEF t
  <2>1. f.part = s[1].part OBVIOUS
  <2> HIDE DEF s
  <2> QED BY <1>1, <1>3, <2>1, PathReplaced
<1>6. t # <<>> BY <1>2, <1>3
<1> HIDE DEF t
<1>7. n.stack = t BY DEF t
<1>8. Follows(n, m, {}) BY <1>4, <1>5, <1>6, <1>7, FollowsStack
<1> QED BY <1>3, <1>6, <1>7, <1>8
-----------------------------------------------------------------------------
(* A step of a worker.                                                     *)

(* The transaction carries the coverage over, perhaps with a reference of  *)
(* the job whose run the worker still is ...                               *)
Carried(w) ==
  /\ CoverageOK(db')
  /\ \E j \in Job \cup {None} : /\ j \in Job => j = work[w].job /\ RunsJob(db, j, w)
                                /\ Carries(db, db', j, Top(w).part)
(* ... and the memory follows from the one before.                         *)
Followed(w, ps) ==
  \E m : work' = [work EXCEPT ![w] = m] /\ Follows(m, work[w], ps) /\ Noted(db', m)
Covers(w) ==
  Carried(w) /\ \E ps : Followed(w, ps) /\ \A h \in ps : Done(db', w, work[w].job, h)

LEMMA Covering ==
  ASSUME IInv, Coverage, NEW w \in Worker, NEW at, At(w, at)
  PROVE  /\ DbOK(db) /\ db \in Database /\ Trusted(db) /\ Working /\ CoverageOK(db)
         /\ work[w] \in Memories /\ work[w].job \in Job /\ work[w].stack # <<>>
         /\ Top(w) \in Frames /\ Top(w).at = at /\ Top(w).part \in Partition
         /\ Shape(work[w]) /\ FrameShape(Top(w)) /\ work[w].resume = TRUE
         /\ Noted(db, work[w]) /\ \A h \in Past(work[w]) : Done(db, w, work[w].job, h)
<1>1. DbOK(db) /\ db \in Database /\ Trusted(db) /\ Working /\ CoverageOK(db)
  BY DEF IInv, DbOK, Coverage, CoverageOK
<1>2. /\ work[w] \in Memories /\ work[w].job \in Job /\ work[w].stack # <<>>
      /\ work[w].stack \in Stacks
      /\ Top(w) \in Frames /\ Top(w).at = at /\ Top(w).part \in Partition
  BY <1>1, Acting
<1>3. work[w].job # None BY <1>2, BackfillAssumption
<1>4. /\ Shape(work[w]) /\ Noted(db, work[w])
      /\ \A h \in Past(work[w]) : Done(db, w, work[w].job, h)
  BY <1>3 DEF Coverage, MemoryOK
<1>5. 1 \in 1..Len(work[w].stack) BY <1>2, FrameParts
<1>6. FrameShape(Top(w)) BY <1>4, <1>5 DEF Shape, Path, Top
<1>7. work[w].resume = TRUE BY <1>2, <1>4 DEF Shape, Memories, MemoryRow
<1> QED BY <1>1, <1>2, <1>4, <1>6, <1>7

(* What is done stays done until the run refers to a part of it again.     *)
LEMMA DoneStays ==
  ASSUME NEW d \in Database, NEW e, NEW j, NEW p \in Partition, Carries(d, e, j, p),
         NEW i \in Job, NEW h \in Partition, NEW v, Done(d, v, i, h),
         RunsJob(e, i, v) /\ i = j => ~Within(p, h)
  PROVE  Done(e, v, i, h)
<1>1. AllKnown(e, h) BY KnownStays DEF Carries, Done
<1>2. ASSUME RunsJob(e, i, v) PROVE Settled(e, i, h)
  <2>1. RunsJob(d, i, v) BY <1>2 DEF Carries, RunsJob
  <2>2. Settled(d, i, h) BY <2>1 DEF Done
  <2> QED BY <1>2, <2>2, SettledStays
<1> QED BY <1>1, <1>2 DEF Done

LEMMA NotedStays ==
  ASSUME NEW d, NEW e, NEW j, NEW p, Carries(d, e, j, p),
         NEW m \in Memories, Noted(d, m)
  PROVE  Noted(e, m)
<1> SUFFICES ASSUME m.stack # <<>>, m.stack[1].at \in {"fetch", "joining"}
             PROVE  e.ref[m.job][m.stack[1].part] # "none"
  BY DEF Noted
<1>1. m.job \in Job /\ m.stack \in Stacks BY DEF Memories, MemoryRow
<1>2. m.stack[1].part \in Partition BY <1>1, FrameParts
<1>3. d.ref[m.job][m.stack[1].part] # "none" BY DEF Noted
<1> QED BY <1>1, <1>2, <1>3 DEF Carries, RefsRecorded

LEMMA CoversStep ==
  ASSUME IInv, Coverage, RootsApart, NEW w \in Worker, NEW at, At(w, at),
         Sound(db, db'), Covers(w)
  PROVE  Coverage'
<1> DEFINE p == Top(w).part
           n == work[w]
<1>1. /\ db \in Database /\ Working /\ n \in Memories /\ n.job \in Job /\ n.stack # <<>>
      /\ p \in Partition /\ Shape(n) /\ \A h \in Past(n) : Done(db, w, n.job, h)
  BY Covering
<1>2. PICK j \in Job \cup {None} : /\ j \in Job => j = n.job /\ RunsJob(db, j, w)
                                   /\ Carries(db, db', j, p)
  BY DEF Covers, Carried
<1>3. PICK ps, m : /\ work' = [work EXCEPT ![w] = m] /\ Follows(m, n, ps) /\ Noted(db', m)
                   /\ \A h \in ps : Done(db', w, n.job, h)
  BY DEF Covers, Followed
<1>4. CoverageOK(db') BY DEF Covers, Carried
<1>5. work'[w] = m /\ \A v \in Worker : v # w => work'[v] = work[v] BY <1>1, <1>3 DEF Working
<1>6. JobsSettled(db')
  <2> SUFFICES ASSUME NEW i \in Job, db'.job[i].status = "complete", NEW k \in 1..Len(Roots[i])
               PROVE  Settled(db', i, Roots[i][k])
    BY DEF JobsSettled
  <2>1. db.job[i].status = "complete" BY DEF Sound, JobsRefreshed
  <2>2. i # j BY <1>2, <2>1 DEF IInv, Reporting, RunsJob
  <2>3. Settled(db, i, Roots[i][k]) BY <2>1 DEF Coverage, JobsSettled
  <2>4. Roots[i][k] \in Partition BY RootsAreRanges
  <2> HIDE DEF p
  <2> QED BY <1>1, <1>2, <2>2, <2>3, <2>4, SettledStays
<1>7. ASSUME NEW v \in Worker, v # w PROVE MemoryOK(db', v, work'[v])
  <2> SUFFICES ASSUME work[v].job # None PROVE MemoryOK(db', v, work[v])
    BY <1>5, <1>7 DEF MemoryOK
  <2>1. work[v] \in Memories BY <1>1 DEF Working
  <2>2. work[v].job \in Job BY <2>1 DEF Memories, MemoryRow
  <2>3. /\ Shape(work[v]) /\ Noted(db, work[v])
        /\ \A h \in Past(work[v]) : Done(db, v, work[v].job, h)
    BY DEF Coverage, MemoryOK
  <2>4. Noted(db', work[v]) BY <1>2, <2>1, <2>3, NotedStays
  <2>5. ASSUME NEW h \in Past(work[v]) PROVE Done(db', v, work[v].job, h)
    <3>1. h \in Partition BY DEF Past, PastHalves, PastRoots
    <3>2. ~(RunsJob(db', work[v].job, v) /\ work[v].job = j)
      BY <1>2, <1>7, <2>2 DEF Carries, RunsJob
    <3>3. Done(db, v, work[v].job, h) BY <2>3
    <3> HIDE DEF p
    <3> QED BY <1>1, <1>2, <2>2, <3>1, <3>2, <3>3, DoneStays
  <2> QED BY <2>3, <2>4, <2>5 DEF MemoryOK
<1>8. MemoryOK(db', w, m)
  <2>1. m.job = n.job /\ Shape(m) /\ \A h \in Past(m) : h \in Past(n) \/ h \in ps
    BY <1>3 DEF Follows
  <2>2. ASSUME NEW h \in Past(n) PROVE Done(db', w, n.job, h)
    <3>1. h \in Partition /\ ~Within(p, h) BY <1>1, PastIsApart DEF Top
    <3>2. Done(db, w, n.job, h) BY <1>1
    <3> HIDE DEF p, n
    <3> QED BY <1>1, <1>2, <3>1, <3>2, DoneStays
  <2> QED BY <1>3, <2>1, <2>2 DEF MemoryOK
<1>9. \A v \in Worker : MemoryOK(db', v, work'[v]) BY <1>5, <1>7, <1>8
<1> QED BY <1>4, <1>6, <1>9 DEF Coverage, CoverageOK
-----------------------------------------------------------------------------
(* The parts of the steps.                                                 *)

(* The row of the worker's partition is written.                           *)
LEMMA RowCarried ==
  ASSUME CoverageOK(db), NEW w, CoverageOK(db'), Carries(db, db', None, Top(w).part)
  PROVE  Carried(w)
BY BackfillAssumption DEF Carried

LEMMA StillCarried ==
  ASSUME CoverageOK(db), NEW w, db'.part = db.part, db'.ref = db.ref, db'.job = db.job
  PROVE  Carried(w)
<1> DEFINE p == Top(w).part
<1> HIDE DEF p
<1>1. CoverageOK(db') /\ Carries(db, db', None, p) BY SamePartsCarry
<1> QED BY <1>1, RowCarried DEF p

LEMMA ReturnFollowed ==
  ASSUME IInv, Coverage, NEW w \in Worker, NEW at, At(w, at), NEW out \in Outcomes, Return(w, out)
  PROVE  Followed(w, IF out = "true" THEN {Top(w).part} ELSE {})
<1> DEFINE r == Resumed(work[w], out)
           ps == IF out = "true" THEN {work[w].stack[1].part} ELSE {}
<1>1. /\ work[w] \in Memories /\ work[w].job \in Job /\ work[w].stack # <<>> /\ Shape(work[w])
  BY Covering
<1>2. Follows(r, work[w], ps) /\ (r.stack # <<>> => r.stack[1].at \in {"enter", "join"})
  BY <1>1, ResumedFollows
<1>3. work' = [work EXCEPT ![w] = r] BY DEF Return
<1> HIDE DEF r
<1>4. Noted(db', r) BY <1>2 DEF Noted
<1> QED BY <1>2, <1>3, <1>4 DEF Followed, Top

LEMMA ReturnCovers ==
  ASSUME IInv, Coverage, NEW w \in Worker, NEW at, At(w, at), Carried(w),
         NEW out \in Outcomes, Return(w, out),
         out = "true" => Done(db', w, work[w].job, Top(w).part)
  PROVE  Covers(w)
<1> DEFINE ps == IF out = "true" THEN {Top(w).part} ELSE {}
<1>1. Followed(w, ps) BY ReturnFollowed
<1>2. \A h \in ps : Done(db', w, work[w].job, h) OBVIOUS
<1> HIDE DEF ps
<1> QED BY <1>1, <1>2 DEF Covers

LEMMA UnwindCovers ==
  ASSUME IInv, Coverage, NEW w \in Worker, NEW at, At(w, at), Carried(w),
         work' = [work EXCEPT ![w] = Unwound(work[w])]
  PROVE  Covers(w)
<1>1. work[w] \in Memories /\ Shape(work[w]) BY Covering
<1>2. Follows(Unwound(work[w]), work[w], {}) /\ Unwound(work[w]).stack = <<>>
  BY <1>1, UnwoundFollows
<1>3. Noted(db', Unwound(work[w])) BY <1>2 DEF Noted
<1>4. Followed(w, {}) BY <1>2, <1>3 DEF Followed
<1> QED BY <1>4 DEF Covers

LEMMA DescendCovers ==
  ASSUME IInv, Coverage, NEW w \in Worker, NEW at, At(w, at), at \notin Splitting,
         ~IsDay(Top(w).part), Carried(w), work' = [work EXCEPT ![w] = Descend(work[w])]
  PROVE  Covers(w)
<1>1. /\ work[w] \in Memories /\ Shape(work[w]) /\ work[w].job \in Job /\ work[w].stack # <<>>
      /\ Top(w).at = at
  BY Covering
<1>2. /\ Follows(Descend(work[w]), work[w], {})
      /\ Descend(work[w]).stack[1].at = "enter"
  BY <1>1, DescendFollows DEF Top
<1>3. Noted(db', Descend(work[w])) BY <1>2 DEF Noted
<1>4. Followed(w, {}) BY <1>2, <1>3 DEF Followed
<1> QED BY <1>4 DEF Covers

(* The top frame moves on.                                                 *)
LEMMA TopFollowed ==
  ASSUME IInv, Coverage, NEW w \in Worker, NEW at, At(w, at),
         NEW f \in Frames, FrameShape(f), f.part = Top(w).part,
         f.left = Top(w).left, f.right = Top(w).right,
         f.at \in {"fetch", "joining"} => db'.ref[work[w].job][Top(w).part] # "none",
         NEW n, n.job = work[w].job, n.resume = work[w].resume, n.root = work[w].root,
         n.sound = work[w].sound, n.stack = [work[w].stack EXCEPT ![1] = f],
         work' = [work EXCEPT ![w] = n]
  PROVE  Followed(w, {})
<1>1. /\ work[w] \in Memories /\ Shape(work[w]) /\ work[w].job \in Job /\ work[w].stack # <<>>
  BY Covering
<1>2. Follows(n, work[w], {}) /\ n.stack[1] = f BY ZenonT(60), <1>1, TopFollows DEF Top
<1>3. Noted(db', n) BY <1>2 DEF Noted
<1> QED BY <1>2, <1>3 DEF Followed

LEMMA TopCovers ==
  ASSUME IInv, Coverage, NEW w \in Worker, NEW at, At(w, at), at \notin Splitting, Carried(w),
         NEW f \in Frames, f.part = Top(w).part, f.left = Top(w).left, f.right = Top(w).right,
         f.at \notin {"fetch", "joining"},
         work' = [work EXCEPT ![w].stack[1] = f]
  PROVE  Covers(w)
<1> DEFINE n == [work[w] EXCEPT !.stack = [work[w].stack EXCEPT ![1] = f]]
<1>1. /\ work[w] \in Memories /\ FrameShape(Top(w)) /\ Top(w).at = at /\ Working
  BY Covering
<1>2. FrameShape(f) BY <1>1 DEF FrameShape, Splitting, Halves
<1>3. /\ n.job = work[w].job /\ n.resume = work[w].resume /\ n.root = work[w].root
      /\ n.sound = work[w].sound /\ n.stack = [work[w].stack EXCEPT ![1] = f]
  BY <1>1 DEF Memories, MemoryRow
<1>4. work' = [work EXCEPT ![w] = n] BY <1>1 DEF Working, Memories, MemoryRow
<1> HIDE DEF n
<1>5. Followed(w, {}) BY <1>2, <1>3, <1>4, TopFollowed
<1> QED BY <1>5 DEF Covers

LEMMA GotoCovers ==
  ASSUME IInv, Coverage, NEW w \in Worker, NEW from, At(w, from), from \notin Splitting, Carried(w),
         NEW at \in Ats, at \notin Splitting, at \notin {"fetch", "item"},
         at \in Gathering => IsDay(Top(w).part), Goto(w, at)
  PROVE  Covers(w)
<1> DEFINE f == [Top(w) EXCEPT !.at = at]
<1>1. Top(w) \in Frames /\ Working BY Covering
<1>2. f \in Frames BY <1>1, FrameMoves
<1>3. f.part = Top(w).part /\ f.left = Top(w).left /\ f.right = Top(w).right /\ f.at = at
  BY <1>1 DEF Frames, FrameRow
<1>4. work' = [work EXCEPT ![w].stack[1] = f] BY <1>1 DEF Goto, Top, Working
<1>5. at \notin {"fetch", "joining"} BY DEF Splitting
<1> HIDE DEF f
<1> QED BY <1>2, <1>3, <1>4, <1>5, TopCovers

(* A claim of the worker's partition: it may be refused, find evidence     *)
(* that does not count, find the partition complete, or hold it.           *)
LEMMA ClaimCarries ==
  ASSUME NEW d \in Database, CoverageOK(d), NEW p \in Partition, ~IsComplete(d, p),
         NEW w \in Worker
  PROVE  /\ CoverageOK(Claim(d, p, w, TRUE)) /\ Carries(d, Claim(d, p, w, TRUE), None, p)
         /\ \A q \in Partition : IsComplete(Claim(d, p, w, TRUE), q) => IsComplete(d, q)
         /\ Claim(d, p, w, TRUE).ref = d.ref
<1> DEFINE e == Claim(d, p, w, TRUE)
           r == [d.part[p] EXCEPT !.status = "running", !.holder = w]
<1>1. d.part[p] \in PartitionRow BY DEF Database
<1>2. e = [d EXCEPT !.part[p] = r]
  <2> DEFINE one == Cardinality({j \in Job : d.ref[j][p] # "none"}) <= 1
  <2>1. e = [d EXCEPT !.part[p] = [d.part[p] EXCEPT !.status = "running", !.holder = w,
                                                    !.probe = @ /\ ~(~TRUE /\ one)]]
    BY DEF Claim
  <2> HIDE DEF one, e
  <2>2. d.part[p].probe \in BOOLEAN BY <1>1 DEF PartitionRow
  <2>3. (d.part[p].probe /\ ~(~TRUE /\ one)) = d.part[p].probe BY <2>2
  <2>4. [d.part[p] EXCEPT !.status = "running", !.holder = w,
                          !.probe = @ /\ ~(~TRUE /\ one)] = r
    BY <1>1, <2>3 DEF PartitionRow
  <2> QED BY <2>1, <2>4
<1>3. r \in PartitionRow /\ r.status = "running" /\ r.probe = d.part[p].probe
  BY <1>1 DEF PartitionRow, Statuses
<1> HIDE DEF e, r
<1>4. /\ e.part[p] = r /\ \A q \in Partition : q # p => e.part[q] = d.part[q]
  BY <1>2, <1>3, RowSet
<1>5. e.ref = d.ref /\ e.job = d.job BY <1>2 DEF Database
<1>6. ~IsComplete(e, p) BY <1>3, <1>4 DEF IsComplete
<1>7. e.part[p].probe => IsDay(p) BY <1>3, <1>4 DEF CoverageOK, BasisOK
<1>8. CoverageOK(e) /\ Carries(d, e, None, p) BY <1>3, <1>4, <1>5, <1>6, <1>7, RowCarries
<1>9. \A q \in Partition : IsComplete(e, q) => IsComplete(d, q) BY <1>4, <1>6 DEF IsComplete
<1> QED BY <1>5, <1>8, <1>9 DEF e

LEMMA FailCarries ==
  ASSUME NEW d \in Database, CoverageOK(d), NEW p \in Partition, ~IsComplete(d, p),
         NEW status \in Failed
  PROVE  /\ CoverageOK(Fail(d, p, status)) /\ Carries(d, Fail(d, p, status), None, p)
         /\ \A q \in Partition : IsComplete(Fail(d, p, status), q) => IsComplete(d, q)
<1> DEFINE e == Fail(d, p, status)
           r == [d.part[p] EXCEPT !.status = status]
<1>1. d.part[p] \in PartitionRow BY DEF Database
<1>2. e = [d EXCEPT !.part[p] = r] BY <1>1 DEF Fail, Database
<1>3. r \in PartitionRow /\ r.status # "complete" /\ r.probe = d.part[p].probe
  BY <1>1 DEF PartitionRow, Statuses, Failed
<1> HIDE DEF e, r
<1>4. /\ e.part[p] = r /\ \A q \in Partition : q # p => e.part[q] = d.part[q]
  BY <1>2, <1>3, RowSet
<1>5. e.ref = d.ref /\ e.job = d.job BY <1>2 DEF Database
<1>6. ~IsComplete(e, p) BY <1>3, <1>4 DEF IsComplete
<1>7. e.part[p].probe => IsDay(p) BY <1>3, <1>4 DEF CoverageOK, BasisOK
<1>8. CoverageOK(e) /\ Carries(d, e, None, p) BY <1>3, <1>4, <1>5, <1>6, <1>7, RowCarries
<1>9. \A q \in Partition : IsComplete(e, q) => IsComplete(d, q) BY <1>4, <1>6 DEF IsComplete
<1> QED BY <1>8, <1>9 DEF e

LEMMA TakeCovers ==
  ASSUME IInv, Coverage, NEW w \in Worker, NEW from, At(w, from), NEW at \in Ats,
         at \in Splitting => ~IsDay(Top(w).part), at \in Gathering => IsDay(Top(w).part),
         at # "item", FrameShape([Top(w) EXCEPT !.at = at]), NEW fuel \in BOOLEAN,
         NEW m, Follows(m, work[w], {Top(w).part}),
         m.stack # <<>> => m.stack[1].at \notin {"fetch", "joining"},
         TakePartition(w, at, fuel, m)
  PROVE  Covers(w)
<1> DEFINE p == Top(w).part
           j == work[w].job
           d == Prepare(db, p, j)
           f == [Top(w) EXCEPT !.at = at]
           n == Spend([work[w] EXCEPT !.stack[1].at = at], fuel)
<1>1. /\ db \in Database /\ Trusted(db) /\ CoverageOK(db) /\ p \in Partition /\ j \in Job
      /\ work[w] \in Memories /\ work[w].resume = TRUE /\ Top(w) \in Frames /\ Working
  BY Covering
<1>2. /\ CoverageOK(d) /\ Carries(db, d, j, p)
      /\ EvidenceStatus(db, p, j) = "current" /\ IsComplete(d, p) => AllCovered(d, p)
  BY <1>1, PrepareCarries
<1>3. d \in Database BY <1>1, PrepareRefreshes DEF CoverageOK
<1>4. f \in Frames /\ f.part = p /\ f.left = Top(w).left /\ f.right = Top(w).right
  <2>1. f \in Frames BY <1>1, FrameMoves
  <2> QED BY <1>1, <2>1 DEF Frames, FrameRow
<1>5. /\ n.job = work[w].job /\ n.resume = work[w].resume /\ n.root = work[w].root
      /\ n.sound = work[w].sound /\ n.stack = [work[w].stack EXCEPT ![1] = f]
  BY <1>1 DEF Memories, MemoryRow, Spend, Top
<1>6. \/ Return(w, "none") /\ db' = db
      \/ RunsJob(db, j, w) /\ Return(w, "none") /\ db' = d
      \/ /\ RunsJob(db, j, w) /\ EvidenceStatus(db, p, j) = "current" /\ IsComplete(d, p)
         /\ db' = d /\ work' = [work EXCEPT ![w] = m]
      \/ /\ RunsJob(db, j, w) /\ ~IsComplete(d, p)
         /\ db' = Claim(d, p, w, at # "fetch" \/ work[w].resume)
         /\ work' = [work EXCEPT ![w] = n]
  BY DEF TakePartition, IsComplete
<1>7. FrameShape(f) OBVIOUS
<1> HIDE DEF d, f, n
<1>8. ASSUME RunsJob(db, j, w), db' = d PROVE Carried(w)
  BY <1>1, <1>2, <1>8 DEF Carried
<1>9. "none" \in Outcomes /\ "none" # "true" BY DEF Outcomes
<1>10. CASE Return(w, "none") /\ db' = db
  BY <1>1, <1>9, <1>10, StillCarried, ReturnCovers
<1>11. CASE RunsJob(db, j, w) /\ Return(w, "none") /\ db' = d
  BY <1>8, <1>9, <1>11, ReturnCovers
<1>12. CASE /\ RunsJob(db, j, w) /\ EvidenceStatus(db, p, j) = "current" /\ IsComplete(d, p)
            /\ db' = d /\ work' = [work EXCEPT ![w] = m]
  <2>1. Noted(db', m) BY DEF Noted
  <2>2. Followed(w, {p}) BY <1>12, <2>1 DEF Followed
  <2> HIDE DEF p, j
  <2>3. Done(d, w, j, p) BY <1>1, <1>2, <1>12, FoundComplete
  <2> QED BY <1>8, <1>12, <2>2, <2>3 DEF Covers, p, j
<1>13. CASE /\ RunsJob(db, j, w) /\ ~IsComplete(d, p)
            /\ db' = Claim(d, p, w, at # "fetch" \/ work[w].resume)
            /\ work' = [work EXCEPT ![w] = n]
  <2> DEFINE e == Claim(d, p, w, TRUE)
  <2>1. (at # "fetch" \/ work[w].resume) = TRUE BY <1>1
  <2>2. db' = e BY <1>13, <2>1
  <2>3. /\ CoverageOK(e) /\ Carries(d, e, None, p)
        /\ \A q \in Partition : IsComplete(e, q) => IsComplete(d, q)
        /\ e.ref = d.ref
    BY <1>1, <1>2, <1>3, <1>13, ClaimCarries
  <2> HIDE DEF e
  <2>4. Carries(db, e, j, p) BY <1>2, <2>3, CarriesFurther
  <2>5. Carried(w) BY <1>1, <1>13, <2>2, <2>3, <2>4 DEF Carried
  <2>6. e.ref[j][p] # "none" BY SMTT(30), <1>1, <1>2, <2>3 DEF Carries, RefsRecorded
  <2>7. Followed(w, {}) BY <1>4, <1>5, <1>7, <1>13, <2>2, <2>6, TopFollowed
  <2> QED BY <2>5, <2>7 DEF Covers
<1> QED BY <1>6, <1>10, <1>11, <1>12, <1>13

(* A worker that took its partition and found it complete returns it.      *)
LEMMA TakeOrReturn ==
  ASSUME IInv, Coverage, NEW w \in Worker, NEW from, At(w, from), NEW at \in Ats,
         at \in Splitting => ~IsDay(Top(w).part), at \in Gathering => IsDay(Top(w).part),
         at # "item", FrameShape([Top(w) EXCEPT !.at = at]), NEW fuel \in BOOLEAN,
         TakePartition(w, at, fuel, Resumed(work[w], "true"))
  PROVE  Covers(w)
<1> DEFINE m == Resumed(work[w], "true")
<1>1. /\ work[w] \in Memories /\ work[w].job \in Job /\ work[w].stack # <<>> /\ Shape(work[w])
  BY Covering
<1>2. "true" \in Outcomes BY DEF Outcomes
<1>3. /\ Follows(m, work[w], {Top(w).part})
      /\ m.stack # <<>> => m.stack[1].at \in {"enter", "join"}
  BY <1>1, <1>2, ResumedFollows DEF Top
<1> HIDE DEF m
<1>4. m.stack # <<>> => m.stack[1].at \notin {"fetch", "joining"} BY <1>3
<1>5. TakePartition(w, at, fuel, m) BY DEF m
<1> QED BY <1>3, <1>4, <1>5, TakeCovers
-----------------------------------------------------------------------------
(* The actions carry the coverage.                                         *)

LEMMA EnterCovers ==
  ASSUME IInv, Coverage, NEW w \in Worker, Enter(w)
  PROVE  Covers(w)
<1> DEFINE p == Top(w).part
           j == work[w].job
           d == Reference(db, p, j)
<1>1. At(w, "enter") BY DEF Enter
<1>2. /\ db \in Database /\ Trusted(db) /\ CoverageOK(db) /\ p \in Partition /\ j \in Job
  BY <1>1, Covering
<1>3. /\ CoverageOK(d) /\ Carries(db, d, j, p)
      /\ EvidenceStatus(db, p, j) = "current" /\ IsComplete(d, p) => AllCovered(d, p)
  BY <1>2, ReferenceCarries
<1>4. \/ Goto(w, "claim") /\ db' = db
      \/ Return(w, "false") /\ db' = db
      \/ /\ RunsJob(db, j, w) /\ db' = d
         /\ \/ Return(w, "false")
            \/ /\ EvidenceStatus(db, p, j) = "current" /\ IsComplete(d, p) /\ Return(w, "true")
            \/ IsDay(p) /\ Goto(w, "bind")
            \/ ~IsDay(p) /\ work' = [work EXCEPT ![w] = Descend(work[w])]
            \/ Goto(w, "claim")
  BY DEF Enter, IsComplete
<1> HIDE DEF d
<1>5. Carried(w)
  <2>1. CASE db' = db BY <1>2, <2>1, StillCarried
  <2>2. CASE RunsJob(db, j, w) /\ db' = d BY <1>2, <1>3, <2>2 DEF Carried
  <2> QED BY <1>4, <2>1, <2>2
<1>6. CASE Goto(w, "claim")
  BY <1>1, <1>5, <1>6, GotoCovers DEF Ats, Splitting, Halves, Gathering
<1>7. CASE Return(w, "false") BY <1>1, <1>5, <1>7, ReturnCovers DEF Outcomes
<1>8. CASE /\ db' = d /\ EvidenceStatus(db, p, j) = "current" /\ IsComplete(d, p)
           /\ Return(w, "true")
  <2> HIDE DEF p, j
  <2>1. Done(d, w, j, p) BY <1>2, <1>3, <1>8, FoundComplete
  <2>2. "true" \in Outcomes BY DEF Outcomes
  <2> QED BY <1>1, <1>5, <1>8, <2>1, <2>2, ReturnCovers DEF p, j
<1>9. CASE IsDay(p) /\ Goto(w, "bind")
  BY <1>1, <1>5, <1>9, GotoCovers DEF Ats, Splitting, Halves, Gathering
<1>10. CASE ~IsDay(p) /\ work' = [work EXCEPT ![w] = Descend(work[w])]
  BY <1>1, <1>5, <1>10, DescendCovers DEF Splitting, Halves
<1> QED BY <1>4, <1>6, <1>7, <1>8, <1>9, <1>10

(* A frame that is not between its halves may move to any place but the    *)
(* join.                                                                   *)
LEMMA MovedShape ==
  ASSUME NEW f \in Frames, FrameShape(f), NEW at \in Ats, at # "joining", f.at \notin Splitting
  PROVE  FrameShape([f EXCEPT !.at = at])
BY DEF FrameShape, Frames, FrameRow, Splitting, Halves

LEMMA ClaimProbeCovers ==
  ASSUME IInv, Coverage, NEW w \in Worker, ClaimProbe(w)
  PROVE  Covers(w)
<1>1. At(w, "claim") BY DEF ClaimProbe
<1>2. CoverageOK(db) /\ FrameShape(Top(w)) /\ Top(w) \in Frames /\ Top(w).at = "claim"
  BY <1>1, Covering
<1>3. CASE Return(w, "none") /\ UNCHANGED db
  BY <1>1, <1>2, <1>3, StillCarried, ReturnCovers DEF Outcomes
<1>4. CASE \E fuel \in BOOLEAN : TakePartition(w, "fetch", fuel, Resumed(work[w], "true"))
  <2>1. PICK fuel \in BOOLEAN : TakePartition(w, "fetch", fuel, Resumed(work[w], "true"))
    BY <1>4
  <2>2. /\ "fetch" \in Ats /\ "fetch" \notin Splitting /\ "fetch" \notin Gathering
        /\ "claim" \notin Splitting
    BY DEF Ats, Splitting, Halves, Gathering
  <2>3. FrameShape([Top(w) EXCEPT !.at = "fetch"]) BY <1>2, <2>2, MovedShape
  <2> QED BY <1>1, <2>1, <2>2, <2>3, TakeOrReturn
<1> QED BY <1>3, <1>4 DEF ClaimProbe

(* A completed leaf is done, for whichever job referred to it.             *)
LEMMA LeafDone ==
  ASSUME NEW e, NEW p \in Partition, Leaf(e, p), NEW j, e.ref[j][p] # "none", NEW w
  PROVE  Done(e, w, j, p)
<1>1. AllCovered(e, p) BY DEF AllCovered, CoveredIn
<1>2. AllKnown(e, p) BY SMTT(30), <1>1 DEF AllCovered, AllKnown, Known
<1> QED BY <1>1, <1>2 DEF Done, Settled, Leaf

LEMMA CommitLeafCovers ==
  ASSUME IInv, Coverage, NEW w \in Worker, CommitLeaf(w)
  PROVE  Covers(w)
<1> DEFINE p == Top(w).part
           j == work[w].job
<1>1. At(w, "fetch") BY DEF CommitLeaf
<1>2. /\ DbOK(db) /\ CoverageOK(db) /\ p \in Partition /\ j \in Job /\ Noted(db, work[w])
      /\ work[w].stack # <<>> /\ Top(w).at = "fetch"
  BY <1>1, Covering
<1>3. CASE Return(w, "none") /\ UNCHANGED db
  BY <1>1, <1>2, <1>3, StillCarried, ReturnCovers DEF Outcomes
<1>4. ASSUME NEW page \in Pages(DocsIn(p), Limit[j]), Holds(db.part[p], w),
             db' = [Store(db, page) EXCEPT !.part[p] =
                     [@ EXCEPT !.status = "complete", !.basis = "short_page",
                               !.probe = FALSE, !.catalog = {}]],
             Return(w, "true")
      PROVE  Covers(w)
  <2> DEFINE s == Store(db, page)
             r == [s.part[p] EXCEPT !.status = "complete", !.basis = "short_page",
                                    !.probe = FALSE, !.catalog = {}]
             e == [s EXCEPT !.part[p] = r]
  <2>1. page \subseteq DocsIn(p) BY <1>2, <1>4, PageParts, LimitIsNumber
  <2>2. page \in SUBSET Doc BY <2>1 DEF DocsIn
  <2>3. s \in Database /\ s.part = db.part /\ s.ref = db.ref /\ s.job = db.job
    BY <1>2, <2>2, StoreParts
  <2>4. db' = e BY <1>4
  <2> HIDE DEF s, p
  <2>5. r \in PartitionRow /\ r.status = "complete" /\ r.basis = "short_page" /\ ~r.probe
    <3>1. s.part[p] \in PartitionRow BY <1>2, <2>3 DEF Database
    <3> QED BY <3>1 DEF PartitionRow, Statuses, Bases
  <2> HIDE DEF r
  <2>6. e.part[p] = r /\ \A q \in Partition : q # p => e.part[q] = s.part[q]
    <3>1. p \in Partition /\ s \in Database BY <1>2, <2>3 DEF p
    <3>2. e.part = [s.part EXCEPT ![p] = r] /\ s.part \in [Partition -> PartitionRow]
      BY <3>1 DEF Database
    <3> QED BY <3>1, <3>2
  <2>7. e.ref = s.ref /\ e.job = s.job BY <2>3 DEF Database
  <2> HIDE DEF e
  <2>8. ~IsComplete(db, p) BY <1>2, <1>4, HeldIsOpen DEF p
  <2>9. IsComplete(e, p) /\ e.part[p].basis = "short_page" /\ ~e.part[p].probe
    BY <2>5, <2>6 DEF IsComplete
  <2>10. /\ e.ref = db.ref /\ e.job = db.job
         /\ \A q \in Partition : q # p => e.part[q] = db.part[q]
    BY <2>3, <2>6, <2>7
  <2>11. p \in Partition BY <1>2 DEF p
  <2>12. CoverageOK(e) /\ Carries(db, e, None, p)
    BY <1>2, <2>8, <2>9, <2>10, <2>11, RowCarries
  <2>13. Carried(w) BY <1>2, <2>4, <2>12, RowCarried DEF p
  <2>14. Leaf(e, p) BY <2>9 DEF Leaf
  <2>15. e.ref[j][p] # "none" BY <1>2, <2>10 DEF Noted, Top, p
  <2> HIDE DEF j
  <2>16. Done(e, w, j, p) BY <2>11, <2>14, <2>15, LeafDone
  <2>17. "true" \in Outcomes BY DEF Outcomes
  <2> QED BY <1>1, <1>4, <2>4, <2>13, <2>16, <2>17, ReturnCovers DEF p, j
<1> QED BY <1>3, <1>4 DEF CommitLeaf

(* The row of a day that a probe or a verification round leaves open.      *)
LEMMA ProbeCarried ==
  ASSUME IInv, Coverage, NEW w \in Worker, NEW at, At(w, at), IsDay(Top(w).part),
         Holds(db.part[Top(w).part], w),
         NEW page \in Pages(DocsIn(Top(w).part), Limit[work[w].job]),
         NEW x, x = ExpandPartition(Store(db, page), Top(w).part),
         db'.part = [x.part EXCEPT ![Top(w).part] =
                     [x.part[Top(w).part] EXCEPT !.status = "failed_overflow", !.probe = TRUE]],
         db'.ref = x.ref, db'.job = x.job
  PROVE  Carried(w)
<1> DEFINE p == Top(w).part
           s == Store(db, page)
<1>1. DbOK(db) /\ db \in Database /\ CoverageOK(db) /\ p \in Partition /\ work[w].job \in Job
  BY Covering
<1>2. page \subseteq DocsIn(p) BY <1>1, PageParts, LimitIsNumber
<1>3. page \in SUBSET Doc BY <1>2 DEF DocsIn
<1>4. s \in Database /\ s.part = db.part /\ s.ref = db.ref /\ s.job = db.job
  BY <1>1, <1>3, StoreParts
<1> HIDE DEF s
<1>5. Expanded(s, x) BY <1>1, <1>4, ExpandParts DEF s
<1>6. x.part = db.part /\ x.ref = db.ref /\ x.job = db.job BY <1>4, <1>5, ExpandedFields
<1>7. db.part \in [Partition -> PartitionRow] BY <1>1 DEF Database
<1> DEFINE r == [db.part[p] EXCEPT !.status = "failed_overflow", !.probe = TRUE]
<1>8. r.status = "failed_overflow" /\ r.probe = TRUE
  <2>1. db.part[p] \in PartitionRow BY <1>1, <1>7
  <2> HIDE DEF p
  <2> QED BY <2>1 DEF PartitionRow
<1>9. db'.part = [db.part EXCEPT ![p] = r] BY <1>6
<1> HIDE DEF r
<1>10. db'.part[p] = r /\ \A q \in Partition : q # p => db'.part[q] = db.part[q]
  BY <1>1, <1>7, <1>9
<1>11. ~IsComplete(db, p) BY <1>1, HeldIsOpen
<1>12. ~IsComplete(db', p) /\ db'.part[p].probe /\ IsDay(p) BY <1>8, <1>10 DEF IsComplete
<1>13. db'.ref = db.ref /\ db'.job = db.job BY <1>6
<1> HIDE DEF p
<1>14. CoverageOK(db') /\ Carries(db, db', None, p)
  BY <1>1, <1>10, <1>11, <1>12, <1>13, RowCarries
<1> QED BY <1>1, <1>14, RowCarried DEF p

LEMMA CommitProbeCovers ==
  ASSUME IInv, Coverage, NEW w \in Worker, CommitProbe(w)
  PROVE  Covers(w)
<1> DEFINE p == Top(w).part
<1>1. At(w, "fetch") /\ IsDay(p) BY DEF CommitProbe
<1>2. DbOK(db) /\ db \in Database /\ CoverageOK(db) /\ p \in Partition /\ work[w].job \in Job
  BY <1>1, Covering
<1>3. CASE Return(w, "none") /\ UNCHANGED db
  BY <1>1, <1>2, <1>3, StillCarried, ReturnCovers DEF Outcomes
<1>4. ASSUME NEW page \in Pages(DocsIn(p), Limit[work[w].job]), Holds(db.part[p], w),
             db' = [ExpandPartition(Store(db, page), p) EXCEPT
                     !.probed[p] = @ \cup page,
                     !.part[p] = [@ EXCEPT !.status = "failed_overflow", !.probe = TRUE]],
             Goto(w, "bind")
      PROVE  Covers(w)
  <2> DEFINE s == Store(db, page)
             x == ExpandPartition(s, p)
  <2>1. page \subseteq DocsIn(p) BY <1>2, <1>4, PageParts, LimitIsNumber
  <2>2. page \in SUBSET Doc BY <2>1 DEF DocsIn
  <2>3. s \in Database BY <1>2, <2>2, StoreParts
  <2> HIDE DEF p, s
  <2>4. x \in Database BY <1>2, <2>3, ExpandParts DEF Expanded, p
  <2>5. db' = [x EXCEPT !.probed[p] = @ \cup page,
                        !.part[p] = [@ EXCEPT !.status = "failed_overflow", !.probe = TRUE]]
    BY <1>4 DEF s, p
  <2> HIDE DEF x
  <2>6. /\ db'.part = [x.part EXCEPT ![p] =
                       [x.part[p] EXCEPT !.status = "failed_overflow", !.probe = TRUE]]
        /\ db'.ref = x.ref /\ db'.job = x.job
    BY <2>4, <2>5 DEF Database
  <2>7. x = ExpandPartition(Store(db, page), p) BY DEF x, s
  <2>8. Carried(w)
    <3>1. At(w, "fetch") /\ IsDay(Top(w).part) /\ Holds(db.part[Top(w).part], w)
      BY <1>1, <1>4 DEF p
    <3>2. page \in Pages(DocsIn(Top(w).part), Limit[work[w].job]) BY <1>4 DEF p
    <3>3. db'.part = [x.part EXCEPT ![Top(w).part] =
                       [x.part[Top(w).part] EXCEPT !.status = "failed_overflow", !.probe = TRUE]]
      BY <2>6 DEF p
    <3>4. x = ExpandPartition(Store(db, page), Top(w).part) BY <2>7 DEF p
    <3> QED BY ZenonT(60), <3>1, <3>2, <3>3, <3>4, <2>6, ProbeCarried
  <2> QED BY <1>1, <1>4, <2>8, GotoCovers DEF Ats, Splitting, Halves, Gathering, p
<1> QED BY <1>3, <1>4 DEF CommitProbe

LEMMA FailCarried ==
  ASSUME IInv, Coverage, NEW w \in Worker, NEW at, At(w, at), NEW status \in Failed,
         \/ db' = db
         \/ Holds(db.part[Top(w).part], w) /\ db' = Fail(db, Top(w).part, status)
  PROVE  Carried(w)
<1> DEFINE p == Top(w).part
<1>1. db \in Database /\ CoverageOK(db) /\ p \in Partition BY Covering
<1>2. CASE db' = db BY <1>1, <1>2, StillCarried
<1>3. CASE Holds(db.part[p], w) /\ db' = Fail(db, p, status)
  <2>1. ~IsComplete(db, p) BY <1>1, <1>3, HeldIsOpen
  <2> HIDE DEF p
  <2>2. CoverageOK(db') /\ Carries(db, db', None, p) BY <1>1, <1>3, <2>1, FailCarries
  <2> QED BY <1>1, <2>2, RowCarried DEF p
<1> QED BY <1>2, <1>3

LEMMA DiscardPageCovers ==
  ASSUME IInv, Coverage, NEW w \in Worker, DiscardPage(w)
  PROVE  Covers(w)
<1>1. At(w, "fetch") /\ ~IsDay(Top(w).part) BY DEF DiscardPage
<1>2. /\ \/ db' = db
         \/ Holds(db.part[Top(w).part], w) /\ db' = Fail(db, Top(w).part, "failed_overflow")
      /\ Return(w, "none") \/ work' = [work EXCEPT ![w] = Descend(work[w])]
  BY DEF DiscardPage
<1>3. Carried(w) BY <1>1, <1>2, FailCarried DEF Failed
<1>4. CASE Return(w, "none") BY <1>1, <1>3, <1>4, ReturnCovers DEF Outcomes
<1>5. CASE work' = [work EXCEPT ![w] = Descend(work[w])]
  BY <1>1, <1>3, <1>5, DescendCovers DEF Splitting, Halves
<1> QED BY <1>2, <1>4, <1>5

LEMMA FetchFailsCovers ==
  ASSUME IInv, Coverage, NEW w \in Worker, FetchFails(w)
  PROVE  Covers(w)
<1>1. PICK at : At(w, at) BY DEF FetchFails
<1>2. \/ db' = db
      \/ Holds(db.part[Top(w).part], w) /\ db' = Fail(db, Top(w).part, "failed_retryable")
  BY DEF FetchFails
<1>3. Carried(w) BY <1>1, <1>2, FailCarried DEF Failed
<1>4. CASE Return(w, "false") BY <1>1, <1>3, <1>4, ReturnCovers DEF Outcomes
<1>5. CASE work' = [work EXCEPT ![w] = Unwound(work[w])] BY <1>1, <1>3, <1>5, UnwindCovers
<1> QED BY <1>4, <1>5 DEF FetchFails

LEMMA JoinCovers ==
  ASSUME IInv, Coverage, NEW w \in Worker, Join(w)
  PROVE  Covers(w)
<1>1. At(w, "join") BY DEF Join
<1>2. /\ CoverageOK(db) /\ Top(w) \in Frames /\ work[w] \in Memories /\ Working
  BY <1>1, Covering
<1>3. CASE /\ BothHalvesDone(Top(w))
           /\ TakePartition(w, "joining", work[w].fuel, Resumed(work[w], "true"))
  <2>1. "join" \in Splitting /\ "joining" \in Ats /\ "joining" \notin Gathering
    BY DEF Ats, Splitting, Halves, Gathering
  <2>2. ~IsDay(Top(w).part) BY <1>1, <1>2, <2>1, Acting
  <2>3. work[w].fuel \in BOOLEAN BY <1>2 DEF Memories, MemoryRow
  <2>4. FrameShape([Top(w) EXCEPT !.at = "joining"])
    BY <1>2, <1>3 DEF FrameShape, BothHalvesDone, Frames, FrameRow
  <2> QED BY <1>1, <1>3, <2>1, <2>2, <2>3, <2>4, TakeOrReturn
<1>4. CASE /\ Return(w, IF "none" \in {Top(w).left, Top(w).right} THEN "none" ELSE "false")
           /\ UNCHANGED db
  <2> DEFINE out == IF "none" \in {Top(w).left, Top(w).right} THEN "none" ELSE "false"
  <2>1. out \in Outcomes /\ out # "true" BY DEF Outcomes
  <2>2. Carried(w) BY <1>2, <1>4, StillCarried
  <2>3. Return(w, out) BY <1>4
  <2> HIDE DEF out
  <2> QED BY <1>1, <2>1, <2>2, <2>3, ReturnCovers
<1> QED BY <1>3, <1>4 DEF Join

(* Both halves are done, so the range over them is: what was reopened in a *)
(* half meanwhile is known, and the job's reference to it says so.         *)
LEMMA SplitDone ==
  ASSUME NEW d, NEW e, NEW p \in Partition, ~IsDay(p), NEW j, NEW w,
         Done(d, w, j, Left(p)), Done(d, w, j, Right(p)),
         e.ref = d.ref, e.job = d.job, d.ref[j][p] # "none", IsComplete(e, p),
         ~IsComplete(d, p), \A q \in Partition : q # p => e.part[q] = d.part[q],
         AllKnown(e, p)
  PROVE  Done(e, w, j, p)
<1> DEFINE l == Left(p)
           r == Right(p)
<1>1. /\ l \in Partition /\ r \in Partition /\ Within(l, p) /\ Within(r, p)
      /\ \A t \in Days(p) : t \in Days(l) \/ t \in Days(r)
  BY HalvesCover
<1> HIDE DEF l, r
<1>2. \A t : CoveredIn(d, t) => CoveredIn(e, t)
  <2> SUFFICES ASSUME NEW t, CoveredIn(d, t) PROVE CoveredIn(e, t)
    OBVIOUS
  <2>1. PICK q \in Partition : t \in Days(q) /\ Leaf(d, q) BY DEF CoveredIn
  <2>2. q # p BY <2>1 DEF Leaf
  <2>3. Leaf(e, q) BY <2>1, <2>2 DEF Leaf, IsComplete
  <2> QED BY <2>1, <2>3 DEF CoveredIn
<1>3. ASSUME RunsJob(e, j, w) PROVE Settled(e, j, p)
  <2>1. RunsJob(d, j, w) BY <1>3 DEF RunsJob
  <2>2. Settled(d, j, l) /\ Settled(d, j, r) BY <2>1 DEF Done, l, r
  <2>3. CASE Doubted(d, j, l) \/ Doubted(d, j, r)
    <3>1. PICK h \in {l, r} : Doubted(d, j, h) BY <2>3
    <3>2. PICK g \in Partition : Within(g, h) /\ d.ref[j][g] = "needs_revalidation"
      BY <3>1 DEF Doubted
    <3>3. Within(g, p) BY <1>1, <3>2, WithinFurther
    <3>4. Doubted(e, j, p) BY <3>2, <3>3 DEF Doubted
    <3> QED BY <3>4 DEF Settled
  <2>4. CASE AllCovered(d, l) /\ AllCovered(d, r)
    <3>1. AllCovered(e, p) BY <1>1, <1>2, <2>4 DEF AllCovered
    <3> QED BY <3>1 DEF Settled
  <2> QED BY <2>2, <2>3, <2>4 DEF Settled
<1> QED BY <1>3 DEF Done

LEMMA FinishSplitCovers ==
  ASSUME IInv, Coverage, NEW w \in Worker, FinishSplit(w)
  PROVE  Covers(w)
<1> DEFINE p == Top(w).part
           j == work[w].job
           r == [db.part[p] EXCEPT !.status = "complete", !.basis = "split_children"]
<1>1. At(w, "joining") BY DEF FinishSplit
<1>2. /\ db \in Database /\ CoverageOK(db) /\ p \in Partition /\ j \in Job /\ Noted(db, work[w])
      /\ work[w] \in Memories /\ work[w].stack # <<>> /\ Top(w).at = "joining"
      /\ FrameShape(Top(w)) /\ Working /\ \A h \in Past(work[w]) : Done(db, w, j, h)
  BY <1>1, Covering
<1>3. ~IsDay(p)
  <2>1. "joining" \in Splitting BY DEF Splitting
  <2> QED BY <1>1, <1>2, <2>1, Acting
<1>4. CASE Return(w, "none") /\ UNCHANGED db
  BY <1>1, <1>2, <1>4, StillCarried, ReturnCovers DEF Outcomes
<1>5. CASE /\ Holds(db.part[p], w) /\ Return(w, "true")
           /\ db' = [db EXCEPT !.part[p] =
                      [@ EXCEPT !.status = "complete", !.basis = "split_children"]]
  <2>1. db' = [db EXCEPT !.part[p] = r] BY <1>5
  <2>2. ~IsComplete(db, p) BY <1>2, <1>5, HeldIsOpen
  <2>3. Left(p) \in Past(work[w]) /\ Right(p) \in Past(work[w])
    <3>1. BothHalvesDone(Top(w)) BY <1>2 DEF FrameShape
    <3>2. Left(p) \in Partition /\ Right(p) \in Partition BY <1>2, <1>3, HalvesCover
    <3>3. Left(p) \in DoneHalves(Top(w)) /\ Right(p) \in DoneHalves(Top(w))
      BY <3>1, <3>2 DEF BothHalvesDone, DoneHalves
    <3>4. work[w].stack \in Stacks BY <1>2 DEF Memories, MemoryRow
    <3>5. 1 \in 1..Len(work[w].stack) BY <1>2, <3>4, FrameParts
    <3> QED BY <3>2, <3>3, <3>5 DEF Past, PastHalves, Top
  <2>4. Done(db, w, j, Left(p)) /\ Done(db, w, j, Right(p)) BY <1>2, <2>3
  <2>5. AllKnown(db, p)
    <3>1. \A t \in Days(p) : t \in Days(Left(p)) \/ t \in Days(Right(p)) BY <1>2, <1>3, HalvesCover
    <3> QED BY <2>4, <3>1 DEF AllKnown, Done
  <2> HIDE DEF p
  <2>6. r \in PartitionRow /\ r.status = "complete" /\ r.basis = "split_children"
        /\ r.probe = db.part[p].probe
    <3>1. db.part[p] \in PartitionRow BY <1>2 DEF Database
    <3> QED BY <3>1 DEF PartitionRow, Statuses, Bases
  <2> HIDE DEF r
  <2>7. db'.part[p] = r /\ \A q \in Partition : q # p => db'.part[q] = db.part[q]
    <3>1. db'.part = [db.part EXCEPT ![p] = r] BY <1>2, <2>1 DEF Database
    <3>2. db.part \in [Partition -> PartitionRow] BY <1>2 DEF Database
    <3> QED BY <1>2, <3>1, <3>2
  <2>8. db'.ref = db.ref /\ db'.job = db.job BY <1>2, <2>1 DEF Database
  <2>9. /\ IsComplete(db', p) /\ db'.part[p].basis = "split_children"
        /\ db'.part[p].probe => IsDay(p)
    BY <1>2, <2>6, <2>7 DEF IsComplete, CoverageOK, BasisOK
  <2>10. CoverageOK(db') /\ Carries(db, db', None, p)
    BY <1>2, <1>3, <2>2, <2>5, <2>7, <2>8, <2>9, RowCarries
  <2>11. Carried(w) BY <1>2, <2>10, RowCarried DEF p
  <2>12. db.ref[j][p] # "none" BY <1>2 DEF Noted, Top, p
  <2>13. AllKnown(db', p) BY <1>2, <2>9, <2>10 DEF CoverageOK, RangesKnown
  <2> HIDE DEF j
  <2>14. Done(db', w, j, p)
    BY <1>2, <1>3, <2>2, <2>4, <2>7, <2>8, <2>9, <2>12, <2>13, SplitDone
  <2>15. "true" \in Outcomes BY DEF Outcomes
  <2> QED BY <1>1, <1>5, <2>11, <2>14, <2>15, ReturnCovers DEF p, j
<1> QED BY <1>4, <1>5 DEF FinishSplit

LEMMA BindCovers ==
  ASSUME IInv, Coverage, NEW w \in Worker, Bind(w)
  PROVE  Covers(w)
<1> DEFINE p == Top(w).part
           j == work[w].job
           frozen == IF db.members[j] = {}
                     THEN [db EXCEPT !.members[j] = Listed \cup db.catalog] ELSE ExpandJob(db, j)
           row == [c \in Code |-> IF c \in frozen.members[j]
                     THEN [NoItem EXCEPT !.status = "pending"] ELSE NoItem]
<1>1. At(w, "bind") BY DEF Bind
<1>2. db \in Database /\ CoverageOK(db) /\ p \in Partition /\ j \in Job BY <1>1, Covering
<1>3. IsDay(p)
  <2>1. "bind" \in Gathering BY DEF Gathering
  <2> QED BY <1>1, <2>1, Covering, Acting
<1>4. /\ db' = db \/ db' = [frozen EXCEPT !.bound[p] = j, !.item[p] = row]
      /\ Return(w, "false") \/ Return(w, "none") \/ Goto(w, "scan")
  BY DEF Bind
<1>5. /\ frozen.part = db.part /\ frozen.ref = db.ref /\ frozen.job = db.job
      /\ [frozen EXCEPT !.bound[p] = j, !.item[p] = row].part = frozen.part
      /\ [frozen EXCEPT !.bound[p] = j, !.item[p] = row].ref = frozen.ref
      /\ [frozen EXCEPT !.bound[p] = j, !.item[p] = row].job = frozen.job
  <2>1. /\ frozen.part = db.part /\ frozen.ref = db.ref /\ frozen.job = db.job
        /\ \E ms, is : frozen = [db EXCEPT !.members = ms, !.item = is]
    <3>1. CASE db.members[j] = {}
      <4> DEFINE f == [db EXCEPT !.members[j] = Listed \cup db.catalog]
      <4>1. /\ f = [db EXCEPT !.members = f.members, !.item = db.item]
            /\ f.part = db.part /\ f.ref = db.ref /\ f.job = db.job
        BY <1>2 DEF Database
      <4>2. frozen = f BY <3>1
      <4> HIDE DEF f, frozen
      <4> QED BY <4>1, <4>2
    <3>2. CASE db.members[j] # {}
      <4> DEFINE f == ExpandJob(db, j)
      <4>1. Expanded(db, f) BY <1>2, ExpandParts
      <4>2. frozen = f BY <3>2
      <4> HIDE DEF f, frozen
      <4>3. f.part = db.part /\ f.ref = db.ref /\ f.job = db.job BY <1>2, <4>1, ExpandedFields
      <4> QED BY <4>1, <4>2, <4>3 DEF Expanded
    <3> QED BY <3>1, <3>2
  <2> HIDE DEF frozen, p, j, row
  <2>2. PICK ms, is : frozen = [db EXCEPT !.members = ms, !.item = is] BY <2>1
  <2> QED BY <1>2, <2>1, <2>2 DEF Database
<1>6. Carried(w)
  <2> HIDE DEF frozen, p, j, row
  <2> QED BY <1>2, <1>4, <1>5, StillCarried
<1> HIDE DEF frozen, row
<1>7. CASE Return(w, "false") \/ Return(w, "none")
  BY <1>1, <1>6, <1>7, ReturnCovers DEF Outcomes
<1>8. CASE Goto(w, "scan")
  BY <1>1, <1>3, <1>6, <1>8, GotoCovers DEF Ats, Splitting, Halves, Gathering
<1> QED BY <1>4, <1>7, <1>8

LEMMA BindFailsCovers ==
  ASSUME IInv, Coverage, NEW w \in Worker, BindFails(w)
  PROVE  Covers(w)
<1> DEFINE p == Top(w).part
           j == work[w].job
           d == Prepare(db, p, j)
           c == Claim(d, p, w, TRUE)
           e == Fail(c, p, "failed_retryable")
<1>1. At(w, "bind") BY DEF BindFails
<1>2. /\ db \in Database /\ Trusted(db) /\ CoverageOK(db) /\ p \in Partition /\ j \in Job
  BY <1>1, Covering
<1>3. /\ d \in Database /\ CoverageOK(d) /\ Carries(db, d, j, p)
  BY <1>2, PrepareCarries, PrepareRefreshes DEF CoverageOK
<1>4. \/ db' = db
      \/ RunsJob(db, j, w) /\ db' = d
      \/ RunsJob(db, j, w) /\ ~IsComplete(d, p) /\ db' = e
  BY DEF BindFails, IsComplete
<1>5. work' = [work EXCEPT ![w] = Unwound(work[w])] BY DEF BindFails
<1> HIDE DEF d, e
<1>6. CASE db' = db BY <1>1, <1>2, <1>5, <1>6, StillCarried, UnwindCovers
<1>7. CASE RunsJob(db, j, w) /\ db' = d
  <2>1. Carried(w) BY <1>2, <1>3, <1>7 DEF Carried
  <2> QED BY <1>1, <1>5, <2>1, UnwindCovers
<1>8. CASE RunsJob(db, j, w) /\ ~IsComplete(d, p) /\ db' = e
  <2>1. /\ CoverageOK(c) /\ Carries(d, c, None, p)
        /\ \A q \in Partition : IsComplete(c, q) => IsComplete(d, q)
    BY <1>2, <1>3, <1>8, ClaimCarries
  <2>2. c \in Database /\ ~IsComplete(c, p)
    <3>1. DbOK(d)
      <4>1. DbOK(db) BY <1>1, Covering
      <4>2. Trusted(d) /\ Refreshes(db, d) BY <1>2, PrepareRefreshes DEF CoverageOK, d
      <4> QED BY <1>3, <4>1, <4>2, RefreshKeeps
    <3> QED BY <1>2, <1>8, <3>1, ClaimKeeps DEF Keeps, DbOK
  <2> HIDE DEF c, p, j
  <2>3. "failed_retryable" \in Failed /\ p \in Partition BY <1>2 DEF Failed, p
  <2>4. /\ CoverageOK(e) /\ Carries(c, e, None, p)
        /\ \A q \in Partition : IsComplete(e, q) => IsComplete(c, q)
    BY <2>1, <2>2, <2>3, FailCarries DEF e
  <2>5. Carries(db, c, j, p) BY <1>3, <2>1, CarriesFurther
  <2>6. Carries(db, e, j, p) BY <2>4, <2>5, CarriesFurther
  <2>7. Carried(w) BY <1>2, <1>8, <2>4, <2>6 DEF Carried, p, j
  <2> QED BY <1>1, <1>5, <2>7, UnwindCovers
<1> QED BY <1>4, <1>6, <1>7, <1>8

LEMMA ScanCovers ==
  ASSUME IInv, Coverage, NEW w \in Worker, Scan(w)
  PROVE  Covers(w)
<1> DEFINE p == Top(w).part
           j == work[w].job
           d == ExpandJob(db, j)
           open == {c \in Code : d.item[p][c].status \notin {"absent", "complete"}}
           hopeless == {c \in open : /\ d.item[p][c].status = "failed_overflow"
                                     /\ d.item[p][c].limit = Limit[j] /\ work[w].resume}
           todo == open \ hopeless
           bad == hopeless # {}
           f == [Top(w) EXCEPT !.at = "items", !.todo = todo, !.bad = bad]
<1>1. At(w, "scan") BY DEF Scan
<1>2. db \in Database /\ CoverageOK(db) /\ j \in Job /\ Top(w) \in Frames /\ Working
  BY <1>1, Covering
<1>3. IsDay(p)
  <2>1. "scan" \in Gathering BY DEF Gathering
  <2> QED BY <1>1, <1>2, <2>1, Acting
<1>4. Carried(w)
  <2>1. Expanded(db, d) /\ db' = d BY <1>2, ExpandParts DEF Scan
  <2> HIDE DEF d
  <2>2. db'.part = db.part /\ db'.ref = db.ref /\ db'.job = db.job
    BY <1>2, <2>1, ExpandedFields
  <2> QED BY <1>2, <2>2, StillCarried
<1>5. work' = [work EXCEPT ![w].stack[1] = f] BY <1>2 DEF Scan, Top, Working
<1>6. todo \in SUBSET Code /\ bad \in BOOLEAN OBVIOUS
<1> HIDE DEF todo, bad
<1>7. f \in Frames /\ f.part = p /\ f.left = Top(w).left /\ f.right = Top(w).right /\ f.at = "items"
  <2>1. "items" \in Ats /\ "items" \notin Splitting BY DEF Ats, Splitting, Halves
  <2> QED BY <1>2, <1>3, <1>6, <2>1 DEF Frames, FrameRow
<1> HIDE DEF f
<1>8. "scan" \notin Splitting BY DEF Splitting, Halves
<1> QED BY <1>1, <1>4, <1>5, <1>7, <1>8, TopCovers

(* Items are no partitions.                                                *)
LEMMA NextItemCovers ==
  ASSUME IInv, Coverage, NEW w \in Worker, At(w, "item"), Carried(w),
         NEW bad \in BOOLEAN, NextItem(w, bad)
  PROVE  Covers(w)
<1> DEFINE todo == Top(w).todo \ {Top(w).code}
           worse == Top(w).bad \/ bad
           f == [Top(w) EXCEPT !.at = "items", !.code = None, !.todo = todo, !.bad = worse]
<1>1. Top(w) \in Frames /\ IsDay(Top(w).part) /\ Top(w).todo \subseteq Code
  <2>1. "item" \in Gathering BY DEF Gathering
  <2> QED BY <2>1, Covering, Acting
<1>2. work' = [work EXCEPT ![w].stack[1] = f] BY DEF NextItem
<1>3. todo \in SUBSET Code /\ worse \in BOOLEAN BY <1>1
<1> HIDE DEF todo, worse
<1>4. /\ f \in Frames /\ f.part = Top(w).part /\ f.left = Top(w).left /\ f.right = Top(w).right
      /\ f.at = "items"
  <2>1. "items" \in Ats /\ "items" \notin Splitting BY DEF Ats, Splitting, Halves
  <2> QED BY <1>1, <1>3, <2>1 DEF Frames, FrameRow
<1> HIDE DEF f
<1>5. "item" \notin Splitting BY DEF Splitting, Halves
<1> QED BY <1>2, <1>4, <1>5, TopCovers

LEMMA ItemCarried ==
  ASSUME IInv, Coverage, NEW w \in Worker, NEW at, At(w, at), NEW c \in Code, NEW r \in ItemRow,
         NEW d \in Database, d.part = db.part, d.ref = db.ref, d.job = db.job,
         db' = WithItem(d, Top(w).part, c, r)
  PROVE  Carried(w)
<1> DEFINE p == Top(w).part
<1>1. CoverageOK(db) /\ p \in Partition BY Covering
<1> HIDE DEF p
<1>2. OneItem(d, WithItem(d, p, c, r), p, c, r) BY <1>1, ItemSet
<1>3. db' = WithItem(d, p, c, r) BY DEF p
<1>4. db'.part = db.part /\ db'.ref = db.ref /\ db'.job = db.job BY <1>2, <1>3 DEF OneItem
<1> QED BY <1>1, <1>4, StillCarried

LEMMA ClaimItemCovers ==
  ASSUME IInv, Coverage, NEW w \in Worker, ClaimItem(w)
  PROVE  Covers(w)
<1> DEFINE p == Top(w).part
<1>1. At(w, "items") BY DEF ClaimItem
<1>2. /\ db \in Database /\ CoverageOK(db) /\ p \in Partition /\ Top(w) \in Frames /\ Working
      /\ work[w] \in Memories /\ work[w].stack # <<>> /\ work[w].job \in Job
      /\ FrameShape(Top(w)) /\ Top(w).at = "items"
  BY <1>1, Covering
<1>3. IsDay(p) /\ Top(w).todo \subseteq Code
  <2>1. "items" \in Gathering BY DEF Gathering
  <2> QED BY <1>1, <1>2, <2>1, Acting
<1>4. CASE Return(w, "none") /\ UNCHANGED db
  BY <1>1, <1>2, <1>4, StillCarried, ReturnCovers DEF Outcomes
<1>5. ASSUME NEW c \in Top(w).todo, UNCHANGED db,
             work' = [work EXCEPT ![w].stack[1].todo = @ \ {c}]
      PROVE  Covers(w)
  <2> DEFINE todo == Top(w).todo \ {c}
             f == [Top(w) EXCEPT !.todo = todo]
  <2>1. work' = [work EXCEPT ![w].stack[1] = f] BY <1>2, <1>5 DEF Top, Working
  <2>2. todo \in SUBSET Code BY <1>3
  <2> HIDE DEF todo
  <2>3. /\ f \in Frames /\ f.part = p /\ f.left = Top(w).left /\ f.right = Top(w).right
        /\ f.at = "items"
    BY <1>2, <2>2 DEF Frames, FrameRow
  <2> HIDE DEF f
  <2>4. Carried(w) BY <1>2, <1>5, StillCarried
  <2>5. "items" \notin Splitting BY DEF Splitting, Halves
  <2> QED BY <1>1, <2>1, <2>3, <2>4, <2>5, TopCovers
<1>6. ASSUME NEW c \in Top(w).todo, NEW fuel \in BOOLEAN,
             db' = [db EXCEPT !.item[p][c] =
                     [status |-> "running", holder |-> w, limit |-> Limit[work[w].job]]],
             work' = [work EXCEPT ![w] =
                       Spend([work[w] EXCEPT !.stack[1].at = "item", !.stack[1].code = c], fuel)]
      PROVE  Covers(w)
  <2> DEFINE r == [status |-> "running", holder |-> w, limit |-> Limit[work[w].job]]
             f == [Top(w) EXCEPT !.at = "item", !.code = c]
             n == Spend([work[w] EXCEPT !.stack[1].at = "item", !.stack[1].code = c], fuel)
  <2>1. c \in Code BY <1>3
  <2>2. r \in ItemRow BY <1>2, LimitIsNumber DEF ItemRow, Statuses
  <2>3. db' = WithItem(db, p, c, r) BY <1>6 DEF WithItem
  <2>4. /\ f \in Frames /\ f.part = p /\ f.left = Top(w).left /\ f.right = Top(w).right
        /\ f.at = "item"
    <3>1. "item" \in Ats /\ "item" \notin Splitting BY DEF Ats, Splitting, Halves
    <3> QED BY <1>2, <1>3, <2>1, <3>1 DEF Frames, FrameRow
  <2>5. /\ n.job = work[w].job /\ n.resume = work[w].resume /\ n.root = work[w].root
        /\ n.sound = work[w].sound /\ n.stack = [work[w].stack EXCEPT ![1] = f]
    BY <1>2 DEF Memories, MemoryRow, Spend, Top
  <2>6. work' = [work EXCEPT ![w] = n] BY <1>6
  <2>7. FrameShape(f) BY <1>2, <2>4 DEF FrameShape
  <2> HIDE DEF f, r, n
  <2>8. Followed(w, {}) BY <1>1, <2>4, <2>5, <2>6, <2>7, TopFollowed
  <2>9. Carried(w) BY <1>1, <1>2, <2>1, <2>2, <2>3, ItemCarried
  <2> QED BY <2>8, <2>9 DEF Covers
<1> QED BY <1>4, <1>5, <1>6 DEF ClaimItem

LEMMA CommitItemCovers ==
  ASSUME IInv, Coverage, NEW w \in Worker, CommitItem(w)
  PROVE  Covers(w)
<1> DEFINE p == Top(w).part
           c == Top(w).code
           limit == Limit[work[w].job]
<1>1. At(w, "item") BY DEF CommitItem
<1>2. DbOK(db) /\ db \in Database /\ CoverageOK(db) /\ p \in Partition /\ work[w].job \in Job
  BY <1>1, Covering
<1>3. c \in Code BY <1>1, Covering, Acting
<1>4. limit \in Nat BY <1>2, LimitIsNumber
<1>5. CASE NextItem(w, FALSE) /\ UNCHANGED db
  <2>1. Carried(w) BY <1>2, <1>5, StillCarried
  <2> QED BY <1>1, <1>5, <2>1, NextItemCovers
<1>6. ASSUME NEW page \in Pages({x \in DocsIn(p) : x.code = c}, limit),
             db' = IF Short(page, limit)
                   THEN [Store(db, page) EXCEPT !.item[p][c].status = "complete"]
                   ELSE [db EXCEPT !.item[p][c].status = "failed_overflow"],
             NextItem(w, ~Short(page, limit))
      PROVE  Covers(w)
  <2>1. page \subseteq {x \in DocsIn(p) : x.code = c} BY <1>4, <1>6, PageParts
  <2>2. page \in SUBSET Doc BY <2>1 DEF DocsIn
  <2> DEFINE s == Store(db, page)
  <2>3. s \in Database /\ s.part = db.part /\ s.ref = db.ref /\ s.job = db.job
    BY <1>2, <2>2, StoreParts
  <2>4. PICK d, status : /\ d \in Database /\ status \in Statuses
                         /\ d.part = db.part /\ d.ref = db.ref /\ d.job = db.job
                         /\ db' = [d EXCEPT !.item[p][c].status = status]
    <3>1. "complete" \in Statuses /\ "failed_overflow" \in Statuses BY DEF Statuses, Failed
    <3>2. CASE Short(page, limit)
      <4>1. db' = [s EXCEPT !.item[p][c].status = "complete"] BY <1>6, <3>2
      <4> HIDE DEF s, p, c
      <4> QED BY <2>3, <3>1, <4>1
    <3>3. CASE ~Short(page, limit)
      <4>1. db' = [db EXCEPT !.item[p][c].status = "failed_overflow"] BY <1>6, <3>3
      <4> HIDE DEF p, c
      <4> QED BY <1>2, <3>1, <4>1
    <3> QED BY <3>2, <3>3
  <2>5. Carried(w)
    <3> HIDE DEF p, c
    <3> DEFINE r == [d.item[p][c] EXCEPT !.status = status]
    <3>1. r \in ItemRow /\ db' = WithItem(d, p, c, r) BY <1>2, <1>3, <2>4, ItemStatus
    <3> HIDE DEF r
    <3> QED BY <1>1, <1>3, <2>4, <3>1, ItemCarried DEF p
  <2>6. (~Short(page, limit)) \in BOOLEAN OBVIOUS
  <2> QED BY <1>1, <1>6, <2>5, <2>6, NextItemCovers
<1> QED BY <1>5, <1>6 DEF CommitItem

LEMMA ItemFailsCovers ==
  ASSUME IInv, Coverage, NEW w \in Worker, ItemFails(w)
  PROVE  Covers(w)
<1> DEFINE p == Top(w).part
           c == Top(w).code
<1>1. At(w, "item") BY DEF ItemFails
<1>2. db \in Database /\ CoverageOK(db) /\ p \in Partition BY <1>1, Covering
<1>3. c \in Code BY <1>1, Covering, Acting
<1>4. Carried(w)
  <2>1. CASE db' = db BY <1>2, <2>1, StillCarried
  <2>2. CASE db' = [db EXCEPT !.item[p][c].status = "failed_retryable"]
    <3>1. "failed_retryable" \in Statuses BY DEF Statuses, Failed
    <3> HIDE DEF p, c
    <3> DEFINE r == [db.item[p][c] EXCEPT !.status = "failed_retryable"]
    <3>2. r \in ItemRow /\ db' = WithItem(db, p, c, r) BY <1>2, <1>3, <2>2, <3>1, ItemStatus
    <3> HIDE DEF r
    <3> QED BY <1>1, <1>2, <1>3, <3>2, ItemCarried DEF p
  <2> QED BY <2>1, <2>2 DEF ItemFails
<1>5. CASE work' = [work EXCEPT ![w] = Unwound(work[w])] BY <1>1, <1>4, <1>5, UnwindCovers
<1>6. CASE NextItem(w, TRUE) BY <1>1, <1>4, <1>6, NextItemCovers
<1> QED BY <1>5, <1>6 DEF ItemFails

LEMMA ItemsDoneCovers ==
  ASSUME IInv, Coverage, NEW w \in Worker, ItemsDone(w)
  PROVE  Covers(w)
<1>1. At(w, "items") BY DEF ItemsDone
<1>2. CoverageOK(db) /\ db' = db BY <1>1, Covering DEF ItemsDone
<1>3. Carried(w) BY <1>2, StillCarried
<1>4. IsDay(Top(w).part)
  <2>1. "items" \in Gathering BY DEF Gathering
  <2> QED BY <1>1, <2>1, Covering, Acting
<1>5. CASE Return(w, "false") \/ Return(w, "none")
  BY <1>1, <1>3, <1>5, ReturnCovers DEF Outcomes
<1>6. CASE Goto(w, "fold") \/ Goto(w, "verify")
  <2>1. /\ "fold" \in Ats /\ "verify" \in Ats /\ "items" \notin Splitting
        /\ "fold" \notin Splitting /\ "verify" \notin Splitting
    BY DEF Ats, Splitting, Halves
  <2>2. CASE Goto(w, "fold") BY <1>1, <1>3, <1>4, <2>1, <2>2, GotoCovers
  <2>3. CASE Goto(w, "verify") BY <1>1, <1>3, <1>4, <2>1, <2>3, GotoCovers
  <2> QED BY <1>6, <2>2, <2>3
<1> QED BY <1>5, <1>6 DEF ItemsDone

LEMMA ClaimVerificationCovers ==
  ASSUME IInv, Coverage, NEW w \in Worker, ClaimVerification(w)
  PROVE  Covers(w)
<1> DEFINE f == [Top(w) EXCEPT !.at = "scan"]
           m == [work[w] EXCEPT !.stack[1].at = "scan"]
<1>1. At(w, "verify") BY DEF ClaimVerification
<1>2. /\ Top(w) \in Frames /\ work[w] \in Memories /\ work[w].stack # <<>> /\ work[w].job \in Job
      /\ Shape(work[w]) /\ FrameShape(Top(w)) /\ Top(w).at = "verify"
  BY <1>1, Covering
<1>3. IsDay(Top(w).part)
  <2>1. "verify" \in Gathering BY DEF Gathering
  <2> QED BY <1>1, <2>1, Covering, Acting
<1>4. /\ "scan" \in Ats /\ "scan" \notin Splitting /\ "verify" \notin Splitting
      /\ "verifying" \in Ats /\ "verifying" \notin Splitting
  BY DEF Ats, Splitting, Halves
<1>5. /\ f \in Frames /\ f.part = Top(w).part /\ f.left = Top(w).left /\ f.right = Top(w).right
      /\ f.at = "scan" /\ FrameShape(f)
  <2>1. f \in Frames BY <1>2, <1>3, <1>4, FrameMoves
  <2>2. FrameShape(f) BY <1>2, <1>4, MovedShape
  <2> QED BY <1>2, <2>1, <2>2 DEF Frames, FrameRow
<1>6. /\ m.job = work[w].job /\ m.resume = work[w].resume /\ m.root = work[w].root
      /\ m.sound = work[w].sound /\ m.stack = [work[w].stack EXCEPT ![1] = f]
  BY <1>2 DEF Memories, MemoryRow, Top
<1>7. PICK fuel \in BOOLEAN : TakePartition(w, "verifying", fuel, m) BY DEF ClaimVerification
<1> HIDE DEF f, m
<1>8. Follows(m, work[w], {}) /\ m.stack[1] = f BY <1>2, <1>5, <1>6, TopFollows DEF Top
<1>9. Follows(m, work[w], {Top(w).part}) BY <1>8 DEF Follows
<1>10. FrameShape([Top(w) EXCEPT !.at = "verifying"]) BY <1>2, <1>4, MovedShape
<1>11. m.stack[1].at \notin {"fetch", "joining"} BY <1>5, <1>8
<1> QED BY <1>1, <1>3, <1>4, <1>7, <1>9, <1>10, <1>11, TakeCovers

LEMMA CommitRoundCovers ==
  ASSUME IInv, Coverage, NEW w \in Worker, CommitRound(w)
  PROVE  Covers(w)
<1> DEFINE p == Top(w).part
<1>1. At(w, "verifying") BY DEF CommitRound
<1>2. DbOK(db) /\ db \in Database /\ CoverageOK(db) /\ p \in Partition /\ work[w].job \in Job
  BY <1>1, Covering
<1>3. IsDay(p)
  <2>1. "verifying" \in Gathering BY DEF Gathering
  <2> QED BY <1>1, <2>1, Covering, Acting
<1>4. CASE Return(w, "none") /\ UNCHANGED db
  BY <1>1, <1>2, <1>4, StillCarried, ReturnCovers DEF Outcomes
<1>5. ASSUME NEW page \in Pages(DocsIn(p), Limit[work[w].job]), NEW calm,
             Holds(db.part[p], w),
             db' = [ExpandPartition(Store(db, page), p) EXCEPT
                     !.probed[p] = @ \cup page,
                     !.stable[p] = IF calm THEN Min({@ + 1, Rounds}) ELSE 0,
                     !.part[p] = [@ EXCEPT !.status = "failed_overflow", !.probe = TRUE]],
             Goto(w, "scan")
      PROVE  Covers(w)
  <2> DEFINE s == Store(db, page)
             x == ExpandPartition(s, p)
             stable == [x.stable EXCEPT ![p] = IF calm THEN Min({@ + 1, Rounds}) ELSE 0]
  <2>1. page \subseteq DocsIn(p) BY <1>2, <1>5, PageParts, LimitIsNumber
  <2>2. page \in SUBSET Doc BY <2>1 DEF DocsIn
  <2>3. s \in Database BY <1>2, <2>2, StoreParts
  <2> HIDE DEF p, s
  <2>4. x \in Database BY <1>2, <2>3, ExpandParts DEF Expanded, p
  <2>5. db' = [x EXCEPT !.probed[p] = @ \cup page,
                        !.stable[p] = IF calm THEN Min({@ + 1, Rounds}) ELSE 0,
                        !.part[p] = [@ EXCEPT !.status = "failed_overflow", !.probe = TRUE]]
    BY <1>5 DEF s, p
  <2> HIDE DEF x
  <2>6. db' = [x EXCEPT !.probed = [x.probed EXCEPT ![p] = @ \cup page],
                        !.stable = stable,
                        !.part = [x.part EXCEPT ![p] =
                                   [x.part[p] EXCEPT !.status = "failed_overflow", !.probe = TRUE]]]
    BY <2>4, <2>5 DEF Database
  <2> HIDE DEF stable
  <2>7. /\ db'.part = [x.part EXCEPT ![p] =
                       [x.part[p] EXCEPT !.status = "failed_overflow", !.probe = TRUE]]
        /\ db'.ref = x.ref /\ db'.job = x.job
    BY <2>4, <2>6 DEF Database
  <2>8. Carried(w)
    <3>1. Holds(db.part[Top(w).part], w) /\ IsDay(Top(w).part) BY <1>3, <1>5 DEF p
    <3>2. page \in Pages(DocsIn(Top(w).part), Limit[work[w].job]) BY <1>5 DEF p
    <3>3. db'.part = [x.part EXCEPT ![Top(w).part] =
                       [x.part[Top(w).part] EXCEPT !.status = "failed_overflow", !.probe = TRUE]]
      BY <2>7 DEF p
    <3>4. x = ExpandPartition(Store(db, page), Top(w).part) BY DEF x, s, p
    <3> QED BY ZenonT(60), <1>1, <2>7, <3>1, <3>2, <3>3, <3>4, ProbeCarried
  <2> QED BY <1>1, <1>3, <1>5, <2>8, GotoCovers DEF Ats, Splitting, Halves, Gathering, p
<1> QED BY ZenonT(60), <1>4, <1>5 DEF CommitRound

LEMMA ClaimFoldCovers ==
  ASSUME IInv, Coverage, NEW w \in Worker, ClaimFold(w)
  PROVE  Covers(w)
<1>1. At(w, "fold") BY DEF ClaimFold
<1>2. /\ FrameShape(Top(w)) /\ Top(w) \in Frames /\ Top(w).at = "fold" /\ work[w] \in Memories
  BY <1>1, Covering
<1>3. /\ "fold" \in Gathering /\ "folding" \in Ats /\ "folding" \notin Splitting
      /\ "fold" \notin Splitting
  BY DEF Ats, Splitting, Halves, Gathering
<1>4. IsDay(Top(w).part) BY <1>1, <1>3, Covering, Acting
<1>5. work[w].fuel \in BOOLEAN BY <1>2 DEF Memories, MemoryRow
<1>6. TakePartition(w, "folding", work[w].fuel, Resumed(work[w], "true")) BY DEF ClaimFold
<1>7. FrameShape([Top(w) EXCEPT !.at = "folding"]) BY <1>2, <1>3, MovedShape
<1> QED BY <1>1, <1>3, <1>4, <1>5, <1>6, <1>7, TakeOrReturn

LEMMA FoldCovers ==
  ASSUME IInv, Coverage, NEW w \in Worker, Fold(w)
  PROVE  Covers(w)
<1> DEFINE p == Top(w).part
           j == work[w].job
           d == ExpandPartition(db, p)
           r == [d.part[p] EXCEPT !.status = "complete", !.catalog = d.catalog,
                                  !.basis = "saturated_catalog_convergence"]
<1>1. At(w, "folding") BY DEF Fold
<1>2. db \in Database /\ CoverageOK(db) /\ p \in Partition /\ j \in Job BY <1>1, Covering
<1>3. IsDay(p)
  <2>1. "folding" \in Gathering BY DEF Gathering
  <2> QED BY <1>1, <2>1, Covering, Acting
<1>4. Expanded(db, d) BY <1>2, ExpandParts
<1>5. CASE Return(w, "none") /\ UNCHANGED db
  BY <1>1, <1>2, <1>5, StillCarried, ReturnCovers DEF Outcomes
<1>6. CASE Holds(db.part[p], w) /\ db' = Fail(d, p, "failed_overflow") /\ Return(w, "false")
  <2> HIDE DEF d
  <2>1. d \in Database /\ d.part = db.part /\ d.ref = db.ref /\ d.job = db.job
    BY <1>2, <1>4, ExpandedFields DEF Expanded
  <2>2. CoverageOK(d) BY <1>2, <2>1, SameParts
  <2>3. ~IsComplete(d, p) BY <1>2, <1>6, <2>1, HeldIsOpen DEF IsComplete
  <2> HIDE DEF p
  <2>4. "failed_overflow" \in Failed BY DEF Failed
  <2>5. CoverageOK(db') /\ Carries(d, db', None, p) BY <1>2, <1>6, <2>1, <2>2, <2>3, <2>4, FailCarries
  <2>6. Carries(db, d, None, p) BY <1>2, <2>1, SamePartsCarry
  <2>7. \A q \in Partition : IsComplete(db', q) => IsComplete(d, q)
    BY <1>2, <1>6, <2>1, <2>2, <2>3, <2>4, FailCarries
  <2>8. Carries(db, db', None, p) BY <2>5, <2>6, <2>7, CarriesFurther
  <2>9. Carried(w) BY <1>2, <2>5, <2>8, RowCarried DEF p
  <2> QED BY <1>1, <1>6, <2>9, ReturnCovers DEF Outcomes
<1>7. CASE /\ Holds(db.part[p], w) /\ Refers(db, j, p) /\ Converged(d, p) /\ Return(w, "true")
           /\ db' = [d EXCEPT !.part[p] =
                      [@ EXCEPT !.status = "complete", !.catalog = d.catalog,
                                !.basis = "saturated_catalog_convergence"]]
  <2>1. db' = [d EXCEPT !.part[p] = r] BY <1>7
  <2>2. d.part[p].probe BY <1>7 DEF Converged
  <2> HIDE DEF d
  <2>3. d \in Database /\ d.part = db.part /\ d.ref = db.ref /\ d.job = db.job
    BY <1>2, <1>4, ExpandedFields DEF Expanded
  <2>4. ~IsComplete(db, p) BY <1>2, <1>7, HeldIsOpen
  <2> HIDE DEF p
  <2>5. /\ r.status = "complete" /\ r.basis = "saturated_catalog_convergence"
        /\ r.probe = d.part[p].probe
    <3>1. d.part[p] \in PartitionRow BY <1>2, <2>3 DEF Database
    <3> QED BY <3>1 DEF PartitionRow
  <2> HIDE DEF r
  <2>6. db'.part[p] = r /\ \A q \in Partition : q # p => db'.part[q] = d.part[q]
    <3>1. db'.part = [d.part EXCEPT ![p] = r] BY <2>1, <2>3 DEF Database
    <3>2. d.part \in [Partition -> PartitionRow] BY <2>3 DEF Database
    <3> QED BY <1>2, <3>1, <3>2
  <2>7. db'.ref = db.ref /\ db'.job = db.job BY <2>1, <2>3 DEF Database
  <2>8. /\ IsComplete(db', p) /\ db'.part[p].basis = "saturated_catalog_convergence"
        /\ db'.part[p].probe /\ IsDay(p)
    BY <1>3, <2>2, <2>5, <2>6 DEF IsComplete, p
  <2>9. CoverageOK(db') /\ Carries(db, db', None, p)
    BY <1>2, <2>3, <2>4, <2>6, <2>7, <2>8, RowCarries
  <2>10. Carried(w) BY <1>2, <2>9, RowCarried DEF p
  <2>11. Leaf(db', p) BY <2>8 DEF Leaf
  <2>12. db'.ref[j][p] # "none" BY <1>7, <2>7 DEF Refers, p
  <2> HIDE DEF j
  <2>13. Done(db', w, j, p) BY <1>2, <2>11, <2>12, LeafDone
  <2>14. "true" \in Outcomes BY DEF Outcomes
  <2> QED BY <1>1, <1>7, <2>10, <2>13, <2>14, ReturnCovers DEF p, j
<1> QED BY <1>5, <1>6, <1>7 DEF Fold
-----------------------------------------------------------------------------
(* Runs begin, end and are killed.                                         *)

LEMMA SettledAlike ==
  ASSUME NEW d, NEW e, e.part = d.part, NEW j, e.ref[j] = d.ref[j], NEW h, Settled(d, j, h)
  PROVE  Settled(e, j, h)
<1>1. \A p \in Partition : Leaf(e, p) <=> Leaf(d, p) BY DEF Leaf, IsComplete
<1>2. AllCovered(d, h) => AllCovered(e, h) BY <1>1 DEF AllCovered, CoveredIn
<1>3. Doubted(d, j, h) => Doubted(e, j, h) BY DEF Doubted
<1> QED BY <1>2, <1>3 DEF Settled, IsComplete

(* Only the row of one job changes, and its references: the memory of the  *)
(* workers that are not its run, and what other jobs have done, stay.      *)
LEMMA OneJobCovered ==
  ASSUME IInv, Coverage, NEW j \in Job, NEW w \in Worker,
         db'.part = db.part, db'.job[j].holder = w,
         \A i \in Job : i # j => db'.job[i] = db.job[i] /\ db'.ref[i] = db.ref[i],
         \A p \in Partition : db.ref[j][p] # "none" => db'.ref[j][p] # "none",
         db'.job[j].status = "complete" =>
           \A k \in 1..Len(Roots[j]) : Settled(db', j, Roots[j][k]),
         \A v \in Worker : v # w => work'[v] = work[v],
         MemoryOK(db', w, work'[w])
  PROVE  Coverage'
<1>1. CoverageOK(db) /\ Working BY DEF IInv, DbOK, Coverage, CoverageOK
<1>2. /\ \A t : Known(db', t) <=> Known(db, t)
      /\ CoverageOK(db')
  BY <1>1, SameParts
<1>3. JobsSettled(db')
  <2> SUFFICES ASSUME NEW i \in Job, i # j, db'.job[i].status = "complete",
                      NEW k \in 1..Len(Roots[i])
               PROVE  Settled(db', i, Roots[i][k])
    BY DEF JobsSettled
  <2>1. Settled(db, i, Roots[i][k]) BY DEF Coverage, JobsSettled
  <2> QED BY <2>1, SettledAlike
<1>4. ASSUME NEW v \in Worker, v # w PROVE MemoryOK(db', v, work'[v])
  <2> DEFINE m == work[v]
  <2> SUFFICES ASSUME m.job # None PROVE MemoryOK(db', v, m)
    BY <1>4 DEF MemoryOK
  <2>1. m \in Memories BY <1>1 DEF Working
  <2>2. m.job \in Job /\ m.stack \in Stacks BY <2>1 DEF Memories, MemoryRow
  <2>3. Shape(m) /\ Noted(db, m) /\ \A h \in Past(m) : Done(db, v, m.job, h)
    BY DEF Coverage, MemoryOK
  <2> HIDE DEF m
  <2>4. Noted(db', m)
    <3> SUFFICES ASSUME m.stack # <<>>, m.stack[1].at \in {"fetch", "joining"}
                 PROVE  db'.ref[m.job][m.stack[1].part] # "none"
      BY DEF Noted
    <3>1. m.stack[1].part \in Partition BY <2>2, FrameParts
    <3>2. db.ref[m.job][m.stack[1].part] # "none" BY <2>3 DEF Noted
    <3> QED BY <2>2, <3>1, <3>2
  <2>5. ASSUME NEW h \in Past(m) PROVE Done(db', v, m.job, h)
    <3>1. Done(db, v, m.job, h) BY <2>3
    <3>2. AllKnown(db', h) BY <1>2, <3>1 DEF Done, AllKnown
    <3>3. ASSUME RunsJob(db', m.job, v) PROVE Settled(db', m.job, h)
      <4>1. m.job # j BY <1>4, <3>3 DEF RunsJob
      <4>2. RunsJob(db, m.job, v) BY <2>2, <3>3, <4>1 DEF RunsJob
      <4>3. Settled(db, m.job, h) BY <3>1, <4>2 DEF Done
      <4> QED BY <2>2, <4>1, <4>3, SettledAlike
    <3> QED BY <3>2, <3>3 DEF Done
  <2> QED BY <2>3, <2>4, <2>5 DEF MemoryOK
<1>5. \A v \in Worker : MemoryOK(db', v, work'[v]) BY <1>4
<1> QED BY <1>2, <1>3, <1>5 DEF Coverage, CoverageOK

LEMMA BeginCovered ==
  ASSUME IInv, Coverage, ResumesOnly, NEW w \in Worker, NEW j \in Job, NEW resume \in Resume[j],
         Begin(w, j, resume)
  PROVE  Coverage'
<1> DEFINE status == IF db.job[j].stale THEN "partial" ELSE "running"
           r == [db.job[j] EXCEPT !.holder = w, !.status = status]
           f == Frame(Roots[j][1])
           m == [job |-> j, resume |-> resume, fuel |-> TRUE, root |-> 1,
                 sound |-> TRUE, stack |-> <<f>>]
<1>1. db \in Database /\ work \in [Worker -> Memories] BY DEF IInv, DbOK, Working
<1>2. db.job \in [Job -> JobRow] BY <1>1 DEF Database
<1>3. status # "complete" OBVIOUS
<1>4. db' = [db EXCEPT !.job[j] = r] BY DEF Begin
<1> HIDE DEF status
<1>5. r.holder = w /\ r.status # "complete"
  <2>1. db.job[j] \in JobRow BY <1>2
  <2> QED BY <1>3, <2>1 DEF JobRow
<1> HIDE DEF r
<1>6. db'.part = db.part /\ db'.ref = db.ref /\ db'.job = [db.job EXCEPT ![j] = r]
  BY <1>1, <1>4 DEF Database
<1>7. db'.job[j] = r /\ \A i \in Job : i # j => db'.job[i] = db.job[i] BY <1>2, <1>6
<1>8. Roots[j][1] \in Partition /\ Len(Roots[j]) \in Nat /\ 1 \in 1..Len(Roots[j])
  BY RootsAreRanges
<1>9. /\ f \in Frames /\ f.part = Roots[j][1] /\ f.at = "enter"
      /\ FrameShape(f) /\ DoneHalves(f) = {}
  BY <1>8, HalvesOfFrame
<1>10. m.job = j /\ m.resume = resume /\ m.root = 1 /\ m.stack = <<f>> OBVIOUS
<1>11. work' = [work EXCEPT ![w] = m] BY DEF Begin
<1> HIDE DEF f, m
<1>12. /\ Len(<<f>>) = 1 /\ <<f>>[1] = f /\ <<f>> # <<>> /\ \A k \in 1..Len(<<f>>) : k = 1
  <2>1. Len(<<f>>) = 1 /\ <<f>>[1] = f /\ <<f>> # <<>> OBVIOUS
  <2> QED BY <2>1
<1>13. Path(<<f>>) BY <1>9, <1>12 DEF Path
<1>14. Bottom(<<f>>) = Roots[j][1] BY <1>9, <1>12 DEF Bottom
<1>15. resume BY DEF ResumesOnly
<1>16. Shape(m) BY <1>8, <1>10, <1>12, <1>13, <1>14, <1>15 DEF Shape
<1>17. Past(m) = {}
  <2>1. PastHalves(<<f>>) = {} BY <1>9, <1>12 DEF PastHalves
  <2>2. PastRoots(m) = {} BY <1>10, <1>12 DEF PastRoots
  <2> QED BY <1>10, <2>1, <2>2 DEF Past
<1>18. Noted(db', m) BY <1>9, <1>10, <1>12 DEF Noted
<1>19. MemoryOK(db', w, m) BY <1>16, <1>17, <1>18 DEF MemoryOK
<1>20. work'[w] = m /\ \A v \in Worker : v # w => work'[v] = work[v] BY <1>1, <1>11
<1> QED BY <1>5, <1>6, <1>7, <1>19, <1>20, OneJobCovered

LEMMA KillCovered ==
  ASSUME IInv, Coverage, NEW w \in Worker, db' = db, work' = [work EXCEPT ![w] = Idle]
  PROVE  Coverage'
<1>1. work \in [Worker -> Memories] BY DEF IInv, Working
<1>2. work'[w] = Idle /\ \A v \in Worker : v # w => work'[v] = work[v] BY <1>1
<1>3. MemoryOK(db, w, Idle) BY DEF MemoryOK, Idle
<1>4. \A v \in Worker : MemoryOK(db, v, work'[v]) BY <1>2, <1>3 DEF Coverage
<1> QED BY <1>4 DEF Coverage

(* A run that may report its job complete has done all its roots.          *)
LEMMA FinishCovered ==
  ASSUME IInv, Coverage, NEW w \in Worker, Finish(w)
  PROVE  Coverage'
<1> DEFINE j == work[w].job
           refs == [p \in Partition |->
                     IF db.ref[j][p] # "none" /\ db.part[p].status # "complete"
                     THEN "needs_revalidation" ELSE db.ref[j][p]]
           invalid == \E p \in Partition : refs[p] = "needs_revalidation"
           complete == work[w].sound /\ ~invalid /\ \E p \in Partition : refs[p] # "none"
           status == IF complete THEN "complete" ELSE "partial"
           r == [db.job[j] EXCEPT !.status = status, !.stale = invalid]
<1>1. db \in Database /\ work \in [Worker -> Memories] BY DEF IInv, DbOK, Working
<1>2. /\ db.job \in [Job -> JobRow] /\ db.ref \in [Job -> [Partition -> References]]
  BY <1>1 DEF Database
<1>3. j \in Job /\ j # None /\ work[w].stack = <<>> /\ work[w] \in Memories
  BY <1>1 DEF Finish, Busy, Memories, MemoryRow
<1>4. /\ work' = [work EXCEPT ![w] = Idle]
      /\ db' = IF RunsJob(db, j, w) THEN [db EXCEPT !.ref[j] = refs, !.job[j] = r] ELSE db
  BY DEF Finish
<1>5. CASE ~RunsJob(db, j, w)
  <2>1. db' = db BY <1>4, <1>5
  <2> QED BY <1>4, <2>1, KillCovered
<1>6. CASE RunsJob(db, j, w)
  <2>1. db' = [db EXCEPT !.ref[j] = refs, !.job[j] = r] BY <1>4, <1>6
  <2>2. \A p \in Partition : db.ref[j][p] # "none" => refs[p] # "none" OBVIOUS
  <2>3. ~invalid => refs = db.ref[j]
    <3> SUFFICES ASSUME ~invalid PROVE refs = db.ref[j]
      OBVIOUS
    <3>1. \A p \in Partition : refs[p] = db.ref[j][p] OBVIOUS
    <3>2. db.ref[j] \in [Partition -> References] BY <1>2, <1>3
    <3>3. refs = [p \in Partition |-> refs[p]] OBVIOUS
    <3> HIDE DEF refs
    <3> QED BY <3>1, <3>2, <3>3
  <2>4. status = "complete" => work[w].sound /\ ~invalid OBVIOUS
  <2> HIDE DEF refs, invalid, complete, status
  <2>5. r.status = status /\ r.holder = w
    <3>1. db.job[j] \in JobRow BY <1>2, <1>3
    <3> QED BY <1>6, <3>1 DEF JobRow, RunsJob
  <2> HIDE DEF r
  <2>6. /\ db'.part = db.part /\ db'.ref = [db.ref EXCEPT ![j] = refs]
        /\ db'.job = [db.job EXCEPT ![j] = r]
    BY <1>1, <2>1 DEF Database
  <2> HIDE DEF j
  <2>7. /\ db'.job[j] = r /\ db'.ref[j] = refs
        /\ \A i \in Job : i # j => db'.job[i] = db.job[i] /\ db'.ref[i] = db.ref[i]
    BY <1>2, <1>3, <2>6
  <2>8. ASSUME r.status = "complete", NEW k \in 1..Len(Roots[j])
        PROVE  Settled(db', j, Roots[j][k])
    <3> DEFINE m == work[w]
    <3>1. m.sound /\ refs = db.ref[j] BY <2>3, <2>4, <2>5, <2>8
    <3>2. Shape(m) /\ \A h \in Past(m) : Done(db, w, j, h)
      BY <1>3 DEF Coverage, MemoryOK, j
    <3>3. m.root = Len(Roots[j]) BY <1>3, <3>1, <3>2 DEF Shape, j
    <3>4. Roots[j][k] \in Partition BY <1>3, RootsAreRanges
    <3>5. Roots[j][k] \in Past(m) BY <1>3, <3>1, <3>3, <3>4 DEF Past, PastRoots, j
    <3>6. Settled(db, j, Roots[j][k]) BY <1>6, <3>2, <3>5 DEF Done
    <3> QED BY <2>6, <2>7, <3>1, <3>6, SettledAlike
  <2>9. work'[w] = Idle /\ \A v \in Worker : v # w => work'[v] = work[v] BY <1>1, <1>4
  <2>10. MemoryOK(db', w, work'[w]) BY <2>9 DEF MemoryOK, Idle
  <2> QED BY <1>3, <2>2, <2>5, <2>6, <2>7, <2>8, <2>9, <2>10, OneJobCovered
<1> QED BY <1>5, <1>6
-----------------------------------------------------------------------------
LEMMA InitCoverage == Init => Coverage
<1> SUFFICES ASSUME Init PROVE Coverage
  OBVIOUS
<1>1. \A p \in Partition : ~IsComplete(db, p) BY DEF Init, NoPartition, IsComplete
<1>2. \A j \in Job : db.job[j].status # "complete" BY DEF Init
<1>3. \A w \in Worker : work[w].job = None BY DEF Init, Idle
<1> QED BY <1>1, <1>2, <1>3 DEF Coverage, LeavesOK, RangesKnown, JobsSettled, MemoryOK

LEMMA NextCovered ==
  ASSUME IInv, Coverage, ResumesOnly, RootsApart, Next
  PROVE  Coverage'
<1>1. DbOK(db) /\ Working BY DEF IInv
<1>2. PICK w \in Worker :
        \/ Advance(w) \/ FetchFails(w) \/ BindFails(w) \/ ItemFails(w) \/ Kill(w)
        \/ \E j \in Job : \E resume \in Resume[j] : Begin(w, j, resume)
  BY DEF Next
<1>3. CASE \/ Enter(w) \/ ClaimProbe(w) \/ CommitLeaf(w) \/ CommitProbe(w) \/ DiscardPage(w)
           \/ Join(w) \/ FinishSplit(w) \/ Bind(w) \/ BindFails(w) \/ FetchFails(w)
  <2>1. Sound(db, db')
    BY <1>1, <1>3, EnterKeeps, ClaimProbeKeeps, CommitLeafKeeps, CommitProbeKeeps,
       DiscardPageKeeps, JoinKeeps, FinishSplitKeeps, BindKeeps, BindFailsKeeps, FetchFailsKeeps
  <2>2. Covers(w)
    BY <1>3, EnterCovers, ClaimProbeCovers, CommitLeafCovers, CommitProbeCovers,
       DiscardPageCovers, JoinCovers, FinishSplitCovers, BindCovers, BindFailsCovers,
       FetchFailsCovers
  <2>3. PICK at : At(w, at)
    BY <1>3 DEF Enter, ClaimProbe, CommitLeaf, CommitProbe, DiscardPage, Join, FinishSplit, Bind,
                BindFails, FetchFails
  <2> QED BY <2>1, <2>2, <2>3, CoversStep
<1>4. CASE \/ Scan(w) \/ ClaimItem(w) \/ CommitItem(w) \/ ItemFails(w) \/ ItemsDone(w)
           \/ ClaimVerification(w) \/ CommitRound(w) \/ ClaimFold(w) \/ Fold(w)
  <2>1. Sound(db, db')
    BY <1>1, <1>4, ScanKeeps, ClaimItemKeeps, CommitItemKeeps, ItemFailsKeeps, ItemsDoneKeeps,
       ClaimVerificationKeeps, CommitRoundKeeps, ClaimFoldKeeps, FoldKeeps
  <2>2. Covers(w)
    BY <1>4, ScanCovers, ClaimItemCovers, CommitItemCovers, ItemFailsCovers, ItemsDoneCovers,
       ClaimVerificationCovers, CommitRoundCovers, ClaimFoldCovers, FoldCovers
  <2>3. PICK at : At(w, at)
    BY <1>4 DEF Scan, ClaimItem, CommitItem, ItemFails, ItemsDone, ClaimVerification, CommitRound,
                ClaimFold, Fold
  <2> QED BY <2>1, <2>2, <2>3, CoversStep
<1>5. CASE Finish(w) BY <1>5, FinishCovered
<1>6. CASE Kill(w) BY <1>6, KillCovered DEF Kill
<1>7. CASE \E j \in Job : \E resume \in Resume[j] : Begin(w, j, resume) BY <1>7, BeginCovered
<1> QED BY <1>2, <1>3, <1>4, <1>5, <1>6, <1>7 DEF Advance

LEMMA CoverageIsCovered ==
  ASSUME IInv, Coverage
  PROVE  CompleteJobIsCovered
<1> SUFFICES ASSUME NEW j \in Job, db.job[j].status = "complete", NEW k \in DOMAIN Roots[j],
                    NEW day \in Days(Roots[j][k])
             PROVE  Covered(day)
  BY DEF CompleteJobIsCovered, Days
<1>1. k \in 1..Len(Roots[j])
  <2>1. Roots[j] \in Seq(Partition) BY BackfillAssumption
  <2> QED BY <2>1
<1>2. Settled(db, j, Roots[j][k]) BY <1>1 DEF Coverage, JobsSettled
<1>3. ~Doubted(db, j, Roots[j][k]) BY DEF IInv, DbOK, Trusted, Doubted
<1>4. CoveredIn(db, day) BY <1>2, <1>3 DEF Settled, AllCovered
<1>5. PICK p \in Partition : day \in Days(p) /\ Leaf(db, p) BY <1>4 DEF CoveredIn
<1>6. p[1] <= day /\ day <= p[2] BY <1>5, DaysAreDays, PartitionParts DEF Days
<1> QED BY <1>5, <1>6 DEF Covered, Leaf, IsComplete

(* When every run resumes, and the months of a job share no day, a job     *)
(* reported complete has every day of its range under a completed leaf,    *)
(* whatever partitions other jobs share with it, reopen and reclaim, and   *)
(* however many runs overlap, are killed or fail.                          *)
THEOREM BackfillCompleteIsCovered ==
  ASSUME ResumesOnly, RootsApart
  PROVE  Spec => []CompleteJobIsCovered
<1>1. IInv /\ Coverage /\ [Next]_vars => Coverage'
  <2> SUFFICES ASSUME IInv, Coverage, [Next]_vars PROVE Coverage'
    OBVIOUS
  <2>1. CASE Next BY <2>1, NextCovered
  <2>2. CASE UNCHANGED vars
    BY <2>2 DEF vars, Coverage
  <2> QED BY <2>1, <2>2
<1>2. IInv /\ Coverage => CompleteJobIsCovered BY CoverageIsCovered
<1> QED BY InitIInv, InitCoverage, StepIInv, <1>1, <1>2, PTL DEF Spec
=============================================================================
