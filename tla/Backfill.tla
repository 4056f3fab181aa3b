------------------------------- MODULE Backfill ------------------------------
(***************************************************************************)
(* The announcement backfill (intelligence/backfill.py) over its SQLite    *)
(* store (intelligence/store.py).  A job asks the supplier for a range of  *)
(* days.  A page shorter than the limit is everything there is; a full     *)
(* page is not, so a range is split and a saturated day is asked again     *)
(* security by security, for the securities of a catalog that grows with   *)
(* every announcement stored, until probes of the whole day show nothing   *)
(* new.  A later growth of the catalog reopens such a day and the ranges   *)
(* above it.  Several workers may run, each may be killed at any point and *)
(* a lease that lapsed lets another worker take its partition.             *)
(*                                                                         *)
(* Every store method is one transaction, so the database is one variable  *)
(* and a transaction an operator from database to database.                *)
(***************************************************************************)
EXTENDS Integers, SequencesExt

CONSTANTS
  Worker,      \* processes that may run a job
  Job,         \* configurations of a backfill; each has a row in backfill_jobs
  Doc,         \* announcements of the supplier: [day, code, n]
  Code,        \* security codes
  Listed,      \* codes in the supplier's directory of securities
  Limit,       \* [Job -> Nat]  page size, which is also in the job's config hash
  Roots,       \* [Job -> Seq(Partition)]  the months of the job's range
  Day,         \* days of all ranges
  Resume,      \* [Job -> SUBSET BOOLEAN]  whether its runs are started with --resume
  Rounds,      \* verification_rounds
  MaxEvents,   \* bound: runs started, kills, failed requests, budgets that run out
  None

(* A partition is its first and its last day.                              *)
Partition == {p \in Day \X Day : p[1] <= p[2]}
IsDay(p) == p[1] = p[2]
Within(q, p) == p[1] <= q[1] /\ q[2] <= p[2]
Above(p, q) == Within(q, p) /\ p # q
Midpoint(p) == p[1] + (p[2] - p[1]) \div 2
Left(p) == <<p[1], Midpoint(p)>>
Right(p) == <<Midpoint(p) + 1, p[2]>>

DocsIn(p) == {d \in Doc : p[1] <= d.day /\ d.day <= p[2]}
CodesOf(docs) == {d.code : d \in docs}

ASSUME BackfillAssumption ==
  /\ Day \subseteq Nat /\ IsFiniteSet(Day) /\ \A first, last \in Day : first..last \subseteq Day
  /\ Rounds \in Nat \ {0}
  /\ MaxEvents \in Nat
  /\ Doc \subseteq [day : Day, code : Code, n : Nat]
  /\ Listed \subseteq Code /\ Listed # {}
  /\ Resume \in [Job -> SUBSET BOOLEAN]
  /\ Limit \in [Job -> Nat \ {0}] /\ Roots \in [Job -> Seq(Partition) \ {<<>>}]
  /\ None \notin Worker \cup Job

Failed == {"failed_overflow", "failed_retryable"}
Statuses == {"pending", "running", "complete"} \cup Failed
Bases == {"", "short_page", "split_children", "split_children_revalidation",
          "saturated_catalog_convergence", "saturated_catalog_revalidation"}

(* A row of backfill_partitions.  Its attempts counter is only compared    *)
(* with the generation of a claim: holder is whose claim was the last.     *)
PartitionRow ==
  [status : Statuses \cup {"absent"}, basis : Bases, probe : BOOLEAN,
   catalog : SUBSET Code, holder : Worker \cup {None}, evidence : Job \cup {None}]
ItemRow == [status : Statuses \cup {"absent"}, holder : Worker \cup {None}, limit : Nat]
JobRow == [status : {"absent", "running", "partial", "complete"},
           stale : BOOLEAN, holder : Worker \cup {None}]

VARIABLES
  db,   \* the database
  work, \* [Worker -> ...]  what a worker has in memory
  events \* runs started and faults so far

vars == <<db, work, events>>

NoPartition == [status |-> "absent", basis |-> "", probe |-> FALSE,
                catalog |-> {}, holder |-> None, evidence |-> None]
NoItem == [status |-> "absent", holder |-> None, limit |-> 0]
Idle == [job |-> None, resume |-> FALSE, fuel |-> FALSE, root |-> 0,
         sound |-> FALSE, stack |-> <<>>]

Init ==
  /\ db = [docs     |-> {},                                  \* documents
           catalog  |-> {},                                  \* announcement_security_catalog
           part     |-> [p \in Partition |-> NoPartition],   \* backfill_partitions
           ref      |-> [j \in Job |-> [p \in Partition |-> "none"]],
           job      |-> [j \in Job |-> [status |-> "absent", stale |-> FALSE, holder |-> None]],
           members  |-> [j \in Job |-> {}],                  \* the job's frozen universe
           bound    |-> [p \in Partition |-> None],          \* whose universe a day uses
           item     |-> [p \in Partition |-> [c \in Code |-> NoItem]],
           probed   |-> [p \in Partition |-> {}],            \* probe_documents
           stable   |-> [p \in Partition |-> 0]]             \* verification_state
  /\ work = [w \in Worker |-> Idle]
  /\ events = 0
-----------------------------------------------------------------------------
(* Parts of transactions: each maps a database d to a database.            *)

(* Mutant: the catalog does not see what a backfill stored.                *)
StoreUncatalogued(d, docs) == [d EXCEPT !.docs = @ \cup docs]

(* _insert_prepared_backfill_writes, insert_document: documents are unique *)
(* and every code they link to enters the catalog.  Codes only enter, so   *)
(* revision and hash of the catalog stand for the set itself.              *)
Store(d, docs) == [d EXCEPT !.docs = @ \cup docs, !.catalog = @ \cup CodesOf(docs)]

(* _expand_snapshot_from_catalog: codes new to the universe become pending *)
(* items of every day bound to it.                                         *)
ExpandUniverse(d, j) ==
  LET new == d.catalog \ d.members[j] IN
  [d EXCEPT !.members[j] = @ \cup new,
            !.item = [p \in Partition |-> [c \in Code |->
              IF d.bound[p] = j /\ c \in new /\ @[p][c].status = "absent"
              THEN [NoItem EXCEPT !.status = "pending"] ELSE @[p][c]]]]

ExpandJob(d, j) == IF d.members[j] = {} THEN d ELSE ExpandUniverse(d, j)
ExpandPartition(d, p) == IF d.bound[p] = None THEN d ELSE ExpandUniverse(d, d.bound[p])
NewCodes(d, p) == IF d.bound[p] = None THEN {} ELSE d.catalog \ d.members[d.bound[p]]

(* _partition_evidence_status: evidence gathered with a larger page than   *)
(* this job's (another configuration) does not count for this job.         *)
EvidenceStatus(d, p, j) ==
  IF d.part[p].evidence = None \/ Limit[d.part[p].evidence] <= Limit[j]
  THEN "current" ELSE "needs_revalidation"

(* _record_backfill_partition_reference.                                   *)
Record(d, p, j) ==
  LET r == [d.ref EXCEPT ![j][p] = EvidenceStatus(d, p, j)]
      bad == \E q \in Partition :
               \/ r[j][q] = "needs_revalidation"
               \/ r[j][q] = "current" /\ d.part[q].status # "complete"
  IN [d EXCEPT !.part[p].evidence = IF @ = None THEN j ELSE @,
               !.ref = r,
               !.job[j].stale = bad,
               !.job[j].status = CASE bad -> "partial"
                                   [] ~bad /\ @ = "partial" -> "running"
                                   [] OTHER -> @]

(* Every reference to a reopened partition needs revalidation ...          *)
Suspect(d, ps) ==
  [d EXCEPT !.ref = [j \in Job |-> [p \in Partition |->
     IF p \in ps /\ @[j][p] = "current" THEN "needs_revalidation" ELSE @[j][p]]]]
(* Mutant: a job keeps its status when a reference turns suspect.          *)
DowngradeNothing(d) == d

(* ... and so does every job with such a reference.                        *)
Downgrade(d) ==
  [d EXCEPT !.job = [j \in Job |->
     IF \E p \in Partition : d.ref[j][p] = "needs_revalidation"
     THEN [@[j] EXCEPT !.status = "partial", !.stale = TRUE] ELSE @[j]]]

(* The loop over the rows of a query, in the order of their days: Op takes *)
(* the database and a row.                                                 *)
Before(p, q) == p[1] < q[1] \/ (p[1] = q[1] /\ p[2] < q[2])
First(rows) == CHOOSE p \in rows : \A q \in rows \ {p} : Before(p, q)
ForEach(Op(_, _), d, rows) ==
  LET loop[n \in 0..Cardinality(rows)] ==
        IF n = 0 THEN <<d, rows>>
        ELSE LET left == loop[n - 1][2]
             IN <<Op(loop[n - 1][1], First(left)), left \ {First(left)}>>
  IN loop[Cardinality(rows)][1]

(* One saturated day whose catalog is not the current one.  A day that is  *)
(* incomplete already is left alone unless a range above hides it.         *)
ReopenLeaf(d, q) ==
  LET above == {p \in Partition : Above(p, q) /\ d.part[p].basis \in
                  {"split_children", "split_children_revalidation"}}
      complete == d.part[q].status = "complete"
      hidden == \E p \in above : \/ d.part[p].status # "failed_overflow"
                                 \/ d.part[p].basis # "split_children_revalidation"
      reopened == [d EXCEPT !.part = [p \in Partition |->
        CASE p = q /\ complete ->
               [@[p] EXCEPT !.status = "failed_overflow", !.basis = "saturated_catalog_revalidation"]
          [] p \in above ->
               [@[p] EXCEPT !.status = "failed_overflow", !.basis = "split_children_revalidation"]
          [] OTHER -> @[p]], !.stable[q] = 0]
  IN IF complete \/ hidden THEN Suspect(ExpandPartition(reopened, q), above \cup {q}) ELSE d

(* Mutant: saturated days reopen whether or not the catalog grew.          *)
ReopenEveryProbe(d, p) ==
  LET leaves == {q \in Partition : Within(q, p) /\ d.part[q].probe}
  IN IF d.part[p].status \notin {"complete", "failed_overflow"} \/ leaves = {} THEN d
     ELSE Downgrade(ForEach(ReopenLeaf, d, leaves))

(* _reopen_saturated_partition_for_catalog_growth.                         *)
ReopenForCatalogGrowth(d, p) ==
  LET leaves == {q \in Partition : /\ Within(q, p) /\ d.part[q].probe
                                   /\ d.part[q].catalog # d.catalog}
  IN IF d.part[p].status \notin {"complete", "failed_overflow"} \/ leaves = {} THEN d
     ELSE Downgrade(ForEach(ReopenLeaf, d, leaves))

(* _reopen_split_ancestors_for_invalid_probe_descendants.                  *)
ReopenAbove(d, q) ==
  LET above == {p \in Partition : /\ Above(p, q) /\ d.part[p].status = "complete"
                                  /\ d.part[p].basis = "split_children"}
  IN IF above = {} THEN d
     ELSE Downgrade(Suspect([d EXCEPT
            !.stable[q] = 0,
            !.part = [p \in Partition |-> IF p \in above
              THEN [@[p] EXCEPT !.status = "failed_overflow", !.basis = "split_children_revalidation"]
              ELSE @[p]]], above \cup {q}))
ReopenForInvalidDescendants(d, p) ==
  ForEach(ReopenAbove, d,
    {q \in Partition : Within(q, p) /\ d.part[q].probe /\ d.part[q].status # "complete"})

Revalidate(d, p) == ReopenForInvalidDescendants(ReopenForCatalogGrowth(d, p), p)

(* reference_backfill_partition.                                           *)
Reference(d, p, j) ==
  LET r == Record(d, p, j)
  IN IF r.ref[j][p] = "needs_revalidation" THEN r ELSE Revalidate(r, p)

(* start_backfill_partition up to its decision, and the claim itself.  A   *)
(* claim that does not resume drops the probe of a partition that no other *)
(* job refers to.                                                          *)
Prepare(d, p, j) ==
  Reference(IF d.part[p].status = "absent"
            THEN [d EXCEPT !.part[p] = [@ EXCEPT !.status = "pending", !.evidence = j]]
            ELSE d, p, j)
Claim(d, p, w, resume) ==
  LET reset == ~resume /\ Cardinality({j \in Job : d.ref[j][p] # "none"}) <= 1
  IN [d EXCEPT !.part[p] = [d.part[p] EXCEPT !.status = "running", !.holder = w,
                                             !.probe = @ /\ ~reset]]

(* _assert_generation: the row still runs under this worker's claim.       *)
Holds(row, w) == row.status = "running" /\ row.holder = w
(* Mutant: a run is not outdated by a later one.                           *)
RunsJobForever(d, j, w) == TRUE

(* _load_backfill_partition_job: no later run of the job has begun.        *)
RunsJob(d, j, w) == d.job[j].holder = w
(* _assert_backfill_job_reference.                                         *)
Refers(d, j, p) == d.ref[j][p] = "current"

(* finish_backfill_partition with a failure.                               *)
Fail(d, p, status) == [d EXCEPT !.part[p].status = status]
-----------------------------------------------------------------------------
(* The worker: _process recurses over the tree, one frame per partition.   *)
(* at is where the frame is, todo the items still to process (and the one  *)
(* in flight), bad whether one failed, left the outcome of a half.         *)
Ats == {"enter", "claim", "fetch", "left", "right", "join", "joining", "bind",
        "scan", "items", "item", "verify", "verifying", "fold", "folding"}
Outcomes == {"true", "false", "none"}
Frame(p) == [part |-> p, at |-> "enter", left |-> "none", right |-> "none",
             todo |-> {}, code |-> None, bad |-> FALSE]

Busy(w) == work[w].job # None
Top(w) == work[w].stack[1]
At(w, at) == Busy(w) /\ work[w].stack # <<>> /\ Top(w).at = at
Goto(w, at) == work' = [work EXCEPT ![w].stack[1].at = at]

(* The outcome of a frame reaches the frame below it, or the loop of run   *)
(* over the roots.                                                         *)
Resumed(m, out) ==
  LET below == Tail(m.stack) IN
  IF below = <<>> THEN
    LET last == m.root = Len(Roots[m.job]) \/ (~m.fuel /\ out # "true")
    IN [m EXCEPT !.sound = @ /\ out = "true",
                 !.root = IF last THEN @ ELSE @ + 1,
                 !.stack = IF last THEN <<>> ELSE <<Frame(Roots[m.job][m.root + 1])>>]
  ELSE IF below[1].at = "left"
       THEN [m EXCEPT !.stack = <<Frame(Right(below[1].part)),
               [below[1] EXCEPT !.at = "right", !.left = out]>> \o Tail(below)]
       ELSE [m EXCEPT !.stack = <<[below[1] EXCEPT !.at = "join", !.right = out]>> \o Tail(below)]
Return(w, out) == work' = [work EXCEPT ![w] = Resumed(work[w], out)]

Descend(m) == [m EXCEPT !.stack = <<Frame(Left(@[1].part)), [@[1] EXCEPT !.at = "left"]>> \o Tail(@)]
(* The supplier's circuit is open: every frame returns, none touches the   *)
(* store, and the run ends.                                                *)
Unwound(m) == [m EXCEPT !.stack = <<>>, !.sound = FALSE]
(* A claim uses up part of max_partitions, perhaps the last of it.         *)
Event == events < MaxEvents /\ events' = events + 1
Spend(m, fuel) == [m EXCEPT !.fuel = fuel]
Spends(fuel) == IF fuel THEN UNCHANGED events ELSE Event
-----------------------------------------------------------------------------
(* start_backfill_partition as the worker sees it: it may hold the claim,  *)
(* find the partition complete (then m is its memory), or get none.  A     *)
(* running row refuses the claim, which rolls the transaction back, unless *)
(* its lease has lapsed; time is not modelled, so either may be the case.  *)
TakePartition(w, next, fuel, m) ==
  LET p == Top(w).part
      j == work[w].job
      d == Prepare(db, p, j)
  IN \/ /\ \/ ~RunsJob(db, j, w)
           \/ RunsJob(db, j, w) /\ EvidenceStatus(db, p, j) = "current" /\ d.part[p].status = "running"
        /\ Return(w, "none")
        /\ UNCHANGED db
     \/ /\ RunsJob(db, j, w) /\ EvidenceStatus(db, p, j) = "needs_revalidation"
        /\ db' = d
        /\ Return(w, "none")
     \/ /\ RunsJob(db, j, w) /\ EvidenceStatus(db, p, j) = "current" /\ d.part[p].status = "complete"
        /\ db' = d
        /\ work' = [work EXCEPT ![w] = m]
     \/ /\ RunsJob(db, j, w) /\ EvidenceStatus(db, p, j) = "current" /\ d.part[p].status # "complete"
        /\ db' = Claim(d, p, w, next # "fetch" \/ work[w].resume)
        /\ work' = [work EXCEPT ![w] = Spend([work[w] EXCEPT !.stack[1].at = next], fuel)]

(* A page the supplier may answer with: all there is if that is less than  *)
(* the limit, otherwise any part of it, since offsets are unstable.        *)
Pages(docs, limit) == IF Cardinality(docs) < limit THEN {docs} ELSE kSubset(limit, docs)
(* Mutant: a page of just the limit passes for the last one.               *)
ShortOrFull(page, limit) == Cardinality(page) <= limit
Short(page, limit) == Cardinality(page) < limit

(* run: ensure_backfill_job, which outdates every earlier run of the job.  *)
Begin(w, j, resume) ==
  /\ ~Busy(w)
  /\ db' = [db EXCEPT !.job[j] = [@ EXCEPT !.holder = w,
                                  !.status = IF db.job[j].stale THEN "partial" ELSE "running"]]
  /\ work' = [work EXCEPT ![w] = [job |-> j, resume |-> resume, fuel |-> TRUE, root |-> 1,
                                  sound |-> TRUE, stack |-> <<Frame(Roots[j][1])>>]]
  /\ Event

(* _process up to the claim: the existing row decides.                     *)
Enter(w) ==
  /\ At(w, "enter")
  /\ LET p == Top(w).part
         j == work[w].job
         d == Reference(db, p, j)
         row == d.part[p]
         down == row.status = "failed_overflow" /\ work[w].resume /\ (IsDay(p) => row.probe)
     IN \/ /\ db.part[p].status = "absent"
           /\ Goto(w, "claim") /\ UNCHANGED db
        \/ /\ db.part[p].status # "absent" /\ ~RunsJob(db, j, w)
           /\ Return(w, "false") /\ UNCHANGED db
        \/ /\ db.part[p].status # "absent" /\ RunsJob(db, j, w) /\ db' = d
           /\ \/ EvidenceStatus(db, p, j) = "needs_revalidation" /\ Return(w, "false")
              \/ /\ EvidenceStatus(db, p, j) = "current"
                 /\ \/ row.status = "complete" /\ Return(w, "true")
                    \/ down /\ IsDay(p) /\ Goto(w, "bind")
                    \/ down /\ ~IsDay(p) /\ work' = [work EXCEPT ![w] = Descend(work[w])]
                    \/ row.status # "complete" /\ ~down /\ Goto(w, "claim")
  /\ UNCHANGED events

ClaimProbe(w) ==
  /\ At(w, "claim")
  /\ \/ ~work[w].fuel /\ Return(w, "none") /\ UNCHANGED <<db, events>>
     \/ /\ work[w].fuel
        /\ \E fuel \in BOOLEAN : /\ TakePartition(w, "fetch", fuel, Resumed(work[w], "true"))
                                 /\ Spends(fuel)

(* A short page completes the partition (commit_backfill_partition_leaf),  *)
(* a full one is kept as a probe of the day or discarded and the range     *)
(* split; a claim that was overtaken gets nothing stored.                  *)
CommitLeaf(w) ==
  /\ At(w, "fetch")
  /\ LET p == Top(w).part
     IN \E page \in Pages(DocsIn(p), Limit[work[w].job]) :
       /\ Short(page, Limit[work[w].job])
       /\ \/ /\ Holds(db.part[p], w)
             /\ db' = [Store(db, page) EXCEPT !.part[p] =
                        [@ EXCEPT !.status = "complete", !.basis = "short_page",
                                  !.probe = FALSE, !.catalog = {}]]
             /\ Return(w, "true")
          \/ ~Holds(db.part[p], w) /\ Return(w, "none") /\ UNCHANGED db
  /\ UNCHANGED events

(* commit_backfill_partition_probe.                                        *)
CommitProbe(w) ==
  /\ At(w, "fetch") /\ IsDay(Top(w).part)
  /\ LET p == Top(w).part
     IN \E page \in Pages(DocsIn(p), Limit[work[w].job]) :
       /\ ~Short(page, Limit[work[w].job])
       /\ \/ /\ Holds(db.part[p], w) /\ Refers(db, work[w].job, p)
             /\ db' = [ExpandPartition(Store(db, page), p) EXCEPT
                        !.probed[p] = @ \cup page,
                        !.part[p] = [@ EXCEPT !.status = "failed_overflow", !.probe = TRUE]]
             /\ Goto(w, "bind")
          \/ /\ ~(Holds(db.part[p], w) /\ Refers(db, work[w].job, p))
             /\ Return(w, "none") /\ UNCHANGED db
  /\ UNCHANGED events

DiscardPage(w) ==
  /\ At(w, "fetch") /\ ~IsDay(Top(w).part)
  /\ LET p == Top(w).part
     IN \E page \in Pages(DocsIn(p), Limit[work[w].job]) :
       /\ ~Short(page, Limit[work[w].job])
       /\ \/ /\ Holds(db.part[p], w)
             /\ db' = Fail(db, p, "failed_overflow")
             /\ work' = [work EXCEPT ![w] = Descend(work[w])]
          \/ ~Holds(db.part[p], w) /\ Return(w, "none") /\ UNCHANGED db
  /\ UNCHANGED events

(* The request or the commit of a probe or a verification round raises: a  *)
(* supplier error ends the run, any other exception this partition.        *)
FetchFails(w) ==
  /\ At(w, "fetch") \/ At(w, "verifying")
  /\ db' = IF Holds(db.part[Top(w).part], w)
           THEN Fail(db, Top(w).part, "failed_retryable") ELSE db
  /\ \/ work' = [work EXCEPT ![w] = Unwound(work[w])]
     \/ Return(w, "false")
  /\ Event

(* Mutant: the outcome of the second half overwrites that of the first.    *)
RightHalfDone(frame) == frame.right = "true"
BothHalvesDone(frame) == frame.left = "true" /\ frame.right = "true"

(* _process_split after both halves, and _complete_split_parent.           *)
Join(w) ==
  /\ At(w, "join")
  /\ \/ /\ BothHalvesDone(Top(w))
        /\ TakePartition(w, "joining", work[w].fuel, Resumed(work[w], "true"))
     \/ /\ ~BothHalvesDone(Top(w))
        /\ Return(w, IF "none" \in {Top(w).left, Top(w).right} THEN "none" ELSE "false")
        /\ UNCHANGED db
  /\ UNCHANGED events

FinishSplit(w) ==
  /\ At(w, "joining")
  /\ LET p == Top(w).part
     IN \/ /\ Holds(db.part[p], w)
           /\ db' = [db EXCEPT !.part[p] = [@ EXCEPT !.status = "complete", !.basis = "split_children"]]
           /\ Return(w, "true")
        \/ ~Holds(db.part[p], w) /\ Return(w, "none") /\ UNCHANGED db
  /\ UNCHANGED events

(* _process_saturated_day up to its loop.  bind_backfill_universe freezes  *)
(* the universe of the job, the supplier's directory and the catalog, once *)
(* and gives it to a day once; the days of one job share it.               *)
Bind(w) ==
  /\ At(w, "bind")
  /\ LET p == Top(w).part
         j == work[w].job
         frozen == IF db.members[j] = {}
                   THEN [db EXCEPT !.members[j] = Listed \cup db.catalog] ELSE ExpandJob(db, j)
     IN \/ ~db.part[p].probe /\ Return(w, "false") /\ UNCHANGED db
        \/ db.part[p].probe /\ db.bound[p] # None /\ Goto(w, "scan") /\ UNCHANGED db
        \/ /\ db.part[p].probe /\ db.bound[p] = None
           /\ \/ ~RunsJob(db, j, w) /\ Return(w, "none") /\ UNCHANGED db
              \/ /\ RunsJob(db, j, w)
                 /\ db' = [frozen EXCEPT
                      !.bound[p] = j,
                      !.item[p] = [c \in Code |-> IF c \in frozen.members[j]
                                     THEN [NoItem EXCEPT !.status = "pending"] ELSE NoItem]]
                 /\ Goto(w, "scan")
  /\ UNCHANGED events

(* The supplier fails to list the securities: _replace_parent_failure      *)
(* claims the partition once more, to mark it, if it can.                  *)
BindFails(w) ==
  /\ At(w, "bind") /\ db.part[Top(w).part].probe
  /\ LET p == Top(w).part
         j == work[w].job
         d == Prepare(db, p, j)
     IN /\ db.bound[p] = None /\ db.members[j] = {}
        /\ \/ (~RunsJob(db, j, w) \/ d.part[p].status = "running") /\ UNCHANGED db
           \/ /\ RunsJob(db, j, w)
              /\ db' = IF d.part[p].status = "complete" THEN d
                       ELSE Fail(Claim(d, p, w, TRUE), p, "failed_retryable")
  /\ work' = [work EXCEPT ![w] = Unwound(work[w])]
  /\ Event

(* One round of the loop: the universe takes in the catalog, and the items *)
(* not complete are listed; one that overflowed under this very limit is   *)
(* not asked for again by a run that resumes.                              *)
Scan(w) ==
  /\ At(w, "scan")
  /\ LET p == Top(w).part
         j == work[w].job
         d == ExpandJob(db, j)
         open == {c \in Code : d.item[p][c].status \notin {"absent", "complete"}}
         hopeless == {c \in open : /\ d.item[p][c].status = "failed_overflow"
                                   /\ d.item[p][c].limit = Limit[j] /\ work[w].resume}
     IN /\ db' = d
        /\ work' = [work EXCEPT ![w].stack[1] =
             [@ EXCEPT !.at = "items", !.todo = open \ hopeless, !.bad = hopeless # {}]]
  /\ UNCHANGED events

(* start_backfill_item: no job and no parent is looked at.                 *)
ClaimItem(w) ==
  /\ At(w, "items")
  /\ \E c \in Top(w).todo :
       LET p == Top(w).part
           row == db.item[p][c]
           skip == work' = [work EXCEPT ![w].stack[1].todo = @ \ {c}] /\ UNCHANGED db
       IN \/ ~work[w].fuel /\ Return(w, "none") /\ UNCHANGED <<db, events>>
          \/ work[w].fuel /\ row.status \in {"complete", "running"} /\ skip /\ UNCHANGED events
          \/ /\ work[w].fuel /\ row.status # "complete"
             /\ db' = [db EXCEPT !.item[p][c] =
                  [status |-> "running", holder |-> w, limit |-> Limit[work[w].job]]]
             /\ \E fuel \in BOOLEAN :
                  /\ work' = [work EXCEPT ![w] =
                       Spend([work[w] EXCEPT !.stack[1].at = "item", !.stack[1].code = c], fuel)]
                  /\ Spends(fuel)

NextItem(w, bad) ==
  work' = [work EXCEPT ![w].stack[1] =
    [Top(w) EXCEPT !.at = "items", !.code = None, !.todo = @ \ {Top(w).code}, !.bad = @ \/ bad]]

(* _process_security_item: commit_backfill_item_leaf, or                   *)
(* finish_backfill_item when the security alone fills a page.              *)
CommitItem(w) ==
  /\ At(w, "item")
  /\ LET p == Top(w).part
         c == Top(w).code
         limit == Limit[work[w].job]
     IN \E page \in Pages({d \in DocsIn(p) : d.code = c}, limit) :
       \/ /\ Holds(db.item[p][c], w)
          /\ db' = IF Short(page, limit) THEN [Store(db, page) EXCEPT !.item[p][c].status = "complete"]
                   ELSE [db EXCEPT !.item[p][c].status = "failed_overflow"]
          /\ NextItem(w, ~Short(page, limit))
       \/ ~Holds(db.item[p][c], w) /\ NextItem(w, FALSE) /\ UNCHANGED db
  /\ UNCHANGED events

ItemFails(w) ==
  /\ At(w, "item")
  /\ LET p == Top(w).part
         c == Top(w).code
     IN db' = IF Holds(db.item[p][c], w)
              THEN [db EXCEPT !.item[p][c].status = "failed_retryable"] ELSE db
  /\ \/ work' = [work EXCEPT ![w] = Unwound(work[w])]
     \/ NextItem(w, TRUE)
  /\ Event

(* After the items backfill_verification_state: have enough rounds in a    *)
(* row shown nothing new?                                                  *)
ItemsDone(w) ==
  /\ At(w, "items") /\ Top(w).todo = {}
  /\ LET stable == IF Refers(db, work[w].job, Top(w).part) THEN db.stable[Top(w).part] ELSE 0
     IN \/ Top(w).bad /\ Return(w, "false")
        \/ ~Top(w).bad /\ stable >= Rounds /\ Goto(w, "fold")
        \/ ~Top(w).bad /\ stable < Rounds /\ work[w].fuel /\ Goto(w, "verify")
        \/ ~Top(w).bad /\ stable < Rounds /\ ~work[w].fuel /\ Return(w, "none")
  /\ UNCHANGED <<db, events>>

ClaimVerification(w) ==
  /\ At(w, "verify")
  /\ \E fuel \in BOOLEAN :
       /\ TakePartition(w, "verifying", fuel, [work[w] EXCEPT !.stack[1].at = "scan"])
       /\ Spends(fuel)

(* commit_backfill_verification_round: a round is stable when it shows no  *)
(* announcement the probes had not shown and no code new to the universe.  *)
CommitRound(w) ==
  /\ At(w, "verifying")
  /\ LET p == Top(w).part
         docs == DocsIn(p)
     IN \/ /\ Holds(db.part[p], w) /\ Refers(db, work[w].job, p)
           /\ \E page \in Pages(docs, Limit[work[w].job]) :
                LET d == Store(db, page)
                    calm == page \subseteq db.probed[p] /\ NewCodes(d, p) = {}
                IN db' = [ExpandPartition(d, p) EXCEPT
                     !.probed[p] = @ \cup page,
                     !.stable[p] = IF calm THEN Min({@ + 1, Rounds}) ELSE 0,
                     !.part[p] = [@ EXCEPT !.status = "failed_overflow", !.probe = TRUE]]
           /\ Goto(w, "scan")
        \/ /\ ~(Holds(db.part[p], w) /\ Refers(db, work[w].job, p))
           /\ Return(w, "none") /\ UNCHANGED db
  /\ UNCHANGED events

ClaimFold(w) ==
  /\ At(w, "fold")
  /\ TakePartition(w, "folding", work[w].fuel, Resumed(work[w], "true"))
  /\ UNCHANGED events

(* The conditions of complete_backfill_partition_from_items.               *)
Converged(d, p) ==
  /\ d.bound[p] # None /\ d.part[p].probe
  /\ \A c \in d.members[d.bound[p]] : d.item[p][c].status = "complete"
  /\ CodesOf(d.probed[p]) \subseteq d.members[d.bound[p]]
  /\ d.stable[p] >= Rounds

(* _complete_item_parent: the universe is expanded once more first.        *)
Fold(w) ==
  /\ At(w, "folding")
  /\ LET p == Top(w).part
         d == ExpandPartition(db, p)
     IN \/ /\ Holds(db.part[p], w) /\ Refers(db, work[w].job, p) /\ Converged(d, p)
           /\ db' = [d EXCEPT !.part[p] =
                [@ EXCEPT !.status = "complete", !.catalog = d.catalog,
                          !.basis = "saturated_catalog_convergence"]]
           /\ Return(w, "true")
        \/ /\ Holds(db.part[p], w) /\ Refers(db, work[w].job, p) /\ ~Converged(d, p)
           /\ db' = Fail(d, p, "failed_overflow")
           /\ Return(w, "false")
        \/ /\ ~(Holds(db.part[p], w) /\ Refers(db, work[w].job, p))
           /\ Return(w, "none") /\ UNCHANGED db
  /\ UNCHANGED events

(* finish_backfill_job: complete only if the run says so and every         *)
(* partition the job refers to is complete; an outdated run changes        *)
(* nothing.                                                                *)
Finish(w) ==
  /\ Busy(w) /\ work[w].stack = <<>>
  /\ LET j == work[w].job
         r == [p \in Partition |->
                IF db.ref[j][p] # "none" /\ db.part[p].status # "complete"
                THEN "needs_revalidation" ELSE db.ref[j][p]]
         invalid == \E p \in Partition : r[p] = "needs_revalidation"
         complete == work[w].sound /\ ~invalid /\ \E p \in Partition : r[p] # "none"
     IN db' = IF RunsJob(db, j, w)
              THEN [db EXCEPT !.ref[j] = r,
                              !.job[j] = [@ EXCEPT !.status = IF complete THEN "complete" ELSE "partial",
                                                   !.stale = invalid]]
              ELSE db
  /\ work' = [work EXCEPT ![w] = Idle]
  /\ UNCHANGED events

Kill(w) ==
  /\ Busy(w)
  /\ work' = [work EXCEPT ![w] = Idle]
  /\ Event
  /\ UNCHANGED db

Advance(w) ==
  \/ Enter(w) \/ ClaimProbe(w) \/ CommitLeaf(w) \/ CommitProbe(w) \/ DiscardPage(w)
  \/ Join(w) \/ FinishSplit(w) \/ Bind(w) \/ Scan(w) \/ ClaimItem(w) \/ CommitItem(w)
  \/ ItemsDone(w) \/ ClaimVerification(w) \/ CommitRound(w) \/ ClaimFold(w)
  \/ Fold(w) \/ Finish(w)
Next ==
  \E w \in Worker : \/ Advance(w) \/ FetchFails(w) \/ BindFails(w) \/ ItemFails(w) \/ Kill(w)
                       \/ \E j \in Job : \E resume \in Resume[j] : Begin(w, j, resume)

Spec == Init /\ [][Next]_vars
-----------------------------------------------------------------------------
(* Every row and every worker's memory has the type its schema gives it.   *)
TypeOK ==
  /\ db.docs \subseteq Doc /\ db.catalog = CodesOf(db.docs)
  /\ db.part \in [Partition -> PartitionRow] /\ db.job \in [Job -> JobRow]
  /\ db.ref \in [Job -> [Partition -> {"none", "current", "needs_revalidation"}]]
  /\ \A p \in Partition : \A c \in Code : db.item[p][c] \in ItemRow
  /\ \A p \in Partition : db.bound[p] \in Job \cup {None} /\ db.stable[p] \in 0..Rounds
  /\ \A w \in Worker : \A k \in DOMAIN work[w].stack : work[w].stack[k].at \in Ats

(* What a partition that counts as complete has stored: after a short page *)
(* everything the supplier has for its days, after a saturated day all     *)
(* announcements of the securities its catalog revision knew.              *)
LeafHoldsItsDocuments ==
  \A p \in Partition :
    db.part[p].status = "complete" =>
      /\ db.part[p].basis = "short_page" => DocsIn(p) \subseteq db.docs
      /\ db.part[p].basis = "saturated_catalog_convergence" =>
           /\ CodesOf(db.probed[p]) \subseteq db.part[p].catalog
           /\ {d \in DocsIn(p) : d.code \in db.part[p].catalog} \subseteq db.docs

Covered(day) ==
  \E p \in Partition : /\ p[1] <= day /\ day <= p[2] /\ db.part[p].status = "complete"
                       /\ db.part[p].basis \in {"short_page", "saturated_catalog_convergence"}

(* A job reported complete has every day of its range under a completed    *)
(* leaf, although other jobs reopen and reclaim partitions they share and  *)
(* a range may be completed over a half that was reopened meanwhile.       *)
CompleteJobIsCovered ==
  \A j \in Job : db.job[j].status = "complete" =>
    \A k \in DOMAIN Roots[j] : \A day \in Roots[j][k][1]..Roots[j][k][2] : Covered(day)

(* A job reported complete trusts only completed partitions: whatever      *)
(* another job reopens or reclaims under it takes the report back in the   *)
(* same transaction.                                                       *)
CompleteJobIsTrusted ==
  \A j \in Job : db.job[j].status = "complete" =>
    \A p \in Partition : \/ db.ref[j][p] = "none"
                         \/ db.ref[j][p] = "current" /\ db.part[p].status = "complete"

(* A report of completeness is taken back by a new run of the job or by    *)
(* evidence gone stale, never by an earlier run that ends late.            *)
ReportIsTakenBackForCause ==
  [][\A j \in Job : db.job[j].status = "complete" /\ db'.job[j].status # "complete" =>
       \/ db'.job[j].stale
       \/ \E w \in Worker : ~Busy(w) /\ work'[w].job = j]_vars

(* A completed partition is asked for again only when what completed it no *)
(* longer holds: a saturated day whose securities the catalog outgrew, or  *)
(* a split over such a day or over one not complete.  Everything a short   *)
(* page completed stays complete.                                          *)
ReopenedForCause ==
  [][\A p \in Partition :
       db.part[p].status = "complete" /\ db'.part[p].status # "complete" =>
         \/ /\ db.part[p].basis = "saturated_catalog_convergence"
            /\ db.part[p].catalog # db.catalog
         \/ /\ db.part[p].basis = "split_children"
            /\ \E q \in Partition :
                 /\ Above(p, q) /\ db.part[q].probe
                 /\ db.part[q].status = "complete" => db.part[q].catalog # db.catalog]_vars
=============================================================================
