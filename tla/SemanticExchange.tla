-------------------------- MODULE SemanticExchange ---------------------------
(***************************************************************************)
(* The semantic batches (intelligence/semantic/exchange.py) over the same  *)
(* SQLite store as the backfill (intelligence/store.py).  A job is an      *)
(* immutable directory of documents; running it asks a provider about one  *)
(* document after the other and appends the validated results to a file;   *)
(* importing it turns every result into a run of the document, its events  *)
(* into decided candidates.  A repair job reads documents again under a    *)
(* newer prompt and its run supersedes the earlier ones, which stay in the *)
(* store and may be brought back.  The nightly service holds a lock, the   *)
(* operator's commands hold none, and each may be killed between any two   *)
(* transactions or file writes.                                            *)
(***************************************************************************)
EXTENDS Integers, SequencesExt

CONSTANTS
  Worker,    \* processes: the nightly service and the operator's commands
  Job,       \* job directories
  Doc,       \* documents
  Items,     \* [Job -> Seq(Doc)]  a job's documents, in the manifest's order
  Prompt,    \* [Job -> prompt versions]
  Repairs,   \* jobs made by prepare_repair_job; each has a repair id of its own
  Bound,     \* jobs under an execution contract, whose rows have a status in the store
  Result,    \* numbers of events a result may hold
  Past,      \* jobs that may have been run and imported before
  MaxStarts, \* bound: runs and imports started
  MaxFaults, \* bound: kills and failed requests
  None

ASSUME SemanticAssumption ==
  /\ Items \in [Job -> Seq(Doc)] /\ DOMAIN Prompt = Job
  /\ Past \subseteq Job \ Repairs
  /\ Repairs \subseteq Job /\ Bound \subseteq Job \ Repairs
  /\ Result \subseteq Nat /\ MaxStarts \in Nat /\ MaxFaults \in Nat
  /\ None \notin Job

(* The key of a row of semantic_runs.  The input hash of a repair covers   *)
(* its context, so such a run belongs to its job alone, while all other    *)
(* jobs of one prompt share the run of a document.                         *)
RunOf(j, d) == [doc |-> d, prompt |-> Prompt[j], by |-> IF j \in Repairs THEN j ELSE None]
Run == UNION {{RunOf(j, d) : d \in ToSet(Items[j])} : j \in Job}

Failures == {"failed_terminal", "preflight_terminal"}
Read == {"succeeded", "no_event"}
Decision == {"canonical", "quarantined"}

RowStatus == {"assigned", "running", "retry_wait", "produced", "validating",
              "retrying_event", "accepted", "quarantined", "abandoned"}

(* Mutant: a row that runs may be taken once more.                         *)
BeforeLoosely(s) ==
  IF s = "running" THEN {"assigned", "retry_wait", "running"} ELSE RowStatus

(* SEMANTIC_EXECUTION_TRANSITIONS: the statuses a row may have before it   *)
(* gets the status s.                                                      *)
Before(s) == CASE s = "running"        -> {"assigned", "retry_wait"}
               [] s = "retry_wait"     -> {"running", "retrying_event"}
               [] s = "produced"       -> {"running"}
               [] s = "validating"     -> {"produced", "retrying_event"}
               [] s = "retrying_event" -> {"validating"}
               [] s = "accepted"       -> {"validating"}
               [] s = "quarantined"    -> {"validating", "retrying_event"}
               [] s = "abandoned"      -> {"assigned", "running", "retry_wait"}

(* An entry of the errors of a report.                                     *)
Error == [doc : Doc, retry : BOOLEAN]

VARIABLES
  exec,   \* [Job -> [Doc -> ...]]  semantic_execution_jobs
  run,    \* [Run -> ...]           semantic_runs
  cand,   \* [Run -> Seq(Decision)] event_candidates, in the order of the events
  repl,   \* [Repairs -> [Run -> ...]]  semantic_run_replacements
  job,    \* [Job -> ...]           the files of the job directory
  work,   \* [Worker -> ...]        what a process has in memory
  starts, faults

store == <<exec, run, cand, repl>>
vars == <<store, job, work, starts, faults>>

Idle == [at |-> "idle", job |-> None, queue |-> <<>>, rows |-> <<>>, skip |-> {},
         errors |-> {}, known |-> {}, awaits |-> FALSE, result |-> 0]

(* Some jobs were run and imported, each with n events a document, and some *)
(* repairs of what they read are ready to import, with m.                  *)
InitAfter(past, ready, n, m) ==
  LET done == {RunOf(j, d) : j \in past, d \in Doc} \cap Run
      rows(j) == CASE j \in past -> n [] j \in ready -> m [] OTHER -> None
      prior(j) == {r \in done : r.doc \in ToSet(Items[j]) /\ r.prompt # Prompt[j]}
  IN
  /\ exec = [j \in Job |-> [d \in Doc |->
              IF j \in past \cap Bound /\ d \in ToSet(Items[j]) THEN "accepted" ELSE "absent"]]
  /\ run = [r \in Run |-> IF r \notin done THEN "absent" ELSE IF n = 0 THEN "no_event" ELSE "succeeded"]
  /\ cand = [r \in Run |-> IF r \in done THEN [i \in 1..n |-> "canonical"] ELSE <<>>]
  /\ repl = [k \in Repairs |-> [r \in Run |-> "none"]]
  /\ job = [j \in Job |->
       [prepared |-> j \in past \cup ready,
        context  |-> IF j \in ready THEN prior(j) ELSE {},         \* superseded_runs
        output   |-> [d \in Doc |-> IF d \in ToSet(Items[j]) THEN rows(j) ELSE None],
        rejected |-> {},                                           \* quarantine.jsonl
        errors   |-> {},                                           \* run_report.json
        report   |-> [status |-> IF j \in past THEN "imported" ELSE "absent",
                      errors |-> {}]]]                             \* import_report.json
  /\ work = [w \in Worker |-> Idle]
  /\ starts = 0 /\ faults = 0

(* Before the first job, or when the jobs of Past were run and imported.   *)
Init == \E past \in {{}, Past}, ready \in SUBSET Repairs, n, m \in Result :
          (past = {} => ready = {}) /\ InitAfter(past, ready, n, m)
-----------------------------------------------------------------------------
(* What the store says of a run.                                           *)

(* _run_has_only_canonical_candidates: those stored so far, at least one.  *)
OnlyCanonicalCandidates(r) == ToSet(cand[r]) = {"canonical"}

(* _already_terminal: a run of the same prompt that a new job leaves alone *)
AlreadyTerminal(d, p) ==
  \E r \in Run : /\ r.doc = d /\ r.prompt = p
                 /\ \/ run[r] \in {"no_event", "preflight_terminal"}
                    \/ run[r] = "succeeded" /\ OnlyCanonicalCandidates(r)

(* Mutant: whatever became of them.                                        *)
PriorRunsAtAll(j) ==
  {r \in Run : r.doc \in ToSet(Items[j]) /\ r.prompt # Prompt[j] /\ run[r] # "absent"}

(* _repair_prior_runs: the finished runs under other prompts.              *)
PriorRuns(j) ==
  {r \in Run : r.doc \in ToSet(Items[j]) /\ r.prompt # Prompt[j] /\ run[r] \in Read}
Context(j) == IF j \in Repairs THEN PriorRuns(j) ELSE {}

(* Mutant: a replacement hides the run whatever became of it.              *)
HiddenForGood(r) ==
  \E k \in Repairs : \/ repl[k][r] # "none"
                     \/ r.by = k /\ \E x \in Run : repl[k][x] = "rolled_back"

(* events_as_of: the events of a run nobody sees.                          *)
Hidden(r) ==
  \E k \in Repairs : \/ repl[k][r] = "active"
                     \/ r.by = k /\ \E x \in Run : x.doc = r.doc /\ repl[k][x] = "rolled_back"
-----------------------------------------------------------------------------
(* Steps of a process.                                                     *)

At(w, ats) == work[w].at \in ats
Current(w) == Head(work[w].queue)
CurrentRun(w) == RunOf(work[w].job, Current(w))
Goto(w, at) == work' = [work EXCEPT ![w].at = at]
GoOn(mem, at) == [mem EXCEPT !.at = at, !.queue = Tail(@)]
Failing(mem, d, retry) == [mem EXCEPT !.errors = @ \cup {[doc |-> d, retry |-> retry]}]

(* transition_semantic_execution_job.                                      *)
Transition(w, s) ==
  /\ exec[work[w].job][Current(w)] \in Before(s)
  /\ exec' = [exec EXCEPT ![work[w].job][Current(w)] = s]

Start == starts < MaxStarts /\ starts' = starts + 1
Fault == faults < MaxFaults /\ faults' = faults + 1

-----------------------------------------------------------------------------
(* prepare_job, prepare_repair_job: the directory appears at once; the     *)
(* rows of a bound job are registered after it, and by the same command    *)
(* given again when the first was killed in between.                       *)
Prepare(j, whole) ==
  /\ \A d \in ToSet(Items[j]) : ~AlreadyTerminal(d, Prompt[j])
  /\ job[j].prepared =>
       /\ job[j].context = Context(j) /\ j \in Bound
       /\ \A d \in ToSet(Items[j]) : exec[j][d] = "absent"
  /\ job' = [job EXCEPT ![j].prepared = TRUE, ![j].context = Context(j)]
  /\ IF whole
     THEN /\ exec' = IF j \in Bound
                     THEN [exec EXCEPT ![j] = [d \in Doc |->
                             IF d \in ToSet(Items[j]) THEN "assigned" ELSE @[d]]]
                     ELSE exec
          /\ UNCHANGED faults
     ELSE Fault /\ j \in Bound /\ UNCHANGED exec
  /\ UNCHANGED <<run, cand, repl, work, starts>>
-----------------------------------------------------------------------------
(* run_job: ask the provider about the documents that have no row yet.     *)

(* What a run keeps of the output file: not the rows an import complained  *)
(* about; the nightly run (all = FALSE) takes back only the retryable ones. *)
Kept(j, all) ==
  LET again == {e.doc : e \in {x \in job[j].report.errors : all \/ x.retry}}
  IN [d \in Doc |-> IF d \in again THEN None ELSE job[j].output[d]]

RunStart(w, j, all) ==
  /\ At(w, {"idle"}) /\ job[j].prepared /\ Start
  /\ work' = [work EXCEPT ![w] =
       [Idle EXCEPT !.at = "row", !.job = j, !.queue = Items[j], !.rows = Kept(j, all),
                    !.skip = {d \in Doc : Kept(j, all)[d] # None \/ d \in job[j].rejected}]]
  /\ UNCHANGED <<store, job, faults>>

(* The next document, unless it had a row or was rejected by then.         *)
ReuseRow(w) ==
  /\ At(w, {"row"}) /\ work[w].queue # <<>> /\ Current(w) \in work[w].skip
  /\ work' = [work EXCEPT ![w] = GoOn(@, "row")]
  /\ UNCHANGED <<store, job, starts, faults>>

Asks(w) == At(w, {"row"}) /\ work[w].queue # <<>> /\ Current(w) \notin work[w].skip

(* A row without a status: nothing of the exchange shows before its result *)
(* is in a file.                                                           *)
Save(w, n) ==
  LET rows == [work[w].rows EXCEPT ![Current(w)] = n] IN
  /\ job' = [job EXCEPT ![work[w].job].output = rows]
  /\ work' = [work EXCEPT ![w] = [GoOn(@, "row") EXCEPT !.rows = rows, !.result = 0]]

Quarantine(w) ==
  /\ job' = [job EXCEPT ![work[w].job].rejected = @ \cup {Current(w)}]
  /\ work' = [work EXCEPT ![w] = GoOn(Failing(@, Current(w), FALSE), "row")]

Exchange(w) ==
  /\ Asks(w) /\ work[w].job \notin Bound
  /\ \/ \E n \in Result : Save(w, n) /\ UNCHANGED faults
     \/ work[w].job \in Repairs /\ Quarantine(w) /\ UNCHANGED faults
     \/ work[w].job \notin Repairs /\ Goto(w, "rejected") /\ UNCHANGED <<job, faults>>
     \/ \E retry \in BOOLEAN :
          /\ Fault /\ UNCHANGED job
          /\ work' = [work EXCEPT ![w] = GoOn(Failing(@, Current(w), retry), "row")]
  /\ UNCHANGED <<store, starts>>

AskProvider(w) ==
  /\ Asks(w) /\ work[w].job \in Bound
  /\ Transition(w, "running")
  /\ Goto(w, "asked")
  /\ UNCHANGED <<run, cand, repl, job, starts, faults>>

(* A row that cannot start: the whole run ends there, without its report.  *)
RunAborts(w) ==
  /\ Asks(w) /\ work[w].job \in Bound
  /\ exec[work[w].job][Current(w)] \notin Before("running")
  /\ work' = [work EXCEPT ![w] = Idle]
  /\ UNCHANGED <<store, job, starts, faults>>

ProviderAnswers(w) ==
  /\ \/ At(w, {"asked"}) /\ Transition(w, "produced") /\ Goto(w, "answered")
     \/ At(w, {"reasked"}) /\ Transition(w, "validating") /\ Goto(w, "revalidating")
  /\ UNCHANGED <<run, cand, repl, job, starts, faults>>

(* A request that fails; the second one of a row may no longer be          *)
(* abandoned.                                                              *)
ProviderFails(w, retry) ==
  /\ At(w, {"asked", "reasked"}) /\ Fault
  /\ Transition(w, CASE retry -> "retry_wait"
                     [] ~retry /\ work[w].at = "asked" -> "abandoned"
                     [] OTHER -> "quarantined")
  /\ work' = [work EXCEPT ![w] = GoOn(Failing(@, Current(w), retry), "row")]
  /\ UNCHANGED <<run, cand, repl, job, starts>>

BeginValidation(w) ==
  /\ At(w, {"answered"}) /\ Transition(w, "validating") /\ Goto(w, "validating")
  /\ UNCHANGED <<run, cand, repl, job, starts, faults>>

Accept(w, n) ==
  /\ At(w, {"validating", "revalidating"})
  /\ Transition(w, "accepted")
  /\ work' = [work EXCEPT ![w].at = "accepted", ![w].result = n]
  /\ UNCHANGED <<run, cand, repl, job, starts, faults>>

SaveRow(w) ==
  /\ At(w, {"accepted"})
  /\ Save(w, work[w].result)
  /\ UNCHANGED <<store, starts, faults>>

(* The first answer breaks the contract: ask once more.                    *)
Reask(w) ==
  /\ At(w, {"validating"}) /\ Transition(w, "retrying_event") /\ Goto(w, "reasked")
  /\ UNCHANGED <<run, cand, repl, job, starts, faults>>

(* So does the second.                                                     *)
Reject(w) ==
  /\ At(w, {"revalidating"}) /\ Transition(w, "quarantined")
  /\ Goto(w, "rejected")
  /\ UNCHANGED <<run, cand, repl, job, starts, faults>>

(* Mutant: a failed run may be claimed again.                              *)
ClaimableAgain(r) == run[r] \in {"absent"} \cup Failures

(* claim_semantic_run: nothing here leaves a run that may be tried again,  *)
(* so only a run that is not there yet is claimed.                         *)
Claimable(r) == run[r] = "absent"

(* _record_terminal_validation_failure: no job of this prompt takes the    *)
(* document again.                                                         *)
ClaimRejected(w) ==
  /\ At(w, {"rejected"})
  /\ run' = IF Claimable(CurrentRun(w)) THEN [run EXCEPT ![CurrentRun(w)] = "running"] ELSE run
  /\ Goto(w, IF Claimable(CurrentRun(w)) THEN "closing" ELSE "quarantining")
  /\ UNCHANGED <<exec, cand, repl, job, starts, faults>>

CloseRejected(w) ==
  /\ At(w, {"closing"})
  /\ run' = [run EXCEPT ![CurrentRun(w)] = "preflight_terminal"]
  /\ Goto(w, "quarantining")
  /\ UNCHANGED <<exec, cand, repl, job, starts, faults>>

(* _write_validation_quarantine.                                           *)
QuarantineRow(w) ==
  /\ At(w, {"quarantining"})
  /\ Quarantine(w)
  /\ UNCHANGED <<store, starts, faults>>

RunReport(w) ==
  /\ At(w, {"row"}) /\ work[w].queue = <<>>
  /\ job' = [job EXCEPT ![work[w].job].errors = work[w].errors]
  /\ work' = [work EXCEPT ![w] = Idle]
  /\ UNCHANGED <<store, starts, faults>>
-----------------------------------------------------------------------------
(* import_job: turn the rows of the output file into runs and events.      *)

ImportStart(w, j) ==
  /\ At(w, {"idle"}) /\ job[j].prepared /\ Start
  /\ IF \A d \in Doc : job[j].output[d] = None
     THEN /\ job' = [job EXCEPT ![j].report =
                      [status |-> "partial", errors |-> job[j].errors]]
          /\ UNCHANGED work
     ELSE /\ work' = [work EXCEPT ![w] =
                       [Idle EXCEPT !.at = "item", !.job = j, !.queue = Items[j],
                                    !.rows = job[j].output, !.known = job[j].errors]]
          /\ UNCHANGED job
  /\ UNCHANGED <<store, faults>>

(* No row: the run reported why, or it is yet to come.                     *)
ItemMissing(w) ==
  /\ At(w, {"item"}) /\ work[w].queue # <<>> /\ work[w].rows[Current(w)] = None
  /\ LET why == {e \in work[w].known : e.doc = Current(w)} IN
     work' = [work EXCEPT ![w] = [GoOn(work[w], "item") EXCEPT !.errors = @ \cup why,
                                                               !.awaits = @ \/ why = {}]]
  /\ UNCHANGED <<store, job, starts, faults>>

(* Where an item goes whose run is fit to stand: a repair replaces what it *)
(* was made for.                                                           *)
Standing(w) == IF work[w].job \in Repairs
               THEN [work EXCEPT ![w].at = "activating"]
               ELSE [work EXCEPT ![w] = GoOn(@, "item")]
Complain(w) == [work EXCEPT ![w] = GoOn(Failing(@, Current(w), FALSE), "item")]

(* Mutant: what was claimed before is not activated again.                 *)
ReuseIdly(w) ==
  [work EXCEPT ![w] = GoOn(IF run[CurrentRun(w)] \in Read THEN @
                           ELSE Failing(@, Current(w), FALSE), "item")]

(* A run that was claimed before: fit, refused, or still at work as far as *)
(* its row tells.                                                          *)
Reuse(w) ==
  LET r == CurrentRun(w) IN
  CASE \/ run[r] = "no_event"
       \/ run[r] = "succeeded" /\ OnlyCanonicalCandidates(r) -> Standing(w)
    [] run[r] = "running" -> [Complain(w) EXCEPT ![w].awaits = TRUE]
    [] OTHER -> Complain(w)

ClaimItem(w) ==
  /\ At(w, {"item"}) /\ work[w].queue # <<>> /\ work[w].rows[Current(w)] # None
  /\ IF Claimable(CurrentRun(w))
     THEN /\ run' = [run EXCEPT ![CurrentRun(w)] = "running"]
          /\ Goto(w, "claimed")
     ELSE /\ work' = Reuse(w)
          /\ UNCHANGED run
  /\ UNCHANGED <<exec, cand, repl, job, starts, faults>>

(* finish_semantic_run: the result has events, or none, or is refused - it *)
(* breaks the contract, or has none where the title announces one.         *)
FinishItem(w, status) ==
  /\ At(w, {"claimed"})
  /\ run' = [run EXCEPT ![CurrentRun(w)] = status]
  /\ LET n == work[w].rows[Current(w)] IN
     \/ /\ status = "succeeded" /\ n > 0
        /\ work' = [work EXCEPT ![w].at = "deciding", ![w].result = n]
     \/ status = "no_event" /\ n = 0 /\ work' = Standing(w)
     \/ status = "failed_terminal" /\ work' = Complain(w)
  /\ UNCHANGED <<exec, cand, repl, job, starts, faults>>

(* SemanticEventCanonicalizer, persist_semantic_candidate_decision: one    *)
(* transaction for each event of the result.                               *)
DecideCandidate(w, decision) ==
  /\ At(w, {"deciding"})
  /\ LET r == CurrentRun(w)  all == Append(cand[r], decision) IN
     /\ cand' = [cand EXCEPT ![r] = all]
     /\ work' = CASE Len(all) < work[w].result -> work
                  [] Len(all) = work[w].result /\ "quarantined" \notin ToSet(all) -> Standing(w)
                  [] OTHER -> Complain(w)
  /\ UNCHANGED <<exec, run, repl, job, starts, faults>>

(* activate_semantic_repair: one row for each run of the context.  A run   *)
(* another repair replaced keeps that replacement, and the refusal is put  *)
(* on record as a row rolled back.                                         *)
Priors(w) == {x \in job[work[w].job].context : x.doc = Current(w)}
Conflicts(w) == {x \in Priors(w) : \E k \in Repairs \ {work[w].job} : repl[k][x] = "active"}

ActivateRepair(w) ==
  /\ At(w, {"activating"})
  /\ repl' = [repl EXCEPT ![work[w].job] = [x \in Run |->
                IF x \notin Priors(w) THEN @[x]
                ELSE IF x \in Conflicts(w) THEN "rolled_back" ELSE "active"]]
  /\ work' = IF Conflicts(w) = {}
             THEN [work EXCEPT ![w] = GoOn(@, "item")]
             ELSE Complain(w)
  /\ UNCHANGED <<exec, run, cand, job, starts, faults>>

ImportReport(w) ==
  /\ At(w, {"item"}) /\ work[w].queue = <<>>
  /\ job' = [job EXCEPT ![work[w].job].report =
               [status |-> IF work[w].errors = {} /\ ~work[w].awaits THEN "imported" ELSE "partial",
                errors |-> work[w].errors]]
  /\ work' = [work EXCEPT ![w] = Idle]
  /\ UNCHANGED <<store, starts, faults>>

(* rollback_repair.                                                        *)
Rollback(k) ==
  /\ \E x \in Run : repl[k][x] = "active"
  /\ repl' = [repl EXCEPT ![k] = [x \in Run |-> IF @[x] = "active" THEN "rolled_back" ELSE @[x]]]
  /\ UNCHANGED <<exec, run, cand, job, work, starts, faults>>

Kill(w) ==
  /\ ~At(w, {"idle"}) /\ Fault
  /\ work' = [work EXCEPT ![w] = Idle]
  /\ UNCHANGED <<store, job, starts>>

RunStep(w) ==
  \/ ReuseRow(w) \/ Exchange(w) \/ AskProvider(w) \/ RunAborts(w) \/ ProviderAnswers(w)
  \/ BeginValidation(w)
  \/ \E retry \in BOOLEAN : ProviderFails(w, retry)
  \/ \E n \in Result : Accept(w, n)
  \/ SaveRow(w) \/ Reask(w) \/ Reject(w) \/ ClaimRejected(w) \/ CloseRejected(w)
  \/ QuarantineRow(w) \/ RunReport(w)

ImportStep(w) ==
  \/ ItemMissing(w) \/ ClaimItem(w)
  \/ \E s \in Read \cup {"failed_terminal"} : FinishItem(w, s)
  \/ \E c \in Decision : DecideCandidate(w, c)
  \/ ActivateRepair(w) \/ ImportReport(w)

Next ==
  \/ \E j \in Job, whole \in BOOLEAN : Prepare(j, whole)
  \/ \E w \in Worker, j \in Job, all \in BOOLEAN : RunStart(w, j, all)
  \/ \E w \in Worker : RunStep(w)
  \/ \E w \in Worker, j \in Job : ImportStart(w, j)
  \/ \E w \in Worker : ImportStep(w)
  \/ \E k \in Repairs : Rollback(k)
  \/ \E w \in Worker : Kill(w)

Spec == Init /\ [][Next]_vars
-----------------------------------------------------------------------------
(* Properties.                                                             *)

(* Everything the store, the files and the processes hold has its form.    *)
TypeOK ==
  /\ exec \in [Job -> [Doc -> RowStatus \cup {"absent"}]]
  /\ run \in [Run -> Read \cup Failures \cup {"absent", "running"}]
  /\ \A r \in Run : cand[r] \in Seq(Decision) /\ (cand[r] # <<>> => run[r] = "succeeded")
  /\ repl \in [Repairs -> [Run -> {"none", "active", "rolled_back"}]]
  /\ \A j \in Job :
       /\ job[j].output \in [Doc -> Result \cup {None}] /\ job[j].rejected \subseteq Doc
       /\ job[j].errors \subseteq Error /\ job[j].report.errors \subseteq Error
       /\ job[j].context \subseteq {r \in Run : run[r] \in Read}
  /\ \A w \in Worker : work[w].errors \subseteq Error

(* A finished run keeps its status, and a decision about a candidate is    *)
(* never taken back, whichever jobs, processes and kills meet the run      *)
(* (docs/announcement-intelligence-executor-contract.md: the terminal      *)
(* result of an input and an executor is not overwritten).                 *)
ResultsAreFinal ==
  [][\A r \in Run : /\ run[r] \in Read \cup Failures => run'[r] = run[r]
                    /\ IsPrefix(cand[r], cand'[r])]_vars

(* activate_semantic_repair decides reading by reading: a repair may have  *)
(* replaced one reading of a document and lost another to a second repair. *)
Torn(k, d) ==
  \E x, y \in Run : x.doc = d /\ y.doc = d /\ repl[k][x] = "active" /\ repl[k][y] = "rolled_back"

(* A document that was read once keeps a reading that events_as_of shows,  *)
(* in whatever order its repairs, each under a prompt of its own or all    *)
(* under one, are imported, refused, rolled back and imported again, unless *)
(* one of them is torn (see "Observed" in README.md).                      *)
SomeReadingVisible ==
  \A d \in Doc :
    LET read == {r \in Run : r.doc = d /\ run[r] \in Read}
    IN read # {} /\ (\A k \in Repairs : ~Torn(k, d)) => \E r \in read : ~Hidden(r)

(* A job reported imported has a finished run for every document, with an  *)
(* event in it where events were announced, and as a repair it has dealt   *)
(* with every run it was made to replace.                                  *)
ImportedIsSettled ==
  \A j \in Job : job[j].report.status = "imported" =>
    \A d \in ToSet(Items[j]) :
      /\ run[RunOf(j, d)] \in Read
      /\ run[RunOf(j, d)] = "succeeded" => "canonical" \in ToSet(cand[RunOf(j, d)])
      /\ \A x \in job[j].context : repl[j][x] # "none"

(* Two processes never ask the provider for the same row of a bound job:   *)
(* no lock is held, the status of the row alone keeps them apart.          *)
OneCallPerRow ==
  LET calling(w) == At(w, {"asked", "answered", "validating", "reasked", "revalidating"})
  IN \A v, w \in Worker :
       /\ v # w /\ calling(v) /\ calling(w)
       /\ work[v].job = work[w].job /\ work[v].job \in Bound
       => Current(v) # Current(w)
=============================================================================
