---------------------------- MODULE ModelRegistry ----------------------------
(***************************************************************************)
(* The life of the models of one account: registry.json                    *)
(* (research/activation.py), drift_lifecycle.json (research/drift.py),     *)
(* shadow_cycles.json and the pinned challenger (model_iteration.py), each *)
(* a file replaced atomically, none of them replaced together with another.*)
(* The daily prediction (research/pipeline.py) watches the serving model   *)
(* for drift, takes its roles away and rolls them back, then advances the  *)
(* challenger's weekly cycles and promotes it role by role; training       *)
(* gates new models, a campaign admits rules, and the operator's commands  *)
(* reject or retire them.  A kill may fall between any two writes.         *)
(***************************************************************************)
EXTENDS Integers, FiniteSets, SequencesExt

CONSTANTS
  NumVersions, \* bound: model versions, numbered in the order of registration
  RoleOrder,   \* the roles in the order of their gates; one is "ranker"
  Windows,     \* breached windows in a row that quarantine (3)
  Recovery,    \* healthy windows in a row that end a quarantine (3)
  Required,    \* usable shadow cycles a promotion takes (12)
  Cap,         \* usable cycles after which a shadow is decided anyway (16)
  Overlap,     \* bound: may a training or an admission overlap a prediction
  MaxKills     \* bound: kills

ASSUME RegistryAssumption ==
  /\ NumVersions \in Nat /\ Overlap \in BOOLEAN /\ MaxKills \in Nat
  /\ RoleOrder \in Seq({"classifier", "ranker", "portfolio"}) /\ IsInjective(RoleOrder)
  /\ {"ranker", "portfolio"} \subseteq ToSet(RoleOrder)
  /\ Windows \in Nat \ {0} /\ Recovery \in Nat \ {0}
  /\ Required \in Nat \ {0} /\ Cap \in Nat /\ Required < Cap

Version == 1..NumVersions
None == 0
Role == ToSet(RoleOrder)
Needed == {"ranker", "portfolio"}
Status == {"research", "shadow", "active", "rejected", "superseded", "quarantined", "retired"}
Terminal == {"rejected", "superseded", "quarantined", "retired"}
Outcome == {"hard", "soft", "sound"}
Idle == [pc |-> "idle"]

VARIABLES
  kind,      \* [Version -> {"unset", "learned", "rule"}]  "unset": not registered
  status,    \* [Version -> Status]  the model-level status
  role,      \* [Version -> [Role -> Status \cup {"unset"}]]
  champion,  \* [Role -> Version \cup {None}]
  previous,  \* [Role -> Version \cup {None}]  previous_champion_model_versions
  drift,     \* [Version -> [status, breaches, healthy]]
  observed,  \* [Version -> {"no", "yes", "landed"}]  today's window; "landed": quarantine event recorded
  cycles,    \* [Version -> 0..Cap]  shadow weeks observed, counted up to Cap
  counted,   \* versions whose current week is observed
  candidate, \* Version \cup {None}  current_candidate, the pinned challenger
  run,       \* the prediction under way
  op,        \* the training or admission under way
  kills

registry == <<kind, status, role, champion, previous>>
files == <<registry, drift, observed, cycles, counted, candidate>>
vars == <<files, run, op, kills>>

Init ==
  /\ kind = [v \in Version |-> "unset"] /\ status = [v \in Version |-> "research"]
  /\ role = [v \in Version |-> [r \in Role |-> "unset"]]
  /\ champion = [r \in Role |-> None] /\ previous = [r \in Role |-> None]
  /\ drift = [v \in Version |-> [status |-> "open", breaches |-> 0, healthy |-> 0]]
  /\ observed = [v \in Version |-> "no"]
  /\ cycles = [v \in Version |-> 0] /\ counted = {} /\ candidate = None
  /\ run = Idle /\ op = Idle /\ kills = 0

Registered == {v \in Version : kind[v] # "unset"}
Rules == {v \in Version : kind[v] = "rule"}
Newest(S) == CHOOSE v \in S : \A w \in S : w <= v
NewestOf(S) == IF S = {} THEN None ELSE Newest(S)

(* An unset role reads as the model's status.                              *)
RoleStatus(v, r) == IF role[v][r] = "unset" THEN status[v] ELSE role[v][r]

(* select_registry_model for the ranker: its champion while active, else   *)
(* the newest model of the most advanced status.                           *)
Serving ==
  LET c == champion["ranker"]
      At(s) == {v \in Registered : status[v] \notin Terminal /\ RoleStatus(v, "ranker") = s}
  IN  IF c # None /\ RoleStatus(c, "ranker") = "active" THEN c
      ELSE NewestOf(IF At("active") # {} THEN At("active")
                    ELSE IF At("shadow") # {} THEN At("shadow") ELSE At("research"))

(* record_role_gate: the statuses of a model whose role r gets the status  *)
(* s, and the model-level status they make, `otherwise` if none leads.     *)
(* Mutant: the former champion keeps its role.                             *)
GatedAlone(v, r, s) == IF s = "superseded" THEN role[v] ELSE [role[v] EXCEPT ![r] = s]
Gated(v, r, s) == [role[v] EXCEPT ![r] = s]
Leading(statuses, otherwise) ==
  IF "active" \in statuses THEN "active" ELSE IF "shadow" \in statuses THEN "shadow" ELSE otherwise

(* Takes shadows off: their undecided roles get the status s as well.      *)
Close(S, s) ==
  /\ status' = [v \in Version |-> IF v \in S THEN s ELSE status[v]]
  /\ role' = [v \in Version |-> [r \in Role |->
                IF v \in S /\ role[v][r] \in {"research", "shadow"} THEN s ELSE role[v][r]]]
  /\ UNCHANGED <<kind, champion, previous>>
-----------------------------------------------------------------------------
(* Drift of the serving model.                                             *)

(* A lifecycle that is not quarantined is open: healthy, on warning or     *)
(* short of evidence, which nothing in the pipeline tells apart.           *)
DriftStatus == {"open", "quarantined"}

(* Mutant: one healthy window too many.                                    *)
RecoversLate(d) == d.healthy >= Recovery
Recovers(d) == d.healthy + 1 >= Recovery

(* DriftLifecycle.record: the lifecycle after a window with a breach at    *)
(* the quarantine threshold (hard), with a lesser one or too little        *)
(* evidence (soft), or with none (sound).                                  *)
Assessed(d, outcome, enforceable) ==
  LET n == IF d.breaches < Windows THEN d.breaches + 1 ELSE Windows
      Reset(s) == [status |-> s, breaches |-> 0, healthy |-> 0]
  IN  CASE outcome = "hard" /\ enforceable ->
             [status |-> IF n = Windows THEN "quarantined" ELSE "open", breaches |-> n, healthy |-> 0]
        [] outcome = "hard" /\ ~enforceable -> Reset("open")
        [] outcome = "soft" -> Reset(d.status)
        [] outcome = "sound" /\ d.status = "quarantined" /\ ~Recovers(d) ->
             [status |-> d.status, breaches |-> 0, healthy |-> d.healthy + 1]
        [] OTHER -> Reset("open")

(* _resolve_model_roles: a rule serves no formal prediction.               *)
StartPredict ==
  /\ run = Idle /\ (Overlap \/ op = Idle)
  /\ run' = IF Serving = None \/ Serving \in Rules THEN [pc |-> "pin"]
            ELSE [pc |-> "assess", version |-> Serving,
                  roles |-> [r \in Role |-> RoleStatus(Serving, r)]]
  /\ UNCHANGED <<files, op, kills>>

Enforceable == {r \in Role : run.roles[r] \in {"shadow", "active"}}

(* An assessment of quarantine with roles to lose goes on to the registry. *)
(* Mutant: only one that was not quarantined before.                       *)
AfterTransition(d) ==
  IF d.status = "quarantined" /\ drift[run.version].status = "open" /\ Enforceable # {}
  THEN [run EXCEPT !.pc = "quarantine"] ELSE [pc |-> "pin"]
(* Mutant: any assessment of a model with roles to lose.                   *)
AfterAnyWindow(d) == IF Enforceable # {} THEN [run EXCEPT !.pc = "quarantine"] ELSE [pc |-> "pin"]
AfterAssessment(d) ==
  IF d.status = "quarantined" /\ Enforceable # {} THEN [run EXCEPT !.pc = "quarantine"] ELSE [pc |-> "pin"]

(* _assess_model_drift, the day's first window of the model.               *)
ObserveDrift ==
  /\ run.pc = "assess"
  /\ LET v == run.version IN
     /\ observed[v] = "no" /\ observed' = [observed EXCEPT ![v] = "yes"]
     /\ \E o \in Outcome :
          LET d == Assessed(drift[v], o, Enforceable # {})
          IN  drift' = [drift EXCEPT ![v] = d] /\ run' = AfterAssessment(d)
  /\ UNCHANGED <<registry, cycles, counted, candidate, op, kills>>

(* A later run of the day: the window is on file.  The same numbers, or    *)
(* others without an active role, give its assessment again; other numbers *)
(* of an active model are an error, which ends its formal prediction.      *)
ObserveAgain ==
  /\ run.pc = "assess" /\ observed[run.version] # "no"
  /\ \/ run' = AfterAssessment(drift[run.version])
     \/ (\E r \in Role : run.roles[r] = "active") /\ run' = [pc |-> "pin"]
  /\ UNCHANGED <<files, op, kills>>

(* quarantine_roles: who takes over role r of the champion v, read before  *)
(* any role is written.                                                    *)
Fallback(v, r) ==
  IF previous[r] # None THEN previous[r]
  ELSE NewestOf({w \in Registered \ {v} : role[w][r] = "superseded"})

Quarantine ==
  /\ run.pc = "quarantine" /\ run' = [pc |-> "pin"]
  /\ LET v == run.version
         lost == {r \in Enforceable : champion[r] = v}
     IN  IF observed[v] = "landed" THEN UNCHANGED <<registry, observed>>
         ELSE /\ observed' = [observed EXCEPT ![v] = "landed"]
              /\ role' = [w \in Version |-> [r \in Role |->
                   IF r \in lost /\ w = Fallback(v, r) THEN "active"
                   ELSE IF r \in Enforceable /\ w = v THEN "quarantined" ELSE role[w][r]]]
              /\ champion' = [r \in Role |-> IF r \in lost THEN Fallback(v, r) ELSE champion[r]]
              /\ status' = [status EXCEPT ![v] =
                   IF \E r \in Role : role'[v][r] = "active" THEN "active" ELSE "quarantined"]
              /\ UNCHANGED <<kind, previous>>
  /\ UNCHANGED <<drift, cycles, counted, candidate, op, kills>>
-----------------------------------------------------------------------------
(* The challenger of the week.                                             *)

(* ensure_iteration_candidate: a pinned shadow stays, else the newest      *)
(* shadow or, without any, the newest research model.                      *)
Challenger ==
  LET At(s) == {v \in Registered : v # champion["ranker"] /\ status[v] = s}
  IN  IF candidate # None /\ candidate \in At("shadow") THEN candidate
      ELSE NewestOf(IF At("shadow") # {} THEN At("shadow") ELSE At("research"))

Pin ==
  /\ run.pc = "pin" /\ candidate' = Challenger
  /\ run' = IF \E v \in Registered : v = candidate' /\ status[v] = "shadow"
            THEN [pc |-> "count", version |-> candidate'] ELSE Idle
  /\ UNCHANGED <<registry, drift, observed, cycles, counted, op, kills>>

(* The other agent's prediction, and one whose candidate fails, end here.  *)
EndPredict == run.pc = "pin" /\ run' = Idle /\ UNCHANGED <<files, op, kills>>

(* The roles still to be gated, in the order of their gates.               *)
ShadowRoles(v) == SelectSeq(RoleOrder, LAMBDA r : role[v][r] = "shadow")

(* _advance_shadow_cycle: the week is counted once; usable is the number   *)
(* of its weeks with forward evidence.  A learned shadow of a new week     *)
(* goes to the gates, in the order of the roles.                           *)
CountCycle(usable) ==
  /\ run.pc = "count"
  /\ LET v == run.version
         n == IF v \in counted \/ cycles[v] = Cap THEN cycles[v] ELSE cycles[v] + 1
     IN  /\ usable <= n /\ cycles' = [cycles EXCEPT ![v] = n] /\ counted' = counted \cup {v}
         /\ run' = IF v \notin counted /\ usable > 0 /\ status[v] = "shadow" /\ v \notin Rules
                   THEN [pc |-> "gate", version |-> v, usable |-> usable,
                         todo |-> ShadowRoles(v)]
                   ELSE Idle
  /\ UNCHANGED <<registry, drift, observed, candidate, op, kills>>

(* A prediction without rows counts no week.                               *)
NoPredictions == run.pc = "count" /\ run' = Idle /\ UNCHANGED <<files, op, kills>>

(* The gates' shadow_cycles check.  Mutant: one cycle early.               *)
AlmostEnough(usable) == usable + 1 >= Required
Enough(usable) == usable >= Required

(* record_role_gate from shadow to active, passed on enough usable cycles  *)
(* and good evidence; the role must still be shadow, else an error ends    *)
(* the candidate's turn.                                                   *)
GateToActive(wins) ==
  /\ run.pc = "gate" /\ run.todo # <<>> /\ (wins => Enough(run.usable))
  /\ LET v == run.version
         r == Head(run.todo)
         prior == champion[r]
     IN  IF role[v][r] # "shadow" THEN run' = Idle /\ UNCHANGED registry
         ELSE /\ role' = [w \in Version |->
                   IF w = v THEN Gated(v, r, IF wins THEN "active" ELSE "shadow")
                   ELSE IF wins /\ w = prior THEN Gated(w, r, "superseded") ELSE role[w]]
              /\ status' = [status EXCEPT ![v] =
                   Leading({role'[v][q] : q \in Role}, "shadow")]
              /\ champion' = [champion EXCEPT ![r] = IF wins THEN v ELSE @]
              /\ previous' = [previous EXCEPT ![r] = IF wins /\ prior \notin {None, v} THEN prior ELSE @]
              /\ run' = [run EXCEPT !.todo = Tail(@)]
              /\ UNCHANGED kind
  /\ UNCHANGED <<drift, observed, cycles, counted, candidate, op, kills>>

(* _shadow_stop_reason: with enough cycles and no role promoted a shadow   *)
(* is rejected, if a failed check is hard or the extension is used up.     *)
(* Mutant: the extension has no end.                                       *)
StopsIfHard(hard) == status[run.version] = "shadow" /\ run.usable >= Required /\ hard
Stops(hard) ==
  /\ status[run.version] = "shadow" /\ run.usable >= Required
  /\ hard \/ (run.usable >= Cap /\ \E r \in Needed : role[run.version][r] = "shadow")

(* reject_shadow for the stop reason.                                      *)
EndGates(hard) ==
  /\ run.pc = "gate" /\ run.todo = <<>> /\ run' = Idle
  /\ IF Stops(hard) THEN Close({run.version}, "rejected") ELSE UNCHANGED registry
  /\ UNCHANGED <<drift, observed, cycles, counted, candidate, op, kills>>
-----------------------------------------------------------------------------
(* Training, admission and the operator's commands.                        *)

NextVersion == Cardinality(Registered) + 1
New(v) == v = NextVersion /\ v \in Version

CommandMayStart == op = Idle /\ (Overlap \/ run = Idle)

(* Training registers the artifact; a version on file is gated again only  *)
(* while it is research.                                                   *)
StartTrain(v) ==
  /\ CommandMayStart
  /\ New(v) \/ (kind[v] = "learned" /\ status[v] = "research")
  /\ kind' = [kind EXCEPT ![v] = "learned"]
  /\ op' = [pc |-> "train", version |-> v, todo |-> RoleOrder]
  /\ UNCHANGED <<status, role, champion, previous, drift, observed, cycles, counted, candidate, run, kills>>

(* record_role_gate from research to shadow.                               *)
GateToShadow(passes) ==
  /\ op.pc = "train" /\ op.todo # <<>>
  /\ LET v == op.version
         r == Head(op.todo)
     IN  IF role[v][r] \notin {"unset", "research"} THEN op' = Idle /\ UNCHANGED registry
         ELSE /\ role' = [role EXCEPT ![v] = Gated(v, r, IF passes THEN "shadow" ELSE "research")]
              /\ status' = [status EXCEPT ![v] = Leading({role'[v][q] : q \in Role}, "research")]
              /\ op' = [op EXCEPT !.todo = Tail(@)]
              /\ UNCHANGED <<kind, champion, previous>>
  /\ UNCHANGED <<drift, observed, cycles, counted, candidate, run, kills>>

(* finalize_research_evaluation.                                           *)
Finalize ==
  /\ op.pc = "train" /\ op.todo = <<>> /\ op' = Idle
  /\ status' = [status EXCEPT ![op.version] =
       IF \A r \in Needed : role[op.version][r] = "shadow" THEN "shadow" ELSE "rejected"]
  /\ UNCHANGED <<kind, role, champion, previous, drift, observed, cycles, counted, candidate, run, kills>>

(* admit_development_shadow of a rule (admit_campaign_shadows) or of a     *)
(* learned model; a rule then supersedes the account's other shadow rules, *)
(* listed once, one write each.                                            *)
Admit(v, k) ==
  /\ CommandMayStart /\ (New(v) \/ (kind[v] = "rule" /\ k = "rule"))
  /\ kind' = [kind EXCEPT ![v] = k]
  /\ IF status[v] \in {"active", "superseded", "rejected", "quarantined"} THEN UNCHANGED <<status, role>>
     ELSE /\ status' = [status EXCEPT ![v] = "shadow"]
          /\ role' = [role EXCEPT ![v] = [r \in Role |-> IF r = "classifier" THEN "research" ELSE "shadow"]]
  /\ LET others == {w \in Version \ {v} : kind[w] = "rule" /\ status[w] = "shadow"}
     IN  op' = IF k = "rule" /\ others # {} THEN [pc |-> "admit", todo |-> others] ELSE Idle
  /\ UNCHANGED <<champion, previous, drift, observed, cycles, counted, candidate, run, kills>>

Supersede ==
  /\ op.pc = "admit"
  /\ LET w == -Newest({-x : x \in op.todo})
     IN  /\ op' = IF op.todo = {w} THEN Idle ELSE [op EXCEPT !.todo = @ \ {w}]
         /\ IF status[w] = "shadow" THEN Close({w}, "superseded") ELSE UNCHANGED registry
  /\ UNCHANGED <<drift, observed, cycles, counted, candidate, run, kills>>

ShadowRules == {v \in Rules : status[v] = "shadow"}

(* audit_shadow_quality rejects the shadow rules admitted on less evidence *)
(* than is asked for now, one write each.                                  *)
RejectRule(v) ==
  /\ v \in ShadowRules /\ Close({v}, "rejected")
  /\ UNCHANGED <<drift, observed, cycles, counted, candidate, run, op, kills>>

(* retire_legacy_rebuild_shadows retires all shadow rules in one write.    *)
RetireRules ==
  /\ ShadowRules # {} /\ Close(ShadowRules, "retired")
  /\ UNCHANGED <<drift, observed, cycles, counted, candidate, run, op, kills>>
-----------------------------------------------------------------------------
(* Time and faults.  The writes of one command fall on one day.            *)

NewDay ==
  /\ run = Idle /\ op = Idle /\ observed' = [v \in Version |-> "no"]
  /\ counted' \in {counted, {}} /\ <<observed, counted>>' # <<observed, counted>>
  /\ UNCHANGED <<registry, drift, cycles, candidate, run, op, kills>>

Kill ==
  /\ kills < MaxKills /\ kills' = kills + 1
  /\ \/ run # Idle /\ run' = Idle /\ UNCHANGED op
     \/ op # Idle /\ op' = Idle /\ UNCHANGED run
  /\ UNCHANGED files

PredictStep ==
  \/ ObserveDrift \/ ObserveAgain \/ Quarantine \/ Pin \/ EndPredict
  \/ NoPredictions \/ \E usable \in 0..Cap : CountCycle(usable)
  \/ \E flag \in BOOLEAN : GateToActive(flag) \/ EndGates(flag)

OpStep == (\E passes \in BOOLEAN : GateToShadow(passes)) \/ Finalize \/ Supersede

Next ==
  \/ StartPredict \/ PredictStep \/ OpStep \/ RetireRules \/ NewDay \/ Kill
  \/ \E v \in Version : \/ StartTrain(v)
                        \/ \E k \in {"learned", "rule"} : Admit(v, k)
                        \/ RejectRule(v)

(* A started command goes on and days pass with predictions.  The account  *)
(* keeps producing forward evidence: infinitely often, a week of which     *)
(* every cycle is usable is counted if it can be.                          *)
EvidencedWeek ==
  /\ run.pc = "count" /\ run.version \notin counted
  /\ \E usable \in 1..Cap : CountCycle(usable) /\ usable = cycles'[run.version]
Fairness ==
  /\ WF_vars(PredictStep) /\ WF_vars(OpStep) /\ WF_vars(StartPredict)
  /\ SF_vars(NewDay /\ counted' = {}) /\ SF_vars(Pin) /\ SF_vars(EvidencedWeek)

Spec == Init /\ [][Next]_vars /\ Fairness
-----------------------------------------------------------------------------
(* What the registry promises.                                             *)

(* Every variable keeps its type, and the bookkeeping of a registered      *)
(* model exists only for one.                                              *)
TypeOK ==
  /\ kind \in [Version -> {"unset", "learned", "rule"}]
  /\ status \in [Version -> Status]
  /\ role \in [Version -> [Role -> Status \cup {"unset"}]]
  /\ champion \in [Role -> Registered \cup {None}]
  /\ previous \in [Role -> Registered \cup {None}]
  /\ drift \in [Version -> [status : DriftStatus, breaches : 0..Windows, healthy : 0..(Recovery - 1)]]
  /\ observed \in [Version -> {"no", "yes", "landed"}]
  /\ cycles \in [Version -> 0..Cap] /\ counted \subseteq Registered
  /\ candidate \in Registered \cup {None}
  /\ Registered = 1..Cardinality(Registered) /\ kills \in 0..MaxKills
  /\ run.pc \in {"idle", "assess", "quarantine", "pin", "count", "gate"}
  /\ op.pc \in {"idle", "train", "admit"}

(* In each role exactly the champion is active, so the registry never      *)
(* names two models to trade on nor a champion that is not to be used:     *)
(* through promotions role by role, roll-backs that reactivate an older    *)
(* model, admissions and rejections, killed between any two writes.        *)
OneActivePerRole ==
  \A v \in Version, r \in Role : role[v][r] = "active" <=> champion[r] = v

(* A role becomes active in two ways only: from shadow, for a learned      *)
(* model with the required number of weeks observed, or in place of a      *)
(* champion which loses the role to a quarantine on file (record_role_gate,*)
(* quarantine_roles).                                                      *)
ActiveOnEvidence ==
  [][\A v \in Version, r \in Role :
       role[v][r] # "active" /\ role'[v][r] = "active" =>
         \/ role[v][r] = "shadow" /\ v \notin Rules /\ cycles[v] >= Required
         \/ \E w \in Version \ {v} : champion[r] = w /\ role'[w][r] = "quarantined"
                                     /\ drift[w].status = "quarantined"]_vars

(* Role r goes to a successor, its champion is the one to go back to.      *)
Succeeded(r) ==
  champion'[r] # None /\ role'[champion[r]][r] = "superseded" /\ previous'[r] = champion[r]

(* Role r goes back to the champion before, or to a model superseded in it *)
(* if there is one, with a quarantine of its champion on file.             *)
RolledBack(r) ==
  LET former == {w \in Registered \ {champion[r]} : role[w][r] = "superseded"}
  IN  /\ drift[champion[r]].status = "quarantined" /\ role'[champion[r]][r] = "quarantined"
      /\ champion'[r] = previous[r] \/ (previous[r] = None /\ champion'[r] \in former)
      /\ champion'[r] = None => former = {}

(* A champion is left in two ways only: for a successor that remembers it, *)
(* or for its quarantine, and never for nobody while an earlier champion   *)
(* or a superseded model could take over (record_role_gate,                *)
(* quarantine_roles).                                                      *)
ChampionLeavesForCause ==
  [][\A r \in Role : champion[r] # None /\ champion'[r] # champion[r] =>
       Succeeded(r) \/ RolledBack(r)]_vars

(* test_quarantine_recovery_requires_hysteresis (tests/                    *)
(* test_research_drift.py): a quarantine on file ends only by the last of  *)
(* Recovery healthy windows in a row.  The record counts breaches from     *)
(* zero after any window without a hard one, and a count below Windows     *)
(* means a warning, also for a model that is quarantined.                  *)
QuarantineIsEarnedBack ==
  [][\A v \in Version : drift[v].status = "quarantined" /\ drift'[v].status # "quarantined" =>
       drift[v].healthy = Recovery - 1 /\ drift'[v].breaches = 0]_vars

(* A quarantine on file is carried out: each role the serving model still  *)
(* holds is taken from it, or it recovers or is replaced, even if a kill   *)
(* falls between the two writes or the re-run of the day is an error.  But *)
(* a champion that is its own predecessor in a role keeps it, since the    *)
(* roll-back makes it active again (quarantine_roles; see README.md).      *)
OwnPredecessor(v, r) == champion[r] = v /\ previous[r] = v
Unlanded(v) ==
  /\ Serving = v /\ v \notin Rules /\ drift[v].status = "quarantined"
  /\ \E r \in Role : RoleStatus(v, r) \in {"shadow", "active"} /\ ~OwnPredecessor(v, r)
QuarantineLands == \A v \in Version : Unlanded(v) ~> ~Unlanded(v)

(* A learned challenger does not stay in shadow for ever while its account *)
(* produces evidence: it is promoted or, at the cap at the latest,         *)
(* rejected (_advance_shadow_cycle, _shadow_stop_reason).                  *)
Undecided(v) == candidate = v /\ status[v] = "shadow" /\ v \notin Rules
ShadowIsDecided == \A v \in Version : Undecided(v) ~> ~Undecided(v)
=============================================================================
