---------------------------- MODULE RegistryProofs ---------------------------
(***************************************************************************)
(* Proofs about ModelRegistry, for any number of versions, roles, weeks    *)
(* and kills, and also when commands overlap a prediction.                 *)
(***************************************************************************)
EXTENDS ModelRegistry, FiniteSetTheorems, WellFoundedInduction, TLAPS

(* Every set of versions that is not empty has a newest one.               *)
LEMMA NewestExists ==
  ASSUME NEW S \in SUBSET Version, S # {}
  PROVE  Newest(S) \in S
<1> DEFINE T == {NumVersions - v : v \in S}
<1>1. NumVersions \in Nat BY RegistryAssumption
<1>2. T \subseteq Nat /\ T # {}
  <2>1. \A v \in S : v \in Nat /\ v <= NumVersions BY <1>1 DEF Version
  <2>2. T \subseteq Nat BY <2>1, <1>1
  <2>3. \A v \in S : NumVersions - v \in T OBVIOUS
  <2> QED BY <2>2, <2>3
<1> HIDE DEF T
<1>3. PICK x \in T : \A y \in T : ~(<<y, x>> \in OpToRel(<, Nat))
  BY <1>2, NatLessThanWellFounded, WFMin
<1>4. \A y \in T : ~(y < x)
  BY <1>2, <1>3 DEF OpToRel
<1>5. PICK v \in S : x = NumVersions - v BY <1>3 DEF T
<1>6. \A w \in S : w <= v
  <2> TAKE w \in S
  <2>1. NumVersions - w \in T BY DEF T
  <2> QED BY <2>1, <1>1, <1>4, <1>5 DEF Version
<1> QED BY <1>6 DEF Newest

LEMMA NewestOfIn ==
  ASSUME NEW S \in SUBSET Version
  PROVE  NewestOf(S) \in S \cup {None}
BY NewestExists DEF NewestOf

LEMMA NoneIsNoVersion == None \notin Version
BY RegistryAssumption DEF None, Version
-----------------------------------------------------------------------------
(* The inductive invariant.                                                *)

(* A version that is not registered has no role, and a rule has or had a   *)
(* role only after it was superseded: no gate is open to it, only a        *)
(* roll-back.                                                              *)
RolesOK ==
  /\ \A v \in Version, r \in Role : kind[v] = "unset" => role[v][r] = "unset"
  /\ \A v \in Version, r \in Role :
       kind[v] = "rule" /\ role[v][r] \in {"superseded", "active"} => status[v] = "superseded"
  /\ \A r \in Role : previous[r] \in Rules => status[previous[r]] = "superseded"

(* What a prediction remembers: the model it watches or gates is learned,  *)
(* the model it takes roles from is on file as quarantined, and the number *)
(* it gates on was counted.                                                *)
RunOK ==
  /\ run.pc \in {"assess", "quarantine"} =>
       /\ run = [pc |-> run.pc, version |-> run.version, roles |-> run.roles]
       /\ run.version \in Registered \ Rules
  /\ run.pc = "quarantine" => drift[run.version].status = "quarantined"
  /\ run.pc = "count" => run.version \in Registered
  /\ run.pc = "gate" =>
       /\ run = [pc |-> run.pc, version |-> run.version, usable |-> run.usable, todo |-> run.todo]
       /\ run.version \in Registered \ Rules
       /\ run.usable \in Nat /\ run.usable <= cycles[run.version]

OpOK ==
  /\ op.pc = "train" =>
       /\ op = [pc |-> op.pc, version |-> op.version, todo |-> op.todo]
       /\ op.version \in Registered \ Rules
  /\ op.pc = "admit" => op = [pc |-> op.pc, todo |-> op.todo]

IInv == TypeOK /\ OneActivePerRole /\ RolesOK /\ RunOK /\ OpOK

(* Init establishes it.                                                    *)
LEMMA InitIInv == Init => IInv
<1> SUFFICES ASSUME Init PROVE IInv
  OBVIOUS
<1> USE RegistryAssumption
<1>1. Registered = {} BY DEF Init, Registered
<1>2. Registered = 1..Cardinality(Registered)
  <2>1. Cardinality({}) = 0 BY FS_EmptySet
  <2> QED BY <1>1, <2>1
<1>3. TypeOK
  BY <1>1, <1>2 DEF Init, TypeOK, Status, Version, None, Idle, DriftStatus
<1>4. OneActivePerRole BY NoneIsNoVersion DEF Init, OneActivePerRole
<1>5. RolesOK BY DEF Init, RolesOK, Rules, Version, None
<1>6. RunOK /\ OpOK BY DEF Init, RunOK, OpOK, Idle
<1> QED BY <1>3, <1>4, <1>5, <1>6 DEF IInv

(* A new version is not registered yet, and it is the next one.            *)
LEMMA NewVersion ==
  ASSUME TypeOK, NEW v, New(v), NEW k \in {"learned", "rule"}, kind' = [kind EXCEPT ![v] = k]
  PROVE  /\ v \in Version /\ kind[v] = "unset"
         /\ Registered' = Registered \cup {v}
         /\ Registered' = 1..Cardinality(Registered')
<1> DEFINE n == Cardinality(Registered)
<1>1. v \in Version /\ v = n + 1 BY DEF New, NextVersion
<1>2. IsFiniteSet(Version) BY FS_Interval, RegistryAssumption DEF Version
<1>3. n \in Nat BY <1>2, FS_Subset, FS_CardinalityType DEF Registered
<1>4. Registered = 1..n BY DEF TypeOK
<1> HIDE DEF n
<1>5. v \notin Registered BY <1>1, <1>3, <1>4
<1>6. kind[v] = "unset" BY <1>1, <1>5 DEF Registered
<1>7. Registered' = Registered \cup {v} BY <1>1 DEF Registered, TypeOK
<1>8. Registered' = 1..(n + 1) BY <1>1, <1>3, <1>4, <1>7
<1>9. Cardinality(1..(n + 1)) = n + 1 BY <1>3, FS_Interval
<1> QED BY <1>1, <1>6, <1>7, <1>8, <1>9

(* A registered version keeps its kind.                                    *)
LEMMA KindKept ==
  ASSUME TypeOK, NEW v \in Version, NEW k \in {"learned", "rule"},
         New(v) \/ kind[v] = k, kind' = [kind EXCEPT ![v] = k]
  PROVE  /\ kind' \in [Version -> {"unset", "learned", "rule"}]
         /\ Registered' = Registered \cup {v}
         /\ Registered' = 1..Cardinality(Registered')
         /\ \A w \in Registered : kind'[w] = kind[w]
         /\ Registered \ Rules \subseteq Registered' \ Rules'
<1>1. kind' \in [Version -> {"unset", "learned", "rule"}] BY DEF TypeOK
<1>2. CASE New(v)
  <2>1. v \in Version /\ kind[v] = "unset" /\ Registered' = Registered \cup {v}
        /\ Registered' = 1..Cardinality(Registered')
    BY <1>2, NewVersion
  <2>2. \A w \in Registered : kind'[w] = kind[w] BY <2>1 DEF Registered, TypeOK
  <2> QED BY <1>1, <2>1, <2>2 DEF Registered, Rules
<1>3. CASE kind[v] = k
  <2>1. kind' = kind BY <1>3 DEF TypeOK
  <2>2. Registered' = Registered /\ Rules' = Rules BY <2>1 DEF Registered, Rules
  <2>3. v \in Registered BY <1>3 DEF Registered
  <2> QED BY <1>1, <2>1, <2>2, <2>3 DEF TypeOK
<1> QED BY <1>2, <1>3
-----------------------------------------------------------------------------
(* Steps that leave the registry alone.                                    *)

LEMMA RegistryKept ==
  ASSUME IInv, UNCHANGED registry
  PROVE  /\ Registered' = Registered /\ Rules' = Rules
         /\ OneActivePerRole' /\ RolesOK'
<1>1. Registered' = Registered /\ Rules' = Rules BY DEF registry, Registered, Rules
<1>2. OneActivePerRole' BY DEF IInv, OneActivePerRole, registry
<1>3. RolesOK' BY <1>1 DEF IInv, RolesOK, registry
<1> QED BY <1>1, <1>2, <1>3

LEMMA ServingRegistered ==
  ASSUME TypeOK
  PROVE  Serving \in Registered \cup {None}
<1> DEFINE At(s) == {v \in Registered : status[v] \notin Terminal /\ RoleStatus(v, "ranker") = s}
           Best == IF At("active") # {} THEN At("active")
                   ELSE IF At("shadow") # {} THEN At("shadow") ELSE At("research")
<1>1. "ranker" \in Role BY RegistryAssumption DEF Role
<1>2. champion["ranker"] \in Registered \cup {None} BY <1>1 DEF TypeOK
<1>3. Best \subseteq Registered /\ Best \in SUBSET Version BY DEF Registered
<1>4. NewestOf(Best) \in Registered \cup {None} BY <1>3, NewestOfIn
<1> QED BY <1>2, <1>4 DEF Serving

LEMMA StartPredictStep ==
  ASSUME IInv, StartPredict
  PROVE  IInv'
<1>1. Registered' = Registered /\ Rules' = Rules /\ OneActivePerRole' /\ RolesOK'
  BY RegistryKept DEF StartPredict, files
<1>2. TypeOK' BY <1>1 DEF IInv, TypeOK, StartPredict, files, registry
<1>3. RunOK' BY <1>1, ServingRegistered DEF IInv, RunOK, StartPredict, files
<1>4. OpOK' BY <1>1 DEF IInv, OpOK, StartPredict
<1> QED BY <1>1, <1>2, <1>3, <1>4 DEF IInv

(* The lifecycle stays a lifecycle.                                        *)
LEMMA AssessedTyped ==
  ASSUME NEW d \in [status : DriftStatus, breaches : 0..Windows, healthy : 0..(Recovery - 1)],
         NEW o \in Outcome, NEW e \in BOOLEAN
  PROVE  Assessed(d, o, e) \in [status : DriftStatus, breaches : 0..Windows, healthy : 0..(Recovery - 1)]
<1> USE RegistryAssumption
<1> DEFINE n == IF d.breaches < Windows THEN d.breaches + 1 ELSE Windows
<1>1. CASE o = "hard" /\ e
  <2>1. n \in 0..Windows OBVIOUS
  <2>2. Assessed(d, o, e) = [status |-> IF n = Windows THEN "quarantined" ELSE "open",
                             breaches |-> n, healthy |-> 0]
    BY <1>1 DEF Assessed
  <2> QED BY <2>1, <2>2 DEF DriftStatus
<1>4. CASE o = "hard" /\ ~e
  <2>1. Assessed(d, o, e) = [status |-> "open", breaches |-> 0, healthy |-> 0]
    BY <1>4 DEF Assessed
  <2> QED BY <2>1 DEF DriftStatus
<1>2. CASE o = "soft"
  <2>1. Assessed(d, o, e) = [status |-> d.status, breaches |-> 0, healthy |-> 0]
    BY <1>2 DEF Assessed
  <2> QED BY <2>1
<1>3. CASE o = "sound"
  <2>1. CASE d.status = "quarantined" /\ ~Recovers(d)
    <3>1. Assessed(d, o, e) = [status |-> d.status, breaches |-> 0, healthy |-> d.healthy + 1]
      BY <1>3, <2>1 DEF Assessed
    <3>2. d.healthy + 1 \in 0..(Recovery - 1) BY <2>1 DEF Recovers
    <3> QED BY <3>1, <3>2
  <2>2. CASE ~(d.status = "quarantined" /\ ~Recovers(d))
    <3>1. Assessed(d, o, e) = [status |-> "open", breaches |-> 0, healthy |-> 0]
      BY <1>3, <2>2 DEF Assessed
    <3> QED BY <3>1 DEF DriftStatus
  <2> QED BY <2>1, <2>2
<1> QED BY <1>1, <1>2, <1>3, <1>4 DEF Outcome

LEMMA ObserveDriftStep ==
  ASSUME IInv, ObserveDrift
  PROVE  IInv'
<1> DEFINE v == run.version
<1>1. Registered' = Registered /\ Rules' = Rules /\ OneActivePerRole' /\ RolesOK'
  BY RegistryKept DEF ObserveDrift
<1>2. /\ run = [pc |-> run.pc, version |-> v, roles |-> run.roles]
      /\ run.pc = "assess" /\ v \in Registered \ Rules /\ v \in Version
  BY DEF IInv, RunOK, ObserveDrift, Registered
<1>3. PICK o \in Outcome :
        /\ drift' = [drift EXCEPT ![v] = Assessed(drift[v], o, Enforceable # {})]
        /\ run' = AfterAssessment(Assessed(drift[v], o, Enforceable # {}))
  BY DEF ObserveDrift
<1> DEFINE d == Assessed(drift[v], o, Enforceable # {})
<1>4. d \in [status : DriftStatus, breaches : 0..Windows, healthy : 0..(Recovery - 1)]
  BY <1>2, AssessedTyped DEF IInv, TypeOK
<1>5. drift' = [drift EXCEPT ![v] = d] /\ run' = AfterAssessment(d) BY <1>3
<1> HIDE DEF d
<1>6. drift'[v] = d BY <1>2, <1>5 DEF IInv, TypeOK
<1>7. \/ run' = [pc |-> "pin"]
      \/ d.status = "quarantined" /\ run' = [pc |-> "quarantine", version |-> v, roles |-> run.roles]
  BY <1>2, <1>5 DEF AfterAssessment
<1>8. TypeOK' BY <1>1, <1>2, <1>4, <1>5, <1>7 DEF IInv, TypeOK, ObserveDrift, registry
<1>9. RunOK' BY <1>1, <1>2, <1>6, <1>7 DEF RunOK
<1>10. OpOK' BY <1>1 DEF IInv, OpOK, ObserveDrift
<1> QED BY <1>1, <1>8, <1>9, <1>10 DEF IInv

LEMMA ObserveAgainStep ==
  ASSUME IInv, ObserveAgain
  PROVE  IInv'
<1> DEFINE v == run.version
<1>1. Registered' = Registered /\ Rules' = Rules /\ OneActivePerRole' /\ RolesOK'
  BY RegistryKept DEF ObserveAgain, files
<1>2. /\ run = [pc |-> run.pc, version |-> v, roles |-> run.roles]
      /\ run.pc = "assess" /\ v \in Registered \ Rules
  BY DEF IInv, RunOK, ObserveAgain
<1>3. \/ run' = [pc |-> "pin"]
      \/ /\ drift[v].status = "quarantined"
         /\ run' = [pc |-> "quarantine", version |-> v, roles |-> run.roles]
  BY <1>2 DEF ObserveAgain, AfterAssessment
<1>4. TypeOK' BY <1>1, <1>3 DEF IInv, TypeOK, ObserveAgain, files, registry
<1>5. RunOK' BY <1>1, <1>2, <1>3 DEF RunOK, ObserveAgain, files
<1>6. OpOK' BY <1>1 DEF IInv, OpOK, ObserveAgain
<1> QED BY <1>1, <1>4, <1>5, <1>6 DEF IInv

LEMMA ChallengerRegistered ==
  ASSUME TypeOK
  PROVE  Challenger \in Registered \cup {None}
<1> DEFINE At(s) == {v \in Registered : v # champion["ranker"] /\ status[v] = s}
           Best == IF At("shadow") # {} THEN At("shadow") ELSE At("research")
<1>1. Best \subseteq Registered /\ Best \in SUBSET Version BY DEF Registered
<1>2. NewestOf(Best) \in Registered \cup {None} BY <1>1, NewestOfIn
<1> QED BY <1>2 DEF Challenger, TypeOK

LEMMA PinStep ==
  ASSUME IInv, Pin
  PROVE  IInv'
<1>1. Registered' = Registered /\ Rules' = Rules /\ OneActivePerRole' /\ RolesOK'
  BY RegistryKept DEF Pin
<1>2. candidate' \in Registered \cup {None} BY ChallengerRegistered DEF Pin, IInv
<1>3. run' = Idle \/ (run' = [pc |-> "count", version |-> candidate'] /\ candidate' \in Registered)
  BY DEF Pin
<1>4. TypeOK' BY <1>1, <1>2, <1>3 DEF IInv, TypeOK, Pin, registry, Idle
<1>5. RunOK' BY <1>1, <1>3 DEF RunOK, Pin, Idle
<1>6. OpOK' BY <1>1 DEF IInv, OpOK, Pin
<1> QED BY <1>1, <1>4, <1>5, <1>6 DEF IInv

LEMMA EndStep ==
  ASSUME IInv, EndPredict \/ NoPredictions
  PROVE  IInv'
<1> USE DEF EndPredict, NoPredictions, files
<1>1. Registered' = Registered /\ Rules' = Rules /\ OneActivePerRole' /\ RolesOK'
  BY RegistryKept
<1>2. TypeOK' BY <1>1 DEF IInv, TypeOK, registry, Idle
<1>3. RunOK' /\ OpOK' BY <1>1 DEF IInv, RunOK, OpOK, Idle
<1> QED BY <1>1, <1>2, <1>3 DEF IInv

LEMMA CountCycleStep ==
  ASSUME IInv, NEW usable \in 0..Cap, CountCycle(usable)
  PROVE  IInv'
<1> USE RegistryAssumption
<1> DEFINE v == run.version
           n == IF v \in counted \/ cycles[v] = Cap THEN cycles[v] ELSE cycles[v] + 1
<1>1. Registered' = Registered /\ Rules' = Rules /\ OneActivePerRole' /\ RolesOK'
  BY RegistryKept DEF CountCycle
<1>2. v \in Registered /\ v \in Version BY DEF IInv, RunOK, CountCycle, Registered
<1>3. n \in 0..Cap BY <1>2 DEF IInv, TypeOK
<1>4. /\ usable <= n /\ cycles' = [cycles EXCEPT ![v] = n] /\ counted' = counted \cup {v}
      /\ \/ run' = Idle
         \/ /\ v \notin Rules
            /\ run' = [pc |-> "gate", version |-> v, usable |-> usable, todo |-> ShadowRoles(v)]
  BY DEF CountCycle
<1> HIDE DEF n
<1>5. TypeOK' BY <1>1, <1>2, <1>3, <1>4 DEF IInv, TypeOK, CountCycle, registry, Idle
<1>6. RunOK'
  <2>1. cycles'[v] = n BY <1>2, <1>4 DEF IInv, TypeOK
  <2> QED BY <1>1, <1>2, <1>3, <1>4, <2>1 DEF RunOK, Idle
<1>7. OpOK' BY <1>1 DEF IInv, OpOK, CountCycle
<1> QED BY <1>1, <1>5, <1>6, <1>7 DEF IInv

LEMMA NewDayStep ==
  ASSUME IInv, NewDay
  PROVE  IInv'
<1>1. Registered' = Registered /\ Rules' = Rules /\ OneActivePerRole' /\ RolesOK'
  BY RegistryKept DEF NewDay
<1>2. TypeOK' BY <1>1 DEF IInv, TypeOK, NewDay, registry
<1>3. RunOK' /\ OpOK' BY <1>1 DEF IInv, RunOK, OpOK, NewDay, Idle
<1> QED BY <1>1, <1>2, <1>3 DEF IInv

LEMMA KillStep ==
  ASSUME IInv, Kill
  PROVE  IInv'
<1> USE RegistryAssumption DEF Kill, files
<1>1. Registered' = Registered /\ Rules' = Rules /\ OneActivePerRole' /\ RolesOK'
  BY RegistryKept
<1>2. TypeOK' BY <1>1 DEF IInv, TypeOK, registry, Idle
<1>3. RunOK' /\ OpOK' BY <1>1 DEF IInv, RunOK, OpOK, Idle
<1> QED BY <1>1, <1>2, <1>3 DEF IInv
-----------------------------------------------------------------------------
(* Steps that write the registry.                                          *)

LEMMA KindsKept ==
  ASSUME kind' = kind
  PROVE  Registered' = Registered /\ Rules' = Rules
BY DEF Registered, Rules

LEMMA FallbackRegistered ==
  ASSUME TypeOK, RolesOK, NEW v \in Version, NEW r \in Role
  PROVE  /\ Fallback(v, r) \in Registered \cup {None}
         /\ Fallback(v, r) \in Rules => status[Fallback(v, r)] = "superseded"
<1> DEFINE S == {w \in Registered \ {v} : role[w][r] = "superseded"}
<1>1. S \in SUBSET Version /\ S \subseteq Registered BY DEF Registered
<1>2. NewestOf(S) \in S \cup {None} BY <1>1, NewestOfIn
<1>3. CASE previous[r] # None
  BY <1>3 DEF Fallback, TypeOK, RolesOK
<1>4. CASE previous[r] = None
  <2>1. Fallback(v, r) = NewestOf(S) BY <1>4 DEF Fallback
  <2>2. None \notin Rules BY NoneIsNoVersion DEF Rules
  <2>3. \A w \in S : w \in Rules => status[w] = "superseded"
    BY <1>1 DEF RolesOK, Rules
  <2> QED BY <1>1, <1>2, <2>1, <2>2, <2>3
<1> QED BY <1>3, <1>4

LEMMA QuarantineStep ==
  ASSUME IInv, Quarantine
  PROVE  IInv'
<1> DEFINE v == run.version
           lost == {r \in Enforceable : champion[r] = v}
<1>1. v \in Registered \ Rules /\ v \in Version
  BY DEF IInv, RunOK, Quarantine, Registered
<1>2. kind' = kind BY DEF Quarantine, registry
<1>3. Registered' = Registered /\ Rules' = Rules BY <1>2, KindsKept
<1>4. RunOK' /\ OpOK' BY <1>3 DEF IInv, RunOK, OpOK, Quarantine
<1>5. CASE UNCHANGED registry
  <2>1. OneActivePerRole' /\ RolesOK' BY <1>5, RegistryKept
  <2>2. TypeOK' BY <1>1, <1>3, <1>5 DEF IInv, TypeOK, Quarantine, registry
  <2> QED BY <1>4, <2>1, <2>2 DEF IInv
<1>6. CASE observed[v] # "landed"
  <2>1. /\ observed' = [observed EXCEPT ![v] = "landed"]
        /\ role' = [w \in Version |-> [r \in Role |->
             IF r \in lost /\ w = Fallback(v, r) THEN "active"
             ELSE IF r \in Enforceable /\ w = v THEN "quarantined" ELSE role[w][r]]]
        /\ champion' = [r \in Role |-> IF r \in lost THEN Fallback(v, r) ELSE champion[r]]
        /\ \E s \in {"active", "quarantined"} : status' = [status EXCEPT ![v] = s]
        /\ previous' = previous
    BY <1>6 DEF Quarantine
  <2>2. \A r \in Role : Fallback(v, r) \in Registered \cup {None}
    BY <1>1, FallbackRegistered DEF IInv
  <2>3. \A r \in Role : Fallback(v, r) \in Rules => status[Fallback(v, r)] = "superseded"
    BY <1>1, FallbackRegistered DEF IInv
  <2>4. Enforceable \subseteq Role BY DEF Enforceable
  <2> HIDE DEF lost
  <2>5. TypeOK'
    <3>1. role' \in [Version -> [Role -> Status \cup {"unset"}]]
      BY <2>1 DEF IInv, TypeOK, Status
    <3>2. champion' \in [Role -> Registered' \cup {None}]
      BY <1>3, <2>1, <2>2 DEF IInv, TypeOK
    <3>3. status' \in [Version -> Status] BY <2>1 DEF IInv, TypeOK, Status
    <3> QED BY <1>2, <1>3, <2>1, <3>1, <3>2, <3>3 DEF IInv, TypeOK, Quarantine
  <2>6. OneActivePerRole'
    <3> SUFFICES ASSUME NEW w \in Version, NEW r \in Role
                 PROVE  role'[w][r] = "active" <=> champion'[r] = w
      BY DEF OneActivePerRole
    <3>1. role[w][r] = "active" <=> champion[r] = w BY DEF IInv, OneActivePerRole
    <3>2. CASE r \in lost
      <4>1. champion[r] = v /\ r \in Enforceable BY <3>2 DEF lost
      <4> QED BY <2>1, <3>1, <3>2, <4>1
    <3>3. CASE r \notin lost
      <4>1. r \in Enforceable => champion[r] # v BY <3>3 DEF lost
      <4> QED BY <2>1, <3>1, <3>3, <4>1
    <3> QED BY <3>2, <3>3
  <2>7. RolesOK'
    <3>1. \A w \in Version : w # v => status'[w] = status[w] BY <2>1 DEF IInv, TypeOK
    <3>2. ASSUME NEW w \in Version, NEW r \in Role, kind'[w] = "unset"
          PROVE  role'[w][r] = "unset"
      <4>1. w \notin Registered /\ w # v /\ w # None
        BY <1>1, <1>2, <3>2, NoneIsNoVersion DEF Registered
      <4>2. role[w][r] = "unset" BY <1>2, <3>2 DEF IInv, RolesOK
      <4> QED BY <2>1, <2>2, <4>1, <4>2
    <3>3. ASSUME NEW w \in Version, NEW r \in Role, kind'[w] = "rule",
                 role'[w][r] \in {"superseded", "active"}
          PROVE  status'[w] = "superseded"
      <4>1. w \in Rules /\ w # v BY <1>1, <1>2, <3>3 DEF Rules
      <4>2. CASE w = Fallback(v, r) BY <2>3, <3>1, <4>1, <4>2
      <4>3. CASE w # Fallback(v, r)
        <5>1. role'[w][r] = role[w][r] BY <2>1, <4>1, <4>3
        <5> QED BY <1>2, <3>1, <3>3, <4>1, <5>1 DEF IInv, RolesOK
      <4> QED BY <4>2, <4>3
    <3>4. ASSUME NEW r \in Role, previous'[r] \in Rules'
          PROVE  status'[previous'[r]] = "superseded"
      <4>1. previous[r] \in Rules /\ previous[r] # v /\ previous[r] \in Version
        BY <1>1, <1>3, <2>1, <3>4 DEF Rules
      <4> QED BY <2>1, <3>1, <4>1 DEF IInv, RolesOK
    <3> QED BY <3>2, <3>3, <3>4 DEF RolesOK
  <2> QED BY <1>4, <2>5, <2>6, <2>7 DEF IInv
<1> QED BY <1>5, <1>6 DEF Quarantine

LEMMA GateToActiveStep ==
  ASSUME IInv, NEW wins \in BOOLEAN, GateToActive(wins)
  PROVE  IInv'
<1> DEFINE v == run.version
           r == Head(run.todo)
           prior == champion[r]
<1>1. /\ v \in Registered \ Rules /\ v \in Version
      /\ run = [pc |-> run.pc, version |-> v, usable |-> run.usable, todo |-> run.todo]
      /\ run.pc = "gate"
  BY DEF IInv, RunOK, GateToActive, Registered
<1>2. kind' = kind BY DEF GateToActive, registry
<1>3. Registered' = Registered /\ Rules' = Rules BY <1>2, KindsKept
<1>4. run' = Idle \/ run' = [pc |-> run.pc, version |-> v, usable |-> run.usable, todo |-> Tail(run.todo)]
  BY <1>1 DEF GateToActive
<1>5. RunOK' /\ OpOK' BY <1>1, <1>3, <1>4 DEF IInv, RunOK, OpOK, GateToActive, Idle
<1>6. CASE role[v][r] # "shadow"
  <2>1. UNCHANGED registry BY <1>6 DEF GateToActive
  <2>2. OneActivePerRole' /\ RolesOK' BY <2>1, RegistryKept
  <2>3. TypeOK' BY <1>3, <1>4, <1>1, <2>1 DEF IInv, TypeOK, GateToActive, registry, Idle
  <2> QED BY <1>5, <2>2, <2>3 DEF IInv
<1>7. CASE role[v][r] = "shadow"
  <2>1. /\ role' = [w \in Version |->
             IF w = v THEN Gated(v, r, IF wins THEN "active" ELSE "shadow")
             ELSE IF wins /\ w = prior THEN Gated(w, r, "superseded") ELSE role[w]]
        /\ status' = [status EXCEPT ![v] = Leading({role'[v][q] : q \in Role}, "shadow")]
        /\ champion' = [champion EXCEPT ![r] = IF wins THEN v ELSE @]
        /\ previous' = [previous EXCEPT ![r] = IF wins /\ prior \notin {None, v} THEN prior ELSE @]
    BY <1>7 DEF GateToActive
  <2>2. Leading({role'[v][q] : q \in Role}, "shadow") \in Status BY DEF Leading, Status
  <2> HIDE DEF r, prior
  <2>3. TypeOK'
    <3>1. role' \in [Version -> [Role -> Status \cup {"unset"}]]
      BY <2>1 DEF IInv, TypeOK, Status, Gated
    <3>2. champion' \in [Role -> Registered' \cup {None}] BY <1>1, <1>3, <2>1 DEF IInv, TypeOK
    <3>3. previous' \in [Role -> Registered' \cup {None}]
      BY <1>3, <2>1 DEF IInv, TypeOK, prior
    <3>4. status' \in [Version -> Status] BY <2>1, <2>2 DEF IInv, TypeOK
    <3> QED BY <1>1, <1>2, <1>3, <1>4, <3>1, <3>2, <3>3, <3>4
            DEF IInv, TypeOK, GateToActive, Idle
  <2>4. OneActivePerRole'
    <3> SUFFICES ASSUME NEW w \in Version, NEW q \in Role
                 PROVE  role'[w][q] = "active" <=> champion'[q] = w
      BY DEF OneActivePerRole
    <3>1. role[w][q] = "active" <=> champion[q] = w BY DEF IInv, OneActivePerRole
    <3>2. CASE q # r
      <4>1. role'[w][q] = role[w][q] BY <2>1, <3>2 DEF Gated, IInv, TypeOK
      <4>2. champion'[q] = champion[q] BY <2>1, <3>2 DEF IInv, TypeOK
      <4> QED BY <3>1, <4>1, <4>2
    <3>3. CASE q = r /\ ~wins
      <4>1. champion'[q] = champion[q] BY <2>1, <3>3 DEF IInv, TypeOK
      <4>2. role'[w][q] = role[w][q]
        BY <1>7, <2>1, <3>3 DEF Gated, IInv, TypeOK, r
      <4> QED BY <3>1, <4>1, <4>2
    <3>4. CASE q = r /\ wins
      <4>1. champion'[q] = v BY <2>1, <3>4 DEF IInv, TypeOK
      <4>2. CASE w = v BY <2>1, <3>4, <4>1, <4>2 DEF Gated, IInv, TypeOK
      <4>3. CASE w # v /\ w = prior
        <5>1. role'[w][q] = "superseded" BY <2>1, <3>4, <4>3 DEF Gated, IInv, TypeOK
        <5> QED BY <4>1, <4>3, <5>1
      <4>4. CASE w # v /\ w # prior
        <5>1. role'[w][q] = role[w][q] BY <2>1, <4>4
        <5> QED BY <3>1, <3>4, <4>1, <4>4, <5>1 DEF prior
      <4> QED BY <4>2, <4>3, <4>4
    <3> QED BY <3>2, <3>3, <3>4
  <2>5. RolesOK'
    <3>1. \A w \in Version : w # v => status'[w] = status[w] BY <2>1 DEF IInv, TypeOK
    <3>2. \A q \in Role : champion[q] \in Version =>
            champion[q] \in Registered /\ (champion[q] \in Rules => status[champion[q]] = "superseded")
      BY DEF IInv, OneActivePerRole, RolesOK, Rules, Registered
    <3>3. ASSUME NEW w \in Version, NEW q \in Role, kind'[w] = "unset"
          PROVE  role'[w][q] = "unset"
      <4>1. w # v /\ w \notin Registered BY <1>1, <1>2, <3>3 DEF Registered
      <4>2. role[w][q] = "unset" BY <1>2, <3>3 DEF IInv, RolesOK
      <4>3. q = r => w # prior BY <3>2, <4>1 DEF prior
      <4> QED BY <2>1, <4>1, <4>2, <4>3 DEF Gated, IInv, TypeOK
    <3>4. ASSUME NEW w \in Version, NEW q \in Role, kind'[w] = "rule",
                 role'[w][q] \in {"superseded", "active"}
          PROVE  status'[w] = "superseded"
      <4>1. w \in Rules /\ w # v BY <1>1, <1>2, <3>4 DEF Rules
      <4>2. CASE q = r /\ w = prior BY <3>1, <3>2, <4>1, <4>2 DEF prior
      <4>3. CASE ~(q = r /\ w = prior)
        <5>1. role'[w][q] = role[w][q] BY <2>1, <4>1, <4>3 DEF Gated, IInv, TypeOK
        <5> QED BY <1>2, <3>1, <3>4, <4>1, <5>1 DEF IInv, RolesOK
      <4> QED BY <4>2, <4>3
    <3>5. ASSUME NEW q \in Role, previous'[q] \in Rules'
          PROVE  status'[previous'[q]] = "superseded"
      <4>1. previous'[q] = previous[q] \/ (q = r /\ previous'[q] = prior)
        BY <2>1 DEF IInv, TypeOK
      <4>2. previous'[q] \in Rules /\ previous'[q] # v /\ previous'[q] \in Version
        BY <1>1, <1>3, <3>5 DEF Rules
      <4>3. status[previous'[q]] = "superseded"
        BY <3>2, <4>1, <4>2 DEF IInv, RolesOK, prior
      <4> QED BY <3>1, <4>2, <4>3
    <3> QED BY <3>3, <3>4, <3>5 DEF RolesOK
  <2> QED BY <1>5, <2>3, <2>4, <2>5 DEF IInv
<1> QED BY <1>6, <1>7

(* A shadow is closed without touching any champion.                       *)
LEMMA CloseKeeps ==
  ASSUME TypeOK, OneActivePerRole, RolesOK, NEW S \in SUBSET Version, \A v \in S : status[v] = "shadow",
         NEW s \in {"rejected", "superseded", "retired"}, Close(S, s)
  PROVE  /\ kind' = kind /\ champion' = champion /\ previous' = previous
         /\ status' \in [Version -> Status]
         /\ role' \in [Version -> [Role -> Status \cup {"unset"}]]
         /\ OneActivePerRole' /\ RolesOK'
<1>1. /\ kind' = kind /\ champion' = champion /\ previous' = previous
      /\ status' = [v \in Version |-> IF v \in S THEN s ELSE status[v]]
      /\ role' = [v \in Version |-> [r \in Role |->
                    IF v \in S /\ role[v][r] \in {"research", "shadow"} THEN s ELSE role[v][r]]]
  BY DEF Close
<1>2. status' \in [Version -> Status] BY <1>1 DEF TypeOK, Status
<1>3. role' \in [Version -> [Role -> Status \cup {"unset"}]] BY <1>1 DEF TypeOK, Status
<1>4. \A w \in Version, r \in Role :
        \/ role'[w][r] = role[w][r]
        \/ w \in S /\ role[w][r] \in {"research", "shadow"} /\ role'[w][r] = s
  BY <1>1
<1>5. \A w \in Version : w \notin S => status'[w] = status[w] BY <1>1
<1>6. \A w \in S : status[w] = "shadow" /\ status'[w] = s BY <1>1
<1>7. OneActivePerRole' BY <1>1, <1>4 DEF OneActivePerRole
<1>8. RolesOK'
  <2>1. Rules' = Rules /\ Rules \subseteq Version BY <1>1 DEF Rules
  <2>2. \A w \in Version, r \in Role : kind'[w] = "unset" => role'[w][r] = "unset"
    BY <1>1, <1>4 DEF RolesOK
  <2>3. \A w \in Version, r \in Role :
          kind'[w] = "rule" /\ role'[w][r] \in {"superseded", "active"} => status'[w] = "superseded"
    BY <1>1, <1>4, <1>5, <1>6 DEF RolesOK
  <2>4. \A r \in Role : previous'[r] \in Rules' => status'[previous'[r]] = "superseded"
    BY <1>1, <1>5, <1>6, <2>1 DEF RolesOK
  <2> QED BY <2>2, <2>3, <2>4 DEF RolesOK
<1> QED BY <1>1, <1>2, <1>3, <1>7, <1>8

LEMMA EndGatesStep ==
  ASSUME IInv, NEW hard \in BOOLEAN, EndGates(hard)
  PROVE  IInv'
<1>1. run.version \in Registered /\ run.version \in Version
  BY DEF IInv, RunOK, EndGates, Registered
<1>2. CASE Stops(hard)
  <2>1. Close({run.version}, "rejected") /\ status[run.version] = "shadow"
    BY <1>2 DEF EndGates, Stops
  <2>2. /\ kind' = kind /\ champion' = champion /\ previous' = previous
        /\ status' \in [Version -> Status]
        /\ role' \in [Version -> [Role -> Status \cup {"unset"}]]
        /\ OneActivePerRole' /\ RolesOK'
    BY <1>1, <2>1, CloseKeeps DEF IInv
  <2>3. Registered' = Registered /\ Rules' = Rules BY <2>2, KindsKept
  <2>4. TypeOK' BY <2>2, <2>3 DEF IInv, TypeOK, EndGates, Idle
  <2>5. RunOK' /\ OpOK' BY <2>3 DEF IInv, RunOK, OpOK, EndGates, Idle
  <2> QED BY <2>2, <2>4, <2>5 DEF IInv
<1>3. CASE ~Stops(hard)
  <2>1. UNCHANGED registry BY <1>3 DEF EndGates
  <2>2. Registered' = Registered /\ Rules' = Rules /\ OneActivePerRole' /\ RolesOK'
    BY <2>1, RegistryKept
  <2>3. TypeOK' BY <2>1, <2>2 DEF IInv, TypeOK, EndGates, registry, Idle
  <2>4. RunOK' /\ OpOK' BY <2>2 DEF IInv, RunOK, OpOK, EndGates, Idle
  <2> QED BY <2>2, <2>3, <2>4 DEF IInv
<1> QED BY <1>2, <1>3

LEMMA CloseRulesStep ==
  ASSUME IInv, (\E v \in Version : RejectRule(v)) \/ RetireRules
  PROVE  IInv'
<1>1. PICK S \in SUBSET ShadowRules, s \in {"rejected", "retired"} : Close(S, s)
  BY DEF RejectRule, RetireRules
<1>2. /\ kind' = kind /\ champion' = champion /\ previous' = previous
      /\ status' \in [Version -> Status]
      /\ role' \in [Version -> [Role -> Status \cup {"unset"}]]
      /\ OneActivePerRole' /\ RolesOK'
  <2>1. S \in SUBSET Version /\ \A v \in S : status[v] = "shadow"
    BY DEF ShadowRules, Rules
  <2> QED BY <1>1, <2>1, CloseKeeps DEF IInv
<1>3. UNCHANGED <<drift, observed, cycles, counted, candidate, run, op, kills>>
  BY DEF RejectRule, RetireRules
<1>4. Registered' = Registered /\ Rules' = Rules BY <1>2, KindsKept
<1>5. TypeOK' BY <1>2, <1>3, <1>4 DEF IInv, TypeOK
<1>6. RunOK' /\ OpOK' BY <1>3, <1>4 DEF IInv, RunOK, OpOK
<1> QED BY <1>2, <1>5, <1>6 DEF IInv

LEMMA SupersedeStep ==
  ASSUME IInv, Supersede
  PROVE  IInv'
<1>1. PICK w : /\ op' = IF op.todo = {w} THEN Idle ELSE [op EXCEPT !.todo = @ \ {w}]
               /\ IF status[w] = "shadow" THEN Close({w}, "superseded") ELSE UNCHANGED registry
  BY DEF Supersede
<1>2. op' = Idle \/ op' = [pc |-> "admit", todo |-> op.todo \ {w}]
  BY <1>1 DEF Supersede, IInv, OpOK
<1>3. /\ Registered' = Registered /\ Rules' = Rules
      /\ kind' = kind /\ champion' = champion /\ previous' = previous
      /\ status' \in [Version -> Status]
      /\ role' \in [Version -> [Role -> Status \cup {"unset"}]]
      /\ OneActivePerRole' /\ RolesOK'
  <2>1. CASE Close({w}, "superseded") /\ status[w] = "shadow" /\ w \in Version
    <3>1. /\ kind' = kind /\ champion' = champion /\ previous' = previous
          /\ status' \in [Version -> Status]
          /\ role' \in [Version -> [Role -> Status \cup {"unset"}]]
          /\ OneActivePerRole' /\ RolesOK'
      BY <2>1, CloseKeeps DEF IInv
    <3> QED BY <3>1, KindsKept
  <2>2. CASE UNCHANGED registry
    BY <2>2, RegistryKept DEF registry, IInv, TypeOK
  <2>3. CASE Close({w}, "superseded") /\ w \notin Version
    <3>1. UNCHANGED registry BY <2>3 DEF Close, registry, IInv, TypeOK
    <3> QED BY <3>1, <2>2
  <2> QED BY <1>1, <2>1, <2>2, <2>3
<1>4. TypeOK' BY <1>2, <1>3 DEF IInv, TypeOK, Supersede, Idle
<1>5. RunOK' BY <1>3 DEF IInv, RunOK, Supersede
<1>6. OpOK' BY <1>2 DEF OpOK, Idle
<1> QED BY <1>3, <1>4, <1>5, <1>6 DEF IInv

LEMMA GateToShadowStep ==
  ASSUME IInv, NEW passes \in BOOLEAN, GateToShadow(passes)
  PROVE  IInv'
<1> DEFINE v == op.version
           r == Head(op.todo)
<1>1. /\ v \in Registered \ Rules /\ v \in Version
      /\ op = [pc |-> "train", version |-> v, todo |-> op.todo]
  BY DEF IInv, OpOK, GateToShadow, Registered
<1>2. kind' = kind /\ champion' = champion /\ previous' = previous BY DEF GateToShadow, registry
<1>3. Registered' = Registered /\ Rules' = Rules BY <1>2, KindsKept
<1>4. op' = Idle \/ op' = [pc |-> "train", version |-> v, todo |-> Tail(op.todo)]
  BY <1>1 DEF GateToShadow
<1>5. RunOK' BY <1>3 DEF IInv, RunOK, GateToShadow
<1>6. OpOK' BY <1>1, <1>3, <1>4 DEF OpOK, Idle
<1>7. CASE role[v][r] \notin {"unset", "research"}
  <2>1. UNCHANGED registry BY <1>7 DEF GateToShadow
  <2>2. OneActivePerRole' /\ RolesOK' BY <2>1, RegistryKept
  <2>3. TypeOK' BY <1>3, <1>4, <2>1 DEF IInv, TypeOK, GateToShadow, registry, Idle
  <2> QED BY <1>5, <1>6, <2>2, <2>3 DEF IInv
<1>8. CASE role[v][r] \in {"unset", "research"}
  <2>1. PICK g \in {"shadow", "research"} :
          /\ role' = [role EXCEPT ![v] = Gated(v, r, g)]
          /\ status' = [status EXCEPT ![v] = Leading({role'[v][q] : q \in Role}, "research")]
    BY <1>8 DEF GateToShadow
  <2>2. Leading({role'[v][q] : q \in Role}, "research") \in Status BY DEF Leading, Status
  <2> HIDE DEF r
  <2>3. role' \in [Version -> [Role -> Status \cup {"unset"}]]
    BY <1>1, <2>1 DEF IInv, TypeOK, Status, Gated
  <2>4. status' \in [Version -> Status] BY <2>1, <2>2 DEF IInv, TypeOK
  <2>5. TypeOK' BY <1>2, <1>3, <1>4, <2>3, <2>4 DEF IInv, TypeOK, GateToShadow, Idle
  <2>6. \A w \in Version, q \in Role :
          \/ role'[w][q] = role[w][q]
          \/ w = v /\ role[w][q] \in {"unset", "research"} /\ role'[w][q] = g
    BY <1>1, <1>8, <2>1 DEF IInv, TypeOK, Gated
  <2>7. OneActivePerRole' BY <1>2, <2>6 DEF IInv, OneActivePerRole
  <2>8. RolesOK'
    <3>1. \A w \in Version : w # v => status'[w] = status[w] BY <2>1 DEF IInv, TypeOK
    <3>2. kind[v] \notin {"unset", "rule"} BY <1>1 DEF Registered, Rules
    <3>3. Rules \subseteq Version BY DEF Rules
    <3>4. \A w \in Version, q \in Role : kind'[w] = "unset" => role'[w][q] = "unset"
      BY <1>2, <2>6, <3>2 DEF IInv, RolesOK
    <3>5. \A w \in Version, q \in Role :
            kind'[w] = "rule" /\ role'[w][q] \in {"superseded", "active"} => status'[w] = "superseded"
      BY <1>2, <2>6, <3>1, <3>2 DEF IInv, RolesOK
    <3>6. \A q \in Role : previous'[q] \in Rules' => status'[previous'[q]] = "superseded"
      BY <1>1, <1>2, <1>3, <3>1, <3>3 DEF IInv, RolesOK
    <3> QED BY <3>4, <3>5, <3>6 DEF RolesOK
  <2> QED BY <1>5, <1>6, <2>5, <2>7, <2>8 DEF IInv
<1> QED BY <1>7, <1>8

LEMMA FinalizeStep ==
  ASSUME IInv, Finalize
  PROVE  IInv'
<1> DEFINE v == op.version
<1>1. v \in Registered \ Rules /\ v \in Version
  BY DEF IInv, OpOK, Finalize, Registered
<1>2. /\ kind' = kind /\ role' = role /\ champion' = champion /\ previous' = previous
      /\ \E s \in {"shadow", "rejected"} : status' = [status EXCEPT ![v] = s]
  BY DEF Finalize
<1>3. Registered' = Registered /\ Rules' = Rules BY <1>2, KindsKept
<1>4. status' \in [Version -> Status] BY <1>2 DEF IInv, TypeOK, Status
<1>5. TypeOK' BY <1>2, <1>3, <1>4 DEF IInv, TypeOK, Finalize, Idle
<1>6. OneActivePerRole' BY <1>2 DEF IInv, OneActivePerRole
<1>7. RolesOK'
  <2>1. \A w \in Version : w # v => status'[w] = status[w] BY <1>2 DEF IInv, TypeOK
  <2>2. kind[v] # "rule" /\ Rules \subseteq Version BY <1>1 DEF Rules
  <2> QED BY <1>1, <1>2, <1>3, <2>1, <2>2 DEF IInv, RolesOK
<1>8. RunOK' /\ OpOK' BY <1>3 DEF IInv, RunOK, OpOK, Finalize, Idle
<1> QED BY <1>5, <1>6, <1>7, <1>8 DEF IInv

LEMMA StartTrainStep ==
  ASSUME IInv, NEW v \in Version, StartTrain(v)
  PROVE  IInv'
<1>1. /\ kind' = [kind EXCEPT ![v] = "learned"]
      /\ op' = [pc |-> "train", version |-> v, todo |-> RoleOrder]
      /\ UNCHANGED <<status, role, champion, previous>>
  BY DEF StartTrain
<1>2. /\ kind' \in [Version -> {"unset", "learned", "rule"}]
      /\ Registered' = Registered \cup {v}
      /\ Registered' = 1..Cardinality(Registered')
      /\ Registered \ Rules \subseteq Registered' \ Rules'
  BY <1>1, KindKept DEF StartTrain, IInv
<1>3. kind'[v] = "learned" /\ \A w \in Version : w # v => kind'[w] = kind[w]
  BY <1>1 DEF IInv, TypeOK
<1>4. TypeOK'
  <2>1. Registered \subseteq Registered' BY <1>2
  <2>2. UNCHANGED <<drift, observed, cycles, counted, candidate, run, kills>> BY DEF StartTrain
  <2> QED BY <1>1, <1>2, <2>1, <2>2 DEF IInv, TypeOK
<1>5. OneActivePerRole' BY <1>1 DEF IInv, OneActivePerRole
<1>6. RolesOK' BY <1>1, <1>3 DEF IInv, RolesOK, Rules
<1>7. RunOK' BY <1>2 DEF IInv, RunOK, StartTrain
<1>8. OpOK' BY <1>1, <1>2, <1>3 DEF OpOK, Rules
<1> QED BY <1>4, <1>5, <1>6, <1>7, <1>8 DEF IInv

(* No role that an admission opens is a champion's.                        *)
LEMMA AdmitStep ==
  ASSUME IInv, NEW v \in Version, NEW k \in {"learned", "rule"}, Admit(v, k)
  PROVE  IInv'
<1>1. /\ kind' = [kind EXCEPT ![v] = k]
      /\ New(v) \/ (kind[v] = "rule" /\ k = "rule")
      /\ op' = Idle \/ \E others : op' = [pc |-> "admit", todo |-> others]
      /\ UNCHANGED <<champion, previous>>
  BY DEF Admit
<1>2. /\ kind' \in [Version -> {"unset", "learned", "rule"}]
      /\ Registered' = Registered \cup {v}
      /\ Registered' = 1..Cardinality(Registered')
      /\ Registered \ Rules \subseteq Registered' \ Rules'
  BY <1>1, KindKept DEF IInv
<1>3. kind'[v] = k /\ \A w \in Version : w # v => kind'[w] = kind[w]
  BY <1>1 DEF IInv, TypeOK
<1>4. \/ UNCHANGED <<status, role>>
      \/ /\ status[v] # "superseded" /\ status' = [status EXCEPT ![v] = "shadow"]
         /\ role' = [role EXCEPT ![v] = [r \in Role |-> IF r = "classifier" THEN "research" ELSE "shadow"]]
  BY DEF Admit
<1>5. New(v) => kind[v] = "unset" BY <1>1, NewVersion DEF IInv
<1>6. kind[v] = "unset" \/ (kind[v] = "rule" /\ k = "rule") BY <1>1, <1>5
<1>7. \A w \in Version, r \in Role :
        \/ role'[w][r] = role[w][r]
        \/ w = v /\ status[v] # "superseded" /\ role'[w][r] \in {"research", "shadow"}
  BY <1>4 DEF IInv, TypeOK
<1>8. \A w \in Version : status'[w] = status[w] \/ (w = v /\ status[v] # "superseded")
  BY <1>4 DEF IInv, TypeOK
<1>9. TypeOK'
  <2>1. status' \in [Version -> Status] BY <1>4 DEF IInv, TypeOK, Status
  <2>2. role' \in [Version -> [Role -> Status \cup {"unset"}]]
    <3>1. [r \in Role |-> IF r = "classifier" THEN "research" ELSE "shadow"]
            \in [Role -> Status \cup {"unset"}]
      BY DEF Status
    <3> QED BY <1>4, <3>1, ZenonT(60) DEF IInv, TypeOK
  <2>3. Registered \subseteq Registered' BY <1>2
  <2>4. UNCHANGED <<champion, previous, drift, observed, cycles, counted, candidate, run, kills>>
    BY DEF Admit
  <2>5. op'.pc \in {"idle", "admit"} BY <1>1 DEF Idle
  <2> QED BY <1>2, <2>1, <2>2, <2>3, <2>4, <2>5 DEF IInv, TypeOK
<1>10. OneActivePerRole'
  <2> SUFFICES ASSUME NEW w \in Version, NEW r \in Role
               PROVE  role'[w][r] = "active" <=> champion'[r] = w
    BY DEF OneActivePerRole
  <2>1. role[w][r] = "active" <=> champion[r] = w BY DEF IInv, OneActivePerRole
  <2>2. CASE role'[w][r] = role[w][r] BY <1>1, <2>1, <2>2
  <2>3. CASE w = v /\ status[v] # "superseded" /\ role'[w][r] \in {"research", "shadow"}
    <3>1. role[v][r] # "active" BY <1>6, <2>3 DEF IInv, RolesOK
    <3> QED BY <1>1, <2>1, <2>3, <3>1
  <2> QED BY <1>7, <2>2, <2>3
<1>11. RolesOK'
  <2>1. \A w \in Version, r \in Role : kind'[w] = "unset" => role'[w][r] = "unset"
    BY <1>3, <1>7 DEF IInv, RolesOK
  <2>2. ASSUME NEW w \in Version, NEW r \in Role, kind'[w] = "rule",
               role'[w][r] \in {"superseded", "active"}
        PROVE  status'[w] = "superseded"
    <3>1. role'[w][r] = role[w][r] BY <1>7, <2>2
    <3>2. kind[w] = "rule" BY <1>3, <1>6, <2>2, <3>1 DEF IInv, RolesOK
    <3>3. status[w] = "superseded" BY <2>2, <3>1, <3>2 DEF IInv, RolesOK
    <3> QED BY <1>8, <3>3
  <2>3. ASSUME NEW r \in Role, previous'[r] \in Rules'
        PROVE  status'[previous'[r]] = "superseded"
    <3> DEFINE w == previous[r]
    <3>1. w = previous'[r] /\ w \in Version /\ kind'[w] = "rule" BY <1>1, <2>3 DEF Rules
    <3>2. kind[w] # "unset" BY <3>1, NoneIsNoVersion DEF IInv, TypeOK, Registered
    <3>3. kind[w] = "rule" BY <1>3, <1>6, <3>1, <3>2
    <3>4. status[w] = "superseded" BY <3>1, <3>3 DEF IInv, RolesOK, Rules
    <3> QED BY <1>8, <3>1, <3>4
  <2> QED BY <2>1, <2>2, <2>3 DEF RolesOK
<1>12. RunOK' BY <1>2 DEF IInv, RunOK, Admit
<1>13. OpOK' BY <1>1 DEF OpOK, Idle
<1> QED BY <1>9, <1>10, <1>11, <1>12, <1>13 DEF IInv
-----------------------------------------------------------------------------
(* The theorems.                                                           *)

LEMMA StepIInv == IInv /\ [Next]_vars => IInv'
<1> SUFFICES ASSUME IInv, [Next]_vars PROVE IInv'
  OBVIOUS
<1>1. CASE StartPredict BY <1>1, StartPredictStep
<1>2. CASE PredictStep
  BY <1>2, ObserveDriftStep, ObserveAgainStep, QuarantineStep, PinStep, EndStep, CountCycleStep,
     GateToActiveStep, EndGatesStep DEF PredictStep
<1>3. CASE OpStep
  BY <1>3, GateToShadowStep, FinalizeStep, SupersedeStep DEF OpStep
<1>4. CASE RetireRules \/ NewDay \/ Kill BY <1>4, CloseRulesStep, NewDayStep, KillStep
<1>5. ASSUME NEW v \in Version,
             \/ StartTrain(v)
             \/ \E k \in {"learned", "rule"} : Admit(v, k)
             \/ RejectRule(v)
      PROVE  IInv'
  BY <1>5, StartTrainStep, AdmitStep, CloseRulesStep
<1>6. CASE UNCHANGED vars
  <2>1. Registered' = Registered /\ Rules' = Rules /\ OneActivePerRole' /\ RolesOK'
    BY <1>6, RegistryKept DEF vars, files
  <2>2. TypeOK' BY <1>6, <2>1 DEF IInv, TypeOK, vars, files, registry
  <2>3. RunOK' /\ OpOK' BY <1>6, <2>1 DEF IInv, RunOK, OpOK, vars, files
  <2> QED BY <2>1, <2>2, <2>3 DEF IInv
<1> QED BY <1>1, <1>2, <1>3, <1>4, <1>5, <1>6 DEF Next

(* The inductive invariant holds in every state of the registry.           *)
THEOREM RegistryInvariance == Spec => []IInv
BY InitIInv, StepIInv, PTL DEF Spec

(* Every variable keeps its type; a model's bookkeeping exists only for a  *)
(* model on file.                                                          *)
THEOREM RegistryTypeCorrect == Spec => []TypeOK
<1>1. IInv => TypeOK BY DEF IInv
<1> QED BY <1>1, RegistryInvariance, PTL

(* In each role exactly the champion is active, whatever promotions,       *)
(* roll-backs, admissions and rejections fall between any two writes.      *)
THEOREM RegistryOneActivePerRole == Spec => []OneActivePerRole
<1>1. IInv => OneActivePerRole BY DEF IInv
<1> QED BY <1>1, RegistryInvariance, PTL

LEMMA CloseOpensNone ==
  ASSUME NEW S, NEW s \in {"rejected", "superseded", "retired"}, Close(S, s)
  PROVE  \A w \in Version, r \in Role : role'[w][r] = "active" => role[w][r] = "active"
BY DEF Close

(* A role becomes active only by a promotion of a learned shadow after the *)
(* required weeks, or in place of a champion quarantined on file.          *)
THEOREM RegistryActiveOnEvidence == Spec => ActiveOnEvidence
<1> DEFINE Justified(v, r) ==
             \/ role[v][r] = "shadow" /\ v \notin Rules /\ cycles[v] >= Required
             \/ \E w \in Version \ {v} : champion[r] = w /\ role'[w][r] = "quarantined"
                                         /\ drift[w].status = "quarantined"
           A == \A v \in Version, r \in Role :
                  role[v][r] # "active" /\ role'[v][r] = "active" => Justified(v, r)
<1>1. ASSUME IInv, [Next]_vars PROVE [A]_vars
  <2> SUFFICES ASSUME NEW v \in Version, NEW r \in Role,
                      role[v][r] # "active", role'[v][r] = "active"
               PROVE  Justified(v, r)
    OBVIOUS
  <2>0. TypeOK BY <1>1 DEF IInv
  <2>1. CASE Quarantine
    <3> DEFINE w == run.version
               lost == {q \in Enforceable : champion[q] = w}
    <3>1. w \in Version /\ drift[w].status = "quarantined"
      BY <1>1, <2>1 DEF IInv, RunOK, Quarantine, Registered
    <3>2. role' = [x \in Version |-> [q \in Role |->
                   IF q \in lost /\ x = Fallback(w, q) THEN "active"
                   ELSE IF q \in Enforceable /\ x = w THEN "quarantined" ELSE role[x][q]]]
      BY <2>1 DEF Quarantine, registry
    <3>3. r \in lost /\ v = Fallback(w, r) BY <3>2
    <3>4. champion[r] = w /\ r \in Enforceable BY <3>3
    <3>5. v # w BY <1>1, <3>1, <3>4 DEF IInv, OneActivePerRole
    <3>6. role'[w][r] = "quarantined" BY <3>1, <3>2, <3>3, <3>4, <3>5
    <3> QED BY <3>1, <3>4, <3>5, <3>6
  <2>2. ASSUME NEW wins \in BOOLEAN, GateToActive(wins) PROVE Justified(v, r)
    <3> DEFINE u == run.version
               q == Head(run.todo)
    <3>1. /\ u \in Version /\ u \notin Rules
          /\ run.usable \in Nat /\ run.usable <= cycles[u] /\ cycles[u] \in Int
      BY <1>1, <2>2 DEF IInv, TypeOK, RunOK, GateToActive, Registered
    <3>2. /\ role[u][q] = "shadow"
          /\ role' = [w \in Version |->
               IF w = u THEN Gated(u, q, IF wins THEN "active" ELSE "shadow")
               ELSE IF wins /\ w = champion[q] THEN Gated(w, q, "superseded") ELSE role[w]]
      BY <2>2 DEF GateToActive, registry
    <3> HIDE DEF q
    <3>3. v = u /\ r = q /\ wins BY <1>1, <3>2 DEF Gated, IInv, TypeOK
    <3>4. run.usable >= Required BY <2>2, <3>3 DEF GateToActive, Enough
    <3>5. cycles[u] >= Required BY <3>1, <3>4, RegistryAssumption
    <3> QED BY <3>1, <3>2, <3>3, <3>5
  <2>3. ASSUME NEW hard \in BOOLEAN, EndGates(hard) PROVE FALSE
    BY <1>1, <2>3, CloseOpensNone DEF EndGates, registry, IInv
  <2>4. ASSUME NEW passes \in BOOLEAN, GateToShadow(passes) PROVE FALSE
    <3> DEFINE q == Head(op.todo)
    <3>1. role' = role \/ \E g \in {"shadow", "research"} :
                            role' = [role EXCEPT ![op.version] = Gated(op.version, q, g)]
      BY <2>4 DEF GateToShadow, registry
    <3>2. op.version \in Version BY <1>1, <2>4 DEF GateToShadow, IInv, OpOK, Registered
    <3> HIDE DEF q
    <3>3. \A g \in {"shadow", "research"} :
            Gated(op.version, q, g)[r] \in {role[op.version][r], g}
      BY <2>0, <3>2 DEF Gated, TypeOK
    <3>4. role'[v][r] \in {role[v][r], "shadow", "research"}
      BY <2>0, <3>1, <3>2, <3>3, ZenonT(60) DEF TypeOK
    <3> QED BY <3>4
  <2>5. CASE Supersede
    <3>1. PICK w : Close({w}, "superseded") \/ UNCHANGED registry BY <2>5 DEF Supersede
    <3> QED BY <1>1, <3>1, CloseOpensNone DEF registry, IInv
  <2>6. ASSUME NEW x \in Version, NEW k \in {"learned", "rule"}, Admit(x, k) PROVE FALSE
    <3>1. role' = role \/ role' = [role EXCEPT ![x] =
                             [q \in Role |-> IF q = "classifier" THEN "research" ELSE "shadow"]]
      BY <2>6 DEF Admit
    <3>2. role'[v][r] \in {role[v][r], "shadow", "research"} BY ZenonT(60), <2>0, <3>1 DEF TypeOK
    <3> QED BY <3>2
  <2>7. CASE (\E x \in Version : RejectRule(x)) \/ RetireRules
    BY <1>1, <2>7, CloseOpensNone DEF RejectRule, RetireRules
  <2>8. role' # role OBVIOUS
  <2> QED
    BY <1>1, <2>1, <2>2, <2>3, <2>4, <2>5, <2>6, <2>7, <2>8
    DEF Next, PredictStep, OpStep, StartPredict, ObserveDrift, ObserveAgain, Pin, EndPredict,
        NoPredictions, CountCycle, Finalize, StartTrain, NewDay, Kill, registry, files, vars
<1> QED BY <1>1, RegistryInvariance, PTL DEF Spec, ActiveOnEvidence

(* A role changes its champion for a successor, whose predecessor is kept  *)
(* for a roll-back, or with the champion's quarantine on file; it is left  *)
(* without one only when nobody held it before.                            *)
THEOREM RegistryChampionLeavesForCause == Spec => ChampionLeavesForCause
<1> DEFINE A == \A r \in Role : champion[r] # None /\ champion'[r] # champion[r] =>
                  Succeeded(r) \/ RolledBack(r)
<1>1. ASSUME IInv, [Next]_vars PROVE [A]_vars
  <2> SUFFICES ASSUME NEW r \in Role, champion[r] # None, champion'[r] # champion[r]
               PROVE  Succeeded(r) \/ RolledBack(r)
    OBVIOUS
  <2>0. TypeOK BY <1>1 DEF IInv
  <2> DEFINE v == champion[r]
  <2>1. v \in Registered /\ v \in Version BY <2>0 DEF TypeOK, Registered
  <2>2. CASE Quarantine
    <3> DEFINE w == run.version
               lost == {q \in Enforceable : champion[q] = w}
    <3>1. w \in Version /\ drift[w].status = "quarantined"
      BY <1>1, <2>2 DEF IInv, RunOK, Quarantine, Registered
    <3>2. /\ role' = [x \in Version |-> [q \in Role |->
                   IF q \in lost /\ x = Fallback(w, q) THEN "active"
                   ELSE IF q \in Enforceable /\ x = w THEN "quarantined" ELSE role[x][q]]]
          /\ champion' = [q \in Role |-> IF q \in lost THEN Fallback(w, q) ELSE champion[q]]
      BY <2>2 DEF Quarantine, registry
    <3>3. r \in lost /\ champion'[r] = Fallback(w, r) BY <3>2
    <3>4. v = w /\ r \in Enforceable BY <3>3
    <3>5. Fallback(w, r) # w BY <3>3, <3>4
    <3>6. role'[w][r] = "quarantined" BY <3>1, <3>2, <3>4, <3>5
    <3>7. CASE previous[r] # None
      <4>1. champion'[r] = previous[r] BY <3>3, <3>7 DEF Fallback
      <4> QED BY <3>1, <3>4, <3>6, <3>7, <4>1 DEF RolledBack
    <3>8. CASE previous[r] = None
      <4> DEFINE S == {x \in Registered \ {w} : role[x][r] = "superseded"}
      <4>1. champion'[r] = NewestOf(S) BY <3>3, <3>8 DEF Fallback
      <4>2. S \subseteq Version BY DEF Registered
      <4> HIDE DEF S
      <4>3. CASE S = {}
        <5>1. champion'[r] = None BY <4>1, <4>3 DEF NewestOf
        <5> QED BY <3>1, <3>4, <3>6, <3>8, <4>3, <5>1 DEF S, RolledBack
      <4>4. CASE S # {}
        <5>1. champion'[r] \in S BY <4>1, <4>2, <4>4, NewestExists DEF NewestOf
        <5>2. champion'[r] # None BY <4>2, <5>1, NoneIsNoVersion
        <5> QED BY <3>1, <3>4, <3>6, <3>8, <5>1, <5>2 DEF S, RolledBack
      <4> QED BY <4>3, <4>4
    <3> QED BY <3>7, <3>8
  <2>3. ASSUME NEW wins \in BOOLEAN, GateToActive(wins) PROVE Succeeded(r)
    <3> DEFINE u == run.version
               q == Head(run.todo)
    <3>1. u \in Version BY <1>1, <2>3 DEF IInv, RunOK, GateToActive, Registered
    <3>2. /\ role[u][q] = "shadow"
          /\ role' = [w \in Version |->
               IF w = u THEN Gated(u, q, IF wins THEN "active" ELSE "shadow")
               ELSE IF wins /\ w = champion[q] THEN Gated(w, q, "superseded") ELSE role[w]]
          /\ champion' = [champion EXCEPT ![q] = IF wins THEN u ELSE @]
          /\ previous' = [previous EXCEPT ![q] =
               IF wins /\ champion[q] \notin {None, u} THEN champion[q] ELSE @]
      BY <2>3 DEF GateToActive, registry
    <3> HIDE DEF q, u
    <3>3. r = q /\ wins /\ champion'[r] = u BY <2>0, <3>2 DEF TypeOK
    <3>4. v # u BY <3>3
    <3>5. role'[v] = Gated(v, r, "superseded") BY <2>1, <3>2, <3>3, <3>4
    <3>6. role'[v][r] = "superseded" BY <2>0, <2>1, <3>5 DEF Gated, TypeOK
    <3>7. previous'[r] = v BY <2>0, <3>2, <3>3, <3>4 DEF TypeOK
    <3>8. u # None BY <3>1, NoneIsNoVersion
    <3> QED BY <3>3, <3>6, <3>7, <3>8 DEF Succeeded
  <2>4. ASSUME NEW x, NEW s, Close(x, s) PROVE FALSE BY <2>4 DEF Close
  <2>5. champion' # champion OBVIOUS
  <2> QED
    BY <1>1, <2>2, <2>3, <2>4, <2>5
    DEF Next, PredictStep, OpStep, StartPredict, ObserveDrift, ObserveAgain, Pin, EndPredict,
        NoPredictions, CountCycle, EndGates, GateToShadow, Finalize, Supersede, StartTrain, Admit,
        RejectRule, RetireRules, NewDay, Kill, registry, files, vars
<1> QED BY <1>1, RegistryInvariance, PTL DEF Spec, ChampionLeavesForCause
=============================================================================
