---------------------------- MODULE SemanticProofs ---------------------------
(***************************************************************************)
(* Proofs about SemanticExchange, for any processes, jobs, documents,      *)
(* prompts and results, and any number of starts, kills and failures.      *)
(***************************************************************************)
EXTENDS SemanticExchange, TLAPS

Rows == [Doc -> Result \cup {None}]

(* The files of a job, and what a process has in memory.                   *)
Files ==
  [prepared : BOOLEAN, context : SUBSET Run, output : Rows, rejected : SUBSET Doc,
   errors : SUBSET Error,
   report : [status : {"absent", "partial", "imported"}, errors : SUBSET Error]]
Places ==
  {"idle", "row", "asked", "answered", "validating", "reasked", "revalidating", "accepted",
   "rejected", "closing", "quarantining", "item", "claimed", "deciding", "activating"}
Memory ==
  [at : Places,
   job : Job \cup {None}, queue : Seq(Doc), rows : Rows \cup {<<>>}, skip : SUBSET Doc,
   errors : SUBSET Error, known : SUBSET Error, awaits : BOOLEAN, result : Nat]

Calling == {"asked", "answered", "validating", "reasked", "revalidating"}
Importing == {"item", "claimed", "deciding", "activating"}
Owning == {"claimed", "closing"}

Typed ==
  /\ exec \in [Job -> [Doc -> RowStatus \cup {"absent"}]]
  /\ run \in [Run -> Read \cup Failures \cup {"absent", "running"}]
  /\ cand \in [Run -> Seq(Decision)]
  /\ repl \in [Repairs -> [Run -> {"none", "active", "rolled_back"}]]
  /\ job \in [Job -> Files]
  /\ work \in [Worker -> Memory]

(* What a process works on: a job that is there, the rest of its           *)
(* documents, and a result it may save or decide about.                    *)
Working(m) ==
  m.at # "idle" =>
    /\ m.job \in Job /\ job[m.job].prepared
    /\ m.rows \in Rows
    /\ ToSet(m.queue) \subseteq ToSet(Items[m.job])
    /\ m.at \notin {"row", "item"} => m.queue # <<>>
    /\ m.at = "accepted" => m.result \in Result
    /\ m.at = "claimed" => m.rows[Head(m.queue)] \in Result
ItemsOK == \A w \in Worker : Working(work[w])

(* A claimed run belongs to one process until it is finished, and only a   *)
(* run that succeeded has candidates.                                      *)
RunsOK ==
  /\ \A r \in Run : cand[r] # <<>> => run[r] = "succeeded"
  /\ \A w \in Worker : /\ work[w].at \in Owning => run[CurrentRun(w)] = "running"
                       /\ work[w].at = "deciding" => run[CurrentRun(w)] = "succeeded"
  /\ \A v, w \in Worker : v # w /\ work[v].at \in Owning /\ work[w].at \in Owning
                            => CurrentRun(v) # CurrentRun(w)

(* The status of the row a process asks about tells how far it is, and it  *)
(* is the only one to ask.                                                 *)
StatusAt(at) == CASE at = "asked" -> "running" [] at = "answered" -> "produced"
                  [] at = "reasked" -> "retrying_event" [] OTHER -> "validating"

CallsOK ==
  /\ \A w \in Worker : work[w].at \in Calling =>
       exec[work[w].job][Current(w)] = StatusAt(work[w].at)
  /\ \A v, w \in Worker : v # w /\ work[v].at \in Calling /\ work[w].at \in Calling
                            => <<work[v].job, Current(v)>> # <<work[w].job, Current(w)>>

(* A repair replaces what was read of its own documents.                   *)
JobsOK ==
  \A j \in Job :
    /\ job[j].context \subseteq {r \in Run : run[r] \in Read /\ r.doc \in ToSet(Items[j])}
    /\ j \notin Repairs => job[j].context = {}
    /\ ~job[j].prepared => job[j].report.status # "imported"

(* A document of a job was read to the end, and its repairs dealt with.    *)
ReadWell(r) == run[r] \in Read /\ (run[r] = "succeeded" => "canonical" \in ToSet(cand[r]))
Settled(j, d) ==
  /\ ReadWell(RunOf(j, d))
  /\ \A x \in job[j].context : x.doc = d => repl[j][x] # "none"

(* An import without errors has settled what it left behind.               *)
ImportOK ==
  /\ \A w \in Worker : work[w].at \in Importing =>
       /\ work[w].errors = {} /\ ~work[w].awaits =>
            \A d \in ToSet(Items[work[w].job]) :
              d \in ToSet(work[w].queue) \/ Settled(work[w].job, d)
       /\ work[w].at = "activating" => work[w].job \in Repairs /\ ReadWell(CurrentRun(w))
  /\ \A j \in Job : job[j].report.status = "imported" =>
       \A d \in ToSet(Items[j]) : Settled(j, d)

IInv == Typed /\ ItemsOK /\ RunsOK /\ CallsOK /\ JobsOK /\ ImportOK
-----------------------------------------------------------------------------
(* Sequences, runs and memories.                                           *)

LEMMA QueueParts ==
  ASSUME NEW S, NEW s \in Seq(S), s # <<>>
  PROVE  /\ Head(s) \in S /\ Head(s) \in ToSet(s)
         /\ Tail(s) \in Seq(S) /\ ToSet(Tail(s)) \subseteq ToSet(s)
         /\ \A d \in ToSet(s) : d = Head(s) \/ d \in ToSet(Tail(s))
<1>1. Len(s) \in Nat /\ Len(s) >= 1 /\ DOMAIN s = 1..Len(s) OBVIOUS
<1>2. Head(s) = s[1] /\ 1 \in DOMAIN s BY <1>1
<1>3. Tail(s) \in Seq(S) /\ Len(Tail(s)) = Len(s) - 1 OBVIOUS
<1>4. \A i \in 1..(Len(s) - 1) : Tail(s)[i] = s[i + 1] BY <1>1
<1>5. DOMAIN Tail(s) = 1..(Len(s) - 1) BY <1>3
<1>6. ToSet(Tail(s)) \subseteq ToSet(s)
  <2> SUFFICES ASSUME NEW i \in DOMAIN Tail(s) PROVE Tail(s)[i] \in ToSet(s)
    BY DEF ToSet
  <2>1. i + 1 \in DOMAIN s BY <1>1, <1>5
  <2> QED BY <2>1, <1>4, <1>5 DEF ToSet
<1>7. ASSUME NEW d \in ToSet(s), d # Head(s) PROVE d \in ToSet(Tail(s))
  <2>1. PICK i \in DOMAIN s : d = s[i] BY DEF ToSet
  <2>2. i # 1 BY <1>2, <1>7, <2>1
  <2>3. i - 1 \in DOMAIN Tail(s) /\ Tail(s)[i - 1] = s[i]
    <3>1. i - 1 \in 1..(Len(s) - 1) BY <1>1, <2>2
    <3> QED BY <3>1, <1>1, <1>4, <1>5
  <2> QED BY <2>1, <2>3 DEF ToSet
<1>8. Head(s) \in S BY <1>1, <1>2
<1>9. Head(s) \in ToSet(s) BY <1>2 DEF ToSet
<1> QED BY <1>3, <1>6, <1>7, <1>8, <1>9

LEMMA SetOfSeq ==
  ASSUME NEW S, NEW s \in Seq(S)
  PROVE  ToSet(s) \subseteq S
BY DEF ToSet

LEMMA AppendParts ==
  ASSUME NEW S, NEW s \in Seq(S), NEW e \in S
  PROVE  /\ Append(s, e) \in Seq(S) /\ Append(s, e) # <<>>
         /\ IsPrefix(s, s) /\ IsPrefix(s, Append(s, e))
         /\ ToSet(s) \subseteq ToSet(Append(s, e)) /\ e \in ToSet(Append(s, e))
<1>1. /\ Append(s, e) \in Seq(S) /\ Len(Append(s, e)) = Len(s) + 1
      /\ \A i \in 1..Len(s) : Append(s, e)[i] = s[i]
      /\ Append(s, e)[Len(s) + 1] = e
  OBVIOUS
<1>2. Len(s) \in Nat /\ DOMAIN s = 1..Len(s) /\ DOMAIN Append(s, e) = 1..(Len(s) + 1) BY <1>1
<1>3. IsPrefix(s, s) BY <1>2 DEF IsPrefix
<1>4. IsPrefix(s, Append(s, e))
  <2>1. SubSeq(s, 1, Len(s)) = SubSeq(Append(s, e), 1, Len(s)) BY <1>1, <1>2
  <2> QED BY <1>1, <1>2, <2>1 DEF IsPrefix
<1>5. ToSet(s) \subseteq ToSet(Append(s, e))
  <2> SUFFICES ASSUME NEW i \in DOMAIN s PROVE s[i] \in ToSet(Append(s, e))
    BY DEF ToSet
  <2> QED BY <1>1, <1>2 DEF ToSet
<1>6. e \in ToSet(Append(s, e))
  <2>1. Len(s) + 1 \in DOMAIN Append(s, e) BY <1>2
  <2> QED BY <1>1, <2>1 DEF ToSet
<1>7. Append(s, e) # <<>>
  <2>1. \A t \in Seq(S) : Len(t) >= 1 => t # <<>> OBVIOUS
  <2>2. Len(Append(s, e)) >= 1 BY <1>1, <1>2
  <2> QED BY <2>1, <2>2, <1>1
<1> QED BY <1>1, <1>3, <1>4, <1>5, <1>6, <1>7

LEMMA JobParts ==
  ASSUME NEW j \in Job
  PROVE  /\ Items[j] \in Seq(Doc) /\ ToSet(Items[j]) \subseteq Doc
         /\ \A d \in ToSet(Items[j]) : RunOf(j, d) \in Run /\ RunOf(j, d).doc = d
<1>1. Items[j] \in Seq(Doc) BY SemanticAssumption
<1>2. ToSet(Items[j]) \subseteq Doc BY <1>1, SetOfSeq
<1>3. ASSUME NEW d \in ToSet(Items[j]) PROVE RunOf(j, d) \in Run /\ RunOf(j, d).doc = d
  <2>1. RunOf(j, d).doc = d BY DEF RunOf
  <2>2. RunOf(j, d) \in {RunOf(j, e) : e \in ToSet(Items[j])} OBVIOUS
  <2> QED BY <2>1, <2>2, Zenon DEF Run
<1> QED BY <1>1, <1>2, <1>3

LEMMA IdleParts ==
  /\ Idle \in Memory /\ Idle.at = "idle" /\ Idle.errors = {} /\ Idle.awaits = FALSE
  /\ Idle.result = 0 /\ Idle.skip = {}
<1>1. Idle \in Memory BY DEF Idle, Memory, Places
<1> QED BY <1>1 DEF Idle

LEMMA MemoryParts ==
  ASSUME NEW m \in Memory
  PROVE  /\ m.at \in Places /\ m.job \in Job \cup {None} /\ m.queue \in Seq(Doc)
         /\ m.errors \in SUBSET Error /\ m.known \in SUBSET Error /\ m.awaits \in BOOLEAN
         /\ m.result \in Nat /\ m.skip \in SUBSET Doc
BY DEF Memory

(* The memory of a process that goes to another place.                     *)
LEMMA GotoParts ==
  ASSUME NEW m \in Memory, NEW at \in Places, NEW n, n = [m EXCEPT !.at = at]
  PROVE  /\ n \in Memory /\ n.at = at /\ n.job = m.job /\ n.queue = m.queue /\ n.rows = m.rows
         /\ n.errors = m.errors /\ n.awaits = m.awaits /\ n.result = m.result
BY DEF Memory

LEMMA GoOnParts ==
  ASSUME NEW m \in Memory, NEW at \in Places, m.queue # <<>>
  PROVE  /\ GoOn(m, at) \in Memory /\ GoOn(m, at).at = at /\ GoOn(m, at).job = m.job
         /\ GoOn(m, at).queue = Tail(m.queue) /\ GoOn(m, at).rows = m.rows
         /\ GoOn(m, at).errors = m.errors /\ GoOn(m, at).awaits = m.awaits
<1>1. m.queue \in Seq(Doc) BY MemoryParts
<1>2. Tail(m.queue) \in Seq(Doc) BY <1>1, QueueParts
<1> DEFINE q == Tail(m.queue)
<1>3. GoOn(m, at) = [m EXCEPT !.at = at, !.queue = q] BY DEF GoOn
<1>4. q \in Seq(Doc) BY <1>2
<1> HIDE DEF q
<1>5. /\ GoOn(m, at) \in Memory /\ GoOn(m, at).at = at /\ GoOn(m, at).job = m.job
      /\ GoOn(m, at).queue = q /\ GoOn(m, at).rows = m.rows
      /\ GoOn(m, at).errors = m.errors /\ GoOn(m, at).awaits = m.awaits
  BY <1>3, <1>4 DEF Memory
<1> QED BY <1>5 DEF q

LEMMA FailingParts ==
  ASSUME NEW m \in Memory, NEW d \in Doc, NEW retry \in BOOLEAN
  PROVE  /\ Failing(m, d, retry) \in Memory /\ Failing(m, d, retry).job = m.job
         /\ Failing(m, d, retry).queue = m.queue /\ Failing(m, d, retry).rows = m.rows
         /\ Failing(m, d, retry).errors # {} /\ Failing(m, d, retry).awaits = m.awaits
<1> DEFINE more == m.errors \cup {[doc |-> d, retry |-> retry]}
<1>1. m.errors \in SUBSET Error BY MemoryParts
<1>3. [doc |-> d, retry |-> retry] \in Error BY Zenon DEF Error
<1>4. more \in SUBSET Error /\ more # {} BY <1>1, <1>3
<1>2. Failing(m, d, retry) = [m EXCEPT !.errors = more] BY DEF Failing
<1> HIDE DEF more
<1> QED BY <1>2, <1>4 DEF Memory
-----------------------------------------------------------------------------
(* What a step makes of the memory of its process.                         *)

LEMMA AtWork ==
  ASSUME Typed, ItemsOK, NEW w \in Worker, work[w].at # "idle"
  PROVE  /\ work[w] \in Memory /\ work[w].job \in Job /\ work[w].rows \in Rows
         /\ job[work[w].job] \in Files /\ job[work[w].job].prepared
         /\ work[w].queue # <<>> =>
              /\ Current(w) \in Doc /\ Current(w) \in ToSet(Items[work[w].job])
              /\ CurrentRun(w) \in Run /\ CurrentRun(w).doc = Current(w)
              /\ ToSet(Tail(work[w].queue)) \subseteq ToSet(Items[work[w].job])
         /\ work[w].at \notin {"row", "item"} => work[w].queue # <<>>
<1>1. work[w] \in Memory /\ Working(work[w]) BY DEF Typed, ItemsOK
<1>2. work[w].queue \in Seq(Doc) BY <1>1, MemoryParts
<1>3. /\ work[w].job \in Job /\ work[w].rows \in Rows /\ job[work[w].job].prepared
      /\ ToSet(work[w].queue) \subseteq ToSet(Items[work[w].job])
      /\ work[w].at \notin {"row", "item"} => work[w].queue # <<>>
  BY <1>1 DEF Working
<1>4. job[work[w].job] \in Files BY <1>3 DEF Typed
<1>5. ASSUME work[w].queue # <<>>
      PROVE  /\ Current(w) \in Doc /\ Current(w) \in ToSet(Items[work[w].job])
             /\ CurrentRun(w) \in Run /\ CurrentRun(w).doc = Current(w)
             /\ ToSet(Tail(work[w].queue)) \subseteq ToSet(Items[work[w].job])
  <2>1. /\ Current(w) \in Doc /\ Current(w) \in ToSet(work[w].queue)
        /\ ToSet(Tail(work[w].queue)) \subseteq ToSet(work[w].queue)
    BY <1>2, <1>5, QueueParts DEF Current
  <2>2. Current(w) \in ToSet(Items[work[w].job]) BY <1>3, <2>1
  <2>3. CurrentRun(w) \in Run /\ CurrentRun(w).doc = Current(w)
    BY <1>3, <2>2, JobParts DEF CurrentRun
  <2> QED BY <1>3, <2>1, <2>2, <2>3
<1> QED BY <1>1, <1>3, <1>4, <1>5

(* Memories a step may leave.                                              *)
Fit(m) == m \in Memory /\ Working(m)

LEMMA IdleFit == Fit(Idle)
BY IdleParts DEF Fit, Working

LEMMA GotoFit ==
  ASSUME Typed, ItemsOK, NEW w \in Worker, work[w].at # "idle", work[w].queue # <<>>,
         NEW at \in Places \ {"accepted", "claimed"},
         NEW m, m = [work[w] EXCEPT !.at = at]
  PROVE  Fit(m)
<1>1. work[w] \in Memory /\ Working(work[w]) BY DEF Typed, ItemsOK
<1>2. /\ m \in Memory /\ m.at = at /\ m.job = work[w].job /\ m.queue = work[w].queue
      /\ m.rows = work[w].rows
  BY <1>1, GotoParts
<1> QED BY <1>1, <1>2 DEF Fit, Working

LEMMA GoOnFit ==
  ASSUME Typed, ItemsOK, NEW w \in Worker, work[w].at # "idle", work[w].queue # <<>>,
         NEW at \in {"row", "item"}
  PROVE  /\ Fit(GoOn(work[w], at))
         /\ \A retry \in BOOLEAN : Fit(GoOn(Failing(work[w], Current(w), retry), at))
<1>1. /\ work[w] \in Memory /\ work[w].job \in Job /\ work[w].rows \in Rows
      /\ job[work[w].job].prepared /\ Current(w) \in Doc
      /\ ToSet(Tail(work[w].queue)) \subseteq ToSet(Items[work[w].job])
  BY AtWork
<1>2. at \in Places BY DEF Places
<1>3. Fit(GoOn(work[w], at))
  <2>1. /\ GoOn(work[w], at) \in Memory /\ GoOn(work[w], at).at = at
        /\ GoOn(work[w], at).job = work[w].job /\ GoOn(work[w], at).queue = Tail(work[w].queue)
        /\ GoOn(work[w], at).rows = work[w].rows
    BY <1>1, <1>2, GoOnParts
  <2> QED BY <1>1, <2>1 DEF Fit, Working
<1>4. ASSUME NEW retry \in BOOLEAN PROVE Fit(GoOn(Failing(work[w], Current(w), retry), at))
  <2> DEFINE f == Failing(work[w], Current(w), retry)
  <2>1. f \in Memory /\ f.job = work[w].job /\ f.queue = work[w].queue /\ f.rows = work[w].rows
    BY <1>1, FailingParts
  <2> HIDE DEF f
  <2>2. /\ GoOn(f, at) \in Memory /\ GoOn(f, at).at = at
        /\ GoOn(f, at).job = f.job /\ GoOn(f, at).queue = Tail(f.queue)
        /\ GoOn(f, at).rows = f.rows
    BY <1>2, <2>1, GoOnParts
  <2>3. Fit(GoOn(f, at)) BY <1>1, <2>1, <2>2 DEF Fit, Working
  <2> QED BY <2>3 DEF f
<1> QED BY <1>3, <1>4

LEMMA SaveFit ==
  ASSUME Typed, ItemsOK, NEW w \in Worker, work[w].at # "idle", work[w].queue # <<>>,
         NEW n \in Result, Save(w, n)
  PROVE  /\ \E m : Fit(m) /\ work' = [work EXCEPT ![w] = m]
                   /\ m.at = "row" /\ m.errors = work[w].errors
         /\ job' = [job EXCEPT ![work[w].job].output = [work[w].rows EXCEPT ![Current(w)] = n]]
         /\ [work[w].rows EXCEPT ![Current(w)] = n] \in Rows
<1> DEFINE rows == [work[w].rows EXCEPT ![Current(w)] = n]
           g == GoOn(work[w], "row")
           m == [g EXCEPT !.rows = rows, !.result = 0]
<1>1. work[w].rows \in Rows BY AtWork
<1>2. rows \in Rows BY <1>1 DEF Rows
<1>3. g \in Memory /\ Working(g) /\ g.at = "row" /\ g.errors = work[w].errors
  <2>1. work[w] \in Memory /\ "row" \in Places BY DEF Typed, Places
  <2> QED BY <2>1, GoOnFit, GoOnParts DEF Fit
<1>4. work' = [work EXCEPT ![w] = m] /\ job' = [job EXCEPT ![work[w].job].output = rows]
  BY DEF Save
<1> HIDE DEF rows, g
<1>5. /\ m \in Memory /\ m.at = g.at /\ m.job = g.job /\ m.queue = g.queue /\ m.rows = rows
      /\ m.errors = g.errors
  BY <1>2, <1>3 DEF Memory
<1>6. Fit(m) BY <1>2, <1>3, <1>5 DEF Fit, Working
<1> QED BY <1>2, <1>3, <1>4, <1>5, <1>6 DEF rows

LEMMA QuarantineFit ==
  ASSUME Typed, ItemsOK, NEW w \in Worker, work[w].at # "idle", work[w].queue # <<>>,
         Quarantine(w)
  PROVE  \E m : Fit(m) /\ work' = [work EXCEPT ![w] = m] /\ m.at = "row"
<1> DEFINE f == Failing(work[w], Current(w), FALSE)
<1>1. work[w] \in Memory /\ Current(w) \in Doc BY AtWork
<1>2. Fit(GoOn(f, "row")) BY GoOnFit
<1>3. f \in Memory /\ f.queue # <<>> BY <1>1, FailingParts
<1>4. work' = [work EXCEPT ![w] = GoOn(f, "row")] BY DEF Quarantine
<1> HIDE DEF f
<1>5. GoOn(f, "row").at = "row" BY <1>3, GoOnParts DEF Places
<1> QED BY <1>2, <1>4, <1>5

LEMMA StandingFit ==
  ASSUME Typed, ItemsOK, NEW w \in Worker, work[w].at # "idle", work[w].queue # <<>>
  PROVE  \E m : /\ Fit(m) /\ Standing(w) = [work EXCEPT ![w] = m]
                /\ m.job = work[w].job /\ m.errors = work[w].errors /\ m.awaits = work[w].awaits
                /\ \/ work[w].job \in Repairs /\ m.at = "activating" /\ m.queue = work[w].queue
                   \/ work[w].job \notin Repairs /\ m.at = "item" /\ m.queue = Tail(work[w].queue)
<1>1. work[w] \in Memory /\ "activating" \in Places /\ "item" \in Places BY DEF Typed, Places
<1>2. CASE work[w].job \in Repairs
  <2> DEFINE m == [work[w] EXCEPT !.at = "activating"]
  <2>1. Standing(w) = [work EXCEPT ![w] = m] BY <1>2 DEF Standing
  <2>2. Fit(m) BY <1>1, GotoFit
  <2>3. /\ m.at = "activating" /\ m.job = work[w].job /\ m.queue = work[w].queue
        /\ m.errors = work[w].errors /\ m.awaits = work[w].awaits
    BY <1>1, GotoParts
  <2> QED BY <1>2, <2>1, <2>2, <2>3
<1>3. CASE work[w].job \notin Repairs
  <2> DEFINE m == GoOn(work[w], "item")
  <2>1. Standing(w) = [work EXCEPT ![w] = m] BY <1>3 DEF Standing
  <2>2. Fit(m) BY GoOnFit
  <2>3. /\ m.at = "item" /\ m.job = work[w].job /\ m.queue = Tail(work[w].queue)
        /\ m.errors = work[w].errors /\ m.awaits = work[w].awaits
    BY <1>1, GoOnParts
  <2> QED BY <1>3, <2>1, <2>2, <2>3
<1> QED BY <1>2, <1>3

LEMMA ComplainFit ==
  ASSUME Typed, ItemsOK, NEW w \in Worker, work[w].at # "idle", work[w].queue # <<>>
  PROVE  \E m : /\ Fit(m) /\ Complain(w) = [work EXCEPT ![w] = m]
                /\ m.at = "item" /\ m.job = work[w].job /\ m.errors # {}
<1> DEFINE f == Failing(work[w], Current(w), FALSE)
<1>1. work[w] \in Memory /\ Current(w) \in Doc BY AtWork
<1>2. Fit(GoOn(f, "item")) BY GoOnFit
<1>3. f \in Memory /\ f.queue # <<>> /\ f.job = work[w].job /\ f.errors # {}
  BY <1>1, FailingParts
<1>4. Complain(w) = [work EXCEPT ![w] = GoOn(f, "item")] BY DEF Complain
<1> HIDE DEF f
<1>5. GoOn(f, "item").at = "item" /\ GoOn(f, "item").job = f.job /\ GoOn(f, "item").errors = f.errors
  BY <1>3, GoOnParts DEF Places
<1> QED BY <1>2, <1>3, <1>4, <1>5

(* A process goes to a place by the steps that lead there.                 *)
Leads(w, m) ==
  /\ m.at \in Calling => AskProvider(w) \/ ProviderAnswers(w) \/ BeginValidation(w) \/ Reask(w)
  /\ m.at = "closing" => ClaimRejected(w)
  /\ m.at = "claimed" => ClaimItem(w)
  /\ m.at = "deciding" => \/ \E status \in Read \cup {"failed_terminal"} : FinishItem(w, status)
                          \/ \E c \in Decision : DecideCandidate(w, c)
  /\ m.at \in Importing => ImportStep(w) \/ \E j \in Job : ImportStart(w, j)

Move(w) == \E m : Fit(m) /\ work' = [work EXCEPT ![w] = m] /\ Leads(w, m)

LEMMA GotoMove ==
  ASSUME Typed, ItemsOK, NEW w \in Worker, work[w].at # "idle", work[w].queue # <<>>,
         NEW at \in Places \ {"accepted", "claimed"}, Goto(w, at),
         Leads(w, [work[w] EXCEPT !.at = at])
  PROVE  Move(w)
<1> DEFINE m == [work[w] EXCEPT !.at = at]
<1>1. Fit(m) BY GotoFit
<1>2. work' = [work EXCEPT ![w] = m] BY DEF Goto
<1> QED BY <1>1, <1>2 DEF Move

(* The places a step leads to with no further condition.                   *)
Plain == {"idle", "row", "accepted", "rejected", "quarantining"}

LEMMA PlainLeads == ASSUME NEW w, NEW m, m.at \in Plain PROVE Leads(w, m)
BY DEF Plain, Leads, Calling, Importing

LEMMA IdleMove == ASSUME NEW w, work' = [work EXCEPT ![w] = Idle] PROVE Move(w)
<1>1. Leads(w, Idle) BY IdleParts, PlainLeads DEF Plain
<1> QED BY <1>1, IdleFit DEF Move

LEMMA RunMoves == ASSUME Typed, ItemsOK, NEW w \in Worker, RunStep(w) PROVE Move(w)
<1>1. work[w] \in Memory BY DEF Typed
<1>2. \A at \in Places : [work[w] EXCEPT !.at = at].at = at BY <1>1, GotoParts
<1>3. ASSUME work[w].at = "row", work[w].queue # <<>>, NEW retry \in BOOLEAN,
             work' = [work EXCEPT ![w] = GoOn(Failing(work[w], Current(w), retry), "row")]
      PROVE  Move(w)
  <2> DEFINE f == Failing(work[w], Current(w), retry)
  <2>1. Fit(GoOn(f, "row")) BY <1>3, GoOnFit
  <2>2. f \in Memory /\ f.queue # <<>> BY <1>1, <1>3, AtWork, FailingParts
  <2> HIDE DEF f
  <2>3. GoOn(f, "row").at = "row" BY <2>2, GoOnParts DEF Places
  <2>4. Leads(w, GoOn(f, "row")) BY <2>3, PlainLeads DEF Plain
  <2> QED BY <1>3, <2>1, <2>4 DEF Move, f
<1>4. ASSUME work[w].at # "idle", work[w].queue # <<>>, NEW n \in Result, Save(w, n)
      PROVE  Move(w)
  <2>1. PICK m : Fit(m) /\ work' = [work EXCEPT ![w] = m] /\ m.at = "row" BY <1>4, SaveFit
  <2>2. Leads(w, m) BY <2>1, PlainLeads DEF Plain
  <2> QED BY <2>1, <2>2 DEF Move
<1>5. ASSUME work[w].at # "idle", work[w].queue # <<>>, Quarantine(w)
      PROVE  Move(w)
  <2>1. PICK m : Fit(m) /\ work' = [work EXCEPT ![w] = m] /\ m.at = "row" BY <1>5, QuarantineFit
  <2>2. Leads(w, m) BY <2>1, PlainLeads DEF Plain
  <2> QED BY <2>1, <2>2 DEF Move
<1>6. ASSUME work[w].at # "idle", work[w].queue # <<>>, NEW at \in {"rejected", "quarantining"},
             Goto(w, at)
      PROVE  Move(w)
  <2>1. at \in Places \ {"accepted", "claimed"} BY DEF Places
  <2> DEFINE m == [work[w] EXCEPT !.at = at]
  <2>2. m.at \in Plain BY <1>2, <2>1 DEF Plain
  <2> HIDE DEF m
  <2>4. Leads(w, m) BY <2>2, PlainLeads
  <2>3. Leads(w, [work[w] EXCEPT !.at = at]) BY <2>4 DEF m
  <2> QED BY <1>6, <2>1, <2>3, GotoMove
<1>7. work[w].at \notin {"idle", "row", "item"} => work[w].queue # <<>> BY AtWork
<1>8. CASE ReuseRow(w)
  <2>1. work' = [work EXCEPT ![w] = GoOn(work[w], "row")] /\ work[w].at = "row" /\ work[w].queue # <<>>
    BY <1>8 DEF ReuseRow, At
  <2>2. Fit(GoOn(work[w], "row")) BY <2>1, GoOnFit
  <2>3. GoOn(work[w], "row").at = "row" BY <1>1, <2>1, GoOnParts DEF Places
  <2>4. Leads(w, GoOn(work[w], "row")) BY <2>3, PlainLeads DEF Plain
  <2> QED BY <2>1, <2>2, <2>4 DEF Move
<1>9. CASE Exchange(w)
  <2>1. work[w].at = "row" /\ work[w].queue # <<>> BY <1>9 DEF Exchange, Asks, At
  <2> QED BY <1>3, <1>4, <1>5, <1>6, <1>9, <2>1 DEF Exchange
<1>10. CASE AskProvider(w)
  <2>1. work[w].at = "row" /\ work[w].queue # <<>> /\ Goto(w, "asked")
    BY <1>10 DEF AskProvider, Asks, At
  <2>2. Leads(w, [work[w] EXCEPT !.at = "asked"]) BY <1>2, <1>10 DEF Leads, Importing, Places
  <2> QED BY <2>1, <2>2, GotoMove DEF Places
<1>11. CASE RunAborts(w) BY <1>11, IdleMove DEF RunAborts
<1>12. CASE ProviderAnswers(w)
  <2>1. \E at \in {"answered", "revalidating"} : Goto(w, at) BY <1>12 DEF ProviderAnswers
  <2>2. work[w].at # "idle" /\ work[w].queue # <<>> BY <1>7, <1>12 DEF ProviderAnswers, At
  <2>3. \A at \in {"answered", "revalidating"} : Leads(w, [work[w] EXCEPT !.at = at])
    BY <1>2, <1>12 DEF Leads, Importing, Places
  <2> QED BY <2>1, <2>2, <2>3, GotoMove DEF Places
<1>13. CASE BeginValidation(w)
  <2>1. work[w].at # "idle" /\ work[w].queue # <<>> /\ Goto(w, "validating")
    BY <1>7, <1>13 DEF BeginValidation, At
  <2>2. Leads(w, [work[w] EXCEPT !.at = "validating"]) BY <1>2, <1>13 DEF Leads, Importing, Places
  <2> QED BY <2>1, <2>2, GotoMove DEF Places
<1>14. ASSUME NEW retry \in BOOLEAN, ProviderFails(w, retry) PROVE Move(w)
  <2>1. work[w].at # "idle" /\ work[w].queue # <<>> BY <1>7, <1>14 DEF ProviderFails, At
  <2> DEFINE f == Failing(work[w], Current(w), retry)
  <2>2. Fit(GoOn(f, "row")) BY <2>1, GoOnFit
  <2>3. f \in Memory /\ f.queue # <<>> BY <1>1, <2>1, AtWork, FailingParts
  <2>4. work' = [work EXCEPT ![w] = GoOn(f, "row")] BY <1>14 DEF ProviderFails
  <2> HIDE DEF f
  <2>5. GoOn(f, "row").at = "row" BY <2>3, GoOnParts DEF Places
  <2>6. Leads(w, GoOn(f, "row")) BY <2>5, PlainLeads DEF Plain
  <2> QED BY <2>2, <2>4, <2>6 DEF Move
<1>15. ASSUME NEW n \in Result, Accept(w, n) PROVE Move(w)
  <2> DEFINE m == [work[w] EXCEPT !.at = "accepted", !.result = n]
  <2>1. work' = [work EXCEPT ![w] = m] BY <1>1, <1>15 DEF Accept, Typed
  <2>2. work[w].at # "idle" /\ work[w].queue # <<>> BY <1>7, <1>15 DEF Accept, At
  <2>3. n \in Nat BY SemanticAssumption
  <2>4. /\ m \in Memory /\ m.at = "accepted" /\ m.result = n /\ m.job = work[w].job
        /\ m.queue = work[w].queue /\ m.rows = work[w].rows
    BY <1>1, <2>3 DEF Memory, Places
  <2>5. Fit(m) BY <2>2, <2>4 DEF Fit, Working, ItemsOK
  <2> HIDE DEF m
  <2>6. Leads(w, m) BY <2>4, PlainLeads DEF Plain
  <2> QED BY <2>1, <2>5, <2>6 DEF Move
<1>16. CASE SaveRow(w)
  <2>1. work[w].at = "accepted" /\ Save(w, work[w].result) BY <1>16 DEF SaveRow, At
  <2>2. work[w].result \in Result BY <2>1 DEF ItemsOK, Working
  <2> QED BY <1>4, <1>7, <2>1, <2>2
<1>17. CASE Reask(w)
  <2>1. work[w].at # "idle" /\ work[w].queue # <<>> /\ Goto(w, "reasked")
    BY <1>7, <1>17 DEF Reask, At
  <2>2. Leads(w, [work[w] EXCEPT !.at = "reasked"]) BY <1>2, <1>17 DEF Leads, Importing, Places
  <2> QED BY <2>1, <2>2, GotoMove DEF Places
<1>18. CASE Reject(w) BY <1>6, <1>7, <1>18 DEF Reject, At
<1>19. CASE ClaimRejected(w)
  <2>1. work[w].at # "idle" /\ work[w].queue # <<>> BY <1>7, <1>19 DEF ClaimRejected, At
  <2>2. Goto(w, "closing") \/ Goto(w, "quarantining") BY <1>19 DEF ClaimRejected
  <2>3. Leads(w, [work[w] EXCEPT !.at = "closing"])
    BY <1>2, <1>19 DEF Leads, Importing, Calling, Places
  <2> QED BY <1>6, <2>1, <2>2, <2>3, GotoMove DEF Places
<1>20. CASE CloseRejected(w) BY <1>6, <1>7, <1>20 DEF CloseRejected, At
<1>21. CASE QuarantineRow(w) BY <1>5, <1>7, <1>21 DEF QuarantineRow, At
<1>22. CASE RunReport(w) BY <1>22, IdleMove DEF RunReport
<1> QED
  BY <1>8, <1>9, <1>10, <1>11, <1>12, <1>13, <1>14, <1>15, <1>16, <1>17, <1>18, <1>19, <1>20, <1>21,
     <1>22 DEF RunStep

LEMMA StartMoves ==
  ASSUME Typed, ItemsOK, NEW w \in Worker, NEW j \in Job, NEW all \in BOOLEAN, RunStart(w, j, all)
  PROVE  Move(w)
<1>1. job[j] \in Files /\ job[j].prepared BY DEF RunStart, Typed
<1>2. Kept(j, all) \in Rows
  <2>1. job[j].output \in Rows BY <1>1 DEF Files
  <2> QED BY <2>1 DEF Kept, Rows
<1>3. Items[j] \in Seq(Doc) BY JobParts
<1> DEFINE rows == Kept(j, all)
           skip == {d \in Doc : rows[d] # None \/ d \in job[j].rejected}
           m == [Idle EXCEPT !.at = "row", !.job = j, !.queue = Items[j], !.rows = rows, !.skip = skip]
<1>4. work' = [work EXCEPT ![w] = m] BY DEF RunStart
<1>5. rows \in Rows /\ skip \in SUBSET Doc BY <1>2
<1> HIDE DEF rows, skip
<1>6. m \in Memory /\ m.at = "row" /\ m.job = j /\ m.queue = Items[j] /\ m.rows = rows
  BY <1>3, <1>5, IdleParts DEF Idle, Memory, Places
<1> HIDE DEF m
<1>7. Fit(m) BY <1>1, <1>5, <1>6 DEF Fit, Working
<1>8. Leads(w, m) BY <1>6, PlainLeads DEF Plain
<1> QED BY <1>4, <1>7, <1>8 DEF Move

LEMMA ImportStarts ==
  ASSUME Typed, ItemsOK, NEW w \in Worker, NEW j \in Job, ImportStart(w, j)
  PROVE  \/ /\ work' = work
            /\ job' = [job EXCEPT ![j].report = [status |-> "partial", errors |-> job[j].errors]]
         \/ /\ \E m : /\ Fit(m) /\ work' = [work EXCEPT ![w] = m] /\ Leads(w, m)
                      /\ m.at = "item" /\ m.job = j /\ m.queue = Items[j]
            /\ job' = job
<1>1. CASE \A d \in Doc : job[j].output[d] = None
  BY <1>1 DEF ImportStart
<1>2. CASE ~ \A d \in Doc : job[j].output[d] = None
  <2> DEFINE m == [Idle EXCEPT !.at = "item", !.job = j, !.queue = Items[j],
                               !.rows = job[j].output, !.known = job[j].errors]
  <2>1. work' = [work EXCEPT ![w] = m] /\ job' = job BY <1>2 DEF ImportStart
  <2>2. job[j] \in Files /\ job[j].prepared BY DEF ImportStart, Typed
  <2>3. job[j].output \in Rows /\ job[j].errors \in SUBSET Error BY <2>2 DEF Files
  <2>4. Items[j] \in Seq(Doc) BY JobParts
  <2>5. m \in Memory /\ m.at = "item" /\ m.job = j /\ m.queue = Items[j] /\ m.rows = job[j].output
    BY <2>3, <2>4, IdleParts DEF Idle, Memory, Places
  <2> HIDE DEF m
  <2>6. Fit(m) BY <2>2, <2>3, <2>5 DEF Fit, Working
  <2>7. Leads(w, m) BY <2>5 DEF Leads, Calling, Importing
  <2> QED BY <2>1, <2>5, <2>6, <2>7
<1> QED BY <1>1, <1>2

(* How a document fares in a step of an import: its run is fit to stand    *)
(* and, for a repair, put in place of what it replaces; it is still on its *)
(* way; or something is reported.                                          *)
ReadWellThen(r) == run'[r] \in Read /\ (run'[r] = "succeeded" => "canonical" \in ToSet(cand'[r]))
SettledThen(j, d) ==
  /\ ReadWellThen(RunOf(j, d))
  /\ \A x \in job'[j].context : x.doc = d => repl'[j][x] # "none"

Fares(w, m) ==
  \/ m.at = "item" /\ (m.errors # {} \/ m.awaits)
  \/ /\ m.job = work[w].job /\ m.errors = work[w].errors /\ m.awaits = work[w].awaits
     /\ \/ m.at = "item" /\ m.queue = Tail(work[w].queue) /\ SettledThen(work[w].job, Current(w))
        \/ m.at \in {"claimed", "deciding"} /\ m.queue = work[w].queue
        \/ /\ m.at = "activating" /\ m.queue = work[w].queue
           /\ work[w].job \in Repairs /\ ReadWellThen(CurrentRun(w))
  \/ m.at = "idle"

Onward == {"idle", "item", "activating"}
ImportMove(w, places) ==
  \E m : Fit(m) /\ work' = [work EXCEPT ![w] = m] /\ m.at \in places /\ Fares(w, m)

LEMMA WiderMove ==
  ASSUME NEW w, NEW S, NEW T, ImportMove(w, S), S \subseteq T
  PROVE  ImportMove(w, T)
BY DEF ImportMove

LEMMA ComplainMove ==
  ASSUME Typed, ItemsOK, NEW w \in Worker, work[w].at # "idle", work[w].queue # <<>>,
         work' = Complain(w)
  PROVE  ImportMove(w, Onward)
<1>1. PICK m : Fit(m) /\ Complain(w) = [work EXCEPT ![w] = m] /\ m.at = "item" /\ m.errors # {}
  BY ComplainFit
<1>2. Fares(w, m) BY <1>1 DEF Fares
<1> QED BY <1>1, <1>2 DEF ImportMove, Onward

LEMMA StandingMove ==
  ASSUME Typed, ItemsOK, JobsOK, NEW w \in Worker, work[w].at # "idle", work[w].queue # <<>>,
         work' = Standing(w), job' = job, ReadWellThen(CurrentRun(w))
  PROVE  ImportMove(w, Onward)
<1>1. PICK m : /\ Fit(m) /\ Standing(w) = [work EXCEPT ![w] = m]
               /\ m.job = work[w].job /\ m.errors = work[w].errors /\ m.awaits = work[w].awaits
               /\ \/ work[w].job \in Repairs /\ m.at = "activating" /\ m.queue = work[w].queue
                  \/ work[w].job \notin Repairs /\ m.at = "item" /\ m.queue = Tail(work[w].queue)
  BY StandingFit
<1>2. ASSUME work[w].job \notin Repairs PROVE SettledThen(work[w].job, Current(w))
  <2>1. work[w].job \in Job BY AtWork
  <2>2. job'[work[w].job].context = {} BY <1>2, <2>1 DEF JobsOK
  <2> QED BY <2>2 DEF SettledThen, CurrentRun
<1>3. Fares(w, m) BY <1>1, <1>2 DEF Fares
<1> QED BY <1>1, <1>3 DEF ImportMove, Onward

LEMMA MissingMove ==
  ASSUME Typed, ItemsOK, NEW w \in Worker, ItemMissing(w)
  PROVE  ImportMove(w, Onward)
<1> DEFINE why == {e \in work[w].known : e.doc = Current(w)}
           g == GoOn(work[w], "item")
           more == g.errors \cup why
           waits == g.awaits \/ why = {}
           m == [g EXCEPT !.errors = more, !.awaits = waits]
<1>1. work[w].at = "item" /\ work[w].queue # <<>> BY DEF ItemMissing, At
<1>2. work' = [work EXCEPT ![w] = m]
  BY DEF ItemMissing
<1>3. work[w] \in Memory /\ "item" \in Places BY DEF Typed, Places
<1>4. Fit(g) BY <1>1, GoOnFit
<1>5. g.at = "item" BY <1>1, <1>3, GoOnParts
<1>6. g \in Memory /\ Working(g) BY <1>4 DEF Fit
<1>7. work[w].known \in SUBSET Error /\ g.errors \in SUBSET Error BY <1>3, <1>6, MemoryParts
<1>8. more \in SUBSET Error BY <1>7
<1>9. waits \in BOOLEAN OBVIOUS
<1>10. more # {} \/ waits
  <2>1. CASE why = {} BY <2>1
  <2>2. CASE why # {} BY <2>2
  <2> QED BY <2>1, <2>2
<1> HIDE DEF g, more, waits
<1>11. m \in Memory /\ m.at = g.at /\ m.job = g.job /\ m.queue = g.queue /\ m.rows = g.rows
  BY <1>6, <1>8, <1>9 DEF Memory
<1>12. m.errors = more /\ m.awaits = waits /\ m.result = g.result BY <1>6 DEF Memory
<1> HIDE DEF m
<1>13. Fit(m) BY <1>5, <1>6, <1>11 DEF Fit, Working
<1>14. Fares(w, m) BY <1>5, <1>10, <1>11, <1>12 DEF Fares
<1>15. m.at \in Onward BY <1>5, <1>11 DEF Onward
<1> QED BY <1>2, <1>13, <1>14, <1>15 DEF ImportMove

(* A process that keeps its document and goes to claim or decide about it. *)
LEMMA WayMove ==
  ASSUME Typed, ItemsOK, NEW w \in Worker, work[w].at # "idle", work[w].queue # <<>>,
         NEW at \in {"claimed", "deciding"}, NEW n \in Nat,
         at = "claimed" => work[w].rows[Current(w)] \in Result,
         NEW m, m = [work[w] EXCEPT !.at = at, !.result = n],
         work' = [work EXCEPT ![w] = m]
  PROVE  ImportMove(w, {at})
<1>1. work[w] \in Memory /\ Working(work[w]) BY DEF Typed, ItemsOK
<1>2. /\ m \in Memory /\ m.at = at /\ m.job = work[w].job /\ m.queue = work[w].queue
      /\ m.rows = work[w].rows /\ m.errors = work[w].errors /\ m.awaits = work[w].awaits
  BY <1>1 DEF Memory, Places
<1>3. Fit(m) BY <1>1, <1>2 DEF Fit, Working, Current
<1>4. Fares(w, m) BY <1>2 DEF Fares
<1> QED BY <1>2, <1>3, <1>4 DEF ImportMove

LEMMA ReuseMove ==
  ASSUME Typed, ItemsOK, JobsOK, NEW w \in Worker, work[w].at # "idle", work[w].queue # <<>>,
         work' = Reuse(w), job' = job, run' = run, cand' = cand
  PROVE  ImportMove(w, Onward)
<1> DEFINE r == CurrentRun(w)
<1>1. CASE run[r] = "no_event" \/ (run[r] = "succeeded" /\ OnlyCanonicalCandidates(r))
  <2>1. work' = Standing(w) BY <1>1 DEF Reuse
  <2>2. ReadWellThen(r)
    <3>1. run[r] \in Read BY <1>1 DEF Read
    <3>2. run[r] = "succeeded" => "canonical" \in ToSet(cand[r])
      BY <1>1 DEF OnlyCanonicalCandidates
    <3> QED BY <3>1, <3>2 DEF ReadWellThen
  <2> QED BY <2>1, <2>2, StandingMove
<1>2. CASE run[r] = "running"
  <2>1. work' = [Complain(w) EXCEPT ![w].awaits = TRUE] BY <1>2 DEF Reuse
  <2>2. PICK m : Fit(m) /\ Complain(w) = [work EXCEPT ![w] = m] /\ m.at = "item" /\ m.errors # {}
    BY ComplainFit
  <2> DEFINE n == [m EXCEPT !.awaits = TRUE]
  <2>3. work' = [work EXCEPT ![w] = n]
    <3>1. [work EXCEPT ![w] = m][w] = m /\ work \in [Worker -> Memory] BY DEF Typed
    <3> QED BY <2>1, <2>2, <3>1
  <2>4. m \in Memory /\ Working(m) BY <2>2 DEF Fit
  <2>5. /\ n \in Memory /\ n.at = m.at /\ n.job = m.job /\ n.queue = m.queue /\ n.rows = m.rows
        /\ n.errors = m.errors /\ n.result = m.result
    BY <2>4 DEF Memory
  <2> HIDE DEF n
  <2>6. Fit(n) BY <2>4, <2>5 DEF Fit, Working
  <2>7. Fares(w, n) BY <2>2, <2>5 DEF Fares
  <2> QED BY <2>2, <2>3, <2>5, <2>6, <2>7 DEF ImportMove, Onward
<1>3. CASE ~ (run[r] = "no_event" \/ (run[r] = "succeeded" /\ OnlyCanonicalCandidates(r)) \/ run[r] = "running")
  <2>1. work' = Complain(w) BY <1>3, Zenon DEF Reuse
  <2> QED BY <2>1, ComplainMove
<1> QED BY <1>1, <1>2, <1>3

LEMMA ClaimMove ==
  ASSUME Typed, ItemsOK, JobsOK, NEW w \in Worker, ClaimItem(w)
  PROVE  ImportMove(w, Onward \cup {"claimed"})
<1>1. /\ work[w].at = "item" /\ work[w].queue # <<>> /\ work[w].rows[Current(w)] # None
      /\ job' = job /\ cand' = cand
  BY DEF ClaimItem, At
<1>2. CASE Claimable(CurrentRun(w))
  <2>1. Goto(w, "claimed") BY <1>2 DEF ClaimItem
  <2>2. work[w] \in Memory /\ Current(w) \in Doc /\ work[w].rows \in Rows BY <1>1, AtWork
  <2>3. work[w].rows[Current(w)] \in Result BY <1>1, <2>2 DEF Rows
  <2>4. [work[w] EXCEPT !.at = "claimed"] = [work[w] EXCEPT !.at = "claimed", !.result = work[w].result]
    BY <2>2 DEF Memory
  <2>5. work' = [work EXCEPT ![w] = [work[w] EXCEPT !.at = "claimed", !.result = work[w].result]]
    BY <2>1, <2>4 DEF Goto
  <2>6. work[w].result \in Nat BY <2>2, MemoryParts
  <2>7. ImportMove(w, {"claimed"}) BY <1>1, <2>3, <2>5, <2>6, WayMove
  <2> QED BY <2>7, WiderMove
<1>3. CASE ~Claimable(CurrentRun(w))
  <2>1. work' = Reuse(w) /\ run' = run BY <1>3 DEF ClaimItem
  <2>2. ImportMove(w, Onward) BY <1>1, <2>1, ReuseMove
  <2> QED BY <2>2, WiderMove
<1> QED BY <1>2, <1>3

LEMMA FinishMove ==
  ASSUME Typed, ItemsOK, JobsOK, NEW w \in Worker,
         NEW s \in Read \cup {"failed_terminal"}, FinishItem(w, s)
  PROVE  ImportMove(w, Onward \cup {"deciding"})
<1>1. /\ work[w].at = "claimed" /\ job' = job /\ run' = [run EXCEPT ![CurrentRun(w)] = s]
      /\ work[w].queue # <<>>
  BY AtWork DEF FinishItem, At
<1>2. CurrentRun(w) \in Run /\ work[w] \in Memory BY <1>1, AtWork
<1> DEFINE n == work[w].rows[Current(w)]
<1>3. n \in Nat
  <2>1. work[w].rows[Head(work[w].queue)] \in Result BY <1>1 DEF ItemsOK, Working
  <2> QED BY <2>1, SemanticAssumption DEF Current
<1>4. CASE s = "succeeded" /\ work' = [work EXCEPT ![w].at = "deciding", ![w].result = n]
  <2>1. work' = [work EXCEPT ![w] = [work[w] EXCEPT !.at = "deciding", !.result = n]]
    BY <1>2, <1>4 DEF Typed
  <2>2. ImportMove(w, {"deciding"}) BY <1>1, <1>3, <2>1, WayMove
  <2> QED BY <2>2, WiderMove
<1>5. CASE s = "no_event" /\ work' = Standing(w)
  <2>1. ReadWellThen(CurrentRun(w)) BY <1>1, <1>2, <1>5 DEF ReadWellThen, Read, Typed
  <2>2. ImportMove(w, Onward) BY <1>1, <1>5, <2>1, StandingMove
  <2> QED BY <2>2, WiderMove
<1>6. CASE work' = Complain(w)
  <2>1. ImportMove(w, Onward) BY <1>1, <1>6, ComplainMove
  <2> QED BY <2>1, WiderMove
<1> QED BY <1>4, <1>5, <1>6 DEF FinishItem

LEMMA DecideMove ==
  ASSUME Typed, ItemsOK, JobsOK, RunsOK, NEW w \in Worker, NEW c \in Decision,
         DecideCandidate(w, c)
  PROVE  ImportMove(w, Onward \cup {"deciding"})
<1> DEFINE r == CurrentRun(w)
           all == Append(cand[r], c)
<1>1. /\ work[w].at = "deciding" /\ job' = job /\ run' = run /\ cand' = [cand EXCEPT ![r] = all]
      /\ work[w].queue # <<>>
  BY AtWork DEF DecideCandidate, At
<1>2. r \in Run /\ work[w] \in Memory /\ cand[r] \in Seq(Decision) BY <1>1, AtWork DEF Typed
<1>3. CASE work' = work
  <2>1. [work[w] EXCEPT !.at = "deciding", !.result = work[w].result] = work[w]
    BY <1>1, <1>2 DEF Memory
  <2>2. work' = [work EXCEPT ![w] = [work[w] EXCEPT !.at = "deciding", !.result = work[w].result]]
    BY <1>3, <2>1 DEF Typed
  <2>3. work[w].result \in Nat BY <1>2, MemoryParts
  <2>4. ImportMove(w, {"deciding"}) BY <1>1, <2>2, <2>3, WayMove
  <2> QED BY <2>4, WiderMove
<1>4. CASE "quarantined" \notin ToSet(all) /\ work' = Standing(w)
  <2>1. c \in ToSet(all) BY <1>2, AppendParts
  <2>2. c = "canonical" BY <1>4, <2>1 DEF Decision
  <2>3. cand'[r] = all BY <1>1, <1>2 DEF Typed
  <2>4. run'[r] = "succeeded" BY <1>1 DEF RunsOK
  <2>5. ReadWellThen(r) BY <2>1, <2>2, <2>3, <2>4 DEF ReadWellThen, Read
  <2>6. ImportMove(w, Onward) BY <1>1, <1>4, <2>5, StandingMove
  <2> QED BY <2>6, WiderMove
<1>5. CASE work' = Complain(w)
  <2>1. ImportMove(w, Onward) BY <1>1, <1>5, ComplainMove
  <2> QED BY <2>1, WiderMove
<1>6. work' = work \/ ("quarantined" \notin ToSet(all) /\ work' = Standing(w)) \/ work' = Complain(w)
  BY DEF DecideCandidate
<1> QED BY <1>3, <1>4, <1>5, <1>6

LEMMA ActivateMove ==
  ASSUME Typed, ItemsOK, ImportOK, NEW w \in Worker, ActivateRepair(w)
  PROVE  ImportMove(w, Onward)
<1>1. work[w].at = "activating" /\ job' = job /\ run' = run /\ cand' = cand BY DEF ActivateRepair, At
<1>2. /\ work[w] \in Memory /\ work[w].queue # <<>> /\ work[w].job \in Job
      /\ job[work[w].job] \in Files
  BY <1>1, AtWork
<1>3. work[w].job \in Repairs /\ ReadWell(CurrentRun(w)) BY <1>1 DEF ImportOK, Importing
<1>4. CASE Conflicts(w) = {}
  <2> DEFINE m == GoOn(work[w], "item")
  <2>1. work' = [work EXCEPT ![w] = m] BY <1>4 DEF ActivateRepair
  <2>2. Fit(m) BY <1>1, <1>2, GoOnFit
  <2>3. /\ m.at = "item" /\ m.job = work[w].job /\ m.queue = Tail(work[w].queue)
        /\ m.errors = work[w].errors /\ m.awaits = work[w].awaits
    BY <1>2, GoOnParts DEF Places
  <2>4. ReadWellThen(CurrentRun(w)) BY <1>1, <1>3 DEF ReadWell, ReadWellThen
  <2>5. ASSUME NEW x \in job'[work[w].job].context, x.doc = Current(w)
        PROVE  repl'[work[w].job][x] # "none"
    <3>1. x \in Priors(w) /\ x \in Run BY <1>1, <1>2, <2>5 DEF Priors, Files
    <3>2. repl'[work[w].job][x] = "active"
      BY <1>3, <1>4, <3>1 DEF ActivateRepair, Typed
    <3> QED BY <3>2
  <2>6. SettledThen(work[w].job, Current(w)) BY <2>4, <2>5 DEF SettledThen, CurrentRun
  <2> HIDE DEF m
  <2>7. Fares(w, m) BY <2>3, <2>6 DEF Fares
  <2> QED BY <2>1, <2>2, <2>3, <2>7 DEF ImportMove, Onward
<1>5. CASE Conflicts(w) # {}
  <2>1. work' = Complain(w) BY <1>5 DEF ActivateRepair
  <2> QED BY <1>1, <1>2, <2>1, ComplainMove
<1> QED BY <1>4, <1>5

LEMMA ImportMoves ==
  ASSUME Typed, ItemsOK, JobsOK, RunsOK, ImportOK, NEW w \in Worker, ImportStep(w)
  PROVE  ImportMove(w, Importing \cup {"idle"}) /\ Move(w)
<1>1. ASSUME NEW S, S \subseteq Importing \cup {"idle"}, ImportMove(w, S),
             "claimed" \in S => ClaimItem(w),
             "deciding" \in S => \/ \E status \in Read \cup {"failed_terminal"} : FinishItem(w, status)
                                 \/ \E c \in Decision : DecideCandidate(w, c)
      PROVE  ImportMove(w, Importing \cup {"idle"}) /\ Move(w)
  <2>1. PICK m : Fit(m) /\ work' = [work EXCEPT ![w] = m] /\ m.at \in S /\ Fares(w, m)
    BY <1>1 DEF ImportMove
  <2>2. Leads(w, m) BY <1>1, <2>1 DEF Leads, Importing, Calling
  <2>3. Move(w) BY <2>1, <2>2 DEF Move
  <2> QED BY <1>1, <2>3, WiderMove
<1>2. Onward \subseteq Importing \cup {"idle"} /\ "claimed" \notin Onward /\ "deciding" \notin Onward
  BY DEF Onward, Importing
<1>3. CASE ItemMissing(w) BY <1>1, <1>2, <1>3, MissingMove
<1>4. CASE ClaimItem(w)
  <2>1. ImportMove(w, Onward \cup {"claimed"}) BY <1>4, ClaimMove
  <2>2. Onward \cup {"claimed"} \subseteq Importing \cup {"idle"} BY <1>2 DEF Importing
  <2> QED BY <1>1, <1>2, <1>4, <2>1, <2>2
<1>5. CASE \/ \E status \in Read \cup {"failed_terminal"} : FinishItem(w, status)
           \/ \E c \in Decision : DecideCandidate(w, c)
  <2>1. ImportMove(w, Onward \cup {"deciding"}) BY <1>5, FinishMove, DecideMove
  <2>2. Onward \cup {"deciding"} \subseteq Importing \cup {"idle"} BY <1>2 DEF Importing
  <2> QED BY <1>1, <1>2, <1>5, <2>1, <2>2
<1>6. CASE ActivateRepair(w) BY <1>1, <1>2, <1>6, ActivateMove
<1>7. CASE ImportReport(w)
  <2>1. work' = [work EXCEPT ![w] = Idle] BY <1>7 DEF ImportReport
  <2>2. Fares(w, Idle) BY IdleParts DEF Fares
  <2>3. ImportMove(w, Onward) BY <2>1, <2>2, IdleFit, IdleParts DEF ImportMove, Onward
  <2> QED BY <1>1, <1>2, <2>3
<1> QED BY <1>3, <1>4, <1>5, <1>6, <1>7 DEF ImportStep
-----------------------------------------------------------------------------
(* What the steps do to the files of the jobs.                             *)

(* The files keep what the job is made for.                                *)
SameOrder(j) == job'[j].prepared = job[j].prepared /\ job'[j].context = job[j].context
FilesKept ==
  job' \in [Job -> Files] /\ \A j \in Job : SameOrder(j) /\ job'[j].report = job[j].report

LEMMA FilesParts ==
  ASSUME NEW f \in Files
  PROVE  /\ f.output \in Rows /\ f.rejected \in SUBSET Doc /\ f.errors \in SUBSET Error
         /\ f.context \in SUBSET Run /\ f.prepared \in BOOLEAN
         /\ f.report.status \in {"absent", "partial", "imported"} /\ f.report.errors \in SUBSET Error
BY DEF Files

LEMMA OutputParts ==
  ASSUME NEW f \in Files, NEW rows \in Rows, NEW g, g = [f EXCEPT !.output = rows]
  PROVE  g \in Files /\ g.prepared = f.prepared /\ g.context = f.context /\ g.report = f.report
BY DEF Files

LEMMA RejectedParts ==
  ASSUME NEW f \in Files, NEW docs \in SUBSET Doc, NEW g, g = [f EXCEPT !.rejected = docs]
  PROVE  g \in Files /\ g.prepared = f.prepared /\ g.context = f.context /\ g.report = f.report
BY DEF Files

LEMMA ErrorParts ==
  ASSUME NEW f \in Files, NEW errors \in SUBSET Error, NEW g, g = [f EXCEPT !.errors = errors]
  PROVE  g \in Files /\ g.prepared = f.prepared /\ g.context = f.context /\ g.report = f.report
BY DEF Files

LEMMA SwapFiles ==
  ASSUME Typed, NEW j \in Job, NEW g \in Files, job' = [job EXCEPT ![j] = g],
         g.prepared = job[j].prepared, g.context = job[j].context, g.report = job[j].report
  PROVE  FilesKept
BY DEF Typed, FilesKept, SameOrder

LEMMA SameFiles == ASSUME Typed, job' = job PROVE FilesKept
BY DEF Typed, FilesKept, SameOrder

LEMMA RunFiles ==
  ASSUME Typed, ItemsOK, NEW w \in Worker, RunStep(w)
  PROVE  FilesKept
<1> DEFINE j == work[w].job
<1>1. ASSUME work[w].at # "idle" PROVE j \in Job /\ job[j] \in Files BY <1>1, AtWork
<1>2. work[w].at \notin {"idle", "row", "item"} => work[w].queue # <<>> BY AtWork
<1>3. ASSUME work[w].at # "idle", work[w].queue # <<>>, NEW n \in Result, Save(w, n)
      PROVE  FilesKept
  <2> DEFINE rows == [work[w].rows EXCEPT ![Current(w)] = n]
             g == [job[j] EXCEPT !.output = rows]
  <2>1. rows \in Rows /\ job' = [job EXCEPT ![j].output = rows] BY <1>3, SaveFit
  <2>2. job' = [job EXCEPT ![j] = g] BY <1>1, <1>3, <2>1 DEF Typed
  <2> HIDE DEF rows
  <2>3. g \in Files /\ g.prepared = job[j].prepared /\ g.context = job[j].context /\ g.report = job[j].report
    BY <1>1, <1>3, <2>1, OutputParts
  <2> QED BY <1>1, <1>3, <2>2, <2>3, SwapFiles
<1>4. ASSUME work[w].at # "idle", work[w].queue # <<>>, Quarantine(w)
      PROVE  FilesKept
  <2> DEFINE docs == job[j].rejected \cup {Current(w)}
             g == [job[j] EXCEPT !.rejected = docs]
  <2>1. Current(w) \in Doc /\ job[j].rejected \in SUBSET Doc BY <1>1, <1>4, AtWork DEF Files
  <2>2. docs \in SUBSET Doc BY <2>1
  <2>3. job' = [job EXCEPT ![j] = g] BY <1>1, <1>4 DEF Quarantine, Typed
  <2> HIDE DEF docs
  <2>4. g \in Files /\ g.prepared = job[j].prepared /\ g.context = job[j].context /\ g.report = job[j].report
    BY <1>1, <1>4, <2>2, RejectedParts
  <2> QED BY <1>1, <1>4, <2>3, <2>4, SwapFiles
<1>5. CASE Exchange(w)
  <2>1. work[w].at # "idle" /\ work[w].queue # <<>> BY <1>5 DEF Exchange, Asks, At
  <2> QED BY <1>3, <1>4, <1>5, <2>1, SameFiles DEF Exchange
<1>6. CASE SaveRow(w)
  <2>1. work[w].at = "accepted" /\ Save(w, work[w].result) BY <1>6 DEF SaveRow, At
  <2>2. work[w].result \in Result BY <2>1 DEF ItemsOK, Working
  <2> QED BY <1>2, <1>3, <2>1, <2>2
<1>7. CASE QuarantineRow(w)
  <2>1. work[w].at = "quarantining" /\ Quarantine(w) BY <1>7 DEF QuarantineRow, At
  <2> QED BY <1>2, <1>4, <2>1
<1>8. CASE RunReport(w)
  <2> DEFINE g == [job[j] EXCEPT !.errors = work[w].errors]
  <2>1. work[w].at # "idle" /\ work[w].errors \in SUBSET Error
    BY <1>8, MemoryParts DEF RunReport, At, Typed
  <2>2. job' = [job EXCEPT ![j] = g] BY <1>1, <1>8, <2>1 DEF RunReport, Typed
  <2>3. g \in Files /\ g.prepared = job[j].prepared /\ g.context = job[j].context /\ g.report = job[j].report
    BY <1>1, <2>1, ErrorParts
  <2> QED BY <1>1, <2>1, <2>2, <2>3, SwapFiles
<1>9. ASSUME job' = job PROVE FilesKept BY <1>9, SameFiles
<1> QED
  BY <1>5, <1>6, <1>7, <1>8, <1>9
  DEF RunStep, ReuseRow, AskProvider, RunAborts, ProviderAnswers, BeginValidation, ProviderFails,
      Accept, Reask, Reject, ClaimRejected, CloseRejected

LEMMA ReportParts ==
  ASSUME NEW f \in Files, NEW status \in {"absent", "partial", "imported"}, NEW errors \in SUBSET Error,
         NEW g, g = [f EXCEPT !.report = [status |-> status, errors |-> errors]]
  PROVE  /\ g \in Files /\ g.prepared = f.prepared /\ g.context = f.context
         /\ g.report.status = status
BY DEF Files

(* A job gets reported imported by an import that found nothing missing.   *)
Reported(j) ==
  \E w \in Worker : ImportReport(w) /\ j = work[w].job /\ work[w].errors = {} /\ ~work[w].awaits
FilesFit ==
  /\ job' \in [Job -> Files]
  /\ \A j \in Job : /\ SameOrder(j)
                    /\ job'[j].report.status = "imported" =>
                         job[j].report.status = "imported" \/ Reported(j)

LEMMA KeptFit == ASSUME FilesKept PROVE FilesFit
BY DEF FilesKept, FilesFit

LEMMA ImportFiles ==
  ASSUME Typed, ItemsOK, NEW w \in Worker, ImportStep(w)
  PROVE  FilesFit
<1>1. CASE ImportReport(w)
  <2> DEFINE j == work[w].job
             status == IF work[w].errors = {} /\ ~work[w].awaits THEN "imported" ELSE "partial"
             g == [job[j] EXCEPT !.report = [status |-> status, errors |-> work[w].errors]]
  <2>1. work[w].at # "idle" /\ work[w].errors \in SUBSET Error
    BY <1>1, MemoryParts DEF ImportReport, At, Typed
  <2>2. j \in Job /\ job[j] \in Files BY <2>1, AtWork
  <2>3. job' = [job EXCEPT ![j] = g] BY <1>1, <2>2 DEF ImportReport, Typed
  <2>4. status \in {"absent", "partial", "imported"} OBVIOUS
  <2>6. status = "imported" => Reported(j) BY <1>1 DEF Reported
  <2> HIDE DEF status
  <2>5. g \in Files /\ g.prepared = job[j].prepared /\ g.context = job[j].context
        /\ g.report.status = status
    <3> DEFINE f == job[j]
               errors == work[w].errors
    <3>1. f \in Files /\ errors \in SUBSET Error BY <2>1, <2>2
    <3> HIDE DEF f, errors
    <3>2. \A h : h = [f EXCEPT !.report = [status |-> status, errors |-> errors]] =>
            h \in Files /\ h.prepared = f.prepared /\ h.context = f.context /\ h.report.status = status
      BY <2>4, <3>1, ReportParts
    <3> QED BY <3>2 DEF f, errors
  <2> HIDE DEF g, j
  <2> QED BY <2>2, <2>3, <2>5, <2>6 DEF FilesFit, SameOrder, Typed
<1>2. ASSUME job' = job PROVE FilesFit BY <1>2, SameFiles, KeptFit
<1> QED
  BY <1>1, <1>2 DEF ImportStep, ItemMissing, ClaimItem, FinishItem, DecideCandidate, ActivateRepair

LEMMA ImportStartFiles ==
  ASSUME Typed, ItemsOK, NEW w \in Worker, NEW j \in Job, ImportStart(w, j)
  PROVE  FilesFit
<1>1. ASSUME job' = job PROVE FilesFit BY <1>1, SameFiles, KeptFit
<1>2. ASSUME job' = [job EXCEPT ![j].report = [status |-> "partial", errors |-> job[j].errors]]
      PROVE  FilesFit
  <2> DEFINE g == [job[j] EXCEPT !.report = [status |-> "partial", errors |-> job[j].errors]]
  <2>1. job[j] \in Files /\ job[j].errors \in SUBSET Error BY FilesParts DEF Typed
  <2>2. job' = [job EXCEPT ![j] = g] BY <1>2 DEF Typed
  <2>3. g \in Files /\ g.prepared = job[j].prepared /\ g.context = job[j].context
        /\ g.report.status = "partial"
    BY <2>1, ReportParts
  <2> HIDE DEF g
  <2> QED BY <2>2, <2>3 DEF FilesFit, SameOrder, Typed
<1> QED BY <1>1, <1>2, ImportStarts

(* A job made ready gets the order that goes with the store; one that was  *)
(* ready keeps its own.                                                    *)
LEMMA PrepareFiles ==
  ASSUME Typed, NEW j \in Job, NEW whole \in BOOLEAN, Prepare(j, whole)
  PROVE  /\ job' \in [Job -> Files]
         /\ \A k \in Job : /\ k # j => job'[k] = job[k]
                           /\ job[k].prepared => job'[k].prepared /\ job'[k].context = job[k].context
                           /\ job'[k].report = job[k].report
         /\ job'[j].prepared /\ job'[j].context = Context(j)
<1> DEFINE g == [job[j] EXCEPT !.prepared = TRUE, !.context = Context(j)]
<1>1. job[j] \in Files BY DEF Typed
<1>2. Context(j) \in SUBSET Run BY DEF Context, PriorRuns
<1>3. job' = [job EXCEPT ![j] = g] BY <1>1 DEF Prepare, Typed
<1>4. g \in Files /\ g.prepared = TRUE /\ g.context = Context(j) /\ g.report = job[j].report
  <2> HIDE DEF g
  <2> DEFINE c == Context(j)
  <2>1. c \in SUBSET Run BY <1>2
  <2> HIDE DEF c
  <2>2. \A h : h = [job[j] EXCEPT !.prepared = TRUE, !.context = c] =>
          h \in Files /\ h.prepared = TRUE /\ h.context = c /\ h.report = job[j].report
    BY <1>1, <2>1 DEF Files
  <2> QED BY <2>2 DEF c, g
<1>5. job[j].prepared => job[j].context = Context(j) BY DEF Prepare
<1> HIDE DEF g
<1> QED BY <1>1, <1>3, <1>4, <1>5 DEF Typed
-----------------------------------------------------------------------------
(* What a process does to the rows, the runs and its own memory.           *)

StepOf(w) ==
  \/ RunStep(w) \/ ImportStep(w) \/ Kill(w)
  \/ \E j \in Job, all \in BOOLEAN : RunStart(w, j, all)
  \/ \E j \in Job : ImportStart(w, j)

LEMMA StepMoves ==
  ASSUME Typed, ItemsOK, JobsOK, RunsOK, ImportOK, NEW w \in Worker, StepOf(w)
  PROVE  Move(w)
<1>1. CASE RunStep(w) BY <1>1, RunMoves
<1>2. CASE ImportStep(w) BY <1>2, ImportMoves
<1>3. CASE Kill(w) BY <1>3, IdleMove DEF Kill
<1>4. ASSUME NEW j \in Job, NEW all \in BOOLEAN, RunStart(w, j, all) PROVE Move(w)
  BY <1>4, StartMoves
<1>5. ASSUME NEW j \in Job, ImportStart(w, j) PROVE Move(w)
  <2>1. CASE work' = work
    <3>1. work[w].at = "idle" /\ Fit(work[w]) BY <1>5 DEF ImportStart, At, Typed, ItemsOK, Fit
    <3>2. Leads(w, work[w]) BY <3>1, PlainLeads DEF Plain
    <3>3. work' = [work EXCEPT ![w] = work[w]] BY <2>1 DEF Typed
    <3> QED BY <3>1, <3>2, <3>3 DEF Move
  <2>2. CASE \E m : /\ Fit(m) /\ work' = [work EXCEPT ![w] = m] /\ Leads(w, m)
                    /\ m.at = "item" /\ m.job = j /\ m.queue = Items[j]
    BY <2>2 DEF Move
  <2> QED BY <1>5, <2>1, <2>2, ImportStarts
<1> QED BY <1>1, <1>2, <1>3, <1>4, <1>5 DEF StepOf

LEMMA MoveParts ==
  ASSUME Typed, NEW w \in Worker, Move(w)
  PROVE  /\ work' \in [Worker -> Memory]
         /\ \A v \in Worker : v # w => work'[v] = work[v]
         /\ Fit(work'[w]) /\ Leads(w, work'[w])
<1>1. PICK m : Fit(m) /\ work' = [work EXCEPT ![w] = m] /\ Leads(w, m) BY DEF Move
<1>2. work'[w] = m /\ m \in Memory BY <1>1 DEF Typed, Fit
<1>3. work' \in [Worker -> Memory] /\ \A v \in Worker : v # w => work'[v] = work[v]
  BY <1>1, <1>2 DEF Typed
<1> QED BY <1>1, <1>2, <1>3

RowTo(w, s) == exec' = [exec EXCEPT ![work[w].job][Current(w)] = s]
RowChange(w) ==
  \/ exec' = exec /\ work'[w].at \notin Calling
  \/ /\ work[w].at # "idle" /\ work[w].queue # <<>>
     /\ \E s \in RowStatus :
          /\ RowTo(w, s)
          /\ work[w].at \in Calling \/ exec[work[w].job][Current(w)] \in {"assigned", "retry_wait"}
          /\ work'[w].at \in Calling =>
               /\ s = StatusAt(work'[w].at)
               /\ work'[w].job = work[w].job /\ work'[w].queue = work[w].queue

LEMMA GotoWhere ==
  ASSUME Typed, NEW w \in Worker, NEW at \in Places, Goto(w, at)
  PROVE  work'[w].at = at /\ work'[w].job = work[w].job /\ work'[w].queue = work[w].queue
<1>1. work[w] \in Memory BY DEF Typed
<1>2. work' = [work EXCEPT ![w] = [work[w] EXCEPT !.at = at]] BY DEF Goto, Typed
<1>3. work'[w] = [work[w] EXCEPT !.at = at] BY <1>2 DEF Typed
<1> QED BY <1>1, <1>3, GotoParts

LEMMA RowChanges ==
  ASSUME Typed, ItemsOK, JobsOK, RunsOK, ImportOK, NEW w \in Worker, StepOf(w)
  PROVE  RowChange(w)
<1>1. work'[w].at \in Calling => AskProvider(w) \/ ProviderAnswers(w) \/ BeginValidation(w) \/ Reask(w)
  BY StepMoves, MoveParts DEF Leads
<1>2. work[w].at \notin {"idle", "row", "item"} => work[w].queue # <<>> BY AtWork
<1>3. ASSUME NEW s \in RowStatus, NEW at \in Calling, Transition(w, s), Goto(w, at), s = StatusAt(at),
             work[w].at \in Calling \/ s = "running", work[w].at # "idle", work[w].queue # <<>>
      PROVE  RowChange(w)
  <2>1. at \in Places BY DEF Calling, Places
  <2>2. work'[w].at = at /\ work'[w].job = work[w].job /\ work'[w].queue = work[w].queue
    BY <1>3, <2>1, GotoWhere
  <2>3. RowTo(w, s) BY <1>3 DEF Transition, RowTo
  <2>4. s = "running" => exec[work[w].job][Current(w)] \in {"assigned", "retry_wait"}
    BY <1>3 DEF Transition, Before
  <2> QED BY <1>3, <2>2, <2>3, <2>4 DEF RowChange
<1>4. CASE AskProvider(w)
  <2>1. /\ Transition(w, "running") /\ Goto(w, "asked") /\ work[w].at # "idle" /\ work[w].queue # <<>>
    BY <1>4 DEF AskProvider, Asks, At
  <2> QED BY <1>3, <2>1 DEF StatusAt, Calling, RowStatus
<1>5. CASE ProviderAnswers(w)
  <2>1. CASE At(w, {"asked"}) /\ Transition(w, "produced") /\ Goto(w, "answered")
    BY <1>2, <1>3, <2>1 DEF StatusAt, Calling, RowStatus, At
  <2>2. CASE At(w, {"reasked"}) /\ Transition(w, "validating") /\ Goto(w, "revalidating")
    BY <1>2, <1>3, <2>2 DEF StatusAt, Calling, RowStatus, At
  <2> QED BY <1>5, <2>1, <2>2 DEF ProviderAnswers
<1>6. CASE BeginValidation(w)
  BY <1>2, <1>3, <1>6 DEF BeginValidation, StatusAt, Calling, RowStatus, At
<1>7. CASE Reask(w)
  BY <1>2, <1>3, <1>7 DEF Reask, StatusAt, Calling, RowStatus, At
<1>8. ASSUME ~AskProvider(w), ~ProviderAnswers(w), ~BeginValidation(w), ~Reask(w)
      PROVE  RowChange(w)
  <2>1. work'[w].at \notin Calling BY <1>1, <1>8
  <2>2. ASSUME exec' = exec PROVE RowChange(w) BY <2>1, <2>2 DEF RowChange
  <2>3. ASSUME NEW s \in RowStatus, Transition(w, s), work[w].at \in Calling PROVE RowChange(w)
    <3>1. RowTo(w, s) BY <2>3 DEF Transition, RowTo
    <3>2. work[w].at # "idle" /\ work[w].queue # <<>> BY <1>2, <2>3 DEF Calling
    <3> QED BY <2>1, <2>3, <3>1, <3>2 DEF RowChange
  <2>4. ASSUME NEW retry \in BOOLEAN, ProviderFails(w, retry) PROVE RowChange(w)
    BY <2>3, <2>4 DEF ProviderFails, At, Calling, RowStatus
  <2>5. ASSUME NEW n \in Result, Accept(w, n) PROVE RowChange(w)
    BY <2>3, <2>5 DEF Accept, At, Calling, RowStatus
  <2>6. CASE Reject(w) BY <2>3, <2>6 DEF Reject, At, Calling, RowStatus
  <2>7. CASE RunStep(w)
    BY <1>8, <2>2, <2>4, <2>5, <2>6, <2>7
    DEF RunStep, ReuseRow, Exchange, RunAborts, SaveRow, ClaimRejected, CloseRejected, QuarantineRow,
        RunReport, store
  <2>8. CASE ImportStep(w)
    BY <2>2, <2>8
    DEF ImportStep, ItemMissing, ClaimItem, FinishItem, DecideCandidate, ActivateRepair, ImportReport,
        store
  <2> QED BY <2>2, <2>7, <2>8 DEF StepOf, Kill, RunStart, ImportStart, store
<1> QED BY <1>4, <1>5, <1>6, <1>7, <1>8

RunTo(w, s) == run' = [run EXCEPT ![CurrentRun(w)] = s]
SameItem(w) == work'[w].job = work[w].job /\ work'[w].queue = work[w].queue
RunChange(w) ==
  /\ \/ run' = run /\ work'[w].at \notin Owning
     \/ /\ work[w].at # "idle" /\ work[w].queue # <<>>
        /\ \/ /\ run[CurrentRun(w)] = "absent" /\ RunTo(w, "running")
              /\ work'[w].at \in Owning /\ SameItem(w)
           \/ /\ work[w].at \in Owning /\ \E s \in Read \cup Failures : RunTo(w, s)
              /\ work'[w].at \notin Owning
  /\ work'[w].at = "deciding" => SameItem(w) /\ run'[CurrentRun(w)] = "succeeded"

LEMMA ImportWhere ==
  ASSUME Typed, NEW w \in Worker, NEW S, ImportMove(w, S)
  PROVE  /\ work'[w].at \in S
         /\ work'[w].at \in {"claimed", "deciding"} => SameItem(w)
<1>1. PICK m : Fit(m) /\ work' = [work EXCEPT ![w] = m] /\ m.at \in S /\ Fares(w, m)
  BY DEF ImportMove
<1>2. work'[w] = m BY <1>1 DEF Typed
<1> QED BY <1>1, <1>2 DEF Fares, SameItem

LEMMA RunChanges ==
  ASSUME Typed, ItemsOK, JobsOK, RunsOK, ImportOK, NEW w \in Worker, StepOf(w)
  PROVE  RunChange(w)
<1>1. Leads(w, work'[w]) BY StepMoves, MoveParts
<1>2. work[w].at \notin {"idle", "row", "item"} => work[w].queue # <<>> BY AtWork
<1>3. CASE ClaimRejected(w)
  <2>1. work[w].at # "idle" /\ work[w].queue # <<>> BY <1>2, <1>3 DEF ClaimRejected, At
  <2>2. CASE Claimable(CurrentRun(w))
    <3>1. Goto(w, "closing") /\ RunTo(w, "running") /\ run[CurrentRun(w)] = "absent"
      BY <1>3, <2>2 DEF ClaimRejected, Claimable, RunTo
    <3>2. work'[w].at = "closing" /\ SameItem(w) BY <3>1, GotoWhere DEF Places, SameItem
    <3> QED BY <2>1, <3>1, <3>2 DEF RunChange, Owning
  <2>3. CASE ~Claimable(CurrentRun(w))
    <3>1. Goto(w, "quarantining") /\ run' = run BY <1>3, <2>3 DEF ClaimRejected
    <3>2. work'[w].at = "quarantining" BY <3>1, GotoWhere DEF Places
    <3> QED BY <3>1, <3>2 DEF RunChange, Owning
  <2> QED BY <2>2, <2>3
<1>4. CASE CloseRejected(w)
  <2>1. work[w].at = "closing" /\ work[w].queue # <<>> BY <1>2, <1>4 DEF CloseRejected, At
  <2>2. RunTo(w, "preflight_terminal") /\ Goto(w, "quarantining") BY <1>4 DEF CloseRejected, RunTo
  <2>3. work'[w].at = "quarantining" BY <2>2, GotoWhere DEF Places
  <2> QED BY <2>1, <2>2, <2>3 DEF RunChange, Owning, Failures
<1>5. CASE ClaimItem(w)
  <2>1. work[w].at # "idle" /\ work[w].queue # <<>> BY <1>5 DEF ClaimItem, At
  <2>2. CASE Claimable(CurrentRun(w))
    <3>1. Goto(w, "claimed") /\ RunTo(w, "running") /\ run[CurrentRun(w)] = "absent"
      BY <1>5, <2>2 DEF ClaimItem, Claimable, RunTo
    <3>2. work'[w].at = "claimed" /\ SameItem(w) BY <3>1, GotoWhere DEF Places, SameItem
    <3> QED BY <2>1, <3>1, <3>2 DEF RunChange, Owning
  <2>3. CASE ~Claimable(CurrentRun(w))
    <3>1. work' = Reuse(w) /\ run' = run /\ job' = job /\ cand' = cand
      BY <1>5, <2>3 DEF ClaimItem
    <3>2. ImportMove(w, Onward) BY <2>1, <3>1, ReuseMove
    <3>3. work'[w].at \in Onward BY <3>2, ImportWhere
    <3> QED BY <3>1, <3>3 DEF RunChange, Owning, Onward
  <2> QED BY <2>2, <2>3
<1>6. ASSUME NEW s \in Read \cup {"failed_terminal"}, FinishItem(w, s) PROVE RunChange(w)
  <2>1. /\ work[w].at = "claimed" /\ work[w].queue # <<>> /\ RunTo(w, s) /\ job' = job
    BY <1>2, <1>6 DEF FinishItem, At, RunTo
  <2>2. ImportMove(w, Onward \cup {"deciding"}) BY <1>6, FinishMove
  <2>3. work'[w].at \in Onward \cup {"deciding"} /\ (work'[w].at = "deciding" => SameItem(w))
    BY <2>2, ImportWhere
  <2>4. CurrentRun(w) \in Run /\ run'[CurrentRun(w)] = s BY <2>1, AtWork DEF RunTo, Typed
  <2>5. ASSUME work'[w].at = "deciding" PROVE s = "succeeded"
    <3>1. work' # Standing(w)
      <4> SUFFICES ASSUME work' = Standing(w) PROVE FALSE OBVIOUS
      <4>1. PICK m : /\ Fit(m) /\ Standing(w) = [work EXCEPT ![w] = m]
                     /\ m.at \in {"activating", "item"}
        BY <2>1, StandingFit
      <4>2. work'[w] = m BY <4>1 DEF Typed
      <4> QED BY <2>5, <4>1, <4>2
    <3>2. work' # Complain(w)
      <4> SUFFICES ASSUME work' = Complain(w) PROVE FALSE OBVIOUS
      <4>1. PICK m : Fit(m) /\ Complain(w) = [work EXCEPT ![w] = m] /\ m.at = "item"
        BY <2>1, ComplainFit
      <4>2. work'[w] = m BY <4>1 DEF Typed
      <4> QED BY <2>5, <4>1, <4>2
    <3> QED BY <1>6, <3>1, <3>2 DEF FinishItem
  <2>6. s \in Read \cup Failures BY DEF Failures
  <2>7. work'[w].at \notin Owning BY <2>3 DEF Onward, Owning
  <2> QED BY <2>1, <2>3, <2>4, <2>5, <2>6, <2>7 DEF RunChange, Owning
<1>7. ASSUME NEW c \in Decision, DecideCandidate(w, c) PROVE RunChange(w)
  <2>1. run' = run /\ work[w].at = "deciding" BY <1>7 DEF DecideCandidate, At
  <2>2. ImportMove(w, Onward \cup {"deciding"}) BY <1>7, DecideMove
  <2>3. work'[w].at \in Onward \cup {"deciding"} /\ (work'[w].at = "deciding" => SameItem(w))
    BY <2>2, ImportWhere
  <2>4. run[CurrentRun(w)] = "succeeded" BY <2>1 DEF RunsOK
  <2>5. work'[w].at \notin Owning BY <2>3 DEF Onward, Owning
  <2> QED BY <2>1, <2>3, <2>4, <2>5 DEF RunChange
<1>8. ASSUME run' = run, ~ClaimRejected(w), ~ClaimItem(w),
             ~ \E s \in Read \cup {"failed_terminal"} : FinishItem(w, s),
             ~ \E c \in Decision : DecideCandidate(w, c)
      PROVE  RunChange(w)
  BY <1>1, <1>8 DEF Leads, RunChange, Owning
<1>9. CASE RunStep(w)
  <2>1. ClaimRejected(w) \/ CloseRejected(w) \/ run' = run
    BY <1>9
    DEF RunStep, ReuseRow, Exchange, AskProvider, RunAborts, ProviderAnswers, ProviderFails,
        BeginValidation, Accept, SaveRow, Reask, Reject, QuarantineRow, RunReport, store
  <2> QED BY <1>3, <1>4, <1>5, <1>6, <1>7, <1>8, <2>1
<1>10. CASE ImportStep(w)
  <2>1. \/ ClaimItem(w) \/ \E s \in Read \cup {"failed_terminal"} : FinishItem(w, s)
        \/ \E c \in Decision : DecideCandidate(w, c)
        \/ run' = run
    BY <1>10 DEF ImportStep, ItemMissing, ActivateRepair, ImportReport, store
  <2> QED BY <1>3, <1>5, <1>6, <1>7, <1>8, <2>1
<1> QED
  BY <1>3, <1>5, <1>6, <1>7, <1>8, <1>9, <1>10 DEF StepOf, Kill, RunStart, ImportStart, store

(* A finished run and the decisions about its candidates stay, and so does *)
(* the word on what a repair replaces.                                     *)
Final ==
  \A r \in Run : /\ run[r] \in Read \cup Failures => run'[r] = run[r]
                 /\ IsPrefix(cand[r], cand'[r]) /\ ToSet(cand[r]) \subseteq ToSet(cand'[r])
                 /\ cand'[r] # <<>> => cand[r] # <<>> \/ run[r] = "succeeded"
ReplKept == \A k \in Repairs, x \in Run : repl[k][x] # "none" => repl'[k][x] # "none"

LEMMA SamePrefix == ASSUME Typed, NEW r \in Run PROVE IsPrefix(cand[r], cand[r])
<1>1. cand[r] \in Seq(Decision) BY DEF Typed
<1>2. "canonical" \in Decision BY DEF Decision
<1> QED BY <1>1, <1>2, AppendParts

LEMMA RunFinal ==
  ASSUME Typed, ItemsOK, RunsOK, NEW w \in Worker, RunChange(w)
  PROVE  /\ run' \in [Run -> Read \cup Failures \cup {"absent", "running"}]
         /\ \A r \in Run : /\ run[r] \in Read \cup Failures => run'[r] = run[r]
                           /\ run[r] = "running" => run'[r] # "absent"
<1>1. run \in [Run -> Read \cup Failures \cup {"absent", "running"}] BY DEF Typed
<1>2. "absent" \notin Read \cup Failures /\ "running" \notin Read \cup Failures BY DEF Read, Failures
<1>3. CASE run' = run BY <1>1, <1>2, <1>3
<1>4. ASSUME work[w].at # "idle", work[w].queue # <<>>, run[CurrentRun(w)] = "absent", RunTo(w, "running")
      PROVE  /\ run' \in [Run -> Read \cup Failures \cup {"absent", "running"}]
             /\ \A r \in Run : /\ run[r] \in Read \cup Failures => run'[r] = run[r]
                               /\ run[r] = "running" => run'[r] # "absent"
  <2>1. CurrentRun(w) \in Run BY <1>4, AtWork
  <2> QED BY <1>1, <1>2, <1>4, <2>1 DEF RunTo
<1>5. ASSUME work[w].at # "idle", work[w].queue # <<>>, work[w].at \in Owning,
             NEW s \in Read \cup Failures, RunTo(w, s)
      PROVE  /\ run' \in [Run -> Read \cup Failures \cup {"absent", "running"}]
             /\ \A r \in Run : /\ run[r] \in Read \cup Failures => run'[r] = run[r]
                               /\ run[r] = "running" => run'[r] # "absent"
  <2>1. CurrentRun(w) \in Run BY <1>5, AtWork
  <2>2. run[CurrentRun(w)] = "running" BY <1>5 DEF RunsOK
  <2> QED BY <1>1, <1>2, <1>5, <2>1, <2>2 DEF RunTo
<1> QED BY <1>3, <1>4, <1>5 DEF RunChange

LEMMA CandFinal ==
  ASSUME Typed, ItemsOK, RunsOK, NEW w \in Worker, StepOf(w)
  PROVE  /\ cand' \in [Run -> Seq(Decision)]
         /\ \A r \in Run :
              /\ IsPrefix(cand[r], cand'[r]) /\ ToSet(cand[r]) \subseteq ToSet(cand'[r])
              /\ cand'[r] # <<>> => cand[r] # <<>> \/ run[r] = "succeeded"
<1>1. CASE cand' = cand BY <1>1, SamePrefix DEF Typed
<1>2. ASSUME NEW c \in Decision, DecideCandidate(w, c)
      PROVE  /\ cand' \in [Run -> Seq(Decision)]
             /\ \A r \in Run :
                  /\ IsPrefix(cand[r], cand'[r]) /\ ToSet(cand[r]) \subseteq ToSet(cand'[r])
                  /\ cand'[r] # <<>> => cand[r] # <<>> \/ run[r] = "succeeded"
  <2> DEFINE q == CurrentRun(w)
             all == Append(cand[q], c)
  <2>1. work[w].at = "deciding" /\ cand' = [cand EXCEPT ![q] = all]
    BY <1>2 DEF DecideCandidate, At
  <2>2. q \in Run /\ run[q] = "succeeded"
    <3>1. work[w].queue # <<>> BY <2>1, AtWork
    <3> QED BY <2>1, <3>1, AtWork DEF RunsOK
  <2>3. cand[q] \in Seq(Decision) BY <2>2 DEF Typed
  <2>4. all \in Seq(Decision) /\ IsPrefix(cand[q], all) /\ ToSet(cand[q]) \subseteq ToSet(all)
    BY <2>3, AppendParts
  <2> HIDE DEF q, all
  <2>5. cand' \in [Run -> Seq(Decision)] BY <2>1, <2>2, <2>4 DEF Typed
  <2>6. ASSUME NEW r \in Run, r # q
        PROVE  cand'[r] = cand[r]
    BY <2>1, <2>6 DEF Typed
  <2>7. cand'[q] = all BY <2>1, <2>2 DEF Typed
  <2> QED BY <2>2, <2>4, <2>5, <2>6, <2>7, SamePrefix
<1>3. CASE RunStep(w)
  BY <1>1, <1>3
  DEF RunStep, ReuseRow, Exchange, AskProvider, RunAborts, ProviderAnswers, ProviderFails,
      BeginValidation, Accept, SaveRow, Reask, Reject, ClaimRejected, CloseRejected, QuarantineRow,
      RunReport, store
<1>4. CASE ImportStep(w)
  BY <1>1, <1>2, <1>4
  DEF ImportStep, ItemMissing, ClaimItem, FinishItem, ActivateRepair, ImportReport, store
<1> QED BY <1>1, <1>3, <1>4 DEF StepOf, Kill, RunStart, ImportStart, store

LEMMA ReplFinal ==
  ASSUME Typed, ItemsOK, NEW w \in Worker, StepOf(w)
  PROVE  repl' \in [Repairs -> [Run -> {"none", "active", "rolled_back"}]] /\ ReplKept
<1>1. CASE repl' = repl BY <1>1 DEF Typed, ReplKept
<1>2. CASE ActivateRepair(w)
  <2> DEFINE k == work[w].job
             f == [x \in Run |-> IF x \notin Priors(w) THEN repl[k][x]
                                 ELSE IF x \in Conflicts(w) THEN "rolled_back" ELSE "active"]
  <2>1. repl' = [repl EXCEPT ![k] = f]
    <3>1. k \in Job /\ repl \in [Repairs -> [Run -> {"none", "active", "rolled_back"}]]
      BY <1>2, AtWork DEF ActivateRepair, At, Typed
    <3>2. CASE k \in Repairs BY <1>2, <3>1, <3>2 DEF ActivateRepair
    <3>3. CASE k \notin Repairs
      <4>1. repl' = repl BY <1>2, <3>1, <3>3 DEF ActivateRepair
      <4>2. [repl EXCEPT ![k] = f] = repl BY <3>1, <3>3
      <4> QED BY <4>1, <4>2
    <3> QED BY <3>2, <3>3
  <2>2. ASSUME k \in Repairs
        PROVE  /\ f \in [Run -> {"none", "active", "rolled_back"}]
               /\ \A x \in Run : repl[k][x] # "none" => f[x] # "none"
    BY <2>2 DEF Typed
  <2> HIDE DEF f
  <2> QED BY <2>1, <2>2 DEF Typed, ReplKept
<1>3. CASE RunStep(w)
  BY <1>1, <1>3
  DEF RunStep, ReuseRow, Exchange, AskProvider, RunAborts, ProviderAnswers, ProviderFails,
      BeginValidation, Accept, SaveRow, Reask, Reject, ClaimRejected, CloseRejected, QuarantineRow,
      RunReport, store
<1>4. CASE ImportStep(w)
  BY <1>1, <1>2, <1>4
  DEF ImportStep, ItemMissing, ClaimItem, FinishItem, DecideCandidate, ImportReport, store
<1> QED BY <1>1, <1>3, <1>4 DEF StepOf, Kill, RunStart, ImportStart, store

LEMMA RowsTyped ==
  ASSUME Typed, ItemsOK, NEW w \in Worker, RowChange(w)
  PROVE  exec' \in [Job -> [Doc -> RowStatus \cup {"absent"}]]
<1>1. CASE exec' = exec BY <1>1 DEF Typed
<1>2. ASSUME work[w].at # "idle", work[w].queue # <<>>, NEW s \in RowStatus, RowTo(w, s)
      PROVE  exec' \in [Job -> [Doc -> RowStatus \cup {"absent"}]]
  BY <1>2 DEF Typed, RowTo
<1> QED BY <1>1, <1>2 DEF RowChange

LEMMA StepFiles ==
  ASSUME Typed, ItemsOK, NEW w \in Worker, StepOf(w)
  PROVE  FilesFit
<1>1. CASE job' = job BY <1>1, SameFiles, KeptFit
<1> QED
  BY <1>1, RunFiles, KeptFit, ImportFiles, ImportStartFiles DEF StepOf, Kill, RunStart
-----------------------------------------------------------------------------
(* The inductive invariant.                                                *)

(* The order a prepared job was made for.                                  *)
OrdersKept ==
  \A j \in Job : job[j].prepared => job'[j].prepared /\ job'[j].context = job[j].context

LEMMA WellStays ==
  ASSUME Final, NEW r \in Run, ReadWell(r)
  PROVE  ReadWellThen(r)
BY DEF Final, ReadWell, ReadWellThen, Read

LEMMA SettledStays ==
  ASSUME Typed, JobsOK, Final, ReplKept, OrdersKept, NEW j \in Job, NEW d \in ToSet(Items[j]),
         job[j].prepared, Settled(j, d)
  PROVE  SettledThen(j, d)
<1>1. RunOf(j, d) \in Run BY JobParts
<1>2. ReadWellThen(RunOf(j, d)) BY <1>1, WellStays DEF Settled
<1>3. ASSUME NEW x \in job'[j].context, x.doc = d PROVE repl'[j][x] # "none"
  <2>1. x \in job[j].context BY <1>3 DEF OrdersKept
  <2>2. j \in Repairs /\ x \in Run BY <2>1 DEF JobsOK
  <2>3. repl[j][x] # "none" BY <1>3, <2>1 DEF Settled
  <2> QED BY <2>2, <2>3 DEF ReplKept
<1> QED BY <1>2, <1>3 DEF SettledThen

LEMMA InitParts ==
  ASSUME NEW past \in {{}, Past}, NEW ready \in SUBSET Repairs, NEW n \in Result, NEW m \in Result,
         InitAfter(past, ready, n, m)
  PROVE  IInv
<1> DEFINE done == {RunOf(j, d) : j \in past, d \in Doc} \cap Run
           read(r) == IF r \notin done THEN "absent" ELSE IF n = 0 THEN "no_event" ELSE "succeeded"
           all == [i \in 1..n |-> "canonical"]
           rows(j) == CASE j \in past -> n [] j \in ready -> m [] OTHER -> None
           prior(j) == {r \in done : r.doc \in ToSet(Items[j]) /\ r.prompt # Prompt[j]}
           reported(j) == [status |-> IF j \in past THEN "imported" ELSE "absent", errors |-> {}]
           output(j) == [d \in Doc |-> IF d \in ToSet(Items[j]) THEN rows(j) ELSE None]
           files(j) == [prepared |-> j \in past \cup ready,
                        context |-> IF j \in ready THEN prior(j) ELSE {},
                        output |-> output(j), rejected |-> {}, errors |-> {}, report |-> reported(j)]
<1>1. /\ exec = [j \in Job |-> [d \in Doc |->
                  IF j \in past \cap Bound /\ d \in ToSet(Items[j]) THEN "accepted" ELSE "absent"]]
      /\ run = [r \in Run |-> read(r)]
      /\ cand = [r \in Run |-> IF r \in done THEN all ELSE <<>>]
      /\ repl = [k \in Repairs |-> [r \in Run |-> "none"]]
      /\ job = [j \in Job |-> files(j)]
      /\ work = [w \in Worker |-> Idle]
  BY DEF InitAfter
<1>2. n \in Nat /\ past \subseteq Job \ Repairs /\ ready \subseteq Repairs /\ Repairs \subseteq Job
  BY SemanticAssumption
<1>3. all \in Seq(Decision) /\ (all # <<>> => n # 0) /\ (n # 0 => "canonical" \in ToSet(all))
  <2>1. all \in Seq(Decision) BY <1>2 DEF Decision
  <2>2. n = 0 => all = <<>> OBVIOUS
  <2>3. ASSUME n # 0 PROVE "canonical" \in ToSet(all)
    <3>1. 1 \in DOMAIN all /\ all[1] = "canonical" BY <1>2, <2>3
    <3> HIDE DEF all
    <3> QED BY <3>1 DEF ToSet
  <2> QED BY <2>1, <2>2, <2>3
<1>4. \A j \in Job : rows(j) \in Result \cup {None} OBVIOUS
<1>5. \A j \in Job : output(j) \in Rows BY <1>4 DEF Rows
<1>6. \A j \in Job : prior(j) \in SUBSET Run /\ \A r \in prior(j) : r \in done /\ r.doc \in ToSet(Items[j])
  OBVIOUS
<1>7. \A r \in Run : /\ read(r) \in Read \cup Failures \cup {"absent", "running"}
                     /\ r \in done => read(r) \in Read
                     /\ r \in done /\ n # 0 => read(r) = "succeeded"
                     /\ r \in done /\ n = 0 => read(r) = "no_event"
  BY DEF Read
<1>8. \A j \in past : \A d \in ToSet(Items[j]) : RunOf(j, d) \in done
  <2> SUFFICES ASSUME NEW j \in past, NEW d \in ToSet(Items[j]) PROVE RunOf(j, d) \in done
    OBVIOUS
  <2>1. j \in Job BY <1>2
  <2>2. d \in Doc /\ RunOf(j, d) \in Run BY <2>1, JobParts
  <2> QED BY <2>2
<1>9. \A j \in Job : reported(j) \in [status : {"absent", "partial", "imported"}, errors : SUBSET Error]
  OBVIOUS
<1> HIDE DEF done, read, all, rows, prior, output, reported
<1>10. job \in [Job -> Files] BY <1>1, <1>5, <1>6, <1>9 DEF Files
<1>11. Typed
  <2>1. exec \in [Job -> [Doc -> RowStatus \cup {"absent"}]] BY <1>1 DEF RowStatus
  <2>2. run \in [Run -> Read \cup Failures \cup {"absent", "running"}] BY <1>1, <1>7
  <2>3. cand \in [Run -> Seq(Decision)] BY <1>1, <1>3
  <2>4. repl \in [Repairs -> [Run -> {"none", "active", "rolled_back"}]] BY <1>1
  <2>5. work \in [Worker -> Memory] BY <1>1, IdleParts
  <2> QED BY <1>10, <2>1, <2>2, <2>3, <2>4, <2>5 DEF Typed
<1>12. \A w \in Worker : work[w].at = "idle" BY <1>1, IdleParts
<1>13. \A r \in Run : /\ cand[r] # <<>> => r \in done /\ n # 0
                      /\ r \in done => cand[r] = all
                      /\ run[r] = read(r)
  BY <1>1, <1>3
<1>14. \A j \in Job : /\ job[j].context = IF j \in ready THEN prior(j) ELSE {}
                      /\ job[j].prepared <=> j \in past \cup ready
                      /\ job[j].report.status = "imported" <=> j \in past
  BY <1>1 DEF reported
<1>15. JobsOK
  <2> SUFFICES ASSUME NEW j \in Job
               PROVE  /\ job[j].context \subseteq {r \in Run : run[r] \in Read /\ r.doc \in ToSet(Items[j])}
                      /\ j \notin Repairs => job[j].context = {}
                      /\ ~job[j].prepared => job[j].report.status # "imported"
    BY DEF JobsOK
  <2> QED BY <1>2, <1>6, <1>7, <1>13, <1>14
<1>16. RunsOK
  <2>1. \A r \in Run : cand[r] # <<>> => run[r] = "succeeded" BY <1>7, <1>13
  <2> QED BY <1>12, <2>1 DEF RunsOK, Owning
<1>17. CallsOK BY <1>12 DEF CallsOK, Calling
<1>18. ItemsOK BY <1>12 DEF ItemsOK, Working
<1>19. ImportOK
  <2>1. ASSUME NEW j \in Job, job[j].report.status = "imported", NEW d \in ToSet(Items[j])
        PROVE  Settled(j, d)
    <3>1. j \in past /\ job[j].context = {} BY <1>2, <1>14, <2>1
    <3>2. RunOf(j, d) \in done /\ RunOf(j, d) \in Run BY <1>8, <2>1, <3>1, JobParts
    <3>3. run[RunOf(j, d)] \in Read BY <1>7, <1>13, <3>2
    <3>4. run[RunOf(j, d)] = "succeeded" => n # 0 BY <1>7, <1>13, <3>2
    <3>5. cand[RunOf(j, d)] = all BY <1>13, <3>2
    <3> QED BY <1>3, <3>1, <3>3, <3>4, <3>5 DEF Settled, ReadWell
  <2> QED BY <1>12, <2>1 DEF ImportOK, Importing
<1> QED BY <1>11, <1>15, <1>16, <1>17, <1>18, <1>19 DEF IInv

LEMMA InitIInv == Init => IInv
<1> SUFFICES ASSUME Init PROVE IInv OBVIOUS
<1>1. PICK past \in {{}, Past}, ready \in SUBSET Repairs, n \in Result, m \in Result :
        InitAfter(past, ready, n, m)
  BY DEF Init
<1> QED BY <1>1, InitParts

LEMMA StepTyped ==
  ASSUME IInv, NEW w \in Worker, StepOf(w)
  PROVE  Typed' /\ Final /\ ReplKept /\ OrdersKept /\ FilesFit
<1>1. Typed /\ ItemsOK /\ RunsOK /\ JobsOK /\ ImportOK BY DEF IInv
<1>2. work' \in [Worker -> Memory] BY <1>1, StepMoves, MoveParts
<1>3. exec' \in [Job -> [Doc -> RowStatus \cup {"absent"}]] BY <1>1, RowChanges, RowsTyped
<1>4. /\ run' \in [Run -> Read \cup Failures \cup {"absent", "running"}]
      /\ \A r \in Run : run[r] \in Read \cup Failures => run'[r] = run[r]
  BY <1>1, RunChanges, RunFinal
<1>5. /\ cand' \in [Run -> Seq(Decision)]
      /\ \A r \in Run : /\ IsPrefix(cand[r], cand'[r]) /\ ToSet(cand[r]) \subseteq ToSet(cand'[r])
                        /\ cand'[r] # <<>> => cand[r] # <<>> \/ run[r] = "succeeded"
  BY <1>1, CandFinal
<1>6. repl' \in [Repairs -> [Run -> {"none", "active", "rolled_back"}]] /\ ReplKept
  BY <1>1, ReplFinal
<1>7. FilesFit BY <1>1, StepFiles
<1>8. job' \in [Job -> Files] /\ OrdersKept BY <1>7 DEF FilesFit, SameOrder, OrdersKept
<1> QED BY <1>2, <1>3, <1>4, <1>5, <1>6, <1>7, <1>8 DEF Typed, Final

LEMMA StepItems ==
  ASSUME IInv, NEW w \in Worker, StepOf(w)
  PROVE  ItemsOK'
<1>1. Typed /\ ItemsOK /\ RunsOK /\ JobsOK /\ ImportOK BY DEF IInv
<1>2. Fit(work'[w]) /\ \A v \in Worker : v # w => work'[v] = work[v]
  BY <1>1, StepMoves, MoveParts
<1>3. OrdersKept BY StepTyped
<1>4. ASSUME NEW m, Working(m)
      PROVE  m.at # "idle" =>
               /\ m.job \in Job /\ job'[m.job].prepared
               /\ m.rows \in Rows
               /\ ToSet(m.queue) \subseteq ToSet(Items[m.job])
               /\ m.at \notin {"row", "item"} => m.queue # <<>>
               /\ m.at = "accepted" => m.result \in Result
               /\ m.at = "claimed" => m.rows[Head(m.queue)] \in Result
  BY <1>3, <1>4 DEF Working, OrdersKept
<1>5. ASSUME NEW v \in Worker PROVE Working(work'[v])
  BY <1>1, <1>2 DEF ItemsOK, Fit
<1> QED BY <1>4, <1>5 DEF ItemsOK, Working

LEMMA StepRuns ==
  ASSUME IInv, NEW w \in Worker, StepOf(w)
  PROVE  RunsOK'
<1>1. Typed /\ ItemsOK /\ RunsOK /\ JobsOK /\ ImportOK BY DEF IInv
<1>2. \A v \in Worker : v # w => work'[v] = work[v] BY <1>1, StepMoves, MoveParts
<1>3. RunChange(w) /\ Final /\ Typed' BY <1>1, RunChanges, StepTyped
<1>4. "succeeded" \in Read \cup Failures BY DEF Read
<1> DEFINE Of(m) == RunOf(m.job, Head(m.queue))
<1>5. \A v \in Worker : CurrentRun(v) = Of(work[v]) BY DEF CurrentRun, Current
<1>6. \A v \in Worker : v # w /\ work[v].at \in Owning \cup {"deciding"} => CurrentRun(v) \in Run
  BY <1>1, AtWork DEF Owning
<1>7. \A r \in Run : cand'[r] # <<>> => run'[r] = "succeeded"
  BY <1>1, <1>3, <1>4 DEF Final, RunsOK
(* The others keep their runs.                                             *)
<1>8. ASSUME NEW v \in Worker, v # w, work[v].at \in Owning
      PROVE  run'[CurrentRun(v)] = "running" /\ (work'[w].at \in Owning => Of(work'[w]) # CurrentRun(v))
  <2>1. run[CurrentRun(v)] = "running" /\ CurrentRun(v) \in Run
    BY <1>1, <1>6, <1>8 DEF RunsOK
  <2>2. CASE run' = run /\ work'[w].at \notin Owning BY <2>1, <2>2
  <2>3. CASE /\ work[w].at # "idle" /\ work[w].queue # <<>> /\ run[CurrentRun(w)] = "absent"
             /\ RunTo(w, "running") /\ work'[w].at \in Owning /\ SameItem(w)
    <3>1. CurrentRun(w) # CurrentRun(v) BY <2>1, <2>3
    <3>2. Of(work'[w]) = CurrentRun(w) BY <2>3 DEF SameItem, CurrentRun, Current
    <3>3. run'[CurrentRun(v)] = run[CurrentRun(v)] BY <1>1, <2>1, <2>3, <3>1 DEF RunTo, Typed
    <3> QED BY <2>1, <3>1, <3>2, <3>3
  <2>4. ASSUME work[w].at \in Owning, NEW s \in Read \cup Failures, RunTo(w, s), work'[w].at \notin Owning
        PROVE  run'[CurrentRun(v)] = "running" /\ (work'[w].at \in Owning => Of(work'[w]) # CurrentRun(v))
    <3>1. CurrentRun(w) # CurrentRun(v) BY <1>1, <1>8, <2>4 DEF RunsOK
    <3>3. run'[CurrentRun(v)] = run[CurrentRun(v)] BY <1>1, <2>1, <2>4, <3>1 DEF RunTo, Typed
    <3> QED BY <2>1, <2>4, <3>3
  <2> QED BY <1>3, <2>2, <2>3, <2>4 DEF RunChange
<1>9. work'[w].at \in Owning => run'[Of(work'[w])] = "running"
  <2> SUFFICES ASSUME work'[w].at \in Owning PROVE run'[Of(work'[w])] = "running" OBVIOUS
  <2>1. /\ work[w].at # "idle" /\ work[w].queue # <<>> /\ RunTo(w, "running") /\ SameItem(w)
    BY <1>3 DEF RunChange
  <2>2. Of(work'[w]) = CurrentRun(w) BY <2>1 DEF SameItem, CurrentRun, Current
  <2>3. CurrentRun(w) \in Run BY <1>1, <2>1, AtWork
  <2> QED BY <1>1, <2>1, <2>2, <2>3 DEF RunTo, Typed
<1>10. work'[w].at = "deciding" => run'[Of(work'[w])] = "succeeded"
  BY <1>3 DEF RunChange, SameItem, CurrentRun, Current
<1>11. ASSUME NEW v \in Worker, v # w, work[v].at = "deciding"
       PROVE  run'[CurrentRun(v)] = "succeeded"
  BY <1>1, <1>3, <1>4, <1>6, <1>11 DEF RunsOK, Final
<1>12. \A v \in Worker : /\ work'[v].at \in Owning => run'[Of(work'[v])] = "running"
                         /\ work'[v].at = "deciding" => run'[Of(work'[v])] = "succeeded"
  <2> SUFFICES ASSUME NEW v \in Worker
               PROVE  /\ work'[v].at \in Owning => run'[Of(work'[v])] = "running"
                      /\ work'[v].at = "deciding" => run'[Of(work'[v])] = "succeeded"
    OBVIOUS
  <2>1. CASE v = w BY <1>9, <1>10, <2>1
  <2>2. CASE v # w BY <1>2, <1>5, <1>8, <1>11, <2>2
  <2> QED BY <2>1, <2>2
<1>13. \A u, v \in Worker : u # v /\ work'[u].at \in Owning /\ work'[v].at \in Owning
                              => Of(work'[u]) # Of(work'[v])
  <2> SUFFICES ASSUME NEW u \in Worker, NEW v \in Worker, u # v,
                      work'[u].at \in Owning, work'[v].at \in Owning
               PROVE  Of(work'[u]) # Of(work'[v])
    OBVIOUS
  <2>1. CASE u = w BY <1>2, <1>5, <1>8, <2>1
  <2>2. CASE v = w BY <1>2, <1>5, <1>8, <2>2
  <2>3. CASE u # w /\ v # w
    <3>1. CurrentRun(u) # CurrentRun(v) BY <1>1, <1>2, <2>3 DEF RunsOK
    <3> QED BY <1>2, <1>5, <2>3, <3>1
  <2> QED BY <2>1, <2>2, <2>3
<1> QED BY <1>7, <1>12, <1>13 DEF RunsOK, CurrentRun, Current

LEMMA StepCalls ==
  ASSUME IInv, NEW w \in Worker, StepOf(w)
  PROVE  CallsOK'
<1>1. Typed /\ ItemsOK /\ RunsOK /\ JobsOK /\ ImportOK /\ CallsOK BY DEF IInv
<1>2. \A v \in Worker : v # w => work'[v] = work[v] BY <1>1, StepMoves, MoveParts
<1>3. RowChange(w) BY <1>1, RowChanges
<1> DEFINE Row(m) == <<m.job, Head(m.queue)>>
           Status(e, m) == e[m.job][Head(m.queue)]
<1>4. \A v \in Worker : v # w /\ work[v].at \in Calling =>
        /\ work[v].job \in Job /\ Head(work[v].queue) \in Doc
        /\ Status(exec, work[v]) = StatusAt(work[v].at)
        /\ Status(exec, work[v]) \notin {"assigned", "retry_wait"}
  <2>1. \A at : StatusAt(at) \notin {"assigned", "retry_wait"} BY DEF StatusAt
  <2>2. \A v \in Worker : work[v].at \in Calling => work[v].at # "idle" /\ work[v].queue # <<>>
    BY <1>1, AtWork DEF Calling
  <2> QED BY <1>1, <2>1, <2>2, AtWork DEF CallsOK, Current
<1>5. CASE exec' = exec /\ work'[w].at \notin Calling
  BY <1>1, <1>2, <1>5 DEF CallsOK, Current
<1>6. ASSUME work[w].at # "idle", work[w].queue # <<>>, NEW s \in RowStatus, RowTo(w, s),
             work[w].at \in Calling \/ Status(exec, work[w]) \in {"assigned", "retry_wait"},
             work'[w].at \in Calling =>
               s = StatusAt(work'[w].at) /\ work'[w].job = work[w].job /\ work'[w].queue = work[w].queue
      PROVE  CallsOK'
  <2>1. work[w].job \in Job /\ Head(work[w].queue) \in Doc BY <1>1, <1>6, AtWork DEF Current
  <2>2. ASSUME NEW v \in Worker, v # w, work[v].at \in Calling
        PROVE  Row(work[v]) # Row(work[w])
    <3>1. CASE work[w].at \in Calling BY <1>1, <2>2, <3>1 DEF CallsOK, Current
    <3>2. CASE Status(exec, work[w]) \in {"assigned", "retry_wait"} BY <1>4, <2>2, <3>2
    <3> QED BY <1>6, <3>1, <3>2
  <2>3. ASSUME NEW v \in Worker, v # w, work[v].at \in Calling
        PROVE  Status(exec', work[v]) = StatusAt(work[v].at)
    <3>1. work[v].job # work[w].job \/ Head(work[v].queue) # Head(work[w].queue) BY <2>2, <2>3
    <3>2. Status(exec', work[v]) = Status(exec, work[v])
      BY <1>1, <1>4, <1>6, <2>1, <2>3, <3>1 DEF RowTo, Current, Typed
    <3> QED BY <1>4, <2>3, <3>2
  <2>4. Status(exec', work[w]) = s BY <1>1, <1>6, <2>1 DEF RowTo, Current, Typed
  <2>5. \A v \in Worker : work'[v].at \in Calling => Status(exec', work'[v]) = StatusAt(work'[v].at)
    <3> SUFFICES ASSUME NEW v \in Worker, work'[v].at \in Calling
                 PROVE  Status(exec', work'[v]) = StatusAt(work'[v].at)
      OBVIOUS
    <3>1. CASE v = w BY <1>6, <2>4, <3>1
    <3>2. CASE v # w BY <1>2, <2>3, <3>2
    <3> QED BY <3>1, <3>2
  <2>6. \A u, v \in Worker : u # v /\ work'[u].at \in Calling /\ work'[v].at \in Calling
                               => Row(work'[u]) # Row(work'[v])
    <3> SUFFICES ASSUME NEW u \in Worker, NEW v \in Worker, u # v,
                        work'[u].at \in Calling, work'[v].at \in Calling
                 PROVE  Row(work'[u]) # Row(work'[v])
      OBVIOUS
    <3>1. CASE u = w BY <1>2, <1>6, <2>2, <3>1
    <3>2. CASE v = w BY <1>2, <1>6, <2>2, <3>2
    <3>3. CASE u # w /\ v # w BY <1>1, <1>2, <3>3 DEF CallsOK, Current
    <3> QED BY <3>1, <3>2, <3>3
  <2> QED BY <2>5, <2>6 DEF CallsOK, Current
<1> QED BY <1>3, <1>5, <1>6 DEF RowChange, Current

LEMMA StepJobs ==
  ASSUME IInv, NEW w \in Worker, StepOf(w)
  PROVE  JobsOK'
<1>1. Typed /\ ItemsOK /\ JobsOK BY DEF IInv
<1>2. Final /\ FilesFit BY StepTyped
<1>3. \A r \in Run : run[r] \in Read => run'[r] \in Read BY <1>2 DEF Final
<1>4. ASSUME NEW j \in Job
      PROVE  /\ job'[j].context \subseteq {r \in Run : run'[r] \in Read /\ r.doc \in ToSet(Items[j])}
             /\ j \notin Repairs => job'[j].context = {}
             /\ ~job'[j].prepared => job'[j].report.status # "imported"
  <2>1. job'[j].prepared = job[j].prepared /\ job'[j].context = job[j].context
    BY <1>2 DEF FilesFit, SameOrder
  <2>2. Reported(j) => job[j].prepared
    <3> SUFFICES ASSUME NEW v \in Worker, ImportReport(v), j = work[v].job PROVE job[j].prepared
      BY DEF Reported
    <3> QED BY <1>1, AtWork DEF ImportReport, At
  <2>3. ~job'[j].prepared => job'[j].report.status # "imported"
    BY <1>1, <1>2, <2>1, <2>2 DEF FilesFit, JobsOK
  <2> QED BY <1>1, <1>3, <2>1, <2>3 DEF JobsOK
<1> QED BY <1>4 DEF JobsOK

LEMMA StepImport ==
  ASSUME IInv, NEW w \in Worker, StepOf(w)
  PROVE  ImportOK'
<1>1. Typed /\ ItemsOK /\ RunsOK /\ JobsOK /\ ImportOK BY DEF IInv
<1>2. \A v \in Worker : v # w => work'[v] = work[v] BY <1>1, StepMoves, MoveParts
<1>3. Final /\ ReplKept /\ OrdersKept /\ FilesFit BY StepTyped
<1> DEFINE Honest(m) ==
      m.at \in Importing =>
        /\ m.errors = {} /\ ~m.awaits =>
             \A d \in ToSet(Items[m.job]) : d \in ToSet(m.queue) \/ SettledThen(m.job, d)
        /\ m.at = "activating" => m.job \in Repairs /\ ReadWellThen(RunOf(m.job, Head(m.queue)))
<1>4. ASSUME NEW v \in Worker, work[v].at \in Importing
      PROVE  /\ work[v].job \in Job /\ job[work[v].job].prepared /\ work[v].at # "idle"
             /\ work[v].errors = {} /\ ~work[v].awaits =>
                  \A d \in ToSet(Items[work[v].job]) :
                    d \in ToSet(work[v].queue) \/ SettledThen(work[v].job, d)
             /\ work[v].at = "activating" =>
                  work[v].job \in Repairs /\ ReadWellThen(CurrentRun(v)) /\ work[v].queue # <<>>
  <2>1. /\ work[v].job \in Job /\ job[work[v].job].prepared /\ work[v].at # "idle"
        /\ work[v].at = "activating" => work[v].queue # <<>> /\ CurrentRun(v) \in Run
    BY <1>1, <1>4, AtWork DEF Importing
  <2>2. \A d \in ToSet(Items[work[v].job]) :
          Settled(work[v].job, d) => SettledThen(work[v].job, d)
    BY <1>1, <1>3, <2>1, SettledStays
  <2>3. work[v].at = "activating" => work[v].job \in Repairs /\ ReadWellThen(CurrentRun(v))
    BY <1>1, <1>3, <1>4, <2>1, WellStays DEF ImportOK
  <2> QED BY <1>1, <1>4, <2>1, <2>2, <2>3 DEF ImportOK
<1>5. ASSUME NEW v \in Worker, v # w PROVE Honest(work'[v])
  BY <1>2, <1>4, <1>5 DEF CurrentRun, Current
<1>6. Honest(work'[w])
  <2>1. CASE ImportStep(w)
    <3>1. PICK m : Fit(m) /\ work' = [work EXCEPT ![w] = m] /\ Fares(w, m)
      BY <1>1, <2>1, ImportMoves DEF ImportMove
    <3>2. work'[w] = m BY <1>1, <3>1 DEF Typed
    <3>3. work[w].at \in Importing
      BY <2>1 DEF ImportStep, ItemMissing, ClaimItem, FinishItem, DecideCandidate, ActivateRepair,
                  ImportReport, At, Importing
    <3>4. CASE m.at = "item" /\ (m.errors # {} \/ m.awaits) BY <3>2, <3>4
    <3>5. CASE m.at = "idle" BY <3>2, <3>5 DEF Importing
    <3>6. CASE /\ m.job = work[w].job /\ m.errors = work[w].errors /\ m.awaits = work[w].awaits
               /\ m.at \in {"claimed", "deciding"} /\ m.queue = work[w].queue
      BY <1>4, <3>2, <3>3, <3>6
    <3>7. CASE /\ m.job = work[w].job /\ m.errors = work[w].errors /\ m.awaits = work[w].awaits
               /\ m.at = "activating" /\ m.queue = work[w].queue
               /\ work[w].job \in Repairs /\ ReadWellThen(CurrentRun(w))
      BY <1>4, <3>2, <3>3, <3>7 DEF CurrentRun, Current
    <3>8. CASE /\ m.job = work[w].job /\ m.errors = work[w].errors /\ m.awaits = work[w].awaits
               /\ m.at = "item" /\ m.queue = Tail(work[w].queue)
               /\ SettledThen(work[w].job, Current(w))
      <4>1. work[w].queue \in Seq(Doc) BY <1>1, MemoryParts DEF Typed
      <4>2. work[w].queue # <<>>
        <5> SUFFICES ASSUME ImportReport(w) PROVE FALSE
          BY <1>1, <2>1, <3>3, AtWork
          DEF ImportStep, ItemMissing, ClaimItem, FinishItem, DecideCandidate, ActivateRepair, At
        <5>1. work' = [work EXCEPT ![w] = Idle] BY DEF ImportReport
        <5> QED BY <1>1, <3>2, <3>8, <5>1, IdleParts DEF Typed
      <4>3. \A d \in ToSet(work[w].queue) : d = Current(w) \/ d \in ToSet(Tail(work[w].queue))
        BY <4>1, <4>2, QueueParts DEF Current
      <4> QED BY <1>4, <3>2, <3>3, <3>8, <4>3
    <3> QED BY <3>1, <3>4, <3>5, <3>6, <3>7, <3>8 DEF Fares
  <2>2. ASSUME NEW j \in Job, ImportStart(w, j) PROVE Honest(work'[w])
    <3>1. CASE work' = work
      BY <2>2, <3>1 DEF ImportStart, At, Importing
    <3>2. ASSUME NEW m, work' = [work EXCEPT ![w] = m], m.at = "item", m.job = j, m.queue = Items[j]
          PROVE  Honest(work'[w])
      BY <1>1, <3>2 DEF Typed
    <3> QED BY <1>1, <2>2, <3>1, <3>2, ImportStarts
  <2>3. CASE ~ImportStep(w) /\ ~ \E j \in Job : ImportStart(w, j)
    BY <1>1, <2>3, StepMoves, MoveParts DEF Leads
  <2> QED BY <2>1, <2>2, <2>3
<1>7. ASSUME NEW j \in Job, job'[j].report.status = "imported", NEW d \in ToSet(Items[j])
      PROVE  SettledThen(j, d)
  <2>1. CASE job[j].report.status = "imported"
    <3>1. Settled(j, d) /\ job[j].prepared BY <1>1, <1>7, <2>1 DEF ImportOK, JobsOK
    <3> QED BY <1>1, <1>3, <1>7, <3>1, SettledStays
  <2>2. CASE Reported(j)
    <3>1. PICK v \in Worker : ImportReport(v) /\ j = work[v].job /\ work[v].errors = {} /\ ~work[v].awaits
      BY <2>2 DEF Reported
    <3>2. work[v].at \in Importing /\ work[v].queue = <<>> BY <3>1 DEF ImportReport, At, Importing
    <3>3. d \notin ToSet(work[v].queue) BY <3>2 DEF ToSet
    <3> QED BY <1>4, <1>7, <3>1, <3>2, <3>3
  <2> QED BY <1>3, <1>7, <2>1, <2>2 DEF FilesFit
<1>8. \A v \in Worker : Honest(work'[v]) BY <1>5, <1>6
<1> QED BY <1>7, <1>8 DEF ImportOK, Settled, SettledThen, ReadWell, ReadWellThen, CurrentRun, Current

(* A command that touches neither a process nor a run.                     *)
LEMMA QuietStep ==
  ASSUME IInv, work' = work, run' = run, cand' = cand, Typed', ReplKept, OrdersKept,
         \A j \in Job : job'[j].report = job[j].report
  PROVE  ItemsOK' /\ RunsOK' /\ ImportOK'
<1>1. Typed /\ ItemsOK /\ RunsOK /\ JobsOK /\ ImportOK BY DEF IInv
<1>2. Final BY <1>1, SamePrefix DEF Final
<1>3. ItemsOK'
  <2>1. \A w \in Worker : Working(work[w]) BY <1>1 DEF ItemsOK
  <2> QED BY <2>1 DEF ItemsOK, Working, OrdersKept
<1>4. RunsOK' BY <1>1 DEF RunsOK, CurrentRun, Current
<1>5. ASSUME NEW w \in Worker, work[w].at \in Importing
      PROVE  /\ work[w].errors = {} /\ ~work[w].awaits =>
                  \A d \in ToSet(Items[work[w].job]) :
                    d \in ToSet(work[w].queue) \/ SettledThen(work[w].job, d)
             /\ work[w].at = "activating" => work[w].job \in Repairs /\ ReadWellThen(CurrentRun(w))
  <2>1. work[w].job \in Job /\ job[work[w].job].prepared BY <1>1, <1>5, AtWork DEF Importing
  <2>2. \A d \in ToSet(Items[work[w].job]) :
          Settled(work[w].job, d) => SettledThen(work[w].job, d)
    BY <1>1, <1>2, <2>1, SettledStays
  <2>3. ReadWell(CurrentRun(w)) => ReadWellThen(CurrentRun(w)) BY DEF ReadWell, ReadWellThen
  <2> QED BY <1>1, <1>5, <2>2, <2>3 DEF ImportOK
<1>6. ASSUME NEW j \in Job, job'[j].report.status = "imported", NEW d \in ToSet(Items[j])
      PROVE  SettledThen(j, d)
  <2>1. job[j].report.status = "imported" BY <1>6
  <2>2. Settled(j, d) /\ job[j].prepared BY <1>1, <2>1 DEF ImportOK, JobsOK
  <2> QED BY <1>1, <1>2, <2>2, SettledStays
<1>7. ImportOK'
  BY <1>5, <1>6 DEF ImportOK, Settled, SettledThen, ReadWell, ReadWellThen, CurrentRun, Current
<1> QED BY <1>3, <1>4, <1>7

LEMMA PrepareStep ==
  ASSUME IInv, NEW j \in Job, NEW whole \in BOOLEAN, Prepare(j, whole)
  PROVE  IInv' /\ Final
<1>1. Typed /\ ItemsOK /\ RunsOK /\ CallsOK /\ JobsOK /\ ImportOK BY DEF IInv
<1>2. work' = work /\ run' = run /\ cand' = cand /\ repl' = repl BY DEF Prepare
<1>3. /\ job' \in [Job -> Files]
      /\ \A k \in Job : /\ k # j => job'[k] = job[k]
                        /\ job[k].prepared => job'[k].prepared /\ job'[k].context = job[k].context
                        /\ job'[k].report = job[k].report
      /\ job'[j].prepared /\ job'[j].context = Context(j)
  BY <1>1, PrepareFiles
<1> DEFINE rows == [d \in Doc |-> IF d \in ToSet(Items[j]) THEN "assigned" ELSE exec[j][d]]
<1>4. exec' = exec \/ exec' = [exec EXCEPT ![j] = rows]
  BY <1>1 DEF Prepare, Typed
<1>5. rows \in [Doc -> RowStatus \cup {"absent"}] BY <1>1 DEF Typed, RowStatus
<1>6. Typed' BY <1>1, <1>2, <1>3, <1>4, <1>5 DEF Typed
<1>7. OrdersKept /\ ReplKept BY <1>2, <1>3 DEF OrdersKept, ReplKept
<1>8. ItemsOK' /\ RunsOK' /\ ImportOK' BY <1>2, <1>3, <1>6, <1>7, QuietStep
<1>9. Final BY <1>1, <1>2, SamePrefix DEF Final
<1>10. JobsOK'
  <2>1. /\ Context(j) \subseteq {r \in Run : run[r] \in Read /\ r.doc \in ToSet(Items[j])}
        /\ j \notin Repairs => Context(j) = {}
    BY DEF Context, PriorRuns
  <2>2. ASSUME NEW k \in Job
        PROVE  /\ job'[k].context \subseteq {r \in Run : run'[r] \in Read /\ r.doc \in ToSet(Items[k])}
               /\ k \notin Repairs => job'[k].context = {}
               /\ ~job'[k].prepared => job'[k].report.status # "imported"
    <3>1. CASE k = j BY <1>2, <1>3, <2>1, <3>1
    <3>2. CASE k # j
      <4>1. job'[k] = job[k] BY <1>3, <3>2
      <4> QED BY <1>1, <1>2, <4>1 DEF JobsOK
    <3> QED BY <3>1, <3>2
  <2> QED BY <2>2 DEF JobsOK
<1>11. CallsOK'
  <2>1. ASSUME NEW w \in Worker, work[w].at \in Calling
        PROVE  exec'[work[w].job][Current(w)] = StatusAt(work[w].at)
    <3>1. /\ work[w].job \in Job /\ job[work[w].job].prepared /\ work[w].queue # <<>>
          /\ Current(w) \in ToSet(Items[work[w].job])
      BY <1>1, <2>1, AtWork DEF Calling
    <3>2. exec[work[w].job][Current(w)] = StatusAt(work[w].at) BY <1>1, <2>1 DEF CallsOK
    <3>3. StatusAt(work[w].at) # "absent" BY DEF StatusAt
    <3>4. work[w].job # j \/ exec' = exec
      <4> SUFFICES ASSUME work[w].job = j PROVE exec' = exec OBVIOUS
      <4>1. \A d \in ToSet(Items[j]) : exec[j][d] = "absent" BY <3>1 DEF Prepare
      <4> QED BY <3>1, <3>2, <3>3, <4>1
    <3>5. exec'[work[w].job] = exec[work[w].job] BY <1>1, <1>4, <3>1, <3>4 DEF Typed
    <3> QED BY <3>2, <3>5
  <2> QED BY <1>1, <1>2, <2>1 DEF CallsOK, Current
<1> QED BY <1>6, <1>8, <1>9, <1>10, <1>11 DEF IInv

LEMMA RollbackStep ==
  ASSUME IInv, NEW k \in Repairs, Rollback(k)
  PROVE  IInv' /\ Final
<1>1. Typed /\ CallsOK /\ JobsOK BY DEF IInv
<1>2. work' = work /\ run' = run /\ cand' = cand /\ exec' = exec /\ job' = job BY DEF Rollback
<1> DEFINE f == [x \in Run |-> IF repl[k][x] = "active" THEN "rolled_back" ELSE repl[k][x]]
<1>3. repl' = [repl EXCEPT ![k] = f] BY <1>1 DEF Rollback, Typed
<1>4. /\ f \in [Run -> {"none", "active", "rolled_back"}]
      /\ \A x \in Run : repl[k][x] # "none" => f[x] # "none"
  BY <1>1 DEF Typed
<1> HIDE DEF f
<1>5. repl' \in [Repairs -> [Run -> {"none", "active", "rolled_back"}]] /\ ReplKept
  BY <1>1, <1>3, <1>4 DEF Typed, ReplKept
<1>6. Typed' BY <1>1, <1>2, <1>5 DEF Typed
<1>7. OrdersKept BY <1>2 DEF OrdersKept
<1>8. ItemsOK' /\ RunsOK' /\ ImportOK' BY <1>2, <1>5, <1>6, <1>7, QuietStep
<1>9. Final BY <1>1, <1>2, SamePrefix DEF Final
<1>10. CallsOK' BY <1>1, <1>2 DEF CallsOK, Current
<1>11. JobsOK' BY <1>1, <1>2 DEF JobsOK
<1> QED BY <1>6, <1>8, <1>9, <1>10, <1>11 DEF IInv

LEMMA NextIInv == ASSUME IInv, [Next]_vars PROVE IInv' /\ Final
<1>1. ASSUME NEW w \in Worker, StepOf(w) PROVE IInv' /\ Final
  <2>1. Typed' /\ Final BY <1>1, StepTyped
  <2>2. ItemsOK' BY <1>1, StepItems
  <2>3. RunsOK' BY <1>1, StepRuns
  <2>4. CallsOK' BY <1>1, StepCalls
  <2>5. JobsOK' BY <1>1, StepJobs
  <2>6. ImportOK' BY <1>1, StepImport
  <2> QED BY <2>1, <2>2, <2>3, <2>4, <2>5, <2>6 DEF IInv
<1>2. CASE \E j \in Job, whole \in BOOLEAN : Prepare(j, whole) BY <1>2, PrepareStep
<1>3. CASE \E k \in Repairs : Rollback(k) BY <1>3, RollbackStep
<1>4. CASE UNCHANGED vars
  <2>1. /\ exec' = exec /\ run' = run /\ cand' = cand /\ repl' = repl
        /\ job' = job /\ work' = work
    BY <1>4 DEF vars, store
  <2>2. Typed' BY <2>1 DEF IInv, Typed
  <2>3. ReplKept /\ OrdersKept BY <2>1 DEF ReplKept, OrdersKept
  <2>4. ItemsOK' /\ RunsOK' /\ ImportOK' BY <2>1, <2>2, <2>3, QuietStep
  <2>5. CallsOK' /\ JobsOK' BY <2>1 DEF IInv, CallsOK, JobsOK, Current
  <2>6. Final BY <2>1, SamePrefix DEF IInv, Final
  <2> QED BY <2>2, <2>4, <2>5, <2>6 DEF IInv
<1>5. CASE Next
  <2>1. \/ \E j \in Job, whole \in BOOLEAN : Prepare(j, whole)
        \/ \E k \in Repairs : Rollback(k)
        \/ \E w \in Worker : StepOf(w)
    BY <1>5 DEF Next, StepOf
  <2> QED BY <1>1, <1>2, <1>3, <2>1
<1> QED BY <1>4, <1>5
-----------------------------------------------------------------------------
(* Readings and what replaces them.                                        *)

(* The job m was made to replace a reading of the repair k.                *)
Rereads(m, k) == \E x \in job[m].context : x.by = k

(* A repair replaces what was read before it was made, so among any of     *)
(* them one is replaced by no other, and one replaces no other.            *)
Ordered ==
  \A S \in SUBSET Repairs : S # {} =>
    /\ \E k \in S : \A m \in S : ~Rereads(m, k)
    /\ \E k \in S : \A m \in S : ~Rereads(k, m)

(* A repair decides about the readings it was made for once it read the    *)
(* document itself, and a run stands for a job that was there.             *)
Readings ==
  /\ \A k \in Repairs, x \in Run : repl[k][x] # "none" =>
       x \in job[k].context /\ run[RunOf(k, x.doc)] \in Read
  /\ \A k \in Repairs, r \in Run : r.by = k /\ run[r] # "absent" => job[k].prepared
  /\ \A j \in Job : \A x \in job[j].context : x.prompt # Prompt[j]
  /\ Ordered

(* What a step replaces, it replaces for the document it just read.        *)
LEMMA ReplGains ==
  ASSUME IInv, NEW w \in Worker, StepOf(w), NEW k \in Repairs, NEW x \in Run,
         repl[k][x] = "none", repl'[k][x] # "none"
  PROVE  x \in job[k].context /\ run[RunOf(k, x.doc)] \in Read
<1>1. Typed /\ ItemsOK /\ ImportOK BY DEF IInv
<1>2. repl' # repl OBVIOUS
<1>3. ~RunStep(w)
  BY <1>2
  DEF RunStep, ReuseRow, Exchange, AskProvider, RunAborts, ProviderAnswers, ProviderFails,
      BeginValidation, Accept, SaveRow, Reask, Reject, ClaimRejected, CloseRejected, QuarantineRow,
      RunReport, store
<1>4. ImportStep(w) BY <1>2, <1>3 DEF StepOf, Kill, RunStart, ImportStart, store
<1>5. ActivateRepair(w)
  BY <1>2, <1>4
  DEF ImportStep, ItemMissing, ClaimItem, FinishItem, DecideCandidate, ImportReport, store
<1> DEFINE j == work[w].job
           f == [y \in Run |-> IF y \notin Priors(w) THEN repl[j][y]
                               ELSE IF y \in Conflicts(w) THEN "rolled_back" ELSE "active"]
<1>6. work[w].at = "activating" BY <1>5 DEF ActivateRepair, At
<1>7. j \in Repairs /\ ReadWell(CurrentRun(w)) BY <1>1, <1>6 DEF ImportOK, Importing
<1>8. repl' = [repl EXCEPT ![j] = f] BY <1>5, <1>7 DEF ActivateRepair, Typed
<1>9. f[x] = repl[j][x] \/ x \in Priors(w) OBVIOUS
<1> HIDE DEF f
<1>10. k = j /\ x \in Priors(w) BY <1>1, <1>7, <1>8, <1>9 DEF Typed
<1>11. x \in job[k].context /\ x.doc = Current(w) BY <1>10 DEF Priors
<1> QED BY <1>7, <1>10, <1>11 DEF ReadWell, CurrentRun

LEMMA OrderStays ==
  ASSUME Ordered, \A j \in Job : job'[j].context = job[j].context
  PROVE  Ordered'
<1>1. \A m \in Repairs : job'[m].context = job[m].context BY SemanticAssumption
<1>2. ASSUME NEW S \in SUBSET Repairs, S # {}
      PROVE  /\ \E k \in S : \A m \in S : ~ \E x \in job'[m].context : x.by = k
             /\ \E k \in S : \A m \in S : ~ \E x \in job'[k].context : x.by = m
  <2>1. /\ \E k \in S : \A m \in S : ~Rereads(m, k)
        /\ \E k \in S : \A m \in S : ~Rereads(k, m)
    BY <1>2 DEF Ordered
  <2>2. \A m \in S : job'[m].context = job[m].context BY <1>1
  <2> QED BY <2>1, <2>2 DEF Rereads
<1> QED BY <1>2 DEF Ordered, Rereads

LEMMA StepReadings ==
  ASSUME IInv, Readings, NEW w \in Worker, StepOf(w)
  PROVE  Readings'
<1>1. Typed /\ ItemsOK /\ RunsOK /\ JobsOK /\ ImportOK BY DEF IInv
<1>2. Final /\ FilesFit BY StepTyped
<1>3. \A j \in Job : job'[j].prepared = job[j].prepared /\ job'[j].context = job[j].context
  BY <1>2 DEF FilesFit, SameOrder
<1>4. Repairs \subseteq Job BY SemanticAssumption
<1>5. ASSUME NEW k \in Repairs, NEW x \in Run, repl'[k][x] # "none"
      PROVE  x \in job'[k].context /\ run'[RunOf(k, x.doc)] \in Read
  <2>1. x \in job[k].context /\ run[RunOf(k, x.doc)] \in Read
    BY <1>5, ReplGains DEF Readings
  <2>2. x.doc \in ToSet(Items[k]) BY <1>1, <1>4, <2>1 DEF JobsOK
  <2>3. RunOf(k, x.doc) \in Run BY <1>4, <2>2, JobParts
  <2>4. run'[RunOf(k, x.doc)] = run[RunOf(k, x.doc)] BY <1>2, <2>1, <2>3 DEF Final
  <2> QED BY <1>3, <1>4, <2>1, <2>4
<1>6. ASSUME NEW k \in Repairs, NEW r \in Run, r.by = k, run'[r] # "absent"
      PROVE  job'[k].prepared
  <2>1. CASE run[r] # "absent" BY <1>3, <1>4, <1>6, <2>1 DEF Readings
  <2>2. CASE run[r] = "absent"
    <3>1. run'[r] # run[r] BY <1>6, <2>2
    <3>2. RunChange(w) BY <1>1, RunChanges
    <3>3. work[w].at # "idle" /\ work[w].queue # <<>> /\ \E s : RunTo(w, s)
      BY <3>1, <3>2 DEF RunChange
    <3>4. r = CurrentRun(w) BY <1>1, <3>1, <3>3 DEF RunTo, Typed
    <3>5. work[w].job \in Job /\ job[work[w].job].prepared BY <1>1, <3>3, AtWork
    <3>6. k = work[w].job
      <4>1. r.by = IF work[w].job \in Repairs THEN work[w].job ELSE None
        BY <3>4 DEF CurrentRun, RunOf
      <4> QED BY <1>4, <1>6, <4>1, SemanticAssumption
    <3> QED BY <1>3, <3>5, <3>6
  <2> QED BY <2>1, <2>2
<1>7. Ordered' BY <1>3, OrderStays DEF Readings
<1>8. \A j \in Job : \A x \in job'[j].context : x.prompt # Prompt[j] BY <1>3 DEF Readings
<1> QED BY <1>5, <1>6, <1>7, <1>8 DEF Readings

(* A repair that is made now replaces others and is replaced by none.      *)
LEMMA PrepareReadings ==
  ASSUME IInv, Readings, NEW j \in Job, NEW whole \in BOOLEAN, Prepare(j, whole)
  PROVE  Readings'
<1>1. Typed /\ JobsOK BY DEF IInv
<1>2. run' = run /\ repl' = repl BY DEF Prepare
<1>3. /\ \A k \in Job : /\ k # j => job'[k] = job[k]
                        /\ job[k].prepared => job'[k].prepared /\ job'[k].context = job[k].context
      /\ job'[j].prepared /\ job'[j].context = Context(j)
  BY <1>1, PrepareFiles
<1>4. Repairs \subseteq Job BY SemanticAssumption
<1>5. ASSUME NEW k \in Repairs, NEW x \in Run, repl[k][x] # "none"
      PROVE  x \in job'[k].context
  <2>1. x \in job[k].context /\ run[RunOf(k, x.doc)] \in Read BY <1>5 DEF Readings
  <2>2. x.doc \in ToSet(Items[k]) BY <1>1, <1>4, <2>1 DEF JobsOK
  <2>3. RunOf(k, x.doc) \in Run BY <1>4, <2>2, JobParts
  <2>4. RunOf(k, x.doc).by = k BY DEF RunOf
  <2>5. job[k].prepared BY <2>1, <2>3, <2>4 DEF Readings, Read
  <2> QED BY <1>3, <1>4, <2>1, <2>5
<1>6. \A k \in Job : \A x \in job'[k].context : x.prompt # Prompt[k]
  <2>1. \A x \in Context(j) : x.prompt # Prompt[j] BY DEF Context, PriorRuns
  <2> QED BY <1>3, <2>1 DEF Readings
<1>7. Ordered'
  <2>1. CASE job[j].prepared
    <3>1. \A k \in Job : job'[k].context = job[k].context BY <1>3, <2>1
    <3> QED BY <3>1, OrderStays DEF Readings
  <2>2. CASE ~job[j].prepared
    <3>1. ASSUME j \in Repairs, NEW m \in Job PROVE ~ \E x \in job'[m].context : x.by = j
      <4> SUFFICES ASSUME NEW x \in job'[m].context, x.by = j PROVE FALSE OBVIOUS
      <4>1. x \in Run /\ run[x] \in Read
        BY <1>1, <1>3 DEF JobsOK, Context, PriorRuns
      <4> QED BY <2>2, <3>1, <4>1 DEF Readings, Read
    <3>2. \A m \in Job : m # j => job'[m].context = job[m].context BY <1>3
    <3>3. ASSUME NEW S \in SUBSET Repairs, S # {}
          PROVE  /\ \E k \in S : \A m \in S : ~ \E x \in job'[m].context : x.by = k
                 /\ \E k \in S : \A m \in S : ~ \E x \in job'[k].context : x.by = m
      <4>1. CASE j \notin S
        <5>1. \A m \in S : job'[m].context = job[m].context BY <1>4, <3>2, <4>1
        <5>2. /\ \E k \in S : \A m \in S : ~Rereads(m, k)
              /\ \E k \in S : \A m \in S : ~Rereads(k, m)
          BY <3>3 DEF Readings, Ordered
        <5> QED BY <5>1, <5>2 DEF Rereads
      <4>2. CASE j \in S
        <5>1. \A m \in S : ~ \E x \in job'[m].context : x.by = j BY <1>4, <3>1, <4>2
        <5>2. CASE S = {j} BY <5>1, <5>2
        <5>3. CASE S # {j}
          <6> DEFINE T == S \ {j}
          <6>1. T \in SUBSET Repairs /\ T # {} BY <3>3, <5>3
          <6>2. PICK k \in T : \A m \in T : ~Rereads(k, m) BY <6>1 DEF Readings, Ordered
          <6>3. job'[k].context = job[k].context BY <1>4, <3>2, <6>1
          <6>4. \A m \in S : ~ \E x \in job'[k].context : x.by = m
            BY <5>1, <6>2, <6>3 DEF Rereads
          <6> QED BY <4>2, <5>1, <6>4
        <5> QED BY <5>2, <5>3
      <4> QED BY <4>1, <4>2
    <3> QED BY <3>3 DEF Ordered, Rereads
  <2> QED BY <2>1, <2>2
<1>8. \A k \in Repairs, r \in Run : r.by = k /\ run[r] # "absent" => job'[k].prepared
  BY <1>3, <1>4 DEF Readings
<1> QED BY <1>2, <1>5, <1>6, <1>7, <1>8 DEF Readings

LEMMA NextReadings == ASSUME IInv, Readings, [Next]_vars PROVE Readings'
<1>1. CASE \E w \in Worker : StepOf(w) BY <1>1, StepReadings
<1>2. CASE \E j \in Job, whole \in BOOLEAN : Prepare(j, whole) BY <1>2, PrepareReadings
<1>3. CASE \E k \in Repairs : Rollback(k)
  <2>1. PICK k \in Repairs : Rollback(k) BY <1>3
  <2>2. run' = run /\ job' = job BY <2>1 DEF Rollback
  <2>3. \A m \in Repairs, x \in Run : repl'[m][x] # "none" => repl[m][x] # "none"
    BY <2>1 DEF Rollback, IInv, Typed
  <2>4. Ordered' BY <2>2, OrderStays DEF Readings
  <2> QED BY <2>2, <2>3, <2>4 DEF Readings
<1>4. CASE UNCHANGED vars
  <2>1. run' = run /\ repl' = repl /\ job' = job BY <1>4 DEF vars, store
  <2>2. Ordered' BY <2>1, OrderStays DEF Readings
  <2> QED BY <2>1, <2>2 DEF Readings
<1>5. CASE Next
  <2>1. \/ \E j \in Job, whole \in BOOLEAN : Prepare(j, whole)
        \/ \E k \in Repairs : Rollback(k)
        \/ \E w \in Worker : StepOf(w)
    BY <1>5 DEF Next, StepOf
  <2> QED BY <1>1, <1>2, <1>3, <2>1
<1> QED BY <1>4, <1>5

(* Nothing that was read before was read by a repair.                      *)
LEMMA InitReadings == Init => Readings
<1> SUFFICES ASSUME Init PROVE Readings OBVIOUS
<1>1. PICK past \in {{}, Past}, ready \in SUBSET Repairs, n \in Result, m \in Result :
        InitAfter(past, ready, n, m)
  BY DEF Init
<1> DEFINE done == {RunOf(j, d) : j \in past, d \in Doc} \cap Run
<1>2. past \subseteq Job \ Repairs BY SemanticAssumption
<1>3. \A r \in done : r.by = None
  <2> SUFFICES ASSUME NEW r \in done PROVE r.by = None OBVIOUS
  <2>1. PICK j \in past, d \in Doc : r = RunOf(j, d) OBVIOUS
  <2> QED BY <1>2, <2>1 DEF RunOf
<1>4. \A r \in Run : run[r] # "absent" => r \in done
  <2> DEFINE read(r) == IF r \notin done THEN "absent" ELSE IF n = 0 THEN "no_event" ELSE "succeeded"
  <2>1. run = [r \in Run |-> read(r)] BY <1>1 DEF InitAfter
  <2>2. \A r \in Run : r \notin done => read(r) = "absent" OBVIOUS
  <2> HIDE DEF read, done
  <2> QED BY <2>1, <2>2
<1>5. \A k \in Repairs, x \in Run : repl[k][x] = "none" BY <1>1 DEF InitAfter
<1>6. \A j \in Job : job[j].context \subseteq {r \in done : r.prompt # Prompt[j]}
  BY <1>1 DEF InitAfter
<1> HIDE DEF done
<1>7. None \notin Repairs /\ Repairs \subseteq Job BY SemanticAssumption
<1>8. \A j \in Job, k \in Repairs : ~Rereads(j, k) BY <1>3, <1>6, <1>7 DEF Rereads
<1>9. Ordered
  <2> SUFFICES ASSUME NEW S \in SUBSET Repairs, S # {}
               PROVE  /\ \E k \in S : \A m1 \in S : ~Rereads(m1, k)
                      /\ \E k \in S : \A m1 \in S : ~Rereads(k, m1)
    BY DEF Ordered
  <2>1. PICK k \in S : TRUE OBVIOUS
  <2> QED BY <1>7, <1>8, <2>1
<1>10. \A k \in Repairs, r \in Run : r.by = k => run[r] = "absent" BY <1>3, <1>4, <1>7
<1> QED BY <1>5, <1>6, <1>9, <1>10 DEF Readings

(* Either no repair holds a reading of the document: then the reading that *)
(* the first of those rolled back had replaced is back, or any if there is *)
(* none.  Or some do: then the last of them shows its own.                 *)
LEMMA ReadingShows ==
  ASSUME IInv, Readings, NEW d \in Doc, NEW r \in Run, r.doc = d, run[r] \in Read,
         \A k \in Repairs : ~Torn(k, d)
  PROVE  \E y \in Run : y.doc = d /\ run[y] \in Read /\ ~Hidden(y)
<1> DEFINE A == {k \in Repairs : \E x \in Run : x.doc = d /\ repl[k][x] = "active"}
           B == {k \in Repairs : \E x \in Run : x.doc = d /\ repl[k][x] = "rolled_back"}
<1>1. JobsOK /\ Typed BY DEF IInv
<1>2. Repairs \subseteq Job BY SemanticAssumption
<1>3. A \in SUBSET Repairs /\ B \in SUBSET Repairs OBVIOUS
<1>4. ASSUME NEW k \in Repairs, NEW x \in Run, repl[k][x] # "none"
      PROVE  /\ x \in job[k].context /\ run[x] \in Read
             /\ RunOf(k, x.doc) \in Run /\ run[RunOf(k, x.doc)] \in Read
             /\ RunOf(k, x.doc).doc = x.doc /\ RunOf(k, x.doc).by = k
  <2>1. x \in job[k].context /\ run[RunOf(k, x.doc)] \in Read BY <1>4 DEF Readings
  <2>2. x.doc \in ToSet(Items[k]) /\ run[x] \in Read BY <1>1, <1>2, <2>1 DEF JobsOK
  <2>3. RunOf(k, x.doc) \in Run /\ RunOf(k, x.doc).doc = x.doc BY <1>2, <2>2, JobParts
  <2>4. RunOf(k, x.doc).by = k BY DEF RunOf
  <2> QED BY <2>1, <2>2, <2>3, <2>4
<1>5. CASE A # {}
  <2>1. PICK k \in A : \A m \in A : ~Rereads(m, k) BY <1>3, <1>5 DEF Readings, Ordered
  <2>2. PICK x \in Run : x.doc = d /\ repl[k][x] = "active" BY <2>1
  <2> DEFINE y == RunOf(k, d)
  <2>3. y \in Run /\ run[y] \in Read /\ y.doc = d /\ y.by = k BY <1>4, <2>2
  <2> HIDE DEF y
  <2>4. ASSUME NEW m \in Repairs, repl[m][y] = "active" PROVE FALSE
    <3>1. m \in A BY <2>3, <2>4
    <3>2. y \in job[m].context BY <1>4, <2>3, <2>4
    <3> QED BY <2>1, <2>3, <3>1, <3>2 DEF Rereads
  <2>5. ASSUME NEW z \in Run, z.doc = d, repl[k][z] = "rolled_back" PROVE FALSE
    BY <2>2, <2>5 DEF Torn
  <2>6. ~Hidden(y) BY <2>3, <2>4, <2>5 DEF Hidden
  <2> QED BY <2>3, <2>6
<1>6. CASE A = {} /\ B = {}
  <2>1. ~Hidden(r) BY <1>6 DEF Hidden
  <2> QED BY <2>1
<1>7. CASE A = {} /\ B # {}
  <2>1. PICK k \in B : \A m \in B : ~Rereads(k, m) BY <1>3, <1>7 DEF Readings, Ordered
  <2>2. PICK x \in Run : x.doc = d /\ repl[k][x] = "rolled_back" BY <2>1
  <2>3. x \in job[k].context /\ run[x] \in Read BY <1>4, <2>2
  <2>4. \A m \in Repairs : repl[m][x] # "active" BY <1>7, <2>2
  <2>5. ASSUME NEW m \in Repairs, x.by = m, NEW z \in Run, z.doc = d, repl[m][z] = "rolled_back"
        PROVE  FALSE
    <3>1. m \in B BY <2>5
    <3> QED BY <2>1, <2>3, <2>5, <3>1 DEF Rereads
  <2>6. ~Hidden(x) BY <2>2, <2>4, <2>5 DEF Hidden
  <2> QED BY <2>2, <2>3, <2>6
<1> QED BY <1>5, <1>6, <1>7

-----------------------------------------------------------------------------
(* The theorems.                                                           *)

(* The invariant holds in every state.                                     *)
THEOREM SemanticInvariance == Spec => []IInv
<1>1. IInv /\ [Next]_vars => IInv' BY NextIInv
<1> QED BY InitIInv, <1>1, PTL DEF Spec

(* Everything the store, the files and the processes hold has its form:    *)
(* TypeOK of SemanticExchange, whatever jobs, repairs and kills meet.      *)
THEOREM SemanticTypeCorrect == Spec => []TypeOK
<1>1. IInv => TypeOK
  <2> SUFFICES ASSUME IInv PROVE TypeOK OBVIOUS
  <2>1. Typed /\ RunsOK /\ JobsOK BY DEF IInv
  <2>2. \A r \in Run : cand[r] \in Seq(Decision) /\ (cand[r] # <<>> => run[r] = "succeeded")
    BY <2>1 DEF Typed, RunsOK
  <2>3. \A j \in Job :
          /\ job[j].output \in [Doc -> Result \cup {None}] /\ job[j].rejected \subseteq Doc
          /\ job[j].errors \subseteq Error /\ job[j].report.errors \subseteq Error
    <3> SUFFICES ASSUME NEW j \in Job
                 PROVE  /\ job[j].output \in Rows /\ job[j].rejected \in SUBSET Doc
                        /\ job[j].errors \in SUBSET Error /\ job[j].report.errors \in SUBSET Error
      BY DEF Rows
    <3>1. job[j] \in Files BY <2>1 DEF Typed
    <3> QED BY <3>1, FilesParts
  <2>4. \A j \in Job : job[j].context \subseteq {r \in Run : run[r] \in Read} BY <2>1 DEF JobsOK
  <2>5. \A w \in Worker : work[w].errors \subseteq Error BY <2>1, MemoryParts DEF Typed
  <2> QED BY <2>1, <2>2, <2>3, <2>4, <2>5 DEF TypeOK, Typed
<1> QED BY SemanticInvariance, <1>1, PTL

(* finish_semantic_run never overwrites a finished run and a decision of   *)
(* persist_semantic_candidate_decision is never taken back, whichever      *)
(* imports and repairs meet the run.                                       *)
THEOREM SemanticResultsFinal == Spec => ResultsAreFinal
<1>1. IInv /\ [Next]_vars =>
        [\A r \in Run : /\ run[r] \in Read \cup Failures => run'[r] = run[r]
                        /\ IsPrefix(cand[r], cand'[r])]_vars
  BY NextIInv DEF Final
<1> QED BY SemanticInvariance, <1>1, PTL DEF Spec, ResultsAreFinal

(* import_job reports a job imported only when every document has a        *)
(* finished run, and a repair only when it dealt with all it replaces; and *)
(* it stays so.                                                            *)
THEOREM SemanticImportedSettled == Spec => []ImportedIsSettled
<1>1. IInv => ImportedIsSettled
  <2> SUFFICES ASSUME IInv, NEW j \in Job, job[j].report.status = "imported",
                      NEW d \in ToSet(Items[j])
               PROVE  /\ run[RunOf(j, d)] \in Read
                      /\ run[RunOf(j, d)] = "succeeded" => "canonical" \in ToSet(cand[RunOf(j, d)])
                      /\ \A x \in job[j].context : repl[j][x] # "none"
    BY DEF ImportedIsSettled
  <2>1. JobsOK /\ \A e \in ToSet(Items[j]) : Settled(j, e) BY DEF IInv, ImportOK
  <2>2. ASSUME NEW x \in job[j].context PROVE repl[j][x] # "none"
    <3>1. x.doc \in ToSet(Items[j]) BY <2>1, <2>2 DEF JobsOK
    <3> QED BY <2>1, <2>2, <3>1 DEF Settled
  <2> QED BY <2>1, <2>2 DEF Settled, ReadWell
<1> QED BY SemanticInvariance, <1>1, PTL

(* transition_semantic_execution_job lets one process alone ask the        *)
(* provider for a row of a bound job: the status is the lock.              *)
THEOREM SemanticOneCallPerRow == Spec => []OneCallPerRow
<1>1. IInv => OneCallPerRow BY DEF IInv, CallsOK, OneCallPerRow, Calling, At
<1> QED BY SemanticInvariance, <1>1, PTL
(* Whatever repairs were made of a document, in whatever order they were   *)
(* imported, refused and rolled back, and under however many prompts:      *)
(* events_as_of shows a reading of it, unless a repair has replaced one of *)
(* its readings and lost another (Torn).                                   *)
THEOREM SemanticSomeReadingVisible == Spec => []SomeReadingVisible
<1>1. IInv /\ Readings => SomeReadingVisible
  BY ReadingShows DEF SomeReadingVisible
<1>2. IInv /\ Readings /\ [Next]_vars => Readings' BY NextReadings
<1>3. Spec => []Readings BY SemanticInvariance, InitReadings, <1>2, PTL DEF Spec
<1> QED BY SemanticInvariance, <1>1, <1>3, PTL

(* A document of a repair is read under one other prompt at most, so the   *)
(* repair has one reading of it to replace.                                *)
OneReadingEach ==
  \A k \in Repairs, x, y \in Run :
    x.doc = y.doc /\ x.prompt # Prompt[k] /\ y.prompt # Prompt[k] => x = y

(* Then no repair is ever torn, and a document that was read always shows  *)
(* a reading.                                                              *)
THEOREM SemanticReadingStays ==
  ASSUME OneReadingEach
  PROVE  Spec => [](\A d \in Doc : (\E r \in Run : r.doc = d /\ run[r] \in Read)
                      => \E r \in Run : r.doc = d /\ run[r] \in Read /\ ~Hidden(r))
<1> DEFINE Shows == \A d \in Doc : (\E r \in Run : r.doc = d /\ run[r] \in Read)
                      => \E r \in Run : r.doc = d /\ run[r] \in Read /\ ~Hidden(r)
<1>1. IInv /\ Readings => Shows
  <2> SUFFICES ASSUME IInv, Readings, NEW d \in Doc, NEW r \in Run, r.doc = d, run[r] \in Read
               PROVE  \E y \in Run : y.doc = d /\ run[y] \in Read /\ ~Hidden(y)
    OBVIOUS
  <2>1. ASSUME NEW k \in Repairs, Torn(k, d) PROVE FALSE
    <3>1. PICK x, y \in Run : /\ x.doc = d /\ y.doc = d
                              /\ repl[k][x] = "active" /\ repl[k][y] = "rolled_back"
      BY <2>1 DEF Torn
    <3>2. x \in job[k].context /\ y \in job[k].context BY <3>1 DEF Readings
    <3>3. x.prompt # Prompt[k] /\ y.prompt # Prompt[k]
      BY <3>2, SemanticAssumption DEF Readings
    <3>4. x = y BY <3>1, <3>3 DEF OneReadingEach
    <3> QED BY <3>1, <3>4
  <2> QED BY <2>1, ReadingShows
<1>2. IInv /\ Readings /\ [Next]_vars => Readings' BY NextReadings
<1>3. Spec => []Readings BY SemanticInvariance, InitReadings, <1>2, PTL DEF Spec
<1> HIDE DEF Shows
<1>4. Spec => []Shows BY SemanticInvariance, <1>1, <1>3, PTL
<1> QED BY <1>4 DEF Shows
=============================================================================
