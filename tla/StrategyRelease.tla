---------------------------- MODULE StrategyRelease --------------------------
(***************************************************************************)
(* apply-strategy-release (strategy_release.py, evolution_writer.py): the  *)
(* operator moves every account of a manifest from its old overlay to its  *)
(* new one and archives the orders the old strategy left behind, while     *)
(* each account's daily cycle (cli.py) keeps replacing those orders.  The  *)
(* release holds no lock and no journal; what makes it restartable is that *)
(* it skips an overlay already in place and that an archive carries its    *)
(* own progress mark.                                                      *)
(***************************************************************************)
EXTENDS Integers

CONSTANTS
  Entries,    \* number of accounts in the manifest, in its order
  Bodies,     \* contents an order may have
  MaxCrashes, \* bound: kills of either process
  MaxPlans,   \* bound: daily cycles
  None        \* no archive

Entry == 1..Entries
Strategies == {"old", "new"}

(* by is history: the strategy whose cycle wrote the order.                *)
Order == [by : Strategies, body : Bodies]
Marks == {"unmarked", "archiving", "cleared"}
Archive == [orders : SUBSET Order, mark : Marks] \cup {None}
Artifacts == {"log", "diff", "row"}

ASSUME ReleaseAssumption ==
  /\ Entries \in Nat \ {0} /\ MaxCrashes \in Nat /\ MaxPlans \in Nat
  /\ None \notin [orders : SUBSET Order, mark : Marks]

VARIABLES
  live,     \* [Entry -> Strategies]  configs/agents/<agent>_<market>.yaml
  backup,   \* entries whose old overlay is in configs/agents/_history
  audit,    \* [Entry -> SUBSET Artifacts]  evolution log, diff, CSV row
  pending,  \* [Entry -> SUBSET Order]      pending_orders.json
  archive,  \* [Entry -> Archive]           pending_order_archive/<release>.json
  rel,      \* the release: pc, entry k, the overlays seen, the queue read
  cycle,    \* [Entry -> ...]  the daily cycle of each account
  crashes, plans,
  done,     \* history: the release has once returned
  raced     \* history: a release and a daily cycle have run at the same time

files == <<live, backup, audit, pending, archive>>
vars == <<files, rel, cycle, crashes, plans, done, raced>>

ReleaseIdle == [pc |-> "idle", k |-> 1, seen |-> [i \in Entry |-> "old"], queue |-> {}]
CycleIdle == [pc |-> "idle", config |-> "old", before |-> {}]

Contents(orders) == {o.body : o \in orders}
OrdersBy(s, bodies) == {[by |-> s, body |-> b] : b \in bodies}

(* A release not begun yet, or one that ended before archives carried a    *)
(* mark, with its strategies at work since.                                *)
Init ==
  /\ \/ /\ live = [i \in Entry |-> "old"]
        /\ backup = {} /\ audit = [i \in Entry |-> {}]
        /\ pending \in [Entry -> {OrdersBy("old", b) : b \in SUBSET Bodies}]
        /\ archive = [i \in Entry |-> None]
        /\ done = FALSE
     \/ /\ live = [i \in Entry |-> "new"]
        /\ backup = Entry /\ audit = [i \in Entry |-> Artifacts]
        /\ pending \in [Entry -> {OrdersBy("new", b) : b \in SUBSET Bodies}]
        /\ archive = [i \in Entry |-> [orders |-> OrdersBy("old", Bodies), mark |-> "unmarked"]]
        /\ done = TRUE
  /\ rel = ReleaseIdle
  /\ cycle = [i \in Entry |-> CycleIdle]
  /\ crashes = 0 /\ plans = 0 /\ raced = FALSE

-----------------------------------------------------------------------------
(* The release *)

Goto(pc) == rel' = [rel EXCEPT !.pc = pc]

(* Read the manifest, the desired overlays and the live ones.              *)
Prepare ==
  /\ rel.pc = "idle"
  /\ rel' = [ReleaseIdle EXCEPT !.pc = "gates", !.seen = live]
  /\ raced' = (raced \/ \E i \in Entry : cycle[i].pc # "idle")
  /\ UNCHANGED <<files, cycle, crashes, plans, done>>

(* Schema, pair distance and, for changed A-share overlays, the backtest   *)
(* gate: all of them before the first write.  Any may refuse.              *)
Gates ==
  /\ rel.pc = "gates"
  /\ Goto("entry") \/ rel' = ReleaseIdle
  /\ UNCHANGED <<files, cycle, crashes, plans, done, raced>>

(* Mutations: a gate in the loop, an unchanged overlay taken for finished  *)
(* work, an overlay switched without its backup.                           *)
OpenEntryGated ==
  /\ rel.pc = "entry" /\ rel.k <= Entries
  /\ \/ Goto(IF rel.seen[rel.k] = "new" THEN "orders" ELSE "backup")
     \/ rel.seen[rel.k] = "old" /\ rel' = ReleaseIdle
  /\ UNCHANGED <<files, cycle, crashes, plans, done, raced>>
OpenEntrySkipsUnchanged ==
  /\ rel.pc = "entry" /\ rel.k <= Entries
  /\ Goto(IF rel.seen[rel.k] = "new" THEN "next" ELSE "backup")
  /\ UNCHANGED <<files, cycle, crashes, plans, done, raced>>
OpenEntryWithoutBackup ==
  /\ rel.pc = "entry" /\ rel.k <= Entries
  /\ Goto(IF rel.seen[rel.k] = "new" THEN "orders" ELSE "overlay")
  /\ UNCHANGED <<files, cycle, crashes, plans, done, raced>>

(* The next entry: evolve its overlay, or go straight to its orders.       *)
OpenEntry ==
  /\ rel.pc = "entry" /\ rel.k <= Entries
  /\ Goto(IF rel.seen[rel.k] = "new" THEN "orders" ELSE "backup")
  /\ UNCHANGED <<files, cycle, crashes, plans, done, raced>>

(* write_evolution: backup, overlay, log, diff, CSV row.                   *)
Backup ==
  /\ rel.pc = "backup" /\ Goto("overlay")
  /\ backup' = backup \cup {rel.k}
  /\ UNCHANGED <<live, audit, pending, archive, cycle, crashes, plans, done, raced>>

Switch ==
  /\ rel.pc = "overlay" /\ Goto("log")
  /\ live' = [live EXCEPT ![rel.k] = "new"]
  /\ UNCHANGED <<backup, audit, pending, archive, cycle, crashes, plans, done, raced>>

Record(artifact, next) ==
  /\ rel.pc = artifact /\ Goto(next)
  /\ audit' = [audit EXCEPT ![rel.k] = @ \cup {artifact}]
  /\ UNCHANGED <<live, backup, pending, archive, cycle, crashes, plans, done, raced>>

(* Mutations: an interrupted archive clears whatever is queued, and the    *)
(* payload, not the mark, decides.                                         *)
RecoveryGuesses(a, queue) ==
  CASE a = None -> {"write_archive"}
    [] a # None /\ a.mark = "archiving" -> {"clear"}
    [] a # None /\ a.mark = "unmarked" -> {"mark"}
    [] a # None /\ a.mark = "cleared" -> {"next"}
RecoveryByPayload(a, queue) ==
  CASE a = None -> {"write_archive"}
    [] a # None /\ Contents(queue) = Contents(a.orders) -> {"clear"}
    [] a # None /\ Contents(queue) # Contents(a.orders) -> {"mark"}

(* _archive_pending_orders: read the queue, then act on the archive's mark.*)
Recovery(a, queue) ==
  CASE a = None -> {"write_archive"}
    [] a # None /\ a.mark = "archiving" ->
         IF Contents(queue) = Contents(a.orders) THEN {"clear"}
         ELSE IF queue = {} THEN {"mark"} ELSE {"conflict"}
    [] a # None /\ a.mark = "unmarked" -> {"mark"}
    [] a # None /\ a.mark = "cleared" -> {"next"}

ReadQueue ==
  /\ rel.pc = "orders"
  /\ \E pc \in Recovery(archive[rel.k], pending[rel.k]) :
       rel' = [rel EXCEPT !.pc = pc, !.queue = pending[rel.k]]
  /\ UNCHANGED <<files, cycle, crashes, plans, done, raced>>

WriteArchive ==
  /\ rel.pc = "write_archive" /\ Goto("clear")
  /\ archive' = [archive EXCEPT ![rel.k] = [orders |-> rel.queue, mark |-> "archiving"]]
  /\ UNCHANGED <<live, backup, audit, pending, cycle, crashes, plans, done, raced>>

ClearQueue ==
  /\ rel.pc = "clear" /\ Goto("mark")
  /\ pending' = [pending EXCEPT ![rel.k] = {}]
  /\ UNCHANGED <<live, backup, audit, archive, cycle, crashes, plans, done, raced>>

MarkCleared ==
  /\ rel.pc = "mark" /\ Goto("next")
  /\ archive' = [archive EXCEPT ![rel.k] = [orders |-> @.orders, mark |-> "cleared"]]
  /\ UNCHANGED <<live, backup, audit, pending, cycle, crashes, plans, done, raced>>

(* Mutation: the entry counter advances twice.                             *)
NextEntryTwice ==
  /\ rel.pc = "next"
  /\ rel' = [rel EXCEPT !.pc = "entry", !.k = @ + 2]
  /\ UNCHANGED <<files, cycle, crashes, plans, done, raced>>

NextEntry ==
  /\ rel.pc = "next"
  /\ rel' = [rel EXCEPT !.pc = "entry", !.k = @ + 1]
  /\ UNCHANGED <<files, cycle, crashes, plans, done, raced>>

(* A queue that is neither empty nor the archived one stops the release.   *)
Conflict ==
  /\ rel.pc = "conflict" /\ rel' = ReleaseIdle
  /\ UNCHANGED <<files, cycle, crashes, plans, done, raced>>

Return ==
  /\ rel.pc = "entry" /\ rel.k > Entries
  /\ rel' = ReleaseIdle /\ done' = TRUE
  /\ UNCHANGED <<files, cycle, crashes, plans, raced>>

Kill ==
  /\ rel.pc # "idle" /\ crashes < MaxCrashes
  /\ rel' = ReleaseIdle /\ crashes' = crashes + 1
  /\ UNCHANGED <<files, cycle, plans, done, raced>>

-----------------------------------------------------------------------------
(* The daily cycle of an account, as far as it touches overlay and queue   *)

SetCycle(i, c) == cycle' = [cycle EXCEPT ![i] = c]

LoadConfig(i) ==
  /\ cycle[i].pc = "idle" /\ plans < MaxPlans
  /\ SetCycle(i, [pc |-> "execute", config |-> live[i], before |-> {}])
  /\ plans' = plans + 1 /\ raced' = (raced \/ rel.pc # "idle")
  /\ UNCHANGED <<files, rel, crashes, done>>

(* Due orders are executed; the others, and what is retained, stay.        *)
Execute(i) ==
  /\ cycle[i].pc = "execute"
  /\ \E kept \in SUBSET pending[i] : pending' = [pending EXCEPT ![i] = kept]
  /\ SetCycle(i, [cycle[i] EXCEPT !.pc = "drop"])
  /\ UNCHANGED <<live, backup, audit, archive, rel, crashes, plans, done, raced>>

Drop(i) ==
  /\ cycle[i].pc = "drop"
  /\ SetCycle(i, [cycle[i] EXCEPT !.pc = "generate", !.before = pending[i]])
  /\ pending' = [pending EXCEPT ![i] = {}]
  /\ UNCHANGED <<live, backup, audit, archive, rel, crashes, plans, done, raced>>

(* New orders, or, when their generation raises, the previous ones.        *)
Generate(i) ==
  /\ cycle[i].pc = "generate"
  /\ \/ \E b \in SUBSET Bodies :
          pending' = [pending EXCEPT ![i] = OrdersBy(cycle[i].config, b)]
     \/ pending' = [pending EXCEPT ![i] = cycle[i].before]
  /\ SetCycle(i, CycleIdle)
  /\ UNCHANGED <<live, backup, audit, archive, rel, crashes, plans, done, raced>>

KillCycle(i) ==
  /\ cycle[i].pc # "idle" /\ crashes < MaxCrashes
  /\ SetCycle(i, CycleIdle) /\ crashes' = crashes + 1
  /\ UNCHANGED <<files, rel, plans, done, raced>>

Release ==
  \/ Prepare \/ Gates \/ OpenEntry \/ Backup \/ Switch
  \/ Record("log", "diff") \/ Record("diff", "row") \/ Record("row", "orders")
  \/ ReadQueue \/ WriteArchive \/ ClearQueue \/ MarkCleared \/ NextEntry
  \/ Conflict \/ Return

DailyCycle(i) == LoadConfig(i) \/ Execute(i) \/ Drop(i) \/ Generate(i)

Next == Release \/ Kill \/ \E i \in Entry : DailyCycle(i) \/ KillCycle(i)

Spec == Init /\ [][Next]_vars

-----------------------------------------------------------------------------
(* Properties *)

(* Types, and the entries behind the counter are switched and archived.    *)
TypeOK ==
  /\ live \in [Entry -> Strategies] /\ backup \subseteq Entry
  /\ audit \in [Entry -> SUBSET Artifacts]
  /\ pending \in [Entry -> SUBSET Order] /\ archive \in [Entry -> Archive]
  /\ rel \in [pc : {"idle", "gates", "entry", "backup", "overlay", "log", "diff", "row", "orders",
                    "write_archive", "clear", "mark", "next", "conflict"},
              k : 1..(Entries + 1), seen : [Entry -> Strategies], queue : SUBSET Order]
  /\ \A i \in 1..(rel.k - 1) : live[i] = "new" /\ archive[i] # None
  /\ cycle \in [Entry -> [pc : {"idle", "execute", "drop", "generate"}, config : Strategies,
                          before : SUBSET Order]]
  /\ crashes \in 0..MaxCrashes /\ plans \in 0..MaxPlans /\ done \in BOOLEAN /\ raced \in BOOLEAN

(* A switched overlay can be rolled back: its predecessor is in _history   *)
(* and, once the release returned, every entry runs the new strategy.      *)
Recoverable ==
  /\ \A i \in Entry : live[i] = "new" => i \in backup
  /\ done => \A i \in Entry : live[i] = "new"

(* Without a kill no release leaves a mix of strategies, whatever gate     *)
(* refuses.                                                                *)
AllOrNothing ==
  crashes = 0 /\ rel.pc = "idle" => \A i, j \in Entry : live[i] = live[j]

(* Once the release has returned no order of an old strategy can be        *)
(* executed any more, though kills and re-runs came in between: unless the *)
(* release ran beside a daily cycle that still held the old overlay.       *)
OldOrdersRetired ==
  done /\ ~raced => \A i \in Entry : \A o \in pending[i] : o.by = "new"

(* What the release takes off a queue is in that entry's archive, unless a *)
(* daily cycle rewrote the queue under it.                                 *)
ArchivedBeforeCleared ==
  [][\A i \in Entry :
       (~raced /\ cycle'[i] = cycle[i] /\ pending'[i] # pending[i]) =>
         /\ archive[i] # None
         /\ Contents(pending[i] \ pending'[i]) \subseteq Contents(archive[i].orders)]_vars

(* Once it has returned, running the same manifest again changes no        *)
(* overlay, no audit record and no queue, and moves no order to an archive.*)
RerunChangesNothing ==
  [][done => /\ UNCHANGED <<live, backup, audit>>
             /\ cycle' = cycle => UNCHANGED pending
             /\ \A i \in Entry : archive[i] # None /\ archive'[i].orders = archive[i].orders]_vars

(* An order generated under the new overlay is not taken off its queue by  *)
(* the release, however often it is retried.                               *)
FreshOrdersKept ==
  [][\A i \in Entry, o \in Order :
       (~raced /\ o.by = "new" /\ o \in pending[i] /\ cycle'[i] = cycle[i]) => o \in pending'[i]]_vars

(* A release that returned left its complete audit trail.                  *)
Audited == done => \A i \in Entry : audit[i] = Artifacts
=============================================================================
