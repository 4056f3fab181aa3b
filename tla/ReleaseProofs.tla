---------------------------- MODULE ReleaseProofs ----------------------------
(***************************************************************************)
(* Proofs about StrategyRelease, for any number of entries, order          *)
(* contents, daily cycles and kills.                                       *)
(***************************************************************************)
EXTENDS StrategyRelease, TLAPS

(* What the release and a daily cycle have in memory.                      *)
Memory ==
  [pc : {"idle", "gates", "entry", "backup", "overlay", "log", "diff", "row", "orders",
         "write_archive", "clear", "mark", "next", "conflict"},
   k : 1..(Entries + 1), seen : [Entry -> Strategies], queue : SUBSET Order]
CycleMemory ==
  [pc : {"idle", "execute", "drop", "generate"}, config : Strategies, before : SUBSET Order]

(* TypeOK but for the finished entries, of which ControlOK says more.      *)
Typed ==
  /\ live \in [Entry -> Strategies] /\ backup \subseteq Entry
  /\ audit \in [Entry -> SUBSET Artifacts]
  /\ pending \in [Entry -> SUBSET Order] /\ archive \in [Entry -> Archive]
  /\ rel \in Memory /\ cycle \in [Entry -> CycleMemory]
  /\ crashes \in 0..MaxCrashes /\ plans \in 0..MaxPlans /\ done \in BOOLEAN /\ raced \in BOOLEAN

(* Neither the queue of an entry nor a daily cycle under way holds an      *)
(* order of the old strategy, or is about to write one.                    *)
OnlyNew(i) ==
  /\ \A o \in pending[i] : o.by = "new"
  /\ cycle[i].pc # "idle" => cycle[i].config = "new" /\ \A o \in cycle[i].before : o.by = "new"

(* Where the release is, and what it has finished by then.  Once it has    *)
(* returned no later run comes to a step that writes anything but a mark.  *)
ControlOK ==
  /\ rel.pc \notin {"idle", "gates", "entry"} => rel.k \in Entry
  /\ rel.pc = "overlay" => rel.k \in backup
  /\ rel.pc \in {"log", "diff", "row", "orders", "write_archive", "clear", "mark", "next"} =>
       live[rel.k] = "new"
  /\ rel.pc # "idle" => \A i \in Entry : rel.seen[i] = "new" => live[i] = "new"
  /\ \A i \in Entry : archive[i] # None => live[i] = "new"
  /\ \A i \in Entry : i < rel.k => archive[i] # None /\ archive[i].mark = "cleared"
  /\ rel.pc \in {"clear", "mark", "next"} => archive[rel.k] # None
  /\ rel.pc = "next" => archive[rel.k].mark = "cleared"
  /\ done => /\ \A i \in Entry : archive[i] # None /\ archive[i].mark # "archiving"
             /\ rel.pc \in {"idle", "gates", "entry", "orders", "mark", "next"}
             /\ rel.pc # "idle" => \A i \in Entry : rel.seen[i] = "new"

(* Without a kill a release is refused before its first write or not at    *)
(* all: it meets no archive half done, hence no conflict.                  *)
MixOK ==
  crashes = 0 =>
    /\ rel.pc \in {"idle", "gates"} => \A i, j \in Entry : live[i] = live[j]
    /\ rel.pc # "conflict"
    /\ \A i \in Entry : archive[i] # None /\ archive[i].mark = "archiving" =>
         i = rel.k /\ rel.pc \in {"clear", "mark"}

(* Where no release ran beside a daily cycle, the mark of an archive tells *)
(* the truth about the queue.                                              *)
QueueOK ==
  ~raced =>
    /\ rel.pc # "idle" => \A i \in Entry : cycle[i].pc = "idle"
    /\ \A i \in Entry : archive[i] # None /\ archive[i].mark # "archiving" => OnlyNew(i)
    /\ rel.pc = "mark" => OnlyNew(rel.k)
    /\ rel.pc = "write_archive" => rel.queue = pending[rel.k]
    /\ rel.pc = "clear" => Contents(pending[rel.k]) \subseteq Contents(archive[rel.k].orders)

IInv == Typed /\ Recoverable /\ ControlOK /\ MixOK /\ QueueOK
-----------------------------------------------------------------------------
(* Steps of the release and of the daily cycles.                           *)

LEMMA IdleTyped ==
  /\ ReleaseIdle \in Memory /\ CycleIdle \in CycleMemory
  /\ ReleaseIdle.pc = "idle" /\ CycleIdle.pc = "idle"
  /\ \A i \in Entry : ~(i < ReleaseIdle.k)
BY ReleaseAssumption DEF ReleaseIdle, CycleIdle, Memory, CycleMemory, Strategies, Entry

(* The types of an archive and of its orders.                              *)
LEMMA ArchiveTyped ==
  ASSUME NEW a \in Archive, a # None
  PROVE  a \in [orders : SUBSET Order, mark : Marks]
BY DEF Archive

LEMMA ArchiveMarked ==
  ASSUME NEW orders \in SUBSET Order, NEW mark \in Marks
  PROVE  /\ [orders |-> orders, mark |-> mark] \in Archive
         /\ [orders |-> orders, mark |-> mark] # None
BY ReleaseAssumption DEF Archive

(* What reading the queue leads to.                                        *)
LEMMA ReadQueueCases ==
  ASSUME Typed, rel.k \in Entry, ReadQueue
  PROVE  LET a == archive[rel.k]
             queue == pending[rel.k]
             Goes(pc) == rel' = [rel EXCEPT !.pc = pc, !.queue = queue]
         IN  \/ a = None /\ Goes("write_archive")
             \/ a # None /\ a.mark = "archiving" /\ Contents(queue) = Contents(a.orders) /\ Goes("clear")
             \/ a # None /\ a.mark = "archiving" /\ queue = {} /\ Goes("mark")
             \/ a # None /\ a.mark = "archiving" /\ Goes("conflict")
             \/ a # None /\ a.mark = "unmarked" /\ Goes("mark")
             \/ a # None /\ a.mark = "cleared" /\ Goes("next")
<1> DEFINE a == archive[rel.k]
           queue == pending[rel.k]
<1>1. PICK pc \in Recovery(a, queue) : rel' = [rel EXCEPT !.pc = pc, !.queue = queue]
  BY DEF ReadQueue
<1>2. a = None \/ a.mark \in Marks BY ArchiveTyped DEF Typed
<1> HIDE DEF a, queue
<1>3. CASE a = None BY <1>1, <1>3 DEF Recovery, a, queue
<1>4. CASE a # None /\ a.mark = "archiving" BY <1>1, <1>4 DEF Recovery, a, queue
<1>5. CASE a # None /\ a.mark = "unmarked" BY <1>1, <1>5 DEF Recovery, a, queue
<1>6. CASE a # None /\ a.mark = "cleared" BY <1>1, <1>6 DEF Recovery, a, queue
<1> QED BY <1>2, <1>3, <1>4, <1>5, <1>6 DEF Marks

LEMMA TypedStep ==
  ASSUME IInv, [Next]_vars
  PROVE  Typed'
<1> USE ReleaseAssumption, IdleTyped, ArchiveTyped, ArchiveMarked DEF IInv, Typed, files
<1>1. CASE Prepare BY <1>1 DEF Prepare, Memory, ReleaseIdle, Entry
<1>2. CASE Gates BY <1>2 DEF Gates, Goto, Memory
<1>3. CASE OpenEntry BY <1>3 DEF OpenEntry, Goto, Memory
<1>4. CASE Backup BY <1>4 DEF Backup, Goto, Memory, ControlOK
<1>5. CASE Switch BY <1>5 DEF Switch, Goto, Memory, Strategies
<1>6. CASE Record("log", "diff") \/ Record("diff", "row") \/ Record("row", "orders")
  BY <1>6 DEF Record, Goto, Memory, Artifacts
<1>7. CASE ReadQueue
  <2>1. rel.k \in Entry BY <1>7 DEF ReadQueue, ControlOK
  <2> QED BY <1>7, <2>1, ReadQueueCases DEF ReadQueue, Memory
<1>8. CASE WriteArchive BY <1>8 DEF WriteArchive, Goto, Marks, Memory
<1>9. CASE ClearQueue BY <1>9 DEF ClearQueue, Goto, Memory
<1>10. CASE MarkCleared BY <1>10, ZenonT(60) DEF MarkCleared, Goto, Marks, ControlOK, Memory
<1>11. CASE NextEntry
  <2>1. rel.k \in 1..Entries BY <1>11 DEF NextEntry, ControlOK, Entry
  <2>2. rel' = [rel EXCEPT !.pc = "entry", !.k = rel.k + 1] BY <1>11 DEF NextEntry
  <2>3. rel.k + 1 \in 1..(Entries + 1) BY <2>1
  <2>4. rel' \in Memory BY <2>2, <2>3 DEF Memory
  <2> QED BY <1>11, <2>4 DEF NextEntry
<1>12. CASE Conflict BY <1>12 DEF Conflict
<1>13. CASE Return BY <1>13 DEF Return
<1>14. CASE Kill BY <1>14 DEF Kill
<1>15. ASSUME NEW i \in Entry, LoadConfig(i) PROVE Typed'
  BY <1>15 DEF LoadConfig, SetCycle, CycleMemory
<1>16. ASSUME NEW i \in Entry, Execute(i) PROVE Typed'
  BY <1>16 DEF Execute, SetCycle, CycleMemory
<1>17. ASSUME NEW i \in Entry, Drop(i) PROVE Typed'
  BY <1>17 DEF Drop, SetCycle, CycleMemory
<1>18. ASSUME NEW i \in Entry, Generate(i) PROVE Typed'
  BY <1>18 DEF Generate, SetCycle, CycleMemory, OrdersBy, Order
<1>19. ASSUME NEW i \in Entry, KillCycle(i) PROVE Typed'
  BY <1>19 DEF KillCycle, SetCycle
<1>20. CASE UNCHANGED vars BY <1>20 DEF vars
<1> QED BY <1>1, <1>2, <1>3, <1>4, <1>5, <1>6, <1>7, <1>8, <1>9, <1>10, <1>11, <1>12, <1>13, <1>14, <1>15, <1>16, <1>17, <1>18, <1>19, <1>20 DEF Next, Release, DailyCycle

LEMMA RecoverableStep ==
  ASSUME IInv, [Next]_vars
  PROVE  Recoverable'
<1> USE ReleaseAssumption, IdleTyped, ArchiveTyped, ArchiveMarked DEF IInv, Typed, ControlOK, Recoverable, files, Entry, Strategies, Memory
<1>1. CASE Prepare BY <1>1 DEF Prepare
<1>2. CASE Gates BY <1>2 DEF Gates, Goto
<1>3. CASE OpenEntry BY <1>3 DEF OpenEntry, Goto
<1>4. CASE Backup BY <1>4 DEF Backup, Goto
<1>5. CASE Switch BY <1>5 DEF Switch, Goto
<1>6. CASE Record("log", "diff") \/ Record("diff", "row") \/ Record("row", "orders")
  BY <1>6 DEF Record, Goto
<1>7. CASE ReadQueue BY <1>7 DEF ReadQueue
<1>8. CASE WriteArchive BY <1>8 DEF WriteArchive, Goto
<1>9. CASE ClearQueue BY <1>9 DEF ClearQueue, Goto
<1>10. CASE MarkCleared BY <1>10 DEF MarkCleared, Goto
<1>11. CASE NextEntry BY <1>11 DEF NextEntry
<1>12. CASE Conflict BY <1>12 DEF Conflict
<1>13. CASE Return BY <1>13 DEF Return
<1>14. CASE Kill BY <1>14 DEF Kill
<1>15. ASSUME NEW i \in Entry, LoadConfig(i) PROVE Recoverable'
  BY <1>15 DEF LoadConfig, SetCycle
<1>16. ASSUME NEW i \in Entry, Execute(i) PROVE Recoverable'
  BY <1>16 DEF Execute, SetCycle
<1>17. ASSUME NEW i \in Entry, Drop(i) PROVE Recoverable'
  BY <1>17 DEF Drop, SetCycle
<1>18. ASSUME NEW i \in Entry, Generate(i) PROVE Recoverable'
  BY <1>18 DEF Generate, SetCycle
<1>19. ASSUME NEW i \in Entry, KillCycle(i) PROVE Recoverable'
  BY <1>19 DEF KillCycle, SetCycle
<1>20. CASE UNCHANGED vars BY <1>20 DEF vars
<1> QED BY <1>1, <1>2, <1>3, <1>4, <1>5, <1>6, <1>7, <1>8, <1>9, <1>10, <1>11, <1>12, <1>13, <1>14, <1>15, <1>16, <1>17, <1>18, <1>19, <1>20 DEF Next, Release, DailyCycle

LEMMA ControlStep ==
  ASSUME IInv, [Next]_vars
  PROVE  ControlOK'
<1> USE ReleaseAssumption, IdleTyped, ArchiveTyped, ArchiveMarked DEF IInv, Typed, ControlOK, Recoverable, files, Entry, Memory
<1>1. CASE Prepare BY <1>1 DEF Prepare, Strategies, ReleaseIdle
<1>2. CASE Gates BY <1>2, ZenonT(60) DEF Gates, Goto
<1>3. CASE OpenEntry BY <1>3 DEF OpenEntry, Goto
<1>4. CASE Backup BY <1>4 DEF Backup, Goto
<1>5. CASE Switch BY <1>5 DEF Switch, Goto
<1>6. CASE Record("log", "diff") \/ Record("diff", "row") \/ Record("row", "orders")
  <2>1. /\ rel.pc \in {"log", "diff", "row"}
        /\ \E pc \in {"diff", "row", "orders"} : rel' = [rel EXCEPT !.pc = pc]
        /\ UNCHANGED <<live, backup, pending, archive, done>>
    BY <1>6 DEF Record, Goto
  <2> QED BY <2>1
<1>7. CASE ReadQueue
  <2>1. rel.k \in Entry BY <1>7 DEF ReadQueue
  <2> QED BY <1>7, <2>1, ReadQueueCases, ZenonT(60) DEF ReadQueue
<1>8. CASE WriteArchive
  <2>1. rel.k \in Entry /\ ~done BY <1>8 DEF WriteArchive
  <2>2. \A i \in Entry : i # rel.k => archive'[i] = archive[i] BY <1>8 DEF WriteArchive
  <2>3. archive'[rel.k] # None BY <1>8, <2>1 DEF WriteArchive, Marks
  <2> QED BY <1>8, <2>1, <2>2, <2>3 DEF WriteArchive, Goto
<1>9. CASE ClearQueue BY <1>9 DEF ClearQueue, Goto
<1>10. CASE MarkCleared
  <2>1. rel.k \in Entry /\ archive[rel.k] # None BY <1>10 DEF MarkCleared
  <2>2. \A i \in Entry : i # rel.k => archive'[i] = archive[i] BY <1>10 DEF MarkCleared
  <2>3. archive'[rel.k] = [orders |-> archive[rel.k].orders, mark |-> "cleared"]
    BY <1>10, <2>1 DEF MarkCleared
  <2>4. archive'[rel.k] # None /\ archive'[rel.k].mark = "cleared"
    BY <2>1, <2>3 DEF Marks
  <2> QED BY <1>10, <2>1, <2>2, <2>4 DEF MarkCleared, Goto
<1>11. CASE NextEntry BY <1>11 DEF NextEntry
<1>12. CASE Conflict BY <1>12 DEF Conflict
<1>13. CASE Return
  <2>1. rel.k = Entries + 1 BY <1>13 DEF Return
  <2>2. \A i \in Entry : i < rel.k BY <2>1
  <2> QED BY <1>13, <2>2 DEF Return
<1>14. CASE Kill BY <1>14 DEF Kill
<1>15. ASSUME NEW i \in Entry, LoadConfig(i) PROVE ControlOK'
  BY <1>15 DEF LoadConfig, SetCycle
<1>16. ASSUME NEW i \in Entry, Execute(i) PROVE ControlOK'
  BY <1>16 DEF Execute, SetCycle
<1>17. ASSUME NEW i \in Entry, Drop(i) PROVE ControlOK'
  BY <1>17 DEF Drop, SetCycle
<1>18. ASSUME NEW i \in Entry, Generate(i) PROVE ControlOK'
  BY <1>18 DEF Generate, SetCycle
<1>19. ASSUME NEW i \in Entry, KillCycle(i) PROVE ControlOK'
  BY <1>19 DEF KillCycle, SetCycle
<1>20. CASE UNCHANGED vars BY <1>20 DEF vars
<1> QED BY <1>1, <1>2, <1>3, <1>4, <1>5, <1>6, <1>7, <1>8, <1>9, <1>10, <1>11, <1>12, <1>13, <1>14, <1>15, <1>16, <1>17, <1>18, <1>19, <1>20 DEF Next, Release, DailyCycle

LEMMA MixStep ==
  ASSUME IInv, [Next]_vars
  PROVE  MixOK'
<1> USE ReleaseAssumption, IdleTyped, ArchiveTyped, ArchiveMarked DEF IInv, Typed, ControlOK, MixOK, files, Memory
<1>1. CASE Prepare BY <1>1 DEF Prepare, ReleaseIdle
<1>2. CASE Gates BY <1>2 DEF Gates, Goto
<1>3. CASE OpenEntry BY <1>3 DEF OpenEntry, Goto
<1>4. CASE Backup BY <1>4 DEF Backup, Goto
<1>5. CASE Switch BY <1>5 DEF Switch, Goto
<1>6. CASE Record("log", "diff") \/ Record("diff", "row") \/ Record("row", "orders")
  BY <1>6 DEF Record, Goto
<1>7. CASE ReadQueue
  <2>1. rel.k \in Entry BY <1>7 DEF ReadQueue
  <2> QED BY <1>7, <2>1, ReadQueueCases, ZenonT(60) DEF ReadQueue
<1>8. CASE WriteArchive BY <1>8 DEF WriteArchive, Goto
<1>9. CASE ClearQueue BY <1>9 DEF ClearQueue, Goto
<1>10. CASE MarkCleared BY <1>10 DEF MarkCleared, Goto
<1>11. CASE NextEntry BY <1>11 DEF NextEntry
<1>12. CASE Conflict BY <1>12 DEF Conflict
<1>13. CASE Return
  <2>1. rel.k = Entries + 1 BY <1>13 DEF Return, Entry
  <2>2. \A i \in Entry : i < rel.k BY <2>1 DEF Entry
  <2> QED BY <1>13, <2>2 DEF Return
<1>14. CASE Kill BY <1>14 DEF Kill
<1>15. ASSUME NEW i \in Entry, LoadConfig(i) PROVE MixOK'
  BY <1>15 DEF LoadConfig, SetCycle
<1>16. ASSUME NEW i \in Entry, Execute(i) PROVE MixOK'
  BY <1>16 DEF Execute, SetCycle
<1>17. ASSUME NEW i \in Entry, Drop(i) PROVE MixOK'
  BY <1>17 DEF Drop, SetCycle
<1>18. ASSUME NEW i \in Entry, Generate(i) PROVE MixOK'
  BY <1>18 DEF Generate, SetCycle
<1>19. ASSUME NEW i \in Entry, KillCycle(i) PROVE MixOK'
  BY <1>19 DEF KillCycle, SetCycle
<1>20. CASE UNCHANGED vars BY <1>20 DEF vars
<1> QED BY <1>1, <1>2, <1>3, <1>4, <1>5, <1>6, <1>7, <1>8, <1>9, <1>10, <1>11, <1>12, <1>13, <1>14, <1>15, <1>16, <1>17, <1>18, <1>19, <1>20 DEF Next, Release, DailyCycle

LEMMA QueueStep ==
  ASSUME IInv, [Next]_vars
  PROVE  QueueOK'
<1> USE ReleaseAssumption, IdleTyped, ArchiveTyped, ArchiveMarked DEF IInv, Typed, ControlOK, QueueOK, OnlyNew, files, Memory, CycleMemory
<1>1. CASE Prepare BY <1>1 DEF Prepare, ReleaseIdle
<1>2. CASE Gates BY <1>2 DEF Gates, Goto
<1>3. CASE OpenEntry BY <1>3 DEF OpenEntry, Goto
<1>4. CASE Backup BY <1>4 DEF Backup, Goto
<1>5. CASE Switch BY <1>5 DEF Switch, Goto
<1>6. CASE Record("log", "diff") \/ Record("diff", "row") \/ Record("row", "orders")
  BY <1>6 DEF Record, Goto
<1>7. CASE ReadQueue
  <2>1. rel.k \in Entry BY <1>7 DEF ReadQueue
  <2>2. rel'.k = rel.k /\ rel'.queue = pending[rel.k] BY <1>7 DEF ReadQueue
  <2>3. UNCHANGED <<pending, archive, cycle, raced>> BY <1>7 DEF ReadQueue
  <2>4. \A i \in Entry : OnlyNew(i) => OnlyNew(i)' BY <2>3
  <2>5. rel'.pc = "clear" => Contents(pending[rel.k]) = Contents(archive[rel.k].orders)
    BY <2>1, <1>7, ReadQueueCases, ZenonT(60)
  <2>6. rel'.pc = "mark" => \/ archive[rel.k] # None /\ archive[rel.k].mark = "unmarked"
                            \/ pending[rel.k] = {}
    BY <2>1, <1>7, ReadQueueCases, ZenonT(60)
  <2>7. rel.pc # "idle" BY <1>7 DEF ReadQueue
  <2> QED BY <2>1, <2>2, <2>3, <2>4, <2>5, <2>6, <2>7
<1>8. CASE WriteArchive BY <1>8 DEF WriteArchive, Goto, Contents
<1>9. CASE ClearQueue BY <1>9 DEF ClearQueue, Goto, Contents
<1>10. CASE MarkCleared BY <1>10 DEF MarkCleared, Goto
<1>11. CASE NextEntry BY <1>11 DEF NextEntry
<1>12. CASE Conflict BY <1>12 DEF Conflict
<1>13. CASE Return BY <1>13 DEF Return
<1>14. CASE Kill BY <1>14 DEF Kill
<1>15. ASSUME NEW i \in Entry, LoadConfig(i) PROVE QueueOK'
  BY <1>15, ZenonT(60) DEF LoadConfig, SetCycle
<1>16. ASSUME NEW i \in Entry, Execute(i) PROVE QueueOK'
  BY <1>16 DEF Execute, SetCycle
<1>17. ASSUME NEW i \in Entry, Drop(i) PROVE QueueOK'
  BY <1>17 DEF Drop, SetCycle
<1>18. ASSUME NEW i \in Entry, Generate(i) PROVE QueueOK'
  BY <1>18 DEF Generate, SetCycle, OrdersBy
<1>19. ASSUME NEW i \in Entry, KillCycle(i) PROVE QueueOK'
  BY <1>19 DEF KillCycle, SetCycle
<1>20. CASE UNCHANGED vars BY <1>20 DEF vars
<1> QED BY <1>1, <1>2, <1>3, <1>4, <1>5, <1>6, <1>7, <1>8, <1>9, <1>10, <1>11, <1>12, <1>13, <1>14, <1>15, <1>16, <1>17, <1>18, <1>19, <1>20 DEF Next, Release, DailyCycle
-----------------------------------------------------------------------------
(* The theorems.                                                           *)

LEMMA InitIInv == Init => IInv
<1> SUFFICES ASSUME Init PROVE IInv
  OBVIOUS
<1> USE ReleaseAssumption, IdleTyped
<1>1. Typed
  <2>1. OrdersBy("old", Bodies) \in SUBSET Order BY DEF OrdersBy, Order, Strategies
  <2>2. [orders |-> OrdersBy("old", Bodies), mark |-> "unmarked"] \in Archive
    BY <2>1, ArchiveMarked DEF Marks
  <2>3. \A b \in SUBSET Bodies, s \in Strategies : OrdersBy(s, b) \in SUBSET Order
    BY DEF OrdersBy, Order
  <2>4. archive \in [Entry -> Archive] BY <2>2 DEF Init, Archive
  <2>5. pending \in [Entry -> SUBSET Order] BY <2>3 DEF Init, Strategies
  <2>6. live \in [Entry -> Strategies] /\ backup \subseteq Entry /\ audit \in [Entry -> SUBSET Artifacts]
    BY DEF Init, Strategies
  <2>7. rel \in Memory /\ cycle \in [Entry -> CycleMemory] BY DEF Init
  <2>8. crashes \in 0..MaxCrashes /\ plans \in 0..MaxPlans BY DEF Init
  <2>9. done \in BOOLEAN /\ raced \in BOOLEAN BY Zenon DEF Init
  <2> QED BY <2>4, <2>5, <2>6, <2>7, <2>8, <2>9, Zenon DEF Typed
<1>2. Recoverable BY DEF Init, Recoverable
<1>3. \A i \in Entry : archive[i] # None =>
        done /\ live[i] = "new" /\ archive[i].mark = "unmarked" /\ OnlyNew(i)
  BY DEF Init, OrdersBy, OnlyNew
<1>4. done => \A i \in Entry : archive[i] # None
  <2>1. [orders |-> OrdersBy("old", Bodies), mark |-> "unmarked"] # None
    <3>1. OrdersBy("old", Bodies) \in SUBSET Order BY DEF OrdersBy, Order, Strategies
    <3> QED BY <3>1, ArchiveMarked DEF Marks
  <2> QED BY <2>1 DEF Init
<1>5. ControlOK /\ MixOK /\ QueueOK
  BY <1>3, <1>4 DEF Init, ControlOK, MixOK, QueueOK
<1> QED BY <1>1, <1>2, <1>5 DEF IInv

(* The inductive invariant holds in every state of releases and cycles.    *)
THEOREM ReleaseInvariance == Spec => []IInv
<1>1. IInv /\ [Next]_vars => IInv'
  BY TypedStep, RecoverableStep, ControlStep, MixStep, QueueStep DEF IInv
<1> QED BY InitIInv, <1>1, PTL DEF Spec

(* Every variable keeps its type, and the entries behind the counter are   *)
(* switched and archived.                                                  *)
THEOREM ReleaseTypeCorrect == Spec => []TypeOK
<1>1. IInv => TypeOK
  <2> SUFFICES ASSUME IInv PROVE TypeOK
    OBVIOUS
  <2>1. \A i \in 1..(rel.k - 1) : i \in Entry /\ i < rel.k
    BY ReleaseAssumption DEF IInv, Typed, Memory, Entry
  <2>2. \A i \in 1..(rel.k - 1) : live[i] = "new" /\ archive[i] # None
    BY <2>1 DEF IInv, ControlOK
  <2> QED BY <2>2 DEF IInv, Typed, Memory, CycleMemory, TypeOK
<1> QED BY <1>1, ReleaseInvariance, PTL

(* A switched overlay can be rolled back, and a release that returned      *)
(* switched every entry, wherever it or a daily cycle was killed.          *)
THEOREM ReleaseRecoverable == Spec => []Recoverable
<1>1. IInv => Recoverable BY DEF IInv
<1> QED BY <1>1, ReleaseInvariance, PTL

(* Without a kill no release leaves a mix of strategies.                   *)
THEOREM ReleaseAllOrNothing == Spec => []AllOrNothing
<1>1. IInv => AllOrNothing BY DEF IInv, MixOK, AllOrNothing
<1> QED BY <1>1, ReleaseInvariance, PTL

(* After a completed release no order of the old strategy is pending,      *)
(* through any number of kills, retries and daily cycles, unless a release *)
(* ran beside a cycle.                                                     *)
THEOREM ReleaseRetiresOldOrders == Spec => []OldOrdersRetired
<1>1. IInv => OldOrdersRetired
  BY DEF IInv, ControlOK, QueueOK, OnlyNew, OldOrdersRetired
<1> QED BY <1>1, ReleaseInvariance, PTL

(* A daily cycle that touches its queue goes on to another step.           *)
LEMMA CycleMoves ==
  ASSUME Typed, NEW j \in Entry, Execute(j) \/ Drop(j) \/ Generate(j)
  PROVE  cycle[j].pc # cycle'[j].pc
<1> USE DEF SetCycle, Typed, CycleMemory
<1>1. CASE Execute(j) BY <1>1 DEF Execute
<1>2. CASE Drop(j) BY <1>2 DEF Drop
<1>3. CASE Generate(j) BY <1>3, IdleTyped DEF Generate
<1> QED BY <1>1, <1>2, <1>3

(* Only a daily cycle takes an order off a queue that is not in the        *)
(* archive of the release.                                                 *)
THEOREM ReleaseArchivesBeforeClearing == Spec => ArchivedBeforeCleared
<1> DEFINE A == \A i \in Entry :
                  (~raced /\ cycle'[i] = cycle[i] /\ pending'[i] # pending[i]) =>
                    /\ archive[i] # None
                    /\ Contents(pending[i] \ pending'[i]) \subseteq Contents(archive[i].orders)
<1>1. ASSUME IInv, [Next]_vars PROVE [A]_vars
  <2> SUFFICES ASSUME NEW i \in Entry, ~raced, cycle'[i] = cycle[i], pending'[i] # pending[i]
               PROVE  /\ archive[i] # None
                      /\ Contents(pending[i] \ pending'[i]) \subseteq Contents(archive[i].orders)
    OBVIOUS
  <2>1. CASE ClearQueue
    <3>1. i = rel.k BY <1>1, <2>1 DEF ClearQueue, IInv, Typed
    <3>2. archive[i] # None /\ Contents(pending[i]) \subseteq Contents(archive[i].orders)
      BY <1>1, <2>1, <3>1 DEF ClearQueue, IInv, ControlOK, QueueOK
    <3> QED BY <3>2 DEF Contents
  <2>2. ASSUME NEW j \in Entry, Execute(j) \/ Drop(j) \/ Generate(j) PROVE FALSE
    <3>1. cycle[j].pc # cycle'[j].pc
      BY <1>1, <2>2, CycleMoves DEF IInv
    <3>2. i = j BY <1>1, <2>2 DEF Execute, Drop, Generate, IInv, Typed
    <3> QED BY <3>1, <3>2
  <2>3. pending' # pending OBVIOUS
  <2> QED
    BY <1>1, <2>1, <2>2, <2>3
    DEF Next, Release, DailyCycle, Prepare, Gates, OpenEntry, Backup, Switch, Record, ReadQueue,
        WriteArchive, MarkCleared, NextEntry, Conflict, Return, Kill, LoadConfig, KillCycle,
        files, vars
<1> QED BY <1>1, ReleaseInvariance, PTL DEF Spec, ArchivedBeforeCleared

(* A release that has returned once writes nothing but progress marks when *)
(* its manifest is run again, however often and wherever it is killed.     *)
THEOREM ReleaseRerunHarmless == Spec => RerunChangesNothing
<1> DEFINE A == done => /\ UNCHANGED <<live, backup, audit>>
                        /\ cycle' = cycle => UNCHANGED pending
                        /\ \A i \in Entry : archive[i] # None /\ archive'[i].orders = archive[i].orders
<1>1. ASSUME IInv, [Next]_vars PROVE [A]_vars
  <2> SUFFICES ASSUME done PROVE A \/ UNCHANGED vars
    OBVIOUS
  <2>1. /\ \A i \in Entry : archive[i] # None
        /\ rel.pc \in {"idle", "gates", "entry", "orders", "mark", "next"}
    BY <1>1 DEF IInv, ControlOK
  <2>2. CASE MarkCleared
    <3>1. rel.k \in Entry BY <1>1, <2>2 DEF MarkCleared, IInv, ControlOK
    <3>2. \A i \in Entry : archive'[i].orders = archive[i].orders
      BY <1>1, <2>2, <3>1 DEF MarkCleared, IInv, Typed
    <3> QED BY <2>1, <2>2, <3>2 DEF MarkCleared
  <2>3. ASSUME NEW j \in Entry, Execute(j) \/ Drop(j) \/ Generate(j) PROVE A
    <3>1. cycle[j].pc # cycle'[j].pc
      BY <1>1, <2>3, CycleMoves DEF IInv
    <3> QED BY <2>1, <2>3, <3>1 DEF Execute, Drop, Generate
  <2> QED
    BY <1>1, <2>1, <2>2, <2>3
    DEF Next, Release, DailyCycle, Prepare, Gates, OpenEntry, Backup, Switch, Record, ReadQueue,
        WriteArchive, ClearQueue, NextEntry, Conflict, Return, Kill, LoadConfig, KillCycle, files
<1> QED BY <1>1, ReleaseInvariance, PTL DEF Spec, RerunChangesNothing
-----------------------------------------------------------------------------
(* What the runs release_audit and release_fresh refute takes a kill.      *)

(* An entry's overlay is switched with its records complete, but for the   *)
(* entry whose records are being written.                                  *)
AuditOK ==
  crashes = 0 =>
    /\ \A i \in Entry :
         live[i] = "new" /\ ~(i = rel.k /\ rel.pc \in {"log", "diff", "row"}) => audit[i] = Artifacts
    /\ rel.pc \in {"diff", "row"} => "log" \in audit[rel.k]
    /\ rel.pc = "row" => "diff" \in audit[rel.k]

(* Neither the queue of an entry nor its daily cycle has an order of the   *)
(* new strategy.                                                           *)
OnlyOld(i) ==
  /\ \A o \in pending[i] : o.by = "old"
  /\ cycle[i].pc # "idle" => cycle[i].config = "old" /\ \A o \in cycle[i].before : o.by = "old"

(* An entry is archived in the run that switches it, and until then no     *)
(* order of the new strategy is queued.                                    *)
FreshOK ==
  crashes = 0 /\ ~raced =>
    /\ rel.pc = "write_archive" => archive[rel.k] = None
    /\ rel.pc = "clear" => archive[rel.k].mark = "archiving"
    /\ \A i \in Entry :
         live[i] = "new" =>
           \/ archive[i] # None /\ archive[i].mark # "archiving"
           \/ i = rel.k /\ rel.pc \in {"log", "diff", "row", "orders", "write_archive", "clear", "mark"}
    /\ \A i \in Entry :
         \/ archive[i] = None
         \/ archive[i].mark = "archiving" /\ ~(i = rel.k /\ rel.pc = "mark")
         => OnlyOld(i)

LEMMA AuditStep ==
  ASSUME IInv, AuditOK, [Next]_vars
  PROVE  AuditOK'
<1> USE ReleaseAssumption, IdleTyped DEF IInv, Typed, AuditOK, ControlOK, files, Memory
<1>1. CASE Prepare BY <1>1 DEF Prepare, ReleaseIdle
<1>2. CASE Gates BY <1>2 DEF Gates, Goto
<1>3. CASE OpenEntry BY <1>3 DEF OpenEntry, Goto
<1>4. CASE Backup BY <1>4 DEF Backup, Goto
<1>5. CASE Switch BY <1>5 DEF Switch, Goto
<1>6. ASSUME NEW a \in Artifacts, NEW pc \in {"diff", "row", "orders"}, Record(a, pc),
             <<a, pc>> \in {<<"log", "diff">>, <<"diff", "row">>, <<"row", "orders">>}
      PROVE  AuditOK'
  <2>1. /\ rel.pc = a /\ rel' = [rel EXCEPT !.pc = pc] /\ rel.k \in Entry
        /\ audit' = [audit EXCEPT ![rel.k] = @ \cup {a}] /\ UNCHANGED <<live, crashes>>
    BY <1>6 DEF Record, Goto, Artifacts
  <2>2. audit'[rel.k] = audit[rel.k] \cup {a} /\ rel'.k = rel.k /\ rel'.pc = pc BY <2>1
  <2>3. \A i \in Entry : i # rel.k => audit'[i] = audit[i] BY <2>1
  <2>4. \/ a = "log" /\ pc = "diff"
        \/ a = "diff" /\ pc = "row"
        \/ a = "row" /\ pc = "orders"
    BY <1>6
  <2>5. audit[rel.k] \subseteq Artifacts BY <2>1
  <2>6. a = "row" /\ crashes = 0 => audit'[rel.k] = Artifacts
    BY <2>1, <2>2, <2>5 DEF Artifacts
  <2> QED BY <2>1, <2>2, <2>3, <2>4, <2>6
<1>7. CASE ReadQueue
  <2>1. rel.k \in Entry BY <1>7 DEF ReadQueue
  <2>2. rel'.pc \notin {"log", "diff", "row"} BY <1>7, <2>1, ReadQueueCases, ZenonT(60)
  <2> QED BY <1>7, <2>2 DEF ReadQueue
<1>8. CASE WriteArchive BY <1>8 DEF WriteArchive, Goto
<1>9. CASE ClearQueue BY <1>9 DEF ClearQueue, Goto
<1>10. CASE MarkCleared BY <1>10 DEF MarkCleared, Goto
<1>11. CASE NextEntry BY <1>11 DEF NextEntry
<1>12. CASE Conflict BY <1>12 DEF Conflict
<1>13. CASE Return BY <1>13 DEF Return
<1>14. CASE Kill BY <1>14 DEF Kill
<1>15. ASSUME NEW i \in Entry, LoadConfig(i) PROVE AuditOK'
  BY <1>15 DEF LoadConfig
<1>16. ASSUME NEW i \in Entry, Execute(i) \/ Drop(i) \/ Generate(i) PROVE AuditOK'
  BY <1>16 DEF Execute, Drop, Generate
<1>17. ASSUME NEW i \in Entry, KillCycle(i) PROVE AuditOK'
  BY <1>17 DEF KillCycle
<1>18. CASE UNCHANGED vars BY <1>18 DEF vars
<1>19. Record("log", "diff") \/ Record("diff", "row") \/ Record("row", "orders") => AuditOK'
  BY <1>6 DEF Artifacts
<1> QED BY <1>1, <1>2, <1>3, <1>4, <1>5, <1>7, <1>8, <1>9, <1>10, <1>11, <1>12, <1>13, <1>14, <1>15, <1>16, <1>17, <1>18, <1>19 DEF Next, Release, DailyCycle

(* Where the first reading of the queue goes.                              *)
LEMMA ReadQueueGoes ==
  ASSUME Typed, rel.k \in Entry, ReadQueue
  PROVE  /\ archive[rel.k] = None <=> rel'.pc = "write_archive"
         /\ rel'.pc = "clear" => archive[rel.k].mark = "archiving"
<1>1. \A pc \in STRING : [rel EXCEPT !.pc = pc, !.queue = pending[rel.k]].pc = pc
  BY DEF Typed, Memory
<1>2. PICK pc \in {"write_archive", "clear", "mark", "conflict", "next"} :
        /\ rel' = [rel EXCEPT !.pc = pc, !.queue = pending[rel.k]]
        /\ archive[rel.k] = None <=> pc = "write_archive"
        /\ pc = "clear" => archive[rel.k].mark = "archiving"
  <2> DEFINE Goes(pc) == rel' = [rel EXCEPT !.pc = pc, !.queue = pending[rel.k]]
  <2>1. \/ archive[rel.k] = None /\ Goes("write_archive")
        \/ archive[rel.k] # None /\ archive[rel.k].mark = "archiving" /\ Goes("clear")
        \/ archive[rel.k] # None /\ \E pc \in {"mark", "conflict", "next"} : Goes(pc)
    BY ReadQueueCases, Zenon
  <2> HIDE DEF Goes
  <2>2. \E pc \in {"write_archive", "clear", "mark", "conflict", "next"} :
          Goes(pc) /\ (archive[rel.k] = None <=> pc = "write_archive")
                  /\ (pc = "clear" => archive[rel.k].mark = "archiving")
    BY <2>1
  <2> QED BY <2>2 DEF Goes
<1>3. rel'.pc = pc BY <1>1, <1>2
<1> QED BY <1>2, <1>3

LEMMA FreshStep ==
  ASSUME IInv, FreshOK, [Next]_vars
  PROVE  FreshOK'
<1> USE ReleaseAssumption, IdleTyped, ArchiveTyped, ArchiveMarked DEF IInv, Typed, FreshOK, OnlyOld, ControlOK, MixOK, QueueOK, files, Memory, CycleMemory, Strategies
<1>1. CASE Prepare BY <1>1 DEF Prepare, ReleaseIdle
<1>2. CASE Gates BY <1>2 DEF Gates, Goto
<1>3. CASE OpenEntry BY <1>3 DEF OpenEntry, Goto
<1>4. CASE Backup BY <1>4 DEF Backup, Goto
<1>5. CASE Switch BY <1>5 DEF Switch, Goto
<1>6. CASE Record("log", "diff") \/ Record("diff", "row") \/ Record("row", "orders")
  BY <1>6 DEF Record, Goto
<1>7. CASE ReadQueue
  <2>1. rel.k \in Entry BY <1>7 DEF ReadQueue
  <2>2. rel'.k = rel.k /\ UNCHANGED <<live, pending, archive, cycle, crashes, raced>>
    BY <1>7 DEF ReadQueue
  <2>3. \A i \in Entry : OnlyOld(i) => OnlyOld(i)' BY <2>2
  <2>5. Typed OBVIOUS
  <2>4. /\ archive[rel.k] = None <=> rel'.pc = "write_archive"
        /\ rel'.pc = "clear" => archive[rel.k].mark = "archiving"
    BY ONLY <1>7, <2>1, <2>5, ReadQueueGoes
  <2>7. crashes = 0 /\ archive[rel.k] # None => archive[rel.k].mark # "archiving"
    BY <1>7, <2>1 DEF ReadQueue
  <2>8. rel.pc = "orders" BY <1>7 DEF ReadQueue
  <2> HIDE DEF IInv, Typed, ControlOK, MixOK, QueueOK, OnlyOld
  <2> QED BY <2>1, <2>2, <2>3, <2>4, <2>7, <2>8
<1>8. CASE WriteArchive
  <2>1. rel.k \in Entry /\ rel.pc = "write_archive" /\ rel.queue \in SUBSET Order
    BY <1>8 DEF WriteArchive
  <2>2. archive'[rel.k] # None /\ archive'[rel.k].mark = "archiving"
    BY <1>8, <2>1 DEF WriteArchive, Marks
  <2>3. \A i \in Entry : i # rel.k => archive'[i] = archive[i] BY <1>8 DEF WriteArchive
  <2>4. rel'.pc = "clear" /\ rel'.k = rel.k /\ UNCHANGED <<live, pending, cycle, crashes, raced>>
    BY <1>8 DEF WriteArchive, Goto
  <2>5. \A i \in Entry : OnlyOld(i) => OnlyOld(i)' BY <2>4
  <2> HIDE DEF IInv, Typed, ControlOK, MixOK, QueueOK, OnlyOld
  <2> QED BY <2>1, <2>2, <2>3, <2>4, <2>5
<1>9. CASE ClearQueue BY <1>9 DEF ClearQueue, Goto
<1>10. CASE MarkCleared
  <2>1. rel.k \in Entry BY <1>10 DEF MarkCleared
  <2>2. archive'[rel.k] # None /\ archive'[rel.k].mark = "cleared"
    BY <1>10, <2>1 DEF MarkCleared, Marks
  <2>3. \A i \in Entry : i # rel.k => archive'[i] = archive[i] BY <1>10 DEF MarkCleared
  <2>4. /\ rel.pc = "mark" /\ rel'.pc = "next" /\ rel'.k = rel.k
        /\ UNCHANGED <<live, pending, cycle, crashes, raced>>
    BY <1>10 DEF MarkCleared, Goto
  <2>5. \A i \in Entry : OnlyOld(i) => OnlyOld(i)' BY <2>4
  <2> HIDE DEF IInv, Typed, ControlOK, MixOK, QueueOK, OnlyOld
  <2> QED BY <2>1, <2>2, <2>3, <2>4, <2>5
<1>11. CASE NextEntry BY <1>11 DEF NextEntry
<1>12. CASE Conflict BY <1>12 DEF Conflict
<1>13. CASE Return
  <2>1. rel.k \notin Entry BY <1>13 DEF Return, Entry
  <2> QED BY <1>13, <2>1 DEF Return
<1>14. CASE Kill BY <1>14 DEF Kill
<1>15. ASSUME NEW i \in Entry, LoadConfig(i) PROVE FreshOK'
  <2>1. UNCHANGED <<live, archive, pending, rel, crashes>> BY <1>15 DEF LoadConfig
  <2>2. ~raced' => ~raced /\ rel.pc = "idle" BY <1>15 DEF LoadConfig
  <2>3. \A j \in Entry : j # i => cycle'[j] = cycle[j] BY <1>15 DEF LoadConfig, SetCycle
  <2>4. cycle'[i].config = live[i] /\ cycle'[i].before = {} BY <1>15 DEF LoadConfig, SetCycle
  <2>5. crashes = 0 /\ ~raced' /\ (archive[i] = None \/ archive[i].mark = "archiving") =>
          archive[i] = None /\ live[i] = "old"
    BY <2>2
  <2>6. \A j \in Entry : j # i /\ OnlyOld(j) => OnlyOld(j)' BY <2>1, <2>3
  <2>7. live[i] = "old" /\ OnlyOld(i) => OnlyOld(i)' BY <2>1, <2>4
  <2> HIDE DEF IInv, Typed, ControlOK, MixOK, QueueOK, OnlyOld
  <2> QED BY <2>1, <2>2, <2>5, <2>6, <2>7
<1>16. ASSUME NEW i \in Entry, Execute(i) PROVE FreshOK'
  BY <1>16 DEF Execute, SetCycle
<1>17. ASSUME NEW i \in Entry, Drop(i) PROVE FreshOK'
  BY <1>17 DEF Drop, SetCycle
<1>18. ASSUME NEW i \in Entry, Generate(i) PROVE FreshOK'
  BY <1>18 DEF Generate, SetCycle, OrdersBy
<1>19. ASSUME NEW i \in Entry, KillCycle(i) PROVE FreshOK'
  BY <1>19 DEF KillCycle
<1>20. CASE UNCHANGED vars BY <1>20 DEF vars
<1> QED BY <1>1, <1>2, <1>3, <1>4, <1>5, <1>6, <1>7, <1>8, <1>9, <1>10, <1>11, <1>12, <1>13, <1>14, <1>15, <1>16, <1>17, <1>18, <1>19, <1>20 DEF Next, Release, DailyCycle

(* A release leaves its complete audit trail behind, in any number of runs *)
(* and refusals, as long as neither it nor a daily cycle is killed.        *)
THEOREM ReleaseAuditedUntilKilled == Spec => [](crashes = 0 => Audited)
<1>1. Init => AuditOK BY DEF Init, AuditOK, IdleTyped, ReleaseIdle
<1>2. IInv /\ AuditOK /\ [Next]_vars => AuditOK' BY AuditStep
<1>3. Spec => []AuditOK BY ReleaseInvariance, <1>1, <1>2, PTL DEF Spec
<1>4. IInv /\ AuditOK => (crashes = 0 => Audited)
  BY DEF IInv, ControlOK, Recoverable, AuditOK, Audited
<1> QED BY ReleaseInvariance, <1>3, <1>4, PTL

(* Without a kill and a daily cycle beside a release, a release takes no   *)
(* order of the new strategy off a queue.                                  *)
FreshOrdersKeptUntilKilled ==
  [][crashes = 0 => \A i \in Entry, o \in Order :
       (~raced /\ o.by = "new" /\ o \in pending[i] /\ cycle'[i] = cycle[i]) => o \in pending'[i]]_vars

(* So the orders release_fresh sees archived and cleared are lost to a kill *)
(* between an entry's overlay and its archive, and to nothing else.       *)
THEOREM ReleaseFreshKeptUntilKilled == Spec => FreshOrdersKeptUntilKilled
<1> DEFINE A == crashes = 0 => \A i \in Entry, o \in Order :
                  (~raced /\ o.by = "new" /\ o \in pending[i] /\ cycle'[i] = cycle[i]) => o \in pending'[i]
<1>1. Init => FreshOK
  <2> SUFFICES ASSUME Init PROVE FreshOK OBVIOUS
  <2>1. rel.pc = "idle" /\ \A i \in Entry : cycle[i].pc = "idle" BY IdleTyped DEF Init
  <2>2. ASSUME NEW i \in Entry, archive[i] = None \/ archive[i].mark = "archiving"
        PROVE  archive[i] = None /\ ~done
    <3>1. IInv BY InitIInv
    <3>2. archive[i] # None => archive[i].mark = "unmarked" BY DEF Init
    <3> QED BY <2>2, <3>1, <3>2 DEF IInv, ControlOK
  <2>3. ~done => \A i \in Entry : live[i] = "old" /\ \A o \in pending[i] : o.by = "old"
    BY DEF Init, OrdersBy
  <2> QED BY <2>1, <2>2, <2>3 DEF FreshOK, OnlyOld
<1>2. IInv /\ FreshOK /\ [Next]_vars => FreshOK' BY FreshStep
<1>3. Spec => []FreshOK BY ReleaseInvariance, <1>1, <1>2, PTL DEF Spec
<1>4. ASSUME IInv, FreshOK, [Next]_vars PROVE [A]_vars
  <2> SUFFICES ASSUME crashes = 0, NEW i \in Entry, NEW o \in Order, ~raced, o.by = "new",
                      o \in pending[i], cycle'[i] = cycle[i], o \notin pending'[i]
               PROVE  FALSE
    OBVIOUS
  <2>1. CASE ClearQueue
    <3>1. i = rel.k BY <1>4, <2>1 DEF ClearQueue, IInv, Typed
    <3>2. OnlyOld(i) BY <1>4, <2>1, <3>1 DEF ClearQueue, FreshOK
    <3> QED BY <3>2 DEF OnlyOld
  <2>2. ASSUME NEW j \in Entry, Execute(j) \/ Drop(j) \/ Generate(j) PROVE FALSE
    <3>1. cycle[j].pc # cycle'[j].pc BY <1>4, <2>2, CycleMoves DEF IInv
    <3>2. i = j BY <1>4, <2>2 DEF Execute, Drop, Generate, IInv, Typed
    <3> QED BY <3>1, <3>2
  <2>3. pending' # pending OBVIOUS
  <2> QED
    BY <1>4, <2>1, <2>2, <2>3
    DEF Next, Release, DailyCycle, Prepare, Gates, OpenEntry, Backup, Switch, Record, ReadQueue,
        WriteArchive, MarkCleared, NextEntry, Conflict, Return, Kill, LoadConfig, KillCycle,
        files, vars
<1> QED BY ReleaseInvariance, <1>3, <1>4, PTL DEF Spec, FreshOrdersKeptUntilKilled
=============================================================================
