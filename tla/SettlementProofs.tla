-------------------------- MODULE SettlementProofs --------------------------
(***************************************************************************)
(* Proofs about SettlementAccount, whether sale proceeds are reusable the  *)
(* same day, as the cn_qdii_etf mechanics set it, or queued to settle:     *)
(* type correctness, the exactly-once and reconciliation invariants        *)
(* through crashes and replays, and that the journalled store implements   *)
(* AtomicLedger.                                                           *)
(***************************************************************************)
EXTENDS SettlementAccount, FiniteSetTheorems, WellFoundedInduction, TLAPS

-----------------------------------------------------------------------------
(* The inductive invariant, by parts. *)

Work_ == [book : Book, ledger : Ledger, todo : SUBSET Order, kept : SUBSET Order]
Plan_ == [keys : SUBSET ((Accounts \cup {Retired}) \X Codes),
          power : [Accounts -> Nat], new : SUBSET Order]

(* The program counter determines what memory there is ...                 *)
Memory ==
  /\ pc = "exec" => work \in Work_
  /\ pc = "plan" => plan \in Plan_

(* ... which job runs, and whether there is a journal.                     *)
Control ==
  /\ pc \notin {"plan", "enrich", "restore"} \/ job # "run-daily" => saved = {}
  /\ pc \in {"load", "exec"} => journal = None
  /\ pc \in {"commit", "recover"} => journal # None
  /\ pc \notin {"commit", "recover"} => step = 0
  /\ pc \in {"recover", "load", "exec", "commit"} => job \in {"execute", "run-daily"}
  /\ pc \in {"nav", "nav_state", "nav_view"} => job \in {"update-nav", "run-daily"}
  /\ pc \in {"clear", "restore"} => job = "run-daily"
  /\ pc \in {"plan", "enrich"} => job \in {"rebalance", "run-daily"}

(* The writes done so far are the journal's.                               *)
Replayed ==
  pc \in {"commit", "recover"} =>
    /\ step >= 1 => book = journal.book
    /\ step >= 2 => open = journal.open
    /\ step >= 3 => ledger = journal.ledger
    /\ step >= 4 => view = journal.book.pos

(* A book and a ledger that agree, without overdraft: a receivable is that *)
(* of a booked sell, and what is queued counts as money.                   *)
Agree(b, l) ==
  \A a \in Accounts :
    /\ IsFiniteSet(b.queue[a]) /\ \A r \in b.queue[a] : l.rows[r.id] > 0
    /\ b.cash[a] >= 0
    /\ b.cash[a] + QueueTotal(b.queue[a]) = InitCash + l.net[a]
    /\ \A c \in Codes : b.pos[a][c] = l.lots[a][c]

FiniteQueues(b) == \A a \in Accounts : IsFiniteSet(b.queue[a])

(* Orders with ids of their own, given out already and not booked.         *)
Pending(orders, l) ==
  /\ \A o, p \in orders : o.id = p.id => o = p
  /\ \A o \in orders : o.id <= issued /\ l.rows[o.id] = 0

(* A ledger without a second row for an order, or a row for an order not   *)
(* yet issued.                                                             *)
Single(l) == \A i \in OrderIds : l.rows[i] \in {0, 1} /\ (i > issued => l.rows[i] = 0)

SettledOK ==
  /\ Agree(Settled.book, Settled.ledger)
  /\ Single(Settled.ledger)
  /\ Pending(Settled.open, Settled.ledger)
  /\ FiniteQueues(book)
  /\ journal = None => view = book.pos

(* An execution in memory: the orders read are still to do, kept or        *)
(* booked, and a booking is the only change to the rows.                   *)
ExecOK ==
  pc = "exec" =>
    /\ Agree(work.book, work.ledger)
    /\ Single(work.ledger)
    /\ Pending(work.todo \cup work.kept, work.ledger)
    /\ work.todo \cap work.kept = {}
    /\ work.todo \cup work.kept \subseteq open
    /\ \A i \in OrderIds :
         work.ledger.rows[i] =
           ledger.rows[i] +
             (IF i \in IdsOf(open) \ IdsOf(work.todo \cup work.kept) THEN 1 ELSE 0)

(* The orders a daily run may write, or write back, are not booked.        *)
DailyOK ==
  /\ job = "run-daily" /\ pc \in {"nav", "nav_state", "nav_view", "clear", "plan", "enrich",
                                  "restore"} => journal = None
  /\ job = "run-daily" /\ pc \in {"nav_state", "nav_view", "clear", "plan", "enrich",
                                  "restore"} => nav[day] = "current"
  /\ journal = None => Pending(saved, ledger)
  /\ pc = "plan" /\ journal = None => Pending(open \cup plan.new, ledger)

IInv == TypeOK /\ Memory /\ Control /\ Replayed /\ SettledOK /\ ExecOK /\ DailyOK

-----------------------------------------------------------------------------
(* The settlement queue *)

(* Induction over finite sets, as a fact about a set of sets.              *)
LEMMA FiniteSubsets ==
  ASSUME NEW S, NEW T,
         \A q \in SUBSET S : IsFiniteSet(q) /\ (\A r \in q : q \ {r} \in T) => q \in T
  PROVE  \A q \in SUBSET S : IsFiniteSet(q) => q \in T
<1>. DEFINE Left == {q \in FiniteSubsetsOf(S) : q \notin T}
<1>. SUFFICES ASSUME Left # {} PROVE FALSE BY DEF FiniteSubsetsOf
<1>1. PICK q \in Left : \A u \in Left : ~(<<u, q>> \in StrictSubsetOrdering(S))
  <2>1. Left \subseteq FiniteSubsetsOf(S) OBVIOUS
  <2>. HIDE DEF Left
  <2>. QED BY <2>1, FS_StrictSubsetOrderingWellFounded, WFMin
<1>2. q \in SUBSET S /\ IsFiniteSet(q) /\ q \notin T BY DEF FiniteSubsetsOf
<1>3. ASSUME NEW r \in q PROVE q \ {r} \in T
  <2>1. q \ {r} \in FiniteSubsetsOf(S) BY <1>2, FS_RemoveElement DEF FiniteSubsetsOf
  <2>2. <<q \ {r}, q>> \in StrictSubsetOrdering(S) BY <1>2, <1>3 DEF StrictSubsetOrdering
  <2>. QED BY <1>1, <2>1, <2>2
<1>. QED BY <1>2, <1>3

(* What the fold of QueueTotal computes: a total for each part of a queue, *)
(* one receivable after the other ...                                      *)
Taken(s) == CHOOSE r \in s : TRUE
Totals(f, q) ==
  [s \in SUBSET q |-> IF s = {} THEN 0 ELSE Taken(s).amount + f[s \ {Taken(s)}]]

(* ... in whatever order they are taken.                                   *)
Additive(f, q) ==
  /\ f \in [SUBSET q -> Nat] /\ f[{}] = 0
  /\ \A s \in SUBSET q : \A r \in s : f[s] = r.amount + f[s \ {r}]

LEMMA TotalUnfolds ==
  ASSUME NEW q, q # {}
  PROVE  QueueTotal(q) = (CHOOSE f : f = Totals(f, q))[q]
BY DEF QueueTotal, MapThenSumSet, MapThenFoldSet, Totals, Taken

(* A finite queue has such totals.                                         *)
LEMMA AdditiveExists ==
  ASSUME NEW q \in SUBSET Receivable, IsFiniteSet(q)
  PROVE  \E f : Additive(f, q)
<1>. DEFINE T == {u \in SUBSET Receivable : \E f : Additive(f, u)}
<1>1. ASSUME NEW u \in SUBSET Receivable, IsFiniteSet(u), \A r \in u : u \ {r} \in T
      PROVE  u \in T
  <2>1. CASE u = {}
    <3>. DEFINE f == [s \in SUBSET u |-> 0]
    <3>1. Additive(f, u) BY <2>1 DEF Additive
    <3>. QED BY <3>1
  <2>2. CASE u # {}
    <3>1. PICK r \in u : TRUE BY <2>2
    <3>2. r.amount \in Nat BY DEF Receivable
    <3>3. PICK f : Additive(f, u \ {r}) BY <1>1
    <3>. DEFINE more(s) == IF r \in s THEN r.amount ELSE 0
                g == [s \in SUBSET u |-> f[s \ {r}] + more(s)]
    <3>4. \A s \in SUBSET u : s \ {r} \in SUBSET (u \ {r}) OBVIOUS
    <3>5. \A s \in SUBSET u : f[s \ {r}] \in Nat /\ more(s) \in Nat
      BY <3>2, <3>3, <3>4 DEF Additive
    <3>6. g \in [SUBSET u -> Nat]
      <4>. HIDE DEF more
      <4>1. ASSUME NEW s \in SUBSET u PROVE f[s \ {r}] + more(s) \in Nat
        <5>1. f[s \ {r}] \in Nat /\ more(s) \in Nat BY <3>5
        <5>. QED BY <5>1
      <4>. QED BY <4>1
    <3>7. g[{}] = 0
      <4>1. {} \ {r} = {} /\ {} \in SUBSET u OBVIOUS
      <4>. QED BY <3>3, <4>1 DEF Additive
    <3>8. ASSUME NEW s \in SUBSET u, NEW x \in s PROVE g[s] = x.amount + g[s \ {x}]
      <4>1. g[s] = f[s \ {r}] + more(s) /\ g[s \ {x}] = f[(s \ {x}) \ {r}] + more(s \ {x})
        OBVIOUS
      <4>2. x.amount \in Nat BY <1>1 DEF Receivable
      <4>3. f[s \ {r}] \in Nat /\ more(s) \in Nat /\ f[(s \ {x}) \ {r}] \in Nat
        <5>1. s \ {x} \in SUBSET u OBVIOUS
        <5>. QED BY <3>5, <5>1
      <4>4. CASE x = r
        <5>1. (s \ {x}) \ {r} = s \ {r} /\ more(s) = x.amount /\ more(s \ {x}) = 0 BY <4>4
        <5>. QED BY <4>1, <4>2, <4>3, <5>1
      <4>5. CASE x # r
        <5>1. (s \ {x}) \ {r} = (s \ {r}) \ {x} /\ x \in s \ {r} /\ more(s \ {x}) = more(s)
          BY <4>5
        <5>2. f[s \ {r}] = x.amount + f[(s \ {r}) \ {x}] BY <3>3, <3>4, <5>1 DEF Additive
        <5>. HIDE DEF more, g
        <5>. QED BY <4>1, <4>2, <4>3, <5>1, <5>2
      <4>. QED BY <4>4, <4>5
    <3>. HIDE DEF g
    <3>9. Additive(g, u) BY <3>6, <3>7, <3>8 DEF Additive
    <3>. QED BY <3>9
  <2>. QED BY <2>1, <2>2
<1>. HIDE DEF T
<1>2. q \in T BY <1>1, FiniteSubsets
<1>. QED BY <1>2 DEF T

(* They are what the fold computes, for every part of the queue.           *)
LEMMA TotalIsAdditive ==
  ASSUME NEW q \in SUBSET Receivable, IsFiniteSet(q), NEW f, Additive(f, q), NEW s \in SUBSET q
  PROVE  QueueTotal(s) = f[s]
<1>1. CASE s = {} BY <1>1 DEF QueueTotal, Additive
<1>2. CASE s # {}
  <2>. DEFINE g == CHOOSE h : h = Totals(h, s)
  <2>1. \A u \in SUBSET s : u # {} => Taken(u) \in u BY DEF Taken
  <2>2. g = Totals(g, s)
    <3>. DEFINE h == [u \in SUBSET s |-> f[u]]
    <3>1. \A u \in SUBSET s : h[u] = IF u = {} THEN 0 ELSE Taken(u).amount + h[u \ {Taken(u)}]
      BY <2>1 DEF Additive
    <3>2. h = Totals(h, s) BY <3>1 DEF Totals
    <3>. QED BY <3>2
  <2>. HIDE DEF g
  <2>. DEFINE T == {u \in SUBSET s : g[u] = f[u]}
  <2>3. ASSUME NEW u \in SUBSET s, \A r \in u : u \ {r} \in T PROVE u \in T
    <3>1. g[u] = IF u = {} THEN 0 ELSE Taken(u).amount + g[u \ {Taken(u)}]
      BY <2>2 DEF Totals
    <3>2. CASE u = {} BY <3>1, <3>2 DEF Additive
    <3>3. CASE u # {}
      <4>1. Taken(u) \in u BY <2>1, <3>3
      <4>2. g[u \ {Taken(u)}] = f[u \ {Taken(u)}] BY <2>3, <4>1
      <4>3. f[u] = Taken(u).amount + f[u \ {Taken(u)}] BY <4>1 DEF Additive
      <4>. QED BY <3>1, <3>3, <4>2, <4>3
    <3>. QED BY <3>2, <3>3
  <2>. HIDE DEF T
  <2>4. IsFiniteSet(s) BY FS_Subset
  <2>5. s \in T BY <2>3, <2>4, FiniteSubsets
  <2>6. QueueTotal(s) = g[s] BY <1>2, TotalUnfolds DEF g
  <2>. QED BY <2>5, <2>6 DEF T
<1>. QED BY <1>1, <1>2

(* A queue is worth a number of cents, and nothing when it is empty.       *)
LEMMA QueueTotalType ==
  ASSUME NEW q \in SUBSET Receivable, IsFiniteSet(q)
  PROVE  QueueTotal(q) \in Nat /\ QueueTotal({}) = 0
<1>1. PICK f : Additive(f, q) BY AdditiveExists
<1>2. QueueTotal(q) = f[q] BY <1>1, TotalIsAdditive
<1>. QED BY <1>1, <1>2 DEF Additive, QueueTotal

(* A new receivable adds its amount.                                       *)
LEMMA QueueTotalAdds ==
  ASSUME NEW q \in SUBSET Receivable, IsFiniteSet(q), NEW r \in Receivable, r \notin q
  PROVE  QueueTotal(q \cup {r}) = QueueTotal(q) + r.amount
<1>. DEFINE u == q \cup {r}
<1>1. u \in SUBSET Receivable /\ IsFiniteSet(u) BY FS_AddElement
<1>2. PICK f : Additive(f, u) BY <1>1, AdditiveExists
<1>3. QueueTotal(u) = f[u] /\ QueueTotal(q) = f[q] BY <1>1, <1>2, TotalIsAdditive
<1>4. u \ {r} = q /\ r \in u /\ q \in SUBSET u OBVIOUS
<1>5. f[u] = r.amount + f[q] /\ f[q] \in Nat BY <1>2, <1>4 DEF Additive
<1>6. r.amount \in Nat BY DEF Receivable
<1>. QED BY <1>3, <1>5, <1>6

(* The queue is worth what its parts are worth.                            *)
LEMMA QueueTotalSplits ==
  ASSUME NEW q \in SUBSET Receivable, IsFiniteSet(q), NEW due \in SUBSET q
  PROVE  QueueTotal(q) = QueueTotal(due) + QueueTotal(q \ due)
<1>. DEFINE T == {u \in SUBSET q : QueueTotal(q) = QueueTotal(u) + QueueTotal(q \ u)}
<1>1. ASSUME NEW u \in SUBSET q, \A r \in u : u \ {r} \in T PROVE u \in T
  <2>1. CASE u = {}
    <3>1. q \ u = q BY <2>1
    <3>2. QueueTotal(q) \in Nat /\ QueueTotal(u) = 0 BY <2>1, QueueTotalType
    <3>. QED BY <3>1, <3>2
  <2>2. CASE u # {}
    <3>1. PICK r \in u : TRUE BY <2>2
    <3>2. QueueTotal(q) = QueueTotal(u \ {r}) + QueueTotal(q \ (u \ {r})) BY <1>1, <3>1
    <3>3. u = (u \ {r}) \cup {r} /\ q \ (u \ {r}) = (q \ u) \cup {r} BY <3>1
    <3>4. IsFiniteSet(u \ {r}) /\ IsFiniteSet(q \ u) BY FS_Subset
    <3>5. QueueTotal(u) = QueueTotal(u \ {r}) + r.amount
      BY <3>3, <3>4, QueueTotalAdds
    <3>6. QueueTotal(q \ (u \ {r})) = QueueTotal(q \ u) + r.amount
      BY <3>1, <3>3, <3>4, QueueTotalAdds
    <3>7. QueueTotal(u \ {r}) \in Nat /\ QueueTotal(q \ u) \in Nat BY <3>4, QueueTotalType
    <3>8. r.amount \in Nat BY <3>1 DEF Receivable
    <3>. QED BY <3>2, <3>5, <3>6, <3>7, <3>8
  <2>. QED BY <2>1, <2>2
<1>. HIDE DEF T
<1>2. IsFiniteSet(due) BY FS_Subset
<1>3. due \in T BY <1>1, <1>2, FiniteSubsets
<1>. QED BY <1>3 DEF T

(* A drain moves money from the queue to cash; it never creates or loses   *)
(* any, nor does it touch a position.                                      *)
LEMMA DrainedBook ==
  ASSUME NEW b \in Book, NEW d \in Nat, FiniteQueues(b)
  PROVE  /\ Drained(b, d) \in Book /\ Drained(b, d).pos = b.pos
         /\ \A a \in Accounts :
              /\ Drained(b, d).queue[a] \subseteq b.queue[a]
              /\ IsFiniteSet(Drained(b, d).queue[a])
              /\ Drained(b, d).cash[a] >= b.cash[a]
              /\ Drained(b, d).cash[a] + QueueTotal(Drained(b, d).queue[a])
                   = b.cash[a] + QueueTotal(b.queue[a])
<1>. DEFINE due(a) == {r \in b.queue[a] : r.settle <= d}
            rest(a) == {r \in b.queue[a] : r.settle > d}
            cash == [a \in Accounts |-> b.cash[a] + QueueTotal(due(a))]
            queue == [a \in Accounts |-> rest(a)]
<1>1. /\ b.cash \in [Accounts -> Int] /\ b.pos \in [Accounts -> [Codes -> Nat]]
      /\ b.queue \in [Accounts -> SUBSET Receivable]
      /\ b = [cash |-> b.cash, pos |-> b.pos, queue |-> b.queue]
  BY DEF Book
<1>2. Drained(b, d) = [cash |-> cash, pos |-> b.pos, queue |-> queue]
  <2>1. Drained(b, d) = [b EXCEPT !.cash = cash, !.queue = queue] BY DEF Drained
  <2>. HIDE DEF cash, queue
  <2>. QED BY <1>1, <2>1
<1>3. ASSUME NEW a \in Accounts
      PROVE  /\ rest(a) \in SUBSET Receivable /\ rest(a) \subseteq b.queue[a]
             /\ IsFiniteSet(rest(a)) /\ QueueTotal(due(a)) \in Nat
             /\ QueueTotal(b.queue[a]) = QueueTotal(due(a)) + QueueTotal(rest(a))
             /\ QueueTotal(rest(a)) \in Nat
  <2>1. b.queue[a] \in SUBSET Receivable /\ IsFiniteSet(b.queue[a])
    BY <1>1 DEF FiniteQueues
  <2>2. due(a) \in SUBSET b.queue[a] /\ rest(a) \in SUBSET b.queue[a] OBVIOUS
  <2>3. rest(a) = b.queue[a] \ due(a)
    <3>1. \A r \in b.queue[a] : r.settle \in Nat BY <2>1 DEF Receivable
    <3>. QED BY <3>1
  <2>. HIDE DEF due, rest
  <2>4. IsFiniteSet(due(a)) /\ IsFiniteSet(rest(a)) BY <2>1, <2>2, FS_Subset
  <2>5. QueueTotal(due(a)) \in Nat /\ QueueTotal(rest(a)) \in Nat
    BY <2>1, <2>2, <2>4, QueueTotalType
  <2>6. QueueTotal(b.queue[a]) = QueueTotal(due(a)) + QueueTotal(rest(a))
    BY <2>1, <2>2, <2>3, QueueTotalSplits
  <2>. QED BY <2>1, <2>2, <2>4, <2>5, <2>6
<1>. HIDE DEF due, rest
<1>4. cash \in [Accounts -> Int] /\ queue \in [Accounts -> SUBSET Receivable]
  BY <1>1, <1>3
<1>5. Drained(b, d) \in Book BY <1>1, <1>2, <1>4 DEF Book
<1>6. \A a \in Accounts :
        /\ queue[a] \subseteq b.queue[a] /\ IsFiniteSet(queue[a]) /\ cash[a] >= b.cash[a]
        /\ cash[a] + QueueTotal(queue[a]) = b.cash[a] + QueueTotal(b.queue[a])
  BY <1>1, <1>3
<1>. HIDE DEF cash, queue
<1>. QED BY <1>2, <1>5, <1>6

(* So it keeps a book in agreement with its ledger.                        *)
LEMMA DrainedAgrees ==
  ASSUME NEW b \in Book, NEW d \in Nat, NEW l \in Ledger, Agree(b, l)
  PROVE  Drained(b, d) \in Book /\ Agree(Drained(b, d), l)
<1>1. FiniteQueues(b) BY DEF Agree, FiniteQueues
<1>. DEFINE e == Drained(b, d)
<1>2. /\ e \in Book /\ e.pos = b.pos
      /\ \A a \in Accounts :
           /\ e.queue[a] \subseteq b.queue[a] /\ IsFiniteSet(e.queue[a])
           /\ e.cash[a] >= b.cash[a]
           /\ e.cash[a] + QueueTotal(e.queue[a]) = b.cash[a] + QueueTotal(b.queue[a])
  BY <1>1, DrainedBook
<1>. HIDE DEF e
<1>3. \A a \in Accounts : e.cash[a] \in Int /\ b.cash[a] \in Int BY <1>2 DEF Book
<1>4. Agree(e, l) BY <1>2, <1>3 DEF Agree
<1>. QED BY <1>2, <1>4 DEF e

-----------------------------------------------------------------------------
(* Lemmas about money and books *)

(* What a buy costs is a number of cents.                                  *)
LEMMA DebitType ==
  ASSUME NEW n \in Nat, NEW px \in Nat
  PROVE  Debit(n, px) \in Nat
<1>1. n * px \in Nat OBVIOUS
<1>2. Unit + Fee \in Nat BY SettlementAssumption
<1>. QED BY <1>1, <1>2 DEF Debit

(* What a sale brings is never negative: the commission is a fraction.     *)
LEMMA ProceedsType ==
  ASSUME NEW n \in Nat, NEW px \in Nat
  PROVE  Proceeds(n, px) \in Nat
<1>1. n * px \in Nat OBVIOUS
<1>2. Unit - Fee \in Nat BY SettlementAssumption
<1>. QED BY <1>1, <1>2 DEF Proceeds

(* A row of the ledger adds what it says, and nothing else.                *)
LEMMA RowAdds ==
  ASSUME NEW l \in Ledger, NEW o \in Order, NEW n \in Int, NEW m \in Int,
         o.acct \in Accounts
  PROVE  /\ WithRow(l, o, n, m) \in Ledger
         /\ \A i \in OrderIds :
              WithRow(l, o, n, m).rows[i] = l.rows[i] + (IF i = o.id THEN 1 ELSE 0)
         /\ \A a \in Accounts :
              WithRow(l, o, n, m).net[a] = l.net[a] + (IF a = o.acct THEN m ELSE 0)
         /\ \A a \in Accounts, c \in Codes :
              WithRow(l, o, n, m).lots[a][c] =
                l.lots[a][c] + (IF a = o.acct /\ c = o.code THEN n ELSE 0)
<1>1. o.code \in Codes /\ o.id \in OrderIds BY DEF Order
<1>2. /\ l.rows \in [OrderIds -> Nat] /\ l.lots \in [Accounts -> [Codes -> Int]]
      /\ l.net \in [Accounts -> Int]
  BY DEF Ledger
<1>3. [l.rows EXCEPT ![o.id] = @ + 1] \in [OrderIds -> Nat]
  BY <1>1, <1>2
<1>4. [l.lots EXCEPT ![o.acct][o.code] = @ + n] \in [Accounts -> [Codes -> Int]]
  BY <1>1, <1>2
<1>5. [l.net EXCEPT ![o.acct] = @ + m] \in [Accounts -> Int]
  BY <1>1, <1>2
<1>6. WithRow(l, o, n, m) \in Ledger
  BY <1>3, <1>4, <1>5 DEF WithRow, Ledger
<1>. QED BY <1>1, <1>2, <1>6 DEF WithRow

(* A filled buy keeps book and ledger in agreement and cash non-negative.  *)
LEMMA BuyAgrees ==
  ASSUME NEW b \in Book, NEW l \in Ledger, NEW o \in Order, NEW px \in Nat,
         o.acct \in Accounts, BuyFits(b, o, px), Agree(b, l)
  PROVE  /\ AfterBuy(b, o, px) \in Book
         /\ Agree(AfterBuy(b, o, px), WithRow(l, o, o.lots, -Debit(o.lots, px)))
<1>. DEFINE cost == Debit(o.lots, px)
<1>a. o.lots \in Nat /\ o.code \in Codes BY DEF Order
<1>b. cost \in Nat /\ cost <= b.cash[o.acct] BY <1>a, DebitType DEF BuyFits
<1>. HIDE DEF cost
<1>1. /\ cost \in Nat /\ -cost \in Int /\ o.lots \in Nat /\ o.code \in Codes
      /\ cost <= b.cash[o.acct]
  BY <1>a, <1>b
<1>2. /\ b.cash \in [Accounts -> Int] /\ b.pos \in [Accounts -> [Codes -> Nat]]
      /\ b.queue \in [Accounts -> SUBSET Receivable]
      /\ l.net \in [Accounts -> Int] /\ l.lots \in [Accounts -> [Codes -> Int]]
  BY DEF Book, Ledger
<1>. DEFINE cash == [b.cash EXCEPT ![o.acct] = @ - cost]
            pos == [b.pos EXCEPT ![o.acct][o.code] = @ + o.lots]
            l2 == WithRow(l, o, o.lots, -cost)
<1>3. AfterBuy(b, o, px) = [cash |-> cash, pos |-> pos, queue |-> b.queue]
  BY DEF AfterBuy, cost
<1>4. cash \in [Accounts -> Int] /\ pos \in [Accounts -> [Codes -> Nat]]
  BY <1>1, <1>2
<1>5. AfterBuy(b, o, px) \in Book
  BY <1>2, <1>3, <1>4 DEF Book
<1>6. /\ \A i \in OrderIds : l2.rows[i] = l.rows[i] + (IF i = o.id THEN 1 ELSE 0)
      /\ \A a \in Accounts : l2.net[a] = l.net[a] + (IF a = o.acct THEN -cost ELSE 0)
      /\ \A a \in Accounts, c \in Codes :
           l2.lots[a][c] = l.lots[a][c] + (IF a = o.acct /\ c = o.code THEN o.lots ELSE 0)
  BY <1>1, RowAdds
<1>. HIDE DEF l2
<1>7. ASSUME NEW a \in Accounts
      PROVE  /\ IsFiniteSet(b.queue[a]) /\ \A r \in b.queue[a] : l2.rows[r.id] > 0
             /\ cash[a] >= 0
             /\ cash[a] + QueueTotal(b.queue[a]) = InitCash + l2.net[a]
  <2>1. /\ IsFiniteSet(b.queue[a]) /\ b.queue[a] \in SUBSET Receivable
        /\ \A r \in b.queue[a] : l.rows[r.id] > 0
        /\ b.cash[a] >= 0 /\ b.cash[a] \in Int
        /\ b.cash[a] + QueueTotal(b.queue[a]) = InitCash + l.net[a]
    BY <1>2 DEF Agree
  <2>2. QueueTotal(b.queue[a]) \in Nat BY <2>1, QueueTotalType
  <2>3. \A r \in b.queue[a] : l2.rows[r.id] > 0
    <3>1. \A r \in b.queue[a] : r.id \in OrderIds BY <2>1 DEF Receivable
    <3>2. ASSUME NEW i \in OrderIds, l.rows[i] > 0 PROVE l2.rows[i] > 0
      <4>1. l.rows[i] \in Nat BY DEF Ledger
      <4>2. l2.rows[i] = l.rows[i] \/ l2.rows[i] = l.rows[i] + 1 BY <1>6, <4>1
      <4>. QED BY <3>2, <4>1, <4>2
    <3>. QED BY <2>1, <3>1, <3>2
  <2>4. cash[a] = b.cash[a] - (IF a = o.acct THEN cost ELSE 0) BY <1>1, <1>2, <2>1
  <2>5. l.net[a] \in Int /\ InitCash \in Nat BY <1>2, SettlementAssumption
  <2>. HIDE DEF cash
  <2>6. CASE a = o.acct
    <3>1. cash[a] = b.cash[a] - cost /\ l2.net[a] = l.net[a] - cost
      BY <1>1, <1>6, <2>4, <2>5, <2>6
    <3>2. cost <= b.cash[a] BY <1>1, <2>6
    <3>. QED BY <1>1, <2>1, <2>2, <2>3, <2>5, <3>1, <3>2
  <2>7. CASE a # o.acct
    <3>1. cash[a] = b.cash[a] /\ l2.net[a] = l.net[a] BY <1>6, <2>1, <2>4, <2>5, <2>7
    <3>. QED BY <2>1, <2>3, <3>1
  <2>. QED BY <2>6, <2>7
<1>8. \A a \in Accounts, c \in Codes : pos[a][c] = l2.lots[a][c]
  BY <1>1, <1>2, <1>6 DEF Agree
<1>. HIDE DEF cash, pos
<1>9. Agree([cash |-> cash, pos |-> pos, queue |-> b.queue], l2)
  BY <1>7, <1>8 DEF Agree
<1>. QED BY <1>3, <1>5, <1>9 DEF cost, l2

(* So does a filled sell, whose proceeds are cash at once or queued: an     *)
(* order that is not booked yet has no receivable.                         *)
LEMMA SellAgrees ==
  ASSUME NEW b \in Book, NEW l \in Ledger, NEW o \in Order, NEW px \in Nat, day \in Nat,
         o.acct \in Accounts, SellFits(b, o), Agree(b, l), l.rows[o.id] = 0
  PROVE  /\ AfterSell(b, o, px) \in Book
         /\ Agree(AfterSell(b, o, px), WithRow(l, o, -o.lots, Proceeds(o.lots, px)))
<1>. DEFINE gain == Proceeds(o.lots, px)
<1>a. o.lots \in Nat /\ o.code \in Codes /\ o.id \in OrderIds BY DEF Order
<1>b. gain \in Nat /\ o.lots <= b.pos[o.acct][o.code] BY <1>a, ProceedsType DEF SellFits
<1>. HIDE DEF gain
<1>1. /\ gain \in Nat /\ gain \in Int /\ -o.lots \in Int /\ o.lots \in Nat /\ o.code \in Codes
      /\ o.lots <= b.pos[o.acct][o.code] /\ o.id \in OrderIds
  BY <1>a, <1>b
<1>2. /\ b.cash \in [Accounts -> Int] /\ b.pos \in [Accounts -> [Codes -> Nat]]
      /\ b.queue \in [Accounts -> SUBSET Receivable] /\ l.rows \in [OrderIds -> Nat]
      /\ l.net \in [Accounts -> Int] /\ l.lots \in [Accounts -> [Codes -> Int]]
  BY DEF Book, Ledger
<1>. DEFINE rec == [id |-> o.id, settle |-> day + SettleDays, amount |-> gain]
            cash == IF ReuseProceeds THEN [b.cash EXCEPT ![o.acct] = @ + gain] ELSE b.cash
            pos == [b.pos EXCEPT ![o.acct][o.code] = @ - o.lots]
            queue == IF ReuseProceeds THEN b.queue
                     ELSE [b.queue EXCEPT ![o.acct] = @ \cup {rec}]
            n == -o.lots
            l2 == WithRow(l, o, n, gain)
<1>3. AfterSell(b, o, px) = [cash |-> cash, pos |-> pos, queue |-> queue]
  BY DEF AfterSell, gain
<1>4. rec \in Receivable /\ rec.id = o.id /\ rec.amount = gain
  <2>1. day + SettleDays \in Nat BY SettlementAssumption
  <2>. QED BY <1>1, <2>1 DEF Receivable
<1>. HIDE DEF rec
<1>5. /\ cash \in [Accounts -> Int] /\ pos \in [Accounts -> [Codes -> Nat]]
      /\ queue \in [Accounts -> SUBSET Receivable]
  BY <1>1, <1>2, <1>4, SettlementAssumption
<1>6. AfterSell(b, o, px) \in Book
  BY <1>3, <1>5 DEF Book
<1>c. n \in Int BY <1>1
<1>. HIDE DEF n
<1>7. /\ \A i \in OrderIds : l2.rows[i] = l.rows[i] + (IF i = o.id THEN 1 ELSE 0)
      /\ \A a \in Accounts : l2.net[a] = l.net[a] + (IF a = o.acct THEN gain ELSE 0)
      /\ \A a \in Accounts, c \in Codes :
           l2.lots[a][c] = l.lots[a][c] + (IF a = o.acct /\ c = o.code THEN n ELSE 0)
  BY <1>1, <1>c, RowAdds
<1>. HIDE DEF l2
<1>8. ASSUME NEW a \in Accounts
      PROVE  /\ IsFiniteSet(queue[a]) /\ \A r \in queue[a] : l2.rows[r.id] > 0
             /\ cash[a] >= 0
             /\ cash[a] + QueueTotal(queue[a]) = InitCash + l2.net[a]
  <2>1. /\ IsFiniteSet(b.queue[a]) /\ b.queue[a] \in SUBSET Receivable
        /\ \A r \in b.queue[a] : l.rows[r.id] > 0
        /\ b.cash[a] >= 0 /\ b.cash[a] \in Int
        /\ b.cash[a] + QueueTotal(b.queue[a]) = InitCash + l.net[a]
    BY <1>2 DEF Agree
  <2>2. QueueTotal(b.queue[a]) \in Nat BY <2>1, QueueTotalType
  <2>3. \A r \in b.queue[a] : r.id \in OrderIds /\ l2.rows[r.id] > 0
    <3>1. \A r \in b.queue[a] : r.id \in OrderIds BY <2>1 DEF Receivable
    <3>2. ASSUME NEW i \in OrderIds, l.rows[i] > 0 PROVE l2.rows[i] > 0
      <4>1. l.rows[i] \in Nat BY <1>2
      <4>2. l2.rows[i] = l.rows[i] \/ l2.rows[i] = l.rows[i] + 1 BY <1>7, <4>1
      <4>. QED BY <3>2, <4>1, <4>2
    <3>. QED BY <2>1, <3>1, <3>2
  <2>4. CASE ReuseProceeds
    <3>1. queue[a] = b.queue[a] /\ cash[a] = b.cash[a] + (IF a = o.acct THEN gain ELSE 0)
      BY <1>1, <1>2, <2>1, <2>4
    <3>2. l.net[a] \in Int /\ InitCash \in Nat BY <1>2, SettlementAssumption
    <3>. HIDE DEF queue, cash
    <3>. QED BY <1>1, <1>7, <2>1, <2>2, <2>3, <3>1, <3>2
  <2>5. CASE ~ReuseProceeds /\ a = o.acct
    <3>1. queue[a] = b.queue[a] \cup {rec} /\ cash[a] = b.cash[a] BY <1>2, <2>5
    <3>2. rec \notin b.queue[a] BY <1>4, <2>1
    <3>3. QueueTotal(queue[a]) = QueueTotal(b.queue[a]) + gain
      BY <1>4, <2>1, <3>1, <3>2, QueueTotalAdds
    <3>. HIDE DEF queue, cash
    <3>4. IsFiniteSet(queue[a])
      <4>1. IsFiniteSet(b.queue[a] \cup {rec}) BY <2>1, FS_AddElement, Zenon
      <4>. QED BY <3>1, <4>1
    <3>5. l2.rows[rec.id] > 0 BY <1>1, <1>2, <1>4, <1>7
    <3>6. l.net[a] \in Int /\ InitCash \in Nat BY <1>2, SettlementAssumption
    <3>7. \A r \in queue[a] : l2.rows[r.id] > 0 BY <2>3, <3>1, <3>5
    <3>. QED BY <1>1, <1>7, <2>1, <2>2, <2>5, <3>1, <3>3, <3>4, <3>6, <3>7
  <2>6. CASE ~ReuseProceeds /\ a # o.acct
    <3>1. queue[a] = b.queue[a] /\ cash[a] = b.cash[a] BY <1>2, <2>6
    <3>2. l2.net[a] = l.net[a]
      <4>1. l.net[a] \in Int BY <1>2
      <4>. QED BY <1>7, <2>6, <4>1
    <3>. HIDE DEF queue, cash
    <3>. QED BY <2>1, <2>3, <3>1, <3>2
  <2>. QED BY <2>4, <2>5, <2>6
<1>9. \A a \in Accounts, c \in Codes : pos[a][c] = l2.lots[a][c]
  BY <1>1, <1>2, <1>7 DEF Agree, n
<1>. HIDE DEF cash, pos, queue
<1>10. Agree([cash |-> cash, pos |-> pos, queue |-> queue], l2)
  BY <1>8, <1>9 DEF Agree
<1>. QED BY <1>3, <1>6, <1>10 DEF gain, l2, n

-----------------------------------------------------------------------------
(* Type correctness *)

(* The initial state has the right types and agrees with an empty ledger.  *)
LEMMA InitIInv == Init => IInv
<1>. SUFFICES ASSUME Init PROVE IInv OBVIOUS
<1>1. journal = None /\ Settled = [book |-> book, open |-> open, ledger |-> ledger]
  BY DEF Init, Settled
<1>2. book \in Book /\ ledger \in Ledger /\ open \subseteq Order
  BY SettlementAssumption DEF Init, Book, Ledger, Order, OrderIds
<1>3. issued \in 0..MaxOrders /\ crashes \in 0..MaxCrashes /\ day \in Dates
  BY SettlementAssumption DEF Init, Dates
<1>4. TypeOK
  BY <1>1, <1>2, <1>3 DEF Init, TypeOK
<1>5. Memory /\ Control /\ Replayed /\ ExecOK
  BY DEF Init, Memory, Control, Replayed, ExecOK
<1>6. \A o \in open : o.id = 1 /\ issued = 1
  BY DEF Init
<1>7. \A o, p \in open : o = p
  BY DEF Init
<1>8. Single(ledger) /\ \A i \in OrderIds : ledger.rows[i] = 0
  BY DEF Init, Single
<1>9. Pending(open, ledger)
  <2>1. \A o \in open : o.id \in OrderIds BY <1>2 DEF Order
  <2>. QED BY <2>1, <1>6, <1>7, <1>8 DEF Pending
<1>10. Agree(book, ledger) /\ FiniteQueues(book) /\ view = book.pos
  BY SettlementAssumption, FS_EmptySet DEF Init, Agree, FiniteQueues, QueueTotal
<1>11. SettledOK
  BY <1>1, <1>8, <1>9, <1>10 DEF SettledOK
<1>12. DailyOK
  BY DEF Init, DailyOK, Pending
<1>. QED BY <1>4, <1>5, <1>11, <1>12 DEF IInv

(* A planned order has a side, a positive size and a price.                *)
LEMMA PlanPick ==
  ASSUME TypeOK, NEW a \in Accounts, NEW c \in Codes, PlanSell(a, c) \/ PlanBuy(a, c)
  PROVE  \E side \in {"buy", "sell"}, n \in Nat \ {0}, cost \in Nat :
           PlanOrder(a, c, side, n, cost)
<1>1. CASE PlanSell(a, c)
  <2>1. book.pos[a][c] \in Nat BY DEF TypeOK, Book
  <2>2. \A n \in 1..book.pos[a][c] : n \in Nat \ {0} BY <2>1
  <2>3. PICK n \in 1..book.pos[a][c] : PlanOrder(a, c, "sell", n, 0)
    BY <1>1 DEF PlanSell
  <2>4. n \in Nat \ {0} /\ 0 \in Nat BY <2>2
  <2>. QED BY <2>3, <2>4
<1>2. CASE PlanBuy(a, c)
  <2>1. PICK n \in 1..MaxLots, px \in Prices : PlanOrder(a, c, "buy", n, Debit(n, px))
    BY <1>2 DEF PlanBuy
  <2>2. n \in Nat \ {0} /\ px \in Nat BY SettlementAssumption
  <2>3. Debit(n, px) \in Nat BY <2>2, DebitType
  <2>. QED BY <2>1, <2>2, <2>3
<1>. QED BY <1>1, <1>2

(* Planning an order keeps the plan's types: the power it spends it had.   *)
LEMMA PlanType ==
  ASSUME TypeOK, Memory, NEW a \in Accounts, NEW c \in Codes,
         NEW side \in {"buy", "sell"}, NEW n \in Nat \ {0}, NEW cost \in Nat,
         PlanOrder(a, c, side, n, cost)
  PROVE  plan' \in Plan_
<1>1. plan \in Plan_ BY DEF PlanOrder, Memory
<1>. DEFINE new == [id |-> issued + 1, acct |-> a, code |-> c, side |-> side, lots |-> n,
                    due |-> day + 1]
<1>2. issued + 1 \in OrderIds /\ day + 1 \in Nat
  BY SettlementAssumption DEF PlanOrder, TypeOK, OrderIds, Dates
<1>3. new \in Order BY <1>2 DEF Order
<1>4. plan.keys \cup {<<a, c>>} \in SUBSET ((Accounts \cup {Retired}) \X Codes)
  BY <1>1 DEF Plan_
<1>5. [plan.power EXCEPT ![a] = @ - cost] \in [Accounts -> Nat]
  <2>1. plan.power \in [Accounts -> Nat] /\ plan.power[a] \in Nat BY <1>1 DEF Plan_
  <2>2. plan.power[a] - cost \in Nat BY <2>1 DEF PlanOrder
  <2>. QED BY <2>1, <2>2
<1>6. plan.new \cup {new} \in SUBSET Order BY <1>1, <1>3 DEF Plan_
<1>7. plan' = [keys |-> plan.keys \cup {<<a, c>>},
               power |-> [plan.power EXCEPT ![a] = @ - cost],
               new |-> plan.new \cup {new}]
  BY DEF PlanOrder
<1>. HIDE DEF new
<1>. QED BY <1>4, <1>5, <1>6, <1>7 DEF Plan_

(* A fill books the order: the rest of the work is what it was.            *)
LEMMA FillStep ==
  ASSUME work \in Work_, Agree(work.book, work.ledger), day \in Nat,
         NEW o \in Order, work.ledger.rows[o.id] = 0, NEW px \in Prices \cup {None},
         FillBuy(o, px) \/ FillSell(o, px)
  PROVE  \E n, m \in Int :
           /\ work' \in Work_
           /\ work'.ledger = WithRow(work.ledger, o, n, m)
           /\ Agree(work'.book, work'.ledger)
           /\ work'.todo = work.todo \ {o} /\ work'.kept = work.kept
           /\ o.acct \in Accounts
<1>1. work.book \in Book /\ work.ledger \in Ledger /\ o.lots \in Nat
  BY DEF Work_, Order
<1>2. o.acct \in Accounts /\ px \in Nat
  BY SettlementAssumption DEF FillBuy, FillSell, Fillable
<1>3. CASE FillBuy(o, px)
  <2>. DEFINE n == o.lots  m == -Debit(o.lots, px)
  <2>1. n \in Int /\ m \in Int
    <3>1. Debit(o.lots, px) \in Nat BY <1>1, <1>2, DebitType
    <3>. QED BY <1>1, <3>1
  <2>2. BuyFits(work.book, o, px)
    BY <1>3 DEF FillBuy, Fillable, SellFits
  <2>3. AfterBuy(work.book, o, px) \in Book /\ WithRow(work.ledger, o, n, m) \in Ledger
    BY <1>1, <1>2, <2>1, <2>2, BuyAgrees, RowAdds
  <2>4. Agree(AfterBuy(work.book, o, px), WithRow(work.ledger, o, n, m))
    BY <1>1, <1>2, <2>2, BuyAgrees
  <2>5. work' = [book |-> AfterBuy(work.book, o, px), todo |-> work.todo \ {o},
                 ledger |-> WithRow(work.ledger, o, n, m), kept |-> work.kept]
    BY <1>3 DEF FillBuy, Work_
  <2>. HIDE DEF n, m
  <2>6. work' \in Work_ BY <2>3, <2>5 DEF Work_
  <2>. QED BY <1>2, <2>1, <2>4, <2>5, <2>6
<1>4. CASE FillSell(o, px)
  <2>. DEFINE n == -o.lots  m == Proceeds(o.lots, px)
  <2>1. n \in Int /\ m \in Int
    <3>1. Proceeds(o.lots, px) \in Nat BY <1>1, <1>2, ProceedsType
    <3>. QED BY <1>1, <3>1
  <2>2. SellFits(work.book, o)
    BY <1>4 DEF FillSell, Fillable, BuyFits
  <2>3. AfterSell(work.book, o, px) \in Book /\ WithRow(work.ledger, o, n, m) \in Ledger
    BY <1>1, <1>2, <2>1, <2>2, SellAgrees, RowAdds
  <2>4. Agree(AfterSell(work.book, o, px), WithRow(work.ledger, o, n, m))
    BY <1>1, <1>2, <2>2, SellAgrees
  <2>5. work' = [book |-> AfterSell(work.book, o, px), todo |-> work.todo \ {o},
                 ledger |-> WithRow(work.ledger, o, n, m), kept |-> work.kept]
    BY <1>4 DEF FillSell, Work_
  <2>. HIDE DEF n, m
  <2>6. work' \in Work_ BY <2>3, <2>5 DEF Work_
  <2>. QED BY <1>2, <2>1, <2>4, <2>5, <2>6
<1>. QED BY <1>3, <1>4

(* Every step keeps the types.                                             *)
LEMMA TypeStep ==
  ASSUME IInv, [Next]_vars
  PROVE  TypeOK' /\ Memory'
<1>. USE DEF IInv, Memory
<1>. DEFINE Goal == TypeOK' /\ Memory'
<1>0. Drained(book, day) \in Book /\ day \in Nat
  BY DrainedBook DEF SettledOK, TypeOK, Dates
<1>1. ASSUME NEW j \in Jobs, Start(j) PROVE Goal
  <2>1. \A orders \in SUBSET Order : NewPlan(orders) \in Plan_
    BY SettlementAssumption DEF NewPlan, Plan_, TypeOK, Book, Order
  <2>2. plan' \in Plan_ \/ (pc' # "plan" /\ plan' = None)
    BY <1>1, <2>1 DEF Start, Jobs, TypeOK
  <2>3. pc' \in {"recover", "load", "nav", "plan"}
    BY <1>1 DEF Start, Jobs
  <2>. QED BY <1>1, <2>2, <2>3 DEF Start, TypeOK, disk, Jobs, Plan_
<1>2. CASE Load
  BY <1>0, <1>2 DEF Load, TypeOK, disk, Work_
<1>3. CASE ExecuteNext
  <2>1. PICK o \in Earliest(work.todo), px \in Prices \cup {None} :
          Retain(o, px) \/ FillBuy(o, px) \/ FillSell(o, px)
    BY <1>3 DEF ExecuteNext
  <2>2. work \in Work_ /\ o \in work.todo /\ o \in Order /\ pc = "exec"
    BY <1>3, <2>1 DEF ExecuteNext, Earliest, Work_
  <2>3. work' \in Work_
    <3>1. CASE Retain(o, px)
      BY <2>2, <3>1 DEF Retain, Work_
    <3>2. CASE FillBuy(o, px) \/ FillSell(o, px)
      <4>1. Agree(work.book, work.ledger) /\ work.ledger.rows[o.id] = 0
        BY <2>2 DEF ExecOK, Pending
      <4>. QED BY <1>0, <2>2, <3>2, <4>1, FillStep
    <3>. QED BY <2>1, <3>1, <3>2
  <2>. QED BY <1>3, <2>2, <2>3 DEF ExecuteNext, TypeOK, Work_, disk
<1>4. CASE WriteJournal
  BY <1>4 DEF WriteJournal, TypeOK, Transaction, Work_
<1>5. CASE CommitWrite
  BY <1>5 DEF CommitWrite, CommitState, CommitPending, CommitTrades, CommitPositions,
              TypeOK, Control, Transaction, Book, memory
<1>6. CASE Unlink
  BY <1>6 DEF Unlink, AfterCommit, Stop, TypeOK, memory
<1>7. CASE AppendNav
  BY <1>7 DEF AppendNav, TypeOK, memory
<1>8. CASE NavState
  BY <1>0, <1>8 DEF NavState, TypeOK, memory
<1>9. CASE NavView
  BY <1>9 DEF NavView, TypeOK, memory, Book, Stop
<1>10. CASE ClearTargets
  <2>1. NewPlan({}) \in Plan_
    BY SettlementAssumption DEF NewPlan, Plan_, TypeOK, Book, Order
  <2>. QED BY <1>10, <2>1 DEF ClearTargets, TypeOK, Plan_
<1>11. ASSUME NEW a \in Accounts, NEW c \in Codes, PlanSell(a, c) \/ PlanBuy(a, c) PROVE Goal
  <2>1. PICK side \in {"buy", "sell"}, n \in Nat \ {0}, cost \in Nat :
          PlanOrder(a, c, side, n, cost)
    BY <1>11, PlanPick
  <2>2. plan' \in Plan_
    BY <2>1, PlanType
  <2>. QED BY <2>1, <2>2, SettlementAssumption DEF PlanOrder, TypeOK, Plan_, disk
<1>12. CASE WritePlan
  BY <1>12 DEF WritePlan, TypeOK, Plan_
<1>13. CASE Enrich
  BY <1>13 DEF Enrich, Stop, TypeOK, disk
<1>14. CASE Restore
  BY <1>14 DEF Restore, Stop, TypeOK
<1>15. CASE GenerationFails
  BY <1>15 DEF GenerationFails, TypeOK, disk
<1>16. CASE Crash
  BY <1>16, SettlementAssumption DEF Crash, Stop, TypeOK, disk
<1>17. CASE NextDay
  BY <1>17, SettlementAssumption DEF NextDay, TypeOK, disk, memory, Dates
<1>18. CASE UNCHANGED vars
  BY <1>18 DEF vars, TypeOK
<1>. QED
  BY <1>1, <1>2, <1>3, <1>4, <1>5, <1>6, <1>7, <1>8, <1>9, <1>10, <1>11, <1>12, <1>13,
     <1>14, <1>15, <1>16, <1>17, <1>18 DEF Next, Work

-----------------------------------------------------------------------------
(* Control and replay *)

(* What each action touches of the program counter and the files.          *)
LEMMA ControlStep ==
  ASSUME IInv, [Next]_vars
  PROVE  Control' /\ Replayed'
<1>. USE DEF IInv, Control, Replayed
<1>. DEFINE Goal == Control' /\ Replayed'
<1>1. ASSUME NEW j \in Jobs, Start(j) PROVE Goal
  BY <1>1 DEF Start, Jobs, disk
<1>2. CASE Load
  BY <1>2 DEF Load, disk
<1>3. CASE ExecuteNext
  BY <1>3 DEF ExecuteNext, disk
<1>4. CASE WriteJournal
  <2>1. work \in Work_ /\ journal' \in Transaction
    BY <1>4 DEF WriteJournal, Memory, Work_, Transaction
  <2>2. journal' # None BY <2>1, SettlementAssumption
  <2>. QED BY <1>4, <2>2 DEF WriteJournal
<1>5. CASE CommitWrite
  BY <1>5 DEF CommitWrite, CommitState, CommitPending, CommitTrades, CommitPositions,
              TypeOK, memory
<1>6. CASE Unlink
  BY <1>6 DEF Unlink, AfterCommit, Stop, memory
<1>7. CASE AppendNav
  BY <1>7 DEF AppendNav, memory
<1>8. CASE NavState
  BY <1>8 DEF NavState, memory
<1>9. CASE NavView
  BY <1>9 DEF NavView, memory, Stop
<1>10. CASE ClearTargets
  BY <1>10 DEF ClearTargets
<1>11. ASSUME NEW a \in Accounts, NEW c \in Codes, PlanSell(a, c) \/ PlanBuy(a, c) PROVE Goal
  BY <1>11 DEF PlanSell, PlanBuy, PlanOrder, disk
<1>12. CASE WritePlan
  BY <1>12 DEF WritePlan
<1>13. CASE Enrich
  BY <1>13 DEF Enrich, Stop, disk
<1>14. CASE Restore
  BY <1>14 DEF Restore, Stop
<1>15. CASE GenerationFails
  BY <1>15 DEF GenerationFails, disk
<1>16. CASE Crash
  BY <1>16 DEF Crash, Stop, disk
<1>17. CASE NextDay
  BY <1>17 DEF NextDay, disk, memory
<1>18. CASE UNCHANGED vars
  BY <1>18 DEF vars
<1>. QED
  BY <1>1, <1>2, <1>3, <1>4, <1>5, <1>6, <1>7, <1>8, <1>9, <1>10, <1>11, <1>12, <1>13,
     <1>14, <1>15, <1>16, <1>17, <1>18 DEF Next, Work

-----------------------------------------------------------------------------
(* The settled view *)

(* Without a journal the settled view is the files.                        *)
LEMMA SettledFiles ==
  ASSUME journal = None
  PROVE  Settled.book = book /\ Settled.open = open /\ Settled.ledger = ledger
BY DEF Settled

LEMMA SettledJournal ==
  ASSUME journal # None
  PROVE  Settled = journal
BY DEF Settled

(* Ids given out only make "not issued yet" and "issued already" truer.    *)
LEMMA IssuedGrows ==
  ASSUME [Next]_vars, TypeOK
  PROVE  issued' \in Nat /\ issued' >= issued
<1>0. issued \in Nat BY SettlementAssumption DEF TypeOK
<1>1. ASSUME NEW a \in Accounts, NEW c \in Codes, PlanSell(a, c) \/ PlanBuy(a, c)
      PROVE  issued' = issued + 1
  BY <1>1 DEF PlanSell, PlanBuy, PlanOrder
<1>2. issued' = issued \/ issued' = issued + 1
  BY <1>1 DEF Next, Work, Start, Load, ExecuteNext, WriteJournal, CommitWrite, Unlink, AppendNav,
     NavState, NavView, ClearTargets, WritePlan, Enrich, Restore, GenerationFails, Crash,
     NextDay, vars
<1>. QED BY <1>0, <1>2

(* A step that leaves the settled view alone keeps its invariant.          *)
LEMMA SettledKept ==
  ASSUME IInv, [Next]_vars, UNCHANGED <<Settled, journal, book, view>>
  PROVE  SettledOK'
<1>1. issued \in Nat /\ issued' \in Nat /\ issued' >= issued
  BY IssuedGrows, SettlementAssumption DEF IInv, TypeOK
<1>2. Settled.open \subseteq Order
  BY DEF IInv, TypeOK, Settled, Transaction
<1>. QED
  BY <1>1, <1>2 DEF IInv, SettledOK, Agree, Single, Pending, FiniteQueues, Order, OrderIds

LEMMA SettledStep ==
  ASSUME IInv, [Next]_vars
  PROVE  SettledOK'
<1>. USE DEF IInv
<1>1. ASSUME UNCHANGED <<disk, issued>> PROVE SettledOK'
  BY <1>1, SettledKept DEF disk, Settled
<1>2. CASE WriteJournal
  <2>1. journal' \in Transaction /\ journal' # None /\ journal = None
    BY <1>2, SettlementAssumption DEF WriteJournal, Memory, Work_, Transaction, Control
  <2>2. Settled' = [book |-> work.book, open |-> work.kept, ledger |-> work.ledger]
    BY <1>2, <2>1 DEF Settled, WriteJournal
  <2>3. Agree(work.book, work.ledger) /\ Single(work.ledger) /\ Pending(work.kept, work.ledger)
    BY <1>2 DEF ExecOK, WriteJournal, Pending
  <2>4. /\ Settled'.book = work.book /\ Settled'.open = work.kept
        /\ Settled'.ledger = work.ledger
    BY <2>2
  <2>5. issued' = issued /\ book' = book BY <1>2 DEF WriteJournal
  <2>6. Agree(Settled'.book, Settled'.ledger) BY <2>3, <2>4
  <2>7. Single(Settled.ledger)' BY <2>3, <2>4, <2>5 DEF Single
  <2>8. Pending(Settled.open, Settled.ledger)' BY <2>3, <2>4, <2>5 DEF Pending
  <2>. QED BY <2>1, <2>5, <2>6, <2>7, <2>8 DEF SettledOK, Agree, FiniteQueues
<1>3. CASE CommitWrite
  <2>1. journal # None /\ journal' = journal /\ Settled' = Settled /\ issued' = issued
    BY <1>3 DEF CommitWrite, CommitState, CommitPending, CommitTrades, CommitPositions,
                Control, Settled
  <2>2. FiniteQueues(book')
    <3>1. book' = book \/ book' = journal.book
      BY <1>3 DEF CommitWrite, CommitState, CommitPending, CommitTrades, CommitPositions
    <3>2. FiniteQueues(journal.book)
      BY <2>1 DEF SettledOK, Agree, Settled, FiniteQueues
    <3>. QED BY <3>1, <3>2 DEF SettledOK
  <2>. QED BY <2>1, <2>2 DEF SettledOK, Agree, Single, Pending, FiniteQueues
<1>4. CASE Unlink
  <2>1. /\ journal # None /\ journal' = None /\ book = journal.book /\ open = journal.open
        /\ ledger = journal.ledger /\ view = book.pos
        /\ UNCHANGED <<book, open, ledger, view, issued>>
    BY <1>4 DEF Unlink, Replayed, Control
  <2>2. Settled'.book = Settled.book /\ Settled'.open = Settled.open
        /\ Settled'.ledger = Settled.ledger
    BY <2>1 DEF Settled
  <2>. QED BY <2>1, <2>2 DEF SettledOK, Agree, Single, Pending, FiniteQueues
<1>5. CASE NavState
  <2>1. book' = Drained(book, day) /\ UNCHANGED <<open, ledger, view, journal, issued>>
    BY <1>5 DEF NavState
  <2>2. book \in Book /\ day \in Nat /\ FiniteQueues(book) /\ ledger \in Ledger
    BY DEF SettledOK, TypeOK, Dates
  <2>3. FiniteQueues(book') /\ book'.pos = book.pos
    BY <2>1, <2>2, DrainedBook DEF FiniteQueues
  <2>4. CASE journal = None
    <3>1. Agree(book, ledger) /\ Single(ledger) /\ Pending(open, ledger) /\ view = book.pos
      BY <2>4, SettledFiles DEF SettledOK
    <3>2. Agree(book', ledger) BY <2>1, <2>2, <3>1, DrainedAgrees
    <3>3. Settled'.book = book' /\ Settled'.open = open /\ Settled'.ledger = ledger
      BY <2>1, <2>4 DEF Settled
    <3>4. Single(ledger)' /\ Pending(open, ledger)' BY <2>1, <3>1 DEF Single, Pending
    <3>5. Agree(Settled.book, Settled.ledger)' BY <3>2, <3>3
    <3>6. Single(Settled.ledger)' BY <2>1, <3>3, <3>4
    <3>7. Pending(Settled.open, Settled.ledger)' BY <2>1, <3>3, <3>4
    <3>. QED BY <2>1, <2>3, <3>1, <3>5, <3>6, <3>7 DEF SettledOK, FiniteQueues
  <2>5. CASE journal # None
    <3>1. Settled' = Settled BY <2>1, <2>5 DEF Settled
    <3>. QED BY <2>1, <2>3, <2>5, <3>1 DEF SettledOK, Agree, Single, Pending, FiniteQueues
  <2>. QED BY <2>4, <2>5
<1>13. CASE AppendNav
  BY <1>13, SettledKept DEF AppendNav, Settled
<1>6. CASE NavView
  BY <1>6 DEF NavView, SettledOK, Settled, Agree, Single, Pending, FiniteQueues
<1>7. ASSUME journal = None, Pending(open', ledger),
             UNCHANGED <<book, ledger, view, journal, issued>>
      PROVE  SettledOK'
  BY <1>7 DEF SettledOK, Settled, Agree, Single, Pending, FiniteQueues
<1>8. CASE ClearTargets
  <2>1. journal = None
    BY <1>8 DEF ClearTargets, Control, DailyOK
  <2>. QED BY <1>7, <1>8, <2>1 DEF ClearTargets, Pending
<1>9. CASE WritePlan
  <2>1. CASE journal = None
    BY <1>7, <1>9, <2>1 DEF WritePlan, DailyOK
  <2>2. CASE journal # None
    BY <1>9, <2>2, SettledKept DEF WritePlan, Settled
  <2>. QED BY <2>1, <2>2
<1>10. CASE Restore
  <2>1. journal = None
    BY <1>10 DEF Restore, Control, DailyOK
  <2>. QED BY <1>7, <1>10, <2>1 DEF Restore, DailyOK
<1>11. ASSUME NEW a \in Accounts, NEW c \in Codes, PlanSell(a, c) \/ PlanBuy(a, c)
       PROVE  SettledOK'
  <2>1. UNCHANGED <<Settled, journal, book, view>>
    BY <1>11 DEF PlanSell, PlanBuy, PlanOrder, disk, Settled
  <2>. QED BY <2>1, SettledKept
<1>12. CASE UNCHANGED vars
  BY <1>12, SettledKept DEF vars, Settled
<1>. QED
  BY <1>1, <1>2, <1>3, <1>4, <1>5, <1>6, <1>8, <1>9, <1>10, <1>11, <1>12, <1>13
  DEF Next, Work, Start, Load, ExecuteNext, Enrich, GenerationFails, Crash, NextDay

-----------------------------------------------------------------------------
(* The execution in memory *)

LEMMA ExecStep ==
  ASSUME IInv, [Next]_vars
  PROVE  ExecOK'
<1>. USE DEF IInv
<1>0. day \in Nat /\ book \in Book /\ ledger \in Ledger BY DEF TypeOK, Dates
<1>1. CASE Load
  <2>1. journal = None BY <1>1 DEF Load, Control
  <2>2. \A o \in open : o.due \in Nat BY DEF TypeOK, Order
  <2>3. work'.book = Drained(book, day) /\ work'.ledger = ledger
        /\ work'.todo \cup work'.kept = open /\ work'.todo \cap work'.kept = {}
    BY <1>0, <1>1, <2>2 DEF Load
  <2>4. Agree(Drained(book, day), ledger) /\ Single(ledger) /\ Pending(open, ledger)
    <3>1. Agree(book, ledger) /\ Single(ledger) /\ Pending(open, ledger)
      BY <2>1, SettledFiles DEF SettledOK
    <3>. QED BY <1>0, <3>1, DrainedAgrees
  <2>5. \A i \in OrderIds : ledger.rows[i] = ledger.rows[i] + 0
    BY DEF TypeOK, Ledger
  <2>6. UNCHANGED <<issued, open, ledger>> BY <1>1 DEF Load, disk
  <2>. QED BY <2>3, <2>4, <2>5, <2>6 DEF ExecOK, Single, Pending, Agree, IdsOf
<1>2. CASE ExecuteNext
  <2>1. PICK o \in Earliest(work.todo), px \in Prices \cup {None} :
          Retain(o, px) \/ FillBuy(o, px) \/ FillSell(o, px)
    BY <1>2 DEF ExecuteNext
  <2>2. /\ work \in Work_ /\ o \in work.todo /\ o \in Order /\ pc = "exec"
        /\ UNCHANGED <<issued, open, ledger>>
    BY <1>2, <2>1 DEF ExecuteNext, Earliest, Work_, Memory, disk
  <2>. DEFINE l == work.ledger  left == work.todo \cup work.kept
  <2>3. /\ Agree(work.book, l) /\ Single(l) /\ Pending(left, l) /\ left \subseteq open
        /\ work.todo \cap work.kept = {}
        /\ \A i \in OrderIds :
             l.rows[i] = ledger.rows[i] + (IF i \in IdsOf(open) \ IdsOf(left) THEN 1 ELSE 0)
    BY <2>2 DEF ExecOK
  <2>4. CASE Retain(o, px)
    <3>1. /\ work'.book = work.book /\ work'.ledger = l
          /\ work'.todo \cup work'.kept = left /\ work'.todo \cap work'.kept = {}
      BY <2>2, <2>3, <2>4 DEF Retain, Work_
    <3>. QED BY <2>2, <2>3, <3>1 DEF ExecOK, Single, Pending
  <2>5. CASE FillBuy(o, px) \/ FillSell(o, px)
    <3>1. PICK n \in Int, m \in Int :
            /\ work' \in Work_
            /\ work'.ledger = WithRow(l, o, n, m)
            /\ Agree(work'.book, work'.ledger)
            /\ work'.todo = work.todo \ {o} /\ work'.kept = work.kept
            /\ o.acct \in Accounts
      <4>1. l.rows[o.id] = 0 BY <2>2, <2>3 DEF Pending
      <4>. QED BY <1>0, <2>2, <2>3, <2>5, <4>1, FillStep
    <3>2. \A i \in OrderIds : work'.ledger.rows[i] = l.rows[i] + (IF i = o.id THEN 1 ELSE 0)
      BY <2>2, <3>1, RowAdds DEF Work_
    <3>. DEFINE rest == work'.todo \cup work'.kept
    <3>3. rest = left \ {o} /\ rest \subseteq Order /\ work'.todo \cap work'.kept = {}
      BY <2>2, <2>3, <3>1 DEF Work_
    <3>4. \A p \in rest : p.id # o.id
      BY <2>2, <2>3, <3>3 DEF Pending
    <3>5. o.id \in OrderIds /\ l.rows[o.id] = 0 /\ o.id <= issued /\ o \in open
      BY <2>2, <2>3 DEF Pending, Order
    <3>6. \A p \in rest : p.id \in OrderIds BY <3>3 DEF Order
    <3>7. issued \in Nat /\ OrderIds \subseteq Nat /\ l.rows \in [OrderIds -> Nat]
      BY <2>2, SettlementAssumption DEF TypeOK, OrderIds, Work_, Ledger
    <3>8. Single(work'.ledger)
      BY <2>3, <3>2, <3>5, <3>7 DEF Single
    <3>9. Pending(rest, work'.ledger)
      <4>1. \A p, q \in rest : p.id = q.id => p = q
        BY <2>3, <3>3 DEF Pending
      <4>2. \A p \in rest : p.id <= issued /\ l.rows[p.id] = 0
        BY <2>3, <3>3 DEF Pending
      <4>3. ASSUME NEW p \in rest PROVE work'.ledger.rows[p.id] = l.rows[p.id]
        <5>1. p.id \in OrderIds /\ p.id # o.id BY <3>4, <3>6
        <5>2. l.rows[p.id] \in Nat BY <3>7, <5>1
        <5>. HIDE DEF rest, l
        <5>. QED BY <3>2, <5>1, <5>2
      <4>. HIDE DEF rest
      <4>. QED BY <4>1, <4>2, <4>3 DEF Pending
    <3>10. /\ o.id \in IdsOf(open) /\ o.id \in IdsOf(left) /\ o.id \notin IdsOf(rest)
           /\ \A i \in OrderIds : i # o.id => (i \in IdsOf(left) <=> i \in IdsOf(rest))
      BY <2>2, <3>3, <3>4, <3>5 DEF IdsOf
    <3>11. \A i \in OrderIds :
             work'.ledger.rows[i] =
               ledger.rows[i] + (IF i \in IdsOf(open) \ IdsOf(rest) THEN 1 ELSE 0)
      <4>1. ledger.rows \in [OrderIds -> Nat] BY DEF TypeOK, Ledger
      <4>2. ASSUME NEW i \in OrderIds, i # o.id
            PROVE  work'.ledger.rows[i] =
                     ledger.rows[i] + (IF i \in IdsOf(open) \ IdsOf(rest) THEN 1 ELSE 0)
        <5>1. work'.ledger.rows[i] = l.rows[i] BY <3>2, <3>7, <4>2
        <5>. QED BY <2>3, <3>10, <4>2, <5>1
      <4>3. work'.ledger.rows[o.id] = 1 /\ ledger.rows[o.id] = 0
        <5>1. l.rows[o.id] = ledger.rows[o.id] BY <2>3, <3>5, <3>10, <4>1
        <5>. QED BY <3>2, <3>5, <5>1
      <4>4. o.id \in IdsOf(open) \ IdsOf(rest) BY <3>10
      <4>. HIDE DEF rest
      <4>. QED BY <4>2, <4>3, <4>4
    <3>. QED
      BY <2>2, <2>3, <3>1, <3>3, <3>8, <3>9, <3>11 DEF ExecOK, Single, Pending, Agree
  <2>. QED BY <2>1, <2>4, <2>5
<1>3. CASE UNCHANGED vars
  BY <1>3 DEF vars, ExecOK, Agree, Single, Pending
<1>4. CASE pc' # "exec"
  BY <1>4 DEF ExecOK
<1>5. Load \/ ExecuteNext \/ UNCHANGED vars \/ pc' # "exec"
  BY DEF Next, Work, Start, Jobs, WriteJournal, CommitWrite, Unlink, AfterCommit, Stop, AppendNav,
         NavState, NavView, ClearTargets, PlanSell, PlanBuy, PlanOrder, WritePlan, Enrich,
         Restore, GenerationFails, Crash, NextDay
<1>. QED BY <1>1, <1>2, <1>3, <1>4, <1>5

-----------------------------------------------------------------------------
(* The daily cycle *)

LEMMA DailyStep ==
  ASSUME IInv, [Next]_vars
  PROVE  DailyOK'
<1>. USE DEF IInv
<1>1. issued \in Nat /\ issued' \in Nat /\ issued' >= issued
  BY IssuedGrows, SettlementAssumption DEF TypeOK
<1>2. ASSUME NEW j \in Jobs, Start(j) PROVE DailyOK'
  <2>1. pc' = "plan" => plan'.new = {}
    BY <1>2 DEF Start, Jobs, NewPlan
  <2>2. journal = None => Pending(open, ledger)
    BY SettledFiles DEF SettledOK
  <2>3. saved = {} BY <1>2 DEF Start, Control
  <2>. QED BY <1>2, <2>1, <2>2, <2>3 DEF Start, Jobs, DailyOK, disk, Pending
<1>3. CASE Load \/ ExecuteNext \/ WriteJournal \/ CommitWrite
  <2>1. saved' = {} /\ pc' \in {"exec", "commit", "recover"}
    BY <1>3 DEF Load, ExecuteNext, WriteJournal, CommitWrite, Control, memory
  <2>. QED BY <2>1 DEF DailyOK, Pending
<1>4. CASE Unlink
  <2>1. saved' = {} /\ journal' = None /\ pc' \in {"load", "nav", "idle"}
    BY <1>4 DEF Unlink, AfterCommit, Stop, Control, memory
  <2>. QED BY <2>1 DEF DailyOK, Pending
<1>5. CASE AppendNav
  <2>1. saved' = {} /\ pc' = "nav_state" /\ UNCHANGED <<job, day, journal>>
    BY <1>5 DEF AppendNav, memory, Control
  <2>2. job = "run-daily" => journal = None
    BY <1>5 DEF AppendNav, DailyOK
  <2>3. job = "run-daily" => nav'[day] = "current"
    <3>1. journal = None => Settled.book = book BY SettledFiles
    <3>. QED BY <1>5, <2>2, <3>1 DEF AppendNav, TypeOK
  <2>. QED BY <2>1, <2>2, <2>3 DEF DailyOK, Pending
<1>6. CASE NavState \/ NavView
  <2>1. saved' = {} /\ pc' \in {"nav_view", "clear", "idle"} /\ UNCHANGED <<day, journal, nav>>
    BY <1>6 DEF NavState, NavView, Stop, memory, Control
  <2>2. job' = "run-daily" /\ pc' # "idle" => job = "run-daily"
    BY <1>6 DEF NavState, NavView, Stop
  <2>3. pc' = "idle" \/ job' = job
    BY <1>6 DEF NavState, NavView, Stop
  <2>4. pc \in {"nav_state", "nav_view"} BY <1>6 DEF NavState, NavView
  <2>. QED BY <2>1, <2>2, <2>3, <2>4 DEF DailyOK, Pending
<1>7. CASE ClearTargets
  <2>1. journal = None BY <1>7 DEF ClearTargets, Control, DailyOK
  <2>2. Pending(open, ledger) BY <2>1, SettledFiles DEF SettledOK
  <2>3. plan'.new = {} BY <1>7 DEF ClearTargets, NewPlan
  <2>. QED BY <1>7, <2>1, <2>2, <2>3 DEF ClearTargets, DailyOK, Pending
<1>8. ASSUME NEW a \in Accounts, NEW c \in Codes, PlanSell(a, c) \/ PlanBuy(a, c)
      PROVE  DailyOK'
  <2>1. PICK side \in {"buy", "sell"}, n \in Nat \ {0}, cost \in Nat :
          PlanOrder(a, c, side, n, cost)
    BY <1>8, PlanPick
  <2>. DEFINE new == [id |-> issued + 1, acct |-> a, code |-> c, side |-> side, lots |-> n,
                      due |-> day + 1]
  <2>2. /\ pc = "plan" /\ pc' = pc /\ issued' = issued + 1 /\ plan'.new = plan.new \cup {new}
        /\ issued + 1 \in OrderIds
        /\ UNCHANGED <<day, job, journal, nav, saved, ledger, open>>
    BY <1>1, <2>1, SettlementAssumption DEF PlanOrder, disk, OrderIds
  <2>3. journal = None => Single(ledger)
    BY SettledFiles DEF SettledOK
  <2>4. journal = None => ledger.rows[new.id] = 0 /\ new.id = issued'
    BY <1>1, <2>2, <2>3 DEF Single, OrderIds
  <2>5. \A p \in open \cup plan.new \cup saved : p.id \in Nat
    BY <2>2, SettlementAssumption DEF TypeOK, Memory, Plan_, Order, OrderIds
  <2>6. ASSUME journal = None
        PROVE  LET all == open \cup plan.new \cup {new} IN
                 /\ \A p, q \in all : p.id = q.id => p = q
                 /\ \A p \in all : p.id <= issued' /\ ledger.rows[p.id] = 0
    <3>1. Pending(open \cup plan.new, ledger) BY <2>2, <2>6 DEF DailyOK
    <3>2. new.id > issued /\ new.id = issued' /\ ledger.rows[new.id] = 0
      BY <1>1, <2>2, <2>4, <2>6
    <3>. HIDE DEF new
    <3>. QED BY <1>1, <2>2, <2>5, <3>1, <3>2 DEF Pending
  <2>7. journal = None => Pending(saved, ledger)'
    <3>1. journal = None => Pending(saved, ledger) BY DEF DailyOK
    <3>. QED BY <1>1, <2>2, <2>5, <3>1 DEF Pending
  <2>8. journal' = None => Pending(open \cup plan.new, ledger)'
    BY <2>2, <2>6 DEF Pending
  <2>. QED BY <2>2, <2>7, <2>8 DEF DailyOK, Pending
<1>9. CASE WritePlan \/ GenerationFails
  BY <1>9 DEF WritePlan, GenerationFails, DailyOK, Pending, disk
<1>10. CASE Enrich \/ Restore \/ Crash
  BY <1>10 DEF Enrich, Restore, Crash, Stop, DailyOK, Pending
<1>11. CASE NextDay
  BY <1>11 DEF NextDay, DailyOK, Pending, disk, memory
<1>12. CASE UNCHANGED vars
  BY <1>12 DEF vars, DailyOK, Pending
<1>. QED
  BY <1>2, <1>3, <1>4, <1>5, <1>6, <1>7, <1>8, <1>9, <1>10, <1>11, <1>12 DEF Next, Work

-----------------------------------------------------------------------------
(* The theorems *)

(* The invariant is inductive: execute_due_orders, its journal, its replay *)
(* and every command that may run between a kill and the replay keep it.   *)
THEOREM Invariance == Spec => []IInv
<1>1. ASSUME IInv, [Next]_vars PROVE IInv'
  BY <1>1, TypeStep, ControlStep, SettledStep, ExecStep, DailyStep DEF IInv
<1>. QED BY InitIInv, <1>1, PTL DEF Spec

(* Every file and every piece of memory keeps the simulator's types; no    *)
(* position goes short.                                                    *)
THEOREM TypeCorrect == Spec => []TypeOK
<1>1. IInv => TypeOK BY DEF IInv
<1>. QED BY <1>1, Invariance, PTL

(* No order is booked twice, and no booked order is pending: not by a      *)
(* replay of the journal, not by a retry of an unfilled order.             *)
THEOREM BookedOnce == Spec => []ExactlyOnce
<1>1. ASSUME IInv PROVE ExactlyOnce
  <2>1. Settled.open \subseteq Order
    BY <1>1 DEF IInv, TypeOK, Settled, Transaction
  <2>2. \A o \in Settled.open : o.id \in OrderIds /\ Settled.ledger.rows[o.id] = 0
    BY <1>1, <2>1 DEF IInv, SettledOK, Pending, Order
  <2>3. \A i \in OrderIds : Settled.ledger.rows[i] \in {0, 1}
    BY <1>1 DEF IInv, SettledOK, Single
  <2>. QED BY <2>2, <2>3 DEF ExactlyOnce, Abstract!ExactlyOnce, Abstract!Booked, IdsOf
<1>. QED BY <1>1, Invariance, PTL

(* Cash and positions are what trades.csv adds up to, and positions.csv is *)
(* state.json's whenever no journal is left.                               *)
THEOREM BooksReconcile == Spec => []Reconciled
<1>1. ASSUME IInv PROVE Reconciled
  <2>1. Agree(Settled.book, Settled.ledger) /\ (journal = None => view = book.pos)
    BY <1>1 DEF IInv, SettledOK
  <2>. QED BY <2>1 DEF Reconciled, Abstract!Reconciled, Agree
<1>. QED BY <1>1, Invariance, PTL

(* No account is overdrawn, whatever prices did between sizing and filling *)
(* a buy.                                                                  *)
THEOREM NeverOverdrawn == Spec => []Solvent
<1>1. IInv => Solvent BY DEF IInv, SettledOK, Agree, Solvent
<1>. QED BY <1>1, Invariance, PTL

(* A daily run values, clears and retargets a store without a journal, and *)
(* its NAV row comes from the settled state.                               *)
THEOREM DailyCycleSettled == Spec => []DailyReadsSettled
<1>1. IInv => DailyReadsSettled BY DEF IInv, DailyOK, DailyReadsSettled
<1>. QED BY <1>1, Invariance, PTL

-----------------------------------------------------------------------------
(* The journalled store implements AtomicLedger *)

LEMMA InitRefines == Init => Abstract!Init
<1>. SUFFICES ASSUME Init PROVE Abstract!Init OBVIOUS
<1>1. IInv BY InitIInv
<1>2. Settled.book = book /\ Settled.open = open /\ Settled.ledger = ledger
  BY SettledFiles DEF Init
<1>3. \A a \in Accounts : book.cash[a] + QueueTotal(book.queue[a]) = InitCash
  BY SettlementAssumption DEF Init, QueueTotal
<1>4. IdsOf(open) \in SUBSET OrderIds
  BY <1>1 DEF IInv, TypeOK, IdsOf, Order
<1>. QED BY <1>2, <1>3, <1>4 DEF Abstract!Init, Init

(* What WriteJournal does to the settled view is one atomic settlement.    *)
LEMMA JournalSettles ==
  ASSUME IInv, IInv', WriteJournal
  PROVE  Abstract!Settle
<1>1. /\ journal = None /\ journal' # None
      /\ journal' = [book |-> work.book, open |-> work.kept, ledger |-> work.ledger]
      /\ work \in Work_ /\ work.todo = {}
  BY SettlementAssumption DEF WriteJournal, IInv, Memory, Work_, Transaction, Control
<1>2. Settled.book = book /\ Settled.open = open /\ Settled.ledger = ledger
  BY <1>1, SettledFiles
<1>3. Settled'.book = work.book /\ Settled'.open = work.kept /\ Settled'.ledger = work.ledger
  BY <1>1 DEF Settled
<1>4. Agree(book, ledger) /\ Agree(work.book, work.ledger)
  BY <1>2 DEF IInv, SettledOK, ExecOK, WriteJournal
<1>5. IdsOf(work.kept) \subseteq IdsOf(open)
  BY DEF IInv, ExecOK, WriteJournal, IdsOf
<1>6. \A i \in OrderIds :
        work.ledger.rows[i] =
          ledger.rows[i] + (IF i \in IdsOf(open) \ IdsOf(work.kept) THEN 1 ELSE 0)
  <2>1. work.todo \cup work.kept = work.kept BY <1>1
  <2>. QED BY <2>1 DEF IInv, ExecOK, WriteJournal
<1>7. /\ book \in Book /\ ledger \in Ledger /\ work.book \in Book /\ work.ledger \in Ledger
  BY <1>1 DEF IInv, TypeOK, Work_
<1>8. work.ledger.rows =
        [i \in OrderIds |->
           ledger.rows[i] + (IF i \in IdsOf(open) \ IdsOf(work.kept) THEN 1 ELSE 0)]
  BY <1>6, <1>7 DEF Ledger
<1>9. \A a \in Accounts :
        /\ (work.book.cash[a] + QueueTotal(work.book.queue[a]))
             - (book.cash[a] + QueueTotal(book.queue[a]))
             = work.ledger.net[a] - ledger.net[a]
        /\ \A c \in Codes : work.book.pos[a][c] - book.pos[a][c]
                              = work.ledger.lots[a][c] - ledger.lots[a][c]
  <2>1. /\ \A a \in Accounts : work.ledger.net[a] \in Int /\ ledger.net[a] \in Int
        /\ InitCash \in Nat
    BY <1>7, SettlementAssumption DEF Ledger
  <2>. QED BY <1>4, <2>1 DEF Agree
<1>. QED BY <1>2, <1>3, <1>5, <1>8, <1>9 DEF Abstract!Settle

(* Replacing the open orders of the files, no journal being left, is one   *)
(* retargeting.                                                            *)
LEMMA FilesRetarget ==
  ASSUME IInv, IInv', journal = None, UNCHANGED <<book, ledger, journal>>
  PROVE  Abstract!Retarget
<1>1. Settled.book = book /\ Settled.ledger = ledger
  BY SettledFiles
<1>2. Settled'.book = book /\ Settled'.ledger = ledger /\ Settled'.open = open'
  BY DEF Settled
<1>3. \A o \in open' : o.id \in OrderIds /\ ledger.rows[o.id] = 0
  <2>1. Pending(open, ledger)' BY <1>2 DEF IInv, SettledOK, Settled
  <2>2. open' \subseteq Order BY DEF IInv, TypeOK
  <2>. QED BY <2>1, <2>2 DEF Pending, Order
<1>. QED
  BY <1>1, <1>2, <1>3 DEF Abstract!Retarget, Abstract!ledgerVars, Abstract!Booked, IdsOf

(* Every step settles, retargets or leaves the settled view alone.         *)
LEMMA StepRefines ==
  ASSUME IInv, IInv', [Next]_vars
  PROVE  [Abstract!Next]_(Abstract!vars)
<1>. DEFINE Goal == [Abstract!Next]_(Abstract!vars)
<1>1. ASSUME Settled'.book = Settled.book, Settled'.open = Settled.open,
             Settled'.ledger = Settled.ledger
      PROVE  Goal
  BY <1>1 DEF Abstract!vars, IdsOf
<1>2. ASSUME UNCHANGED <<book, open, ledger, journal>> PROVE Goal
  BY <1>1, <1>2 DEF Settled
<1>3. CASE WriteJournal
  BY <1>3, JournalSettles DEF Abstract!Next
<1>4. CASE CommitWrite
  BY <1>1, <1>4 DEF CommitWrite, CommitState, CommitPending, CommitTrades, CommitPositions,
                    IInv, Control, Settled
<1>5. CASE Unlink
  <2>1. /\ journal # None /\ journal' = None /\ book' = journal.book /\ open' = journal.open
        /\ ledger' = journal.ledger
    BY <1>5 DEF Unlink, IInv, Replayed, Control
  <2>. QED BY <1>1, <2>1 DEF Settled
<1>6. CASE NavState
  <2>1. book' = Drained(book, day) /\ UNCHANGED <<open, ledger, journal>>
    BY <1>6 DEF NavState
  <2>2. CASE journal # None BY <1>1, <2>1, <2>2 DEF Settled
  <2>3. CASE journal = None
    <3>1. book \in Book /\ day \in Nat /\ FiniteQueues(book)
      BY DEF IInv, SettledOK, TypeOK, Dates
    <3>2. /\ book'.pos = book.pos
          /\ \A a \in Accounts : book'.cash[a] + QueueTotal(book'.queue[a])
                                   = book.cash[a] + QueueTotal(book.queue[a])
      BY <2>1, <3>1, DrainedBook
    <3>3. Settled.book = book /\ Settled'.book = book' /\ Settled'.open = Settled.open
          /\ Settled'.ledger = Settled.ledger
      BY <2>1, <2>3 DEF Settled
    <3>4. [a \in Accounts |-> Settled'.book.cash[a] + QueueTotal(Settled'.book.queue[a])]
            = [a \in Accounts |-> Settled.book.cash[a] + QueueTotal(Settled.book.queue[a])]
      BY <3>2, <3>3
    <3>. QED BY <3>2, <3>3, <3>4 DEF Abstract!vars, IdsOf
  <2>. QED BY <2>2, <2>3
<1>7. CASE ClearTargets \/ Restore
  <2>1. journal = None /\ UNCHANGED <<book, ledger, journal>>
    BY <1>7 DEF ClearTargets, Restore, IInv, Control, DailyOK
  <2>. QED BY <2>1, FilesRetarget DEF Abstract!Next
<1>8. CASE WritePlan
  <2>1. UNCHANGED <<book, ledger, journal>> BY <1>8 DEF WritePlan
  <2>2. CASE journal = None BY <2>1, <2>2, FilesRetarget DEF Abstract!Next
  <2>3. CASE journal # None BY <1>1, <2>1, <2>3 DEF Settled
  <2>. QED BY <2>2, <2>3
<1>. QED
  BY <1>2, <1>3, <1>4, <1>5, <1>6, <1>7, <1>8, ZenonT(60)
  DEF Next, Work, Start, Load, ExecuteNext, AppendNav, NavView, PlanSell, PlanBuy, PlanOrder,
      Enrich, GenerationFails, Crash, NextDay, disk, vars

(* Executing due orders is atomic although it takes five file writes: the  *)
(* store, read through its journal, is an AtomicLedger.                    *)
THEOREM ExecutionIsAtomic == Spec => AtomicSpec
<1>1. ASSUME IInv, IInv', [Next]_vars PROVE [Abstract!Next]_(Abstract!vars)
  BY <1>1, StepRefines
<1>. QED BY InitRefines, <1>1, Invariance, PTL DEF Spec, AtomicSpec, Abstract!Spec

(* An open order leaves by being booked, by the daily replacement of the   *)
(* targets or by its undoing; no crash, replay or refresh drops one.       *)
THEOREM NoOrderLost == Spec => OrdersLeaveByFillOrReplacement
<1>. DEFINE A == \A o \in Settled.open \ Settled'.open :
                   Settled'.ledger.rows[o.id] = 1 \/ pc \in {"clear", "restore"}
<1>1. ASSUME IInv, IInv', [Next]_vars PROVE [A]_vars
  <2>1. CASE UNCHANGED <<open, journal>>
    BY <2>1 DEF Settled
  <2>2. CASE WriteJournal
    <3>1. /\ journal = None /\ journal' # None
          /\ journal' = [book |-> work.book, open |-> work.kept, ledger |-> work.ledger]
          /\ work \in Work_ /\ work.todo = {} /\ pc = "exec"
      BY <2>2, <1>1, SettlementAssumption
      DEF WriteJournal, IInv, Memory, Work_, Transaction, Control
    <3>2. Settled.open = open /\ Settled'.open = work.kept /\ Settled'.ledger = work.ledger
      BY <3>1 DEF Settled
    <3>3. ASSUME NEW o \in open, o \notin work.kept PROVE work.ledger.rows[o.id] = 1
      <4>1. o.id \in OrderIds /\ ledger.rows[o.id] = 0 /\ o.id \in IdsOf(open)
        BY <1>1, <3>1, SettledFiles DEF IInv, TypeOK, Order, SettledOK, Pending, IdsOf
      <4>2. work.kept \subseteq open /\ o.id \notin IdsOf(work.kept)
        BY <1>1, <3>1, <3>3, SettledFiles DEF IInv, ExecOK, SettledOK, Pending, IdsOf
      <4>3. work.todo \cup work.kept = work.kept BY <3>1
      <4>. QED BY <1>1, <3>1, <4>1, <4>2, <4>3 DEF IInv, ExecOK
    <3>. QED BY <3>2, <3>3
  <2>3. CASE CommitWrite
    BY <2>3, <1>1 DEF CommitWrite, CommitState, CommitPending, CommitTrades, CommitPositions,
                      IInv, Control, Settled
  <2>4. CASE Unlink
    <3>1. journal # None /\ journal' = None /\ open' = journal.open
      BY <2>4, <1>1 DEF Unlink, IInv, Replayed, Control
    <3>. QED BY <3>1 DEF Settled
  <2>5. CASE ClearTargets \/ Restore
    BY <2>5 DEF ClearTargets, Restore
  <2>6. CASE WritePlan
    BY <2>6 DEF WritePlan, Settled
  <2>. QED
    BY <1>1, <2>1, <2>2, <2>3, <2>4, <2>5, <2>6, ZenonT(60)
    DEF Next, Work, Start, Load, ExecuteNext, AppendNav, NavState, NavView, PlanSell, PlanBuy,
        PlanOrder, Enrich, GenerationFails, Crash, NextDay, disk, vars
<1>. QED BY <1>1, Invariance, PTL DEF Spec, OrdersLeaveByFillOrReplacement
=============================================================================
