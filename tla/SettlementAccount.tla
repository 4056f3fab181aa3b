-------------------------- MODULE SettlementAccount -------------------------
(***************************************************************************)
(* One paper account store of the settlement simulator                     *)
(* (markets/_settlement_simulator.py), which the cn_qdii_etf market binds, *)
(* driven by the CLI commands that change it (cli.py).                     *)
(*                                                                         *)
(* The store is a directory: state.json, pending_orders.json, trades.csv,  *)
(* positions.csv, daily_nav.csv and, while an execution is being           *)
(* committed, .settlement_transaction.json (the journal).  Each file is    *)
(* replaced atomically, so a step of this module is one file write or one  *)
(* iteration of a loop over orders, and a crash may come between any two.  *)
(* Commands on one store run one at a time.                                *)
(*                                                                         *)
(* Money is counted in units of 1/Unit of the price of one lot, so that a  *)
(* commission of Fee/Unit of the traded amount is exact.  An order has an  *)
(* id, which the code does not store: ids grow in the order of the pending *)
(* list, so "the first order of the list" is the one with the least id.    *)
(***************************************************************************)
EXTENDS Integers, FiniteSets, FiniteSetsExt

CONSTANTS
  Accounts,      \* the accounts of the market's config
  Retired,       \* an account id no longer in the config
  Codes,         \* ETF codes
  InitCash,      \* cash of an account at init
  Unit, Fee,     \* commission rate is Fee/Unit
  Prices,        \* prices a quote may show
  MaxLots,       \* bound: lots in one buy order
  ReserveCash,   \* cash the target generation holds back
  SettleDays,    \* SETTLEMENT_DAYS
  ReuseProceeds, \* SELL_PROCEEDS_REUSABLE_SAME_DAY
  MaxOrders,     \* bound: orders issued over a behaviour
  LastDay,       \* bound: trading days
  MaxCrashes,    \* bound: kills and uncaught exceptions
  None           \* "no value"

OrderIds == 1..MaxOrders
Dates == 1..LastDay

Order == [id : OrderIds, acct : Accounts \cup {Retired}, code : Codes,
          side : {"buy", "sell"}, lots : Nat \ {0}, due : Nat]

(* A queued receivable; the id of the sell keeps equal amounts apart.      *)
Receivable == [id : OrderIds, settle : Nat, amount : Nat]

Book == [cash : [Accounts -> Int], pos : [Accounts -> [Codes -> Nat]],
         queue : [Accounts -> SUBSET Receivable]]

(* trades.csv by what readers take from it: how many rows fill an order,   *)
(* and the column totals (signed lots, net_amount).                        *)
Ledger == [rows : [OrderIds -> Nat], lots : [Accounts -> [Codes -> Int]],
           net : [Accounts -> Int]]

Transaction == [book : Book, open : SUBSET Order, ledger : Ledger]

ASSUME SettlementAssumption ==
  /\ Retired \notin Accounts
  /\ Prices \subseteq Nat \ {0} /\ None \notin Prices
  /\ Unit \in Nat \ {0} /\ Fee \in 0..Unit
  /\ InitCash \in Nat /\ ReserveCash \in Nat
  /\ MaxOrders \in Nat /\ LastDay \in Nat \ {0} /\ MaxCrashes \in Nat
  /\ MaxLots \in Nat /\ SettleDays \in Nat
  /\ ReuseProceeds \in BOOLEAN /\ None \notin Transaction

Jobs == {"execute", "update-nav", "rebalance", "run-daily"}

VARIABLES
  day,       \* as_of of the next command
  job,       \* the command running, None when none is
  pc,        \* its program counter
  step,      \* writes done of _commit_settlement_transaction
  book,      \* state.json
  open,      \* pending_orders.json
  ledger,    \* trades.csv
  view,      \* positions.csv
  nav,       \* daily_nav.csv: was the row of a day computed from the settled state?
  journal,   \* .settlement_transaction.json, None when absent
  work,      \* memory of execute_due_orders
  plan,      \* memory of generate_rebalance_orders
  saved,     \* previous_targets of the daily cycle
  issued,    \* number of ids given out
  crashes    \* kills so far

disk == <<book, open, ledger, view, nav, journal>>
memory == <<work, plan, saved>>
vars == <<day, job, pc, step, book, open, ledger, view, nav, journal,
          work, plan, saved, issued, crashes>>

-----------------------------------------------------------------------------
(* Money and books *)

Debit(n, px) == n * px * (Unit + Fee)
Proceeds(n, px) == n * px * (Unit - Fee)

QueueTotal(q) == IF q = {} THEN 0 ELSE MapThenSumSet(LAMBDA r : r.amount, q)

(* Mutant: a credited receivable stays in the queue.                       *)
DrainedKeepsQueue(b, d) ==
  [b EXCEPT !.cash = [a \in Accounts |->
              b.cash[a] + QueueTotal({r \in b.queue[a] : r.settle <= d})]]

(* Mutant: a receivable is credited on its settle date only.               *)
DrainedOnTheDay(b, d) ==
  [b EXCEPT !.cash = [a \in Accounts |->
              b.cash[a] + QueueTotal({r \in b.queue[a] : r.settle = d})],
            !.queue = [a \in Accounts |-> {r \in b.queue[a] : r.settle # d}]]

(* Receivables whose settle date has come become cash.                     *)
Drained(b, d) ==
  [b EXCEPT !.cash = [a \in Accounts |->
              b.cash[a] + QueueTotal({r \in b.queue[a] : r.settle <= d})],
            !.queue = [a \in Accounts |-> {r \in b.queue[a] : r.settle > d}]]

Earliest(orders) == {o \in orders : \A p \in orders : o.id <= p.id}

(* Mutant: the commission is left out of the cash check.                   *)
BuyFitsWithoutFee(b, o, px) ==
  o.side = "buy" /\ o.lots * px * Unit <= b.cash[o.acct]

BuyFits(b, o, px) == o.side = "buy" /\ Debit(o.lots, px) <= b.cash[o.acct]
SellFits(b, o) == o.side = "sell" /\ o.lots <= b.pos[o.acct][o.code]
Fillable(b, o, px) ==
  o.acct \in Accounts /\ px # None /\ (BuyFits(b, o, px) \/ SellFits(b, o))

AfterBuy(b, o, px) ==
  [cash |-> [b.cash EXCEPT ![o.acct] = @ - Debit(o.lots, px)],
   pos |-> [b.pos EXCEPT ![o.acct][o.code] = @ + o.lots],
   queue |-> b.queue]

AfterSell(b, o, px) ==
  LET gain == Proceeds(o.lots, px) IN
    [cash |-> IF ReuseProceeds THEN [b.cash EXCEPT ![o.acct] = @ + gain] ELSE b.cash,
     pos |-> [b.pos EXCEPT ![o.acct][o.code] = @ - o.lots],
     queue |-> IF ReuseProceeds THEN b.queue
               ELSE [b.queue EXCEPT ![o.acct] = @ \cup
                      {[id |-> o.id, settle |-> day + SettleDays, amount |-> gain]}]]

WithRow(l, o, lots, amount) ==
  [rows |-> [l.rows EXCEPT ![o.id] = @ + 1],
   lots |-> [l.lots EXCEPT ![o.acct][o.code] = @ + lots],
   net |-> [l.net EXCEPT ![o.acct] = @ + amount]]

(* What a reader sees who first replays the journal.                       *)
Settled ==
  IF journal = None THEN [book |-> book, open |-> open, ledger |-> ledger] ELSE journal

IdsOf(orders) == {o.id : o \in orders}

-----------------------------------------------------------------------------
Init ==
  /\ day = 1 /\ job = None /\ pc = "idle" /\ step = 0
  /\ book = [cash |-> [a \in Accounts |-> InitCash],
             pos |-> [a \in Accounts |-> [c \in Codes |-> 0]],
             queue |-> [a \in Accounts |-> {}]]
  /\ \/ open = {} /\ issued = 0
     \/ /\ MaxOrders > 0 /\ issued = 1
        /\ \E c \in Codes :
             open = {[id |-> 1, acct |-> Retired, code |-> c, side |-> "buy",
                      lots |-> 1, due |-> 1]}
  /\ ledger = [rows |-> [i \in OrderIds |-> 0],
               lots |-> [a \in Accounts |-> [c \in Codes |-> 0]],
               net |-> [a \in Accounts |-> 0]]
  /\ view = [a \in Accounts |-> [c \in Codes |-> 0]]
  /\ nav = [d \in Dates |-> "none"]
  /\ journal = None /\ work = None /\ plan = None /\ saved = {}
  /\ crashes = 0

(* Mutant: buying power is not floored at zero.                            *)
NewPlanUnclamped(orders) ==
  [keys |-> {<<o.acct, o.code>> : o \in orders},
   power |-> [a \in Accounts |-> book.cash[a] - ReserveCash],
   new |-> {}]

NewPlan(orders) ==
  [keys |-> {<<o.acct, o.code>> : o \in orders},
   power |-> [a \in Accounts |->
                IF book.cash[a] > ReserveCash THEN book.cash[a] - ReserveCash ELSE 0],
   new |-> {}]

Stop == pc' = "idle" /\ job' = None /\ step' = 0 /\ work' = None /\ plan' = None /\ saved' = {}

(* Mutant: no command looks for a journal.                                 *)
StartWithoutRecovery(j) ==
  /\ pc = "idle"
  /\ job' = j
  /\ pc' = CASE j \in {"execute", "run-daily"} -> "load"
             [] j = "update-nav" -> "nav"
             [] j = "rebalance" -> "plan"
  /\ plan' = IF j = "rebalance" THEN NewPlan(open) ELSE None
  /\ UNCHANGED <<day, step, disk, work, saved, issued, crashes>>

(* cli.main dispatches a command.  execute_due_orders first looks for a    *)
(* journal to replay; update-nav (and run-weekly, which changes the store  *)
(* only through update_nav) and rebalance do not.                          *)
Start(j) ==
  /\ pc = "idle"
  /\ job' = j
  /\ pc' = CASE j \in {"execute", "run-daily"} -> IF journal # None THEN "recover" ELSE "load"
             [] j = "update-nav" -> "nav"
             [] j = "rebalance" -> "plan"
  /\ plan' = IF j = "rebalance" THEN NewPlan(open) ELSE None
  /\ UNCHANGED <<day, step, disk, work, saved, issued, crashes>>

(* execute_due_orders, up to its loop. *)
Load ==
  /\ pc = "load" /\ pc' = "exec"
  /\ work' = [book |-> Drained(book, day), ledger |-> ledger,
              todo |-> {o \in open : o.due <= day},
              kept |-> {o \in open : o.due > day}]
  /\ UNCHANGED <<day, job, step, disk, plan, saved, issued, crashes>>

(* Mutant: an order that does not fill is forgotten.                       *)
RetainForgets(o, px) ==
  /\ ~Fillable(work.book, o, px)
  /\ work' = [work EXCEPT !.todo = @ \ {o}]

(* One iteration: the order is kept for a later attempt ...                *)
Retain(o, px) ==
  /\ ~Fillable(work.book, o, px)
  /\ work' = [work EXCEPT !.todo = @ \ {o}, !.kept = @ \cup {o}]

(* ... or filled, the account and the trade row together.                  *)
FillBuy(o, px) ==
  /\ Fillable(work.book, o, px) /\ o.side = "buy"
  /\ work' = [work EXCEPT !.todo = @ \ {o},
                !.book = AfterBuy(@, o, px),
                !.ledger = WithRow(@, o, o.lots, -Debit(o.lots, px))]

FillSell(o, px) ==
  /\ Fillable(work.book, o, px) /\ o.side = "sell"
  /\ work' = [work EXCEPT !.todo = @ \ {o},
                !.book = AfterSell(@, o, px),
                !.ledger = WithRow(@, o, -o.lots, Proceeds(o.lots, px))]

ExecuteNext ==
  /\ pc = "exec" /\ work.todo # {}
  /\ \E o \in Earliest(work.todo), px \in Prices \cup {None} :
       Retain(o, px) \/ FillBuy(o, px) \/ FillSell(o, px)
  /\ UNCHANGED <<day, job, pc, step, disk, plan, saved, issued, crashes>>

(* Mutant: the journal takes the list that was read, not what is left.     *)
WriteJournalKeepsAll ==
  /\ pc = "exec" /\ work.todo = {}
  /\ journal' = [book |-> work.book, open |-> open, ledger |-> work.ledger]
  /\ work' = None
  /\ pc' = "commit" /\ step' = 0
  /\ UNCHANGED <<day, job, book, open, ledger, view, nav, plan, saved, issued, crashes>>

(* The whole outcome goes to the journal before any file changes.          *)
WriteJournal ==
  /\ pc = "exec" /\ work.todo = {}
  /\ journal' = [book |-> work.book, open |-> work.kept, ledger |-> work.ledger]
  /\ work' = None
  /\ pc' = "commit" /\ step' = 0
  /\ UNCHANGED <<day, job, book, open, ledger, view, nav, plan, saved, issued, crashes>>

(* _commit_settlement_transaction, run by the execution that wrote the     *)
(* journal ("commit") or by the next one ("recover").                      *)
CommitState ==
  /\ step = 0 /\ book' = journal.book
  /\ UNCHANGED <<open, ledger, view, journal>>
CommitPending ==
  /\ step = 1 /\ open' = journal.open
  /\ UNCHANGED <<book, ledger, view, journal>>
CommitTrades ==
  /\ step = 2 /\ ledger' = journal.ledger
  /\ UNCHANGED <<book, open, view, journal>>
CommitPositions ==
  /\ step = 3 /\ view' = journal.book.pos
  /\ UNCHANGED <<book, open, ledger, journal>>

CommitWrite ==
  /\ pc \in {"commit", "recover"} /\ step < 4
  /\ CommitState \/ CommitPending \/ CommitTrades \/ CommitPositions
  /\ step' = step + 1
  /\ UNCHANGED <<day, job, pc, nav, memory, issued, crashes>>

(* Where the command goes on once the files agree with the journal.        *)
AfterCommit ==
  \/ /\ pc = "recover" /\ pc' = "load" /\ step' = 0 /\ UNCHANGED <<job, memory>>
  \/ /\ pc = "commit" /\ job = "run-daily" /\ pc' = "nav" /\ step' = 0
     /\ UNCHANGED <<job, memory>>
  \/ pc = "commit" /\ job = "execute" /\ Stop

(* Mutants: the journal is removed before trades.csv is written; only by   *)
(* a replay; never.                                                        *)
UnlinkBeforeTrades ==
  /\ pc \in {"commit", "recover"} /\ step = 2
  /\ journal' = None
  /\ AfterCommit
  /\ UNCHANGED <<day, book, open, ledger, view, nav, issued, crashes>>

UnlinkOnReplayOnly ==
  /\ pc \in {"commit", "recover"} /\ step = 4
  /\ journal' = IF pc = "recover" THEN None ELSE journal
  /\ AfterCommit
  /\ UNCHANGED <<day, book, open, ledger, view, nav, issued, crashes>>

UnlinkForgotten ==
  /\ pc \in {"commit", "recover"} /\ step = 4
  /\ AfterCommit
  /\ UNCHANGED <<day, disk, issued, crashes>>

Unlink ==
  /\ pc \in {"commit", "recover"} /\ step = 4
  /\ journal' = None
  /\ AfterCommit
  /\ UNCHANGED <<day, book, open, ledger, view, nav, issued, crashes>>

(* update_nav: the row of the day, then state.json, then positions.csv. *)
AppendNav ==
  /\ pc = "nav" /\ pc' = "nav_state"
  /\ nav' = [nav EXCEPT ![day] =
               IF Drained(book, day) = Drained(Settled.book, day) THEN "current" ELSE "behind"]
  /\ UNCHANGED <<day, job, step, book, open, ledger, view, journal, memory, issued, crashes>>

NavState ==
  /\ pc = "nav_state" /\ pc' = "nav_view"
  /\ book' = Drained(book, day)
  /\ UNCHANGED <<day, job, step, open, ledger, view, nav, journal, memory, issued, crashes>>

NavView ==
  /\ pc = "nav_view"
  /\ view' = book.pos
  /\ \/ job = "run-daily" /\ pc' = "clear" /\ UNCHANGED <<job, step, memory>>
     \/ job = "update-nav" /\ Stop
  /\ UNCHANGED <<day, book, open, ledger, nav, journal, issued, crashes>>

(* The daily cycle drops whatever is still pending before it asks for new  *)
(* targets.                                                                *)
ClearTargets ==
  /\ pc = "clear" /\ pc' = "plan"
  /\ saved' = open
  /\ open' = {}
  /\ plan' = NewPlan({})
  /\ UNCHANGED <<day, job, step, book, ledger, view, nav, journal, work, issued, crashes>>

(* generate_rebalance_orders in memory: at most one order per account and  *)
(* code, none for a pair that has an order pending, buys within the buying *)
(* power that is left.                                                     *)
PlanOrder(a, c, side, n, cost) ==
  /\ pc = "plan"
  /\ issued < MaxOrders /\ issued' = issued + 1
  /\ <<a, c>> \notin plan.keys
  /\ cost <= plan.power[a]
  /\ plan' = [keys |-> plan.keys \cup {<<a, c>>},
              power |-> [plan.power EXCEPT ![a] = @ - cost],
              new |-> plan.new \cup
                {[id |-> issued + 1, acct |-> a, code |-> c, side |-> side, lots |-> n,
                  due |-> day + 1]}]
  /\ UNCHANGED <<day, job, pc, step, disk, work, saved, crashes>>

PlanSell(a, c) == \E n \in 1..book.pos[a][c] : PlanOrder(a, c, "sell", n, 0)

PlanBuy(a, c) ==
  \E n \in 1..MaxLots, px \in Prices : PlanOrder(a, c, "buy", n, Debit(n, px))

WritePlan ==
  /\ pc = "plan" /\ pc' = "enrich"
  /\ open' = open \cup plan.new
  /\ plan' = None
  /\ UNCHANGED <<day, job, step, book, ledger, view, nav, journal, work, saved, issued, crashes>>

(* _persist_order_allocation rewrites the same orders with annotations.    *)
Enrich ==
  /\ pc = "enrich" /\ Stop
  /\ UNCHANGED <<day, disk, issued, crashes>>

(* Target generation raises inside the daily cycle's try block ...         *)
GenerationFails ==
  /\ job = "run-daily" /\ pc \in {"plan", "enrich"}
  /\ pc' = "restore" /\ plan' = None
  /\ UNCHANGED <<day, job, step, disk, work, saved, issued, crashes>>

(* ... and its handler writes the previous targets back.                   *)
Restore ==
  /\ pc = "restore"
  /\ open' = saved
  /\ Stop
  /\ UNCHANGED <<day, book, ledger, view, nav, journal, issued, crashes>>

(* A kill, or an exception outside that try block.                         *)
Crash ==
  /\ pc # "idle" /\ crashes < MaxCrashes
  /\ Stop
  /\ crashes' = crashes + 1
  /\ UNCHANGED <<day, disk, issued>>

NextDay ==
  /\ pc = "idle" /\ day < LastDay
  /\ day' = day + 1
  /\ UNCHANGED <<job, pc, step, disk, memory, issued, crashes>>

Work ==
  \/ Load \/ ExecuteNext \/ WriteJournal \/ CommitWrite \/ Unlink
  \/ AppendNav \/ NavState \/ NavView \/ ClearTargets
  \/ \E a \in Accounts, c \in Codes : PlanSell(a, c) \/ PlanBuy(a, c)
  \/ WritePlan \/ Enrich \/ Restore

Next == Work \/ GenerationFails \/ Crash \/ NextDay \/ (\E j \in Jobs : Start(j))

Spec == Init /\ [][Next]_vars

-----------------------------------------------------------------------------
(* Properties *)

(* Every file and every piece of memory holds what the simulator puts      *)
(* there: positions never go short, a queue holds future receivables, the  *)
(* pending list has no two orders with one id.                             *)
TypeOK ==
  /\ day \in Dates /\ job \in Jobs \cup {None} /\ step \in 0..4
  /\ pc \in {"idle", "recover", "load", "exec", "commit", "nav", "nav_state", "nav_view",
             "clear", "plan", "enrich", "restore"}
  /\ book \in Book /\ ledger \in Ledger
  /\ open \subseteq Order /\ saved \subseteq Order
  /\ view \in [Accounts -> [Codes -> Nat]]
  /\ nav \in [Dates -> {"none", "current", "behind"}]
  /\ journal # None => journal \in Transaction
  /\ work # None => work \in [book : Book, ledger : Ledger, todo : SUBSET Order,
                              kept : SUBSET Order]
  /\ plan # None => plan \in [keys : SUBSET ((Accounts \cup {Retired}) \X Codes),
                              power : [Accounts -> Nat], new : SUBSET Order]
  /\ issued \in 0..MaxOrders /\ crashes \in 0..MaxCrashes

(* The account as AtomicLedger sees it: the journal, while there is one,   *)
(* is the truth, whatever the four files say.                              *)
Abstract == INSTANCE AtomicLedger WITH
  holdings <- Settled.book.pos,
  money <- [a \in Accounts |->
              Settled.book.cash[a] + QueueTotal(Settled.book.queue[a])],
  openIds <- IdsOf(Settled.open),
  rows <- Settled.ledger.rows,
  lots <- Settled.ledger.lots,
  net <- Settled.ledger.net

(* Executing the due orders is atomic: through crashes between any two     *)
(* writes, replays of the journal and commands run on a half-committed     *)
(* store, the settled view moves as AtomicLedger says.                     *)
AtomicSpec == Abstract!Spec

(* No order is executed twice, not by a replay and not by a retry, and no  *)
(* executed order is pending again.                                        *)
ExactlyOnce == Abstract!ExactlyOnce

(* Cash, receivables and positions are what trades.csv adds up to, and     *)
(* whenever no journal is left positions.csv agrees with state.json.       *)
Reconciled ==
  /\ Abstract!Reconciled
  /\ journal = None => view = book.pos

(* A buy never overdraws an account, whatever its price moved to since the *)
(* order was sized.                                                        *)
Solvent == \A a \in Accounts : Settled.book.cash[a] >= 0

(* The daily cycle values, clears and retargets a store without a pending  *)
(* journal, so the NAV row it leaves is computed from the settled state.   *)
DailyReadsSettled ==
  /\ job = "run-daily" /\ pc \in {"nav", "clear", "plan", "enrich", "restore"} => journal = None
  /\ job = "run-daily" /\ pc \in {"clear", "plan", "enrich", "restore"} => nav[day] = "current"

(* An open order leaves the settled view by being booked, by the daily     *)
(* cycle's replacement of the targets, or by the restore of the previous   *)
(* ones; no crash, replay or refresh drops it.                             *)
OrdersLeaveByFillOrReplacement ==
  [][\A o \in Settled.open \ Settled'.open :
        Settled'.ledger.rows[o.id] = 1 \/ pc \in {"clear", "restore"}]_vars
=============================================================================
