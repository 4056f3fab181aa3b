----------------------------- MODULE PaperAccount ---------------------------
(***************************************************************************)
(* One account of the A-share paper portfolio (markets/a_share/            *)
(* simulator.py over store.py), driven by the CLI commands that change it  *)
(* (cli.py).  Unlike the settlement simulator it has no journal: an        *)
(* execution ends in four writes, and a kill between them is final.        *)
(*                                                                         *)
(* An order names the holding it wants, not a quantity.  Orders live in    *)
(* batches, one per signal date; an execution works off every due batch,   *)
(* sells first, and keeps what it could not complete.  Holdings are in     *)
(* lots.  Quotes come from daily rows: an order is priced by the first row *)
(* on or after its batch's execution date, if the run can see it yet.      *)
(***************************************************************************)
EXTENDS Integers, FiniteSets

CONSTANTS
  Codes,       \* security codes
  InitCash,    \* cash of the account at init
  Fee,         \* commission and tax of a trade (the minimum commission binds)
  Prices,      \* prices a row may show
  Bans,        \* what a row may forbid: subsets of {"buy", "sell"}
  NoRow,       \* a day without a row for a code
  MaxLots,     \* bound: holding a target may ask for
  LastDay,     \* bound: trading days
  MaxCrashes,  \* bound: kills and uncaught exceptions
  Commands     \* the commands the operator and the timers use

Dates == 1..LastDay
Sides == {"buy", "sell"}

(* A row with a price may be a halt (no trading), or a limit price that    *)
(* forbids one side.                                                       *)
Row == [px : Prices, ban : Bans] \cup {NoRow}

Order == [code : Codes, side : Sides, target : 0..MaxLots]
Batch == [signal : Dates, after : Nat, orders : SUBSET Order]

(* fresh is history: the lots bought in runs of the current date.          *)
Position == [shares : Nat, avail : Nat, bought : Nat, fresh : Nat]
Account == [cash : Int, pos : [Codes -> Position]]
Totals == [lots : [Codes -> Int], net : Int]

ASSUME PaperAssumption ==
  /\ InitCash \in Nat /\ Fee \in Nat /\ MaxLots \in Nat
  /\ LastDay \in Nat \ {0} /\ MaxCrashes \in Nat
  /\ Prices \subseteq Nat \ {0} /\ \A px \in Prices : Fee <= px
  /\ Bans \subseteq SUBSET Sides
  /\ NoRow \notin [px : Prices, ban : Bans]
  /\ Commands \subseteq {"execute", "rebalance", "update-nav", "run-daily"}

VARIABLES
  day,      \* run date of the next command
  rows,     \* [Codes -> [Dates -> Row]]  daily rows, those after day unseen
  job, pc,  \* the command running and its program counter
  state,    \* state.json
  pending,  \* pending_orders.json
  trades,   \* trades.csv, by its column totals
  view,     \* positions.csv
  work,     \* memory of execute_due_orders
  saved,    \* previous_targets of the daily cycle
  crashes,  \* kills so far
  torn      \* history: a kill took the trade rows of a saved state

files == <<state, pending, trades, view>>
vars == <<day, rows, job, pc, state, pending, trades, view, work, saved,
          crashes, torn>>

Idle == [acct |-> [cash |-> 0, pos |-> [c \in Codes |->
                     [shares |-> 0, avail |-> 0, bought |-> 0, fresh |-> 0]]],
         new |-> [lots |-> [c \in Codes |-> 0], net |-> 0],
         todo |-> {}, left |-> {}, kept |-> {}, batch |-> {}, remaining |-> {}]

Earliest(batches) == {b \in batches : \A x \in batches : b.signal <= x.signal}

-----------------------------------------------------------------------------
(* Quotes and trades *)

(* execution_quote: the first row the run can see, and no other.           *)
QuoteDates(c, after) == {d \in after..day : d \in Dates /\ rows[c][d] # NoRow}
Quotes(c, after) == {[date |-> d, px |-> rows[c][d].px, ban |-> rows[c][d].ban] :
                       d \in {x \in QuoteDates(c, after) :
                                \A y \in QuoteDates(c, after) : x <= y}}

Distance(m, n) == IF m < n THEN n - m ELSE m - n
Largest(S) == CHOOSE n \in S : \A m \in S : m <= n

(* Mutations: a sell of all that is sellable, a buy sized without its fee. *)
SellLotsAll(p, target) == IF p.shares < p.avail THEN p.shares ELSE p.avail
BuyLotsWithoutFee(cash, p, target, px) ==
  IF target <= p.shares THEN 0
  ELSE Largest({n \in 0..(target - p.shares) : n * px <= cash})

(* A sell is cut to what is held and sellable, a buy to what cash allows.  *)
SellLots(p, target) ==
  Largest({n \in 0..p.shares : n <= Distance(p.shares, target) /\ n <= p.avail})
BuyLots(cash, p, target, px) ==
  IF target <= p.shares THEN 0
  ELSE Largest({n \in 0..(target - p.shares) : n = 0 \/ n * px + Fee <= cash})

(* Shares bought before the run date become sellable.                      *)
Refreshed(p) == [p EXCEPT !.avail =
                   IF p.bought < day THEN p.shares
                   ELSE IF p.avail < p.shares THEN p.avail ELSE p.shares]

(* Mutation: the sold shares stay sellable. *)
SoldStaysSellable(p, n) == [p EXCEPT !.shares = @ - n]

Sold(p, n) ==
  IF n = p.shares THEN [p EXCEPT !.shares = 0, !.avail = 0, !.bought = 0]
  ELSE [p EXCEPT !.shares = @ - n, !.avail = @ - n]

Bought(p, n, date) ==
  [shares |-> p.shares + n, avail |-> p.avail, bought |-> date, fresh |-> p.fresh + n]

-----------------------------------------------------------------------------
Init ==
  /\ day = 1
  /\ rows = [c \in Codes |-> [d \in Dates |-> NoRow]]
  /\ job = "none" /\ pc = "idle"
  /\ state = [Idle.acct EXCEPT !.cash = InitCash]
  /\ pending = {}
  /\ trades = [lots |-> [c \in Codes |-> 0], net |-> 0]
  /\ view = [c \in Codes |-> 0]
  /\ work = Idle /\ saved = {}
  /\ crashes = 0 /\ torn = FALSE

Stop == pc' = "idle" /\ job' = "none" /\ work' = Idle /\ saved' = {}

(* cli.main dispatches a command; run-weekly changes the account only      *)
(* through update_nav.                                                     *)
Start(j) ==
  /\ pc = "idle"
  /\ job' = j
  /\ pc' = CASE j \in {"execute", "run-daily"} -> "load"
             [] j = "update-nav" -> "nav"
             [] j = "rebalance" -> "plan"
  /\ UNCHANGED <<day, rows, files, work, saved, crashes, torn>>

(* execute_due_orders, up to its loop over the batches. *)
Load ==
  /\ pc = "load" /\ pc' = "batch"
  /\ work' = [Idle EXCEPT !.acct = state,
                          !.todo = {b \in pending : b.after <= day},
                          !.remaining = {b \in pending : b.after > day}]
  /\ UNCHANGED <<day, rows, job, files, saved, crashes, torn>>

(* The next due batch: holdings bought before today become sellable.       *)
OpenBatch ==
  /\ pc = "batch" /\ pc' = "order"
  /\ \E b \in Earliest(work.todo) :
       work' = [work EXCEPT !.todo = @ \ {b}, !.batch = {b}, !.left = b.orders, !.kept = {},
                  !.acct.pos = [c \in Codes |-> Refreshed(work.acct.pos[c])]]
  /\ UNCHANGED <<day, rows, job, files, saved, crashes, torn>>

(* One order of the batch: already on target, not executable now ...       *)
Done(o) ==
  /\ work.acct.pos[o.code].shares = o.target
  /\ work' = [work EXCEPT !.left = @ \ {o}]

Blocked(o, quotes) ==
  /\ work.acct.pos[o.code].shares # o.target
  /\ \A q \in quotes : o.side \in q.ban
  /\ work' = [work EXCEPT !.left = @ \ {o}, !.kept = @ \cup {o}]

(* Mutations: the row shows the shares asked for, the row shows the amount *)
(* before its fee, or a partial fill counts as a fill.                     *)
TradeShowsAsked(o, n, p, amount) ==
  work' = [work EXCEPT
             !.left = @ \ {o},
             !.kept = IF p.shares = o.target THEN @ ELSE @ \cup {o},
             !.acct = [cash |-> @.cash + amount, pos |-> [@.pos EXCEPT ![o.code] = p]],
             !.new = [lots |-> [@.lots EXCEPT ![o.code] =
                                  @ + o.target - work.acct.pos[o.code].shares],
                      net |-> @.net + amount]]
TradeShowsGross(o, n, p, amount) ==
  work' = [work EXCEPT
             !.left = @ \ {o},
             !.kept = IF p.shares = o.target THEN @ ELSE @ \cup {o},
             !.acct = [cash |-> @.cash + amount, pos |-> [@.pos EXCEPT ![o.code] = p]],
             !.new = [lots |-> [@.lots EXCEPT ![o.code] = work.new.lots[o.code] + n],
                      net |-> @.net + amount + Fee]]
TradeDropsResidual(o, n, p, amount) ==
  work' = [work EXCEPT
             !.left = @ \ {o},
             !.acct = [cash |-> @.cash + amount, pos |-> [@.pos EXCEPT ![o.code] = p]],
             !.new = [lots |-> [@.lots EXCEPT ![o.code] = work.new.lots[o.code] + n],
                      net |-> @.net + amount]]

(* ... or traded, as far as lots and cash go; what is missing is kept.     *)
Trade(o, n, p, amount) ==
  work' = [work EXCEPT
             !.left = @ \ {o},
             !.kept = IF p.shares = o.target THEN @ ELSE @ \cup {o},
             !.acct = [cash |-> @.cash + amount, pos |-> [@.pos EXCEPT ![o.code] = p]],
             !.new = [lots |-> [@.lots EXCEPT ![o.code] = work.new.lots[o.code] + n],
                      net |-> @.net + amount]]

Sell(o, q) ==
  LET p == work.acct.pos[o.code]
      n == SellLots(p, o.target) IN
    /\ o.side = "sell" /\ p.shares # o.target
    /\ "sell" \notin q.ban
    /\ IF n = 0 THEN work' = [work EXCEPT !.left = @ \ {o}, !.kept = @ \cup {o}]
       ELSE Trade(o, -n, Sold(p, n), n * q.px - Fee)

Buy(o, q) ==
  LET p == work.acct.pos[o.code]
      n == BuyLots(work.acct.cash, p, o.target, q.px) IN
    /\ o.side = "buy" /\ p.shares # o.target
    /\ "buy" \notin q.ban
    /\ IF n = 0 THEN work' = [work EXCEPT !.left = @ \ {o}, !.kept = @ \cup {o}]
       ELSE Trade(o, n, Bought(p, n, q.date), -(n * q.px + Fee))

(* Sells come before buys.                                                 *)
NextOrders == {o \in work.left : o.side = "sell" \/ \A x \in work.left : x.side = "buy"}

Attempt ==
  /\ pc = "order"
  /\ \E b \in work.batch, o \in NextOrders :
       LET quotes == Quotes(o.code, b.after) IN
         Done(o) \/ Blocked(o, quotes) \/ (\E q \in quotes : Sell(o, q) \/ Buy(o, q))
  /\ UNCHANGED <<day, rows, job, pc, files, saved, crashes, torn>>

(* A batch survives with the orders it could not complete.                 *)
CloseBatch ==
  /\ pc = "order" /\ work.left = {}
  /\ pc' = "batch"
  /\ work' = [work EXCEPT !.batch = {}, !.kept = {},
                !.remaining = @ \cup {[b EXCEPT !.orders = work.kept] :
                                        b \in {x \in work.batch : work.kept # {}}}]
  /\ UNCHANGED <<day, rows, job, files, saved, crashes, torn>>

(* Four writes, no journal. *)
SavePending ==
  /\ pc = "batch" /\ work.todo = {}
  /\ pc' = "save_state"
  /\ pending' = work.remaining
  /\ UNCHANGED <<day, rows, job, state, trades, view, work, saved, crashes, torn>>

SaveState ==
  /\ pc = "save_state" /\ pc' = "append"
  /\ state' = work.acct
  /\ UNCHANGED <<day, rows, job, pending, trades, view, work, saved, crashes, torn>>

AppendTrades ==
  /\ pc = "append" /\ pc' = "write_positions"
  /\ trades' = [lots |-> [c \in Codes |-> trades.lots[c] + work.new.lots[c]],
                net |-> trades.net + work.new.net]
  /\ UNCHANGED <<day, rows, job, state, pending, view, work, saved, crashes, torn>>

WritePositions ==
  /\ pc = "write_positions"
  /\ view' = [c \in Codes |-> work.acct.pos[c].shares]
  /\ \/ job = "run-daily" /\ pc' = "nav" /\ work' = Idle /\ UNCHANGED <<job, saved>>
     \/ job = "execute" /\ Stop
  /\ UNCHANGED <<day, rows, state, pending, trades, crashes, torn>>

(* update_nav: new valuations in state.json, a NAV row, and positions.csv.  *)
(* Cash and holdings stay; valuations and NAV rows are left out.           *)
UpdateNav ==
  /\ pc = "nav"
  /\ view' = [c \in Codes |-> state.pos[c].shares]
  /\ \/ job = "run-daily" /\ pc' = "clear" /\ UNCHANGED <<job, work, saved>>
     \/ job = "update-nav" /\ Stop
  /\ UNCHANGED <<day, rows, state, pending, trades, crashes, torn>>

(* The daily cycle drops the orders that are left ...                      *)
ClearTargets ==
  /\ pc = "clear" /\ pc' = "plan"
  /\ saved' = pending
  /\ pending' = {}
  /\ UNCHANGED <<day, rows, job, state, trades, view, work, crashes, torn>>

(* ... and asks for new targets.  Scores, optimizer, caps and lot rounding *)
(* may ask for any holding.                                                *)
Targets == [Codes -> 0..MaxLots]

OrdersFor(targets) ==
  {[code |-> c, side |-> IF targets[c] > state.pos[c].shares THEN "buy" ELSE "sell",
    target |-> targets[c]] : c \in {x \in Codes : targets[x] # state.pos[x].shares}}

(* Mutation: the targets of a day are due that day. *)
SameSession(d) == d
NextSession(d) == d + 1

(* A batch for the next trading day, in place of an earlier batch of the   *)
(* same signal date.                                                       *)
Generate ==
  /\ pc = "plan" /\ pc' = "planned"
  /\ \E targets \in Targets :
       pending' = {b \in pending : b.signal # day} \cup
                    {[signal |-> day, after |-> NextSession(day), orders |-> OrdersFor(targets)]}
  /\ UNCHANGED <<day, rows, job, state, trades, view, work, saved, crashes, torn>>

(* Signals, factor snapshots and coverage are written after the orders.    *)
Finish ==
  /\ pc = "planned" /\ Stop
  /\ UNCHANGED <<day, rows, files, crashes, torn>>

(* Generation raises inside the daily cycle's try block, before or after   *)
(* it wrote the orders, and the handler writes the previous ones back.     *)
GenerationFails ==
  /\ job = "run-daily" /\ pc \in {"plan", "planned"}
  /\ pc' = "restore"
  /\ UNCHANGED <<day, rows, job, files, work, saved, crashes, torn>>

Restore ==
  /\ pc = "restore"
  /\ pending' = saved
  /\ Stop
  /\ UNCHANGED <<day, rows, state, trades, view, crashes, torn>>

(* A kill, or an exception elsewhere.                                      *)
Crash ==
  /\ pc # "idle" /\ crashes < MaxCrashes
  /\ crashes' = crashes + 1
  /\ torn' = (torn \/ (pc = "append" /\ work.new # Idle.new))
  /\ Stop
  /\ UNCHANGED <<day, rows, files>>

(* The next trading day closes, with or without a row for each code.       *)
NextDay ==
  /\ pc = "idle" /\ day < LastDay
  /\ day' = day + 1
  /\ \E new \in [Codes -> Row] :
       rows' = [c \in Codes |-> [rows[c] EXCEPT ![day + 1] = new[c]]]
  /\ state' = [state EXCEPT !.pos = [c \in Codes |-> [@[c] EXCEPT !.fresh = 0]]]
  /\ UNCHANGED <<job, pc, pending, trades, view, work, saved, crashes, torn>>

Next ==
  \/ \E j \in Commands : Start(j)
  \/ Load \/ OpenBatch \/ Attempt \/ CloseBatch
  \/ SavePending \/ SaveState \/ AppendTrades \/ WritePositions
  \/ UpdateNav \/ ClearTargets \/ Generate \/ Finish \/ GenerationFails \/ Restore
  \/ Crash \/ NextDay

Spec == Init /\ [][Next]_vars

-----------------------------------------------------------------------------
(* Properties *)

(* Holdings are never short, sellable shares never exceed the holding, and *)
(* a side and a target make an order.                                      *)
TypeOK ==
  /\ day \in Dates /\ rows \in [Codes -> [Dates -> Row]]
  /\ job \in Commands \cup {"none"}
  /\ pc \in {"idle", "load", "batch", "order", "save_state", "append", "write_positions",
             "nav", "clear", "plan", "planned", "restore"}
  /\ state \in Account /\ pending \subseteq Batch /\ saved \subseteq Batch
  /\ trades \in Totals /\ view \in [Codes -> Nat]
  /\ work \in [acct : Account, new : Totals, todo : SUBSET Batch, left : SUBSET Order,
               kept : SUBSET Order, batch : SUBSET Batch, remaining : SUBSET Batch]
  /\ \A c \in Codes : state.pos[c].avail <= state.pos[c].shares
  /\ crashes \in 0..MaxCrashes /\ torn \in BOOLEAN

(* No buy is paid for with money the account does not have, however far    *)
(* the price moved between the sizing of its target and its execution.     *)
Solvent == state.cash >= 0 /\ work.acct.cash >= 0

(* Shares bought in a run of some date are still there when that date      *)
(* ends: no run of the same date sells them.                               *)
SettlesNextDay ==
  \A c \in Codes : /\ state.pos[c].fresh <= state.pos[c].shares
                   /\ work.acct.pos[c].fresh <= work.acct.pos[c].shares

(* An execution moves a holding towards the order's target and never past  *)
(* it, however old the order is.                                           *)
NoOvershoot ==
  [][\A b \in work.batch, o \in work.left \ work'.left :
       (pc = "order" /\ pc' = "order") =>
         LET old == work.acct.pos[o.code].shares
             new == work'.acct.pos[o.code].shares IN
           \/ old <= new /\ new <= o.target
           \/ o.target <= new /\ new <= old]_vars

(* Unless a kill fell between state.json and trades.csv, cash and holdings *)
(* are what trades.csv adds up to, whatever else was killed or raised.     *)
(* positions.csv lags behind state.json between two writes of an execution *)
(* and after a kill there, until the daily cycle's valuation at the latest.*)
Valued == job = "run-daily" /\ pc \in {"clear", "plan", "planned", "restore"}
Reconciled ==
  /\ ~torn /\ pc # "append" =>
       /\ state.cash = InitCash + trades.net
       /\ \A c \in Codes : state.pos[c].shares = trades.lots[c]
  /\ Valued \/ (crashes = 0 /\ pc \notin {"append", "write_positions"}) =>
       \A c \in Codes : view[c] = state.pos[c].shares

(* An execution drops an order only when its target was met; what a quote, *)
(* a lot or the cash withheld is still pending afterwards.  (A later batch *)
(* of the same run may have moved the holding on.)                         *)
OrdersLeaveFilled ==
  [][pc = "batch" /\ pc' = "save_state" =>
       \A b \in pending : \A o \in b.orders :
         \/ \E x \in pending' : x.signal = b.signal /\ o \in x.orders
         \/ work.acct.pos[o.code].shares = o.target
         \/ \E x \in pending : x.signal > b.signal /\ x.after <= day
                              /\ \E y \in x.orders : y.code = o.code]_vars
=============================================================================
