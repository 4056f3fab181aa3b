------------------------------ MODULE PaperProofs -----------------------------
(***************************************************************************)
(* Proofs about PaperAccount, for any set of codes, prices and bans, any   *)
(* cash, fee and number of days and kills, and any set of commands; what   *)
(* holds only on the timers' schedule says so.                             *)
(***************************************************************************)
EXTENDS PaperAccount, FiniteSetTheorems, WellFoundedInduction, TLAPS

(* The timers give run-daily and nothing else.                             *)
Daily == Commands \subseteq {"run-daily"}

Steps == {"idle", "load", "batch", "order", "save_state", "append", "write_positions",
          "nav", "clear", "plan", "planned", "restore"}
Executing == {"batch", "order", "save_state", "append", "write_positions"}
Scratch == [acct : Account, new : Totals, todo : SUBSET Batch, left : SUBSET Order,
            kept : SUBSET Order, batch : SUBSET Batch, remaining : SUBSET Batch]

(* The holdings of an account, and its cash, are never negative, nor is    *)
(* what of a holding may not be sold yet.                                  *)
Sound(acct) == acct.cash >= 0 /\ \A c \in Codes : acct.pos[c].avail <= acct.pos[c].shares

(* The files and the memory of an execution.                               *)
Typed ==
  /\ day \in Dates /\ rows \in [Codes -> [Dates -> Row]]
  /\ job \in Commands \cup {"none"} /\ pc \in Steps
  /\ state \in Account /\ pending \in SUBSET Batch /\ saved \in SUBSET Batch
  /\ trades \in Totals /\ view \in [Codes -> Nat]
  /\ work \in Scratch
  /\ crashes \in 0..MaxCrashes /\ torn \in BOOLEAN

Funded == Sound(state) /\ Sound(work.acct)

(* Which command is where, and what it holds there.                        *)
ControlOK ==
  /\ pc = "idle" <=> job = "none"
  /\ pc \notin Executing => work = Idle
  /\ pc # "order" => work.batch = {} /\ work.left = {} /\ work.kept = {}
  /\ pc = "order" => \E b \in pending : work.batch = {b}
  /\ pc \in {"save_state", "append", "write_positions"} => work.todo = {}
  /\ saved # {} => pc \in {"plan", "planned", "restore"}
  /\ pc = "plan" /\ job = "run-daily" => pending = {}
  /\ Daily /\ pc # "idle" => job = "run-daily"

(* The account acct is what account base and the trades of new make of it. *)
Adds(acct, base, new) ==
  /\ acct.cash = base.cash + new.net
  /\ \A c \in Codes : acct.pos[c].shares = base.pos[c].shares + new.lots[c]

(* The account acct is what trades.csv adds up to.                         *)
OnFile(acct) ==
  /\ acct.cash = InitCash + trades.net
  /\ \A c \in Codes : acct.pos[c].shares = trades.lots[c]

(* The books of an execution: until it saves the state, its account is the *)
(* saved one and its trades; then the account is saved and its trades are  *)
(* not on file; then they are.                                             *)
BooksOK ==
  /\ ~torn /\ pc # "append" => OnFile(state)
  /\ pc \in {"batch", "order", "save_state"} => Adds(work.acct, state, work.new)
  /\ pc = "append" => /\ work.acct.cash = state.cash
                      /\ \A c \in Codes : work.acct.pos[c].shares = state.pos[c].shares
                      /\ ~torn => /\ state.cash = InitCash + trades.net + work.new.net
                                  /\ \A c \in Codes : state.pos[c].shares =
                                                        trades.lots[c] + work.new.lots[c]

(* positions.csv shows the saved holdings, but for those of an execution   *)
(* that has still to write it, and of one that was killed before it did.   *)
Shown(acct) == \A c \in Codes : view[c] = acct.pos[c].shares
ViewOK ==
  /\ Valued \/ (crashes = 0 /\ pc \notin {"append", "write_positions"}) => Shown(state)
  /\ pc = "write_positions" => \A c \in Codes : work.acct.pos[c].shares = state.pos[c].shares

(* Batches of one signal date are one batch, and an order is the only one  *)
(* of its batch for its code.                                              *)
Distinct(batches) == \A b, x \in batches : b.signal = x.signal => b = x
OneForEach(batches) == \A b \in batches : \A o, x \in b.orders : o.code = x.code => o = x

(* Each batch is what another one left over.                               *)
LeftOver(batches, of) ==
  \A b \in batches : \E x \in of : b.signal = x.signal /\ b.after = x.after /\ b.orders \subseteq x.orders

(* The queue, and what an execution has taken from it: it works off the    *)
(* due batches by their dates and keeps the others as they are.            *)
QueueOK ==
  /\ Distinct(pending) /\ Distinct(saved) /\ OneForEach(pending) /\ OneForEach(saved)
  /\ work.todo \subseteq pending /\ \A b \in work.todo : b.after <= day
  /\ \A b \in work.batch : b.after <= day
  /\ \A b \in work.batch : work.left \subseteq b.orders /\ work.kept \subseteq b.orders
  /\ pc \in {"batch", "order"} => LeftOver(work.remaining, pending)
  /\ Distinct(work.remaining)
  /\ \A b \in work.batch, x \in work.todo : b.signal < x.signal
  /\ \A b \in work.remaining, x \in work.todo \cup work.batch : b.signal # x.signal

(* What becomes of an order of a due batch: it waits for its batch, for    *)
(* its turn, is kept, is filled, or gives way to a later order for its code. *)
Accounted(b, o) ==
  \/ b \in work.todo
  \/ b \in work.batch /\ o \in work.left \cup work.kept
  \/ \E x \in work.remaining : x.signal = b.signal /\ o \in x.orders
  \/ work.acct.pos[o.code].shares = o.target
  \/ \E x \in pending : /\ x.signal > b.signal /\ x.after <= day
                        /\ \E y \in x.orders : y.code = o.code

(* No due batch that is over is later than one that is not.                *)
OrdersOK ==
  pc \in {"batch", "order"} =>
    /\ \A b \in pending : \A o \in b.orders : Accounted(b, o)
    /\ \A b \in pending : b.after > day => b \in work.remaining
    /\ \A b \in pending \ (work.todo \cup work.batch), x \in work.todo \cup work.batch :
         b.after <= day => b.signal < x.signal

(* On the timers' schedule all orders stem from one plan, so that an order *)
(* to sell finds at least what it wants to keep, of which nothing was      *)
(* bought on the day it is due.                                            *)
OnePlan(batches) == \A b, x \in batches : \A o \in b.orders, y \in x.orders : o.code = y.code => o = y
Sellable(acct, batches) ==
  \A b \in batches : \A o \in b.orders :
    o.side = "sell" => /\ o.target <= acct.pos[o.code].shares
                       /\ b.after <= day => acct.pos[o.code].fresh = 0
FreshHeld(acct) == \A c \in Codes : acct.pos[c].fresh <= acct.pos[c].shares

DailyOK ==
  Daily =>
    /\ FreshHeld(state) /\ FreshHeld(work.acct)
    /\ OnePlan(pending) /\ OnePlan(saved)
    /\ Sellable(state, pending) /\ Sellable(state, saved)
    /\ pc \in Executing => Sellable(work.acct, pending)

IInv == Typed /\ Funded /\ ControlOK /\ BooksOK /\ ViewOK /\ QueueOK /\ OrdersOK /\ DailyOK
-----------------------------------------------------------------------------
(* Lots and quotes.                                                        *)

LEMMA LargestExists ==
  ASSUME NEW k \in Nat, NEW S \in SUBSET (0..k), S # {}
  PROVE  Largest(S) \in S /\ \A m \in S : m <= Largest(S)
<1> DEFINE T == {k - n : n \in S}
<1>1. T \subseteq Nat /\ T # {}
  <2>1. \A n \in S : n \in Nat /\ n <= k OBVIOUS
  <2>2. T \subseteq Nat BY <2>1
  <2>3. \A n \in S : k - n \in T OBVIOUS
  <2> QED BY <2>2, <2>3
<1> HIDE DEF T
<1>2. PICK x \in T : \A y \in T : ~(<<y, x>> \in OpToRel(<, Nat))
  BY <1>1, NatLessThanWellFounded, WFMin
<1>3. \A y \in T : ~(y < x)
  BY <1>1, <1>2 DEF OpToRel
<1>4. PICK n \in S : x = k - n BY <1>2 DEF T
<1>5. \A m \in S : m <= n
  <2> TAKE m \in S
  <2>1. k - m \in T BY DEF T
  <2> QED BY <2>1, <1>3, <1>4
<1> QED BY <1>5 DEF Largest

LEMMA SellLotsBound ==
  ASSUME NEW p \in Position, NEW target \in Nat
  PROVE  /\ SellLots(p, target) \in Nat /\ SellLots(p, target) <= p.shares
         /\ SellLots(p, target) <= p.avail
         /\ SellLots(p, target) <= Distance(p.shares, target)
<1> DEFINE S == {n \in 0..p.shares : n <= Distance(p.shares, target) /\ n <= p.avail}
<1>1. p.shares \in Nat /\ p.avail \in Nat BY DEF Position
<1>2. 0 \in S BY <1>1 DEF Distance
<1>3. Largest(S) \in S BY <1>1, <1>2, LargestExists
<1> QED BY <1>1, <1>3 DEF SellLots

LEMMA BuyLotsBound ==
  ASSUME NEW cash \in Int, NEW p \in Position, NEW target \in Nat, NEW px \in Nat
  PROVE  /\ BuyLots(cash, p, target, px) \in Nat
         /\ BuyLots(cash, p, target, px) # 0 =>
              /\ p.shares + BuyLots(cash, p, target, px) <= target
              /\ BuyLots(cash, p, target, px) * px + Fee <= cash
<1> DEFINE S == {n \in 0..(target - p.shares) : n = 0 \/ n * px + Fee <= cash}
<1>1. p.shares \in Nat BY DEF Position
<1>2. CASE target <= p.shares BY <1>2 DEF BuyLots
<1>3. CASE ~(target <= p.shares)
  <2>1. target - p.shares \in Nat BY <1>1, <1>3
  <2>2. 0 \in S BY <2>1
  <2>3. Largest(S) \in S BY <2>1, <2>2, LargestExists
  <2>4. BuyLots(cash, p, target, px) \in S BY <1>3, <2>3, Zenon DEF BuyLots
  <2>5. BuyLots(cash, p, target, px) \in 0..(target - p.shares) BY <2>4
  <2>6. \/ BuyLots(cash, p, target, px) = 0
        \/ BuyLots(cash, p, target, px) * px + Fee <= cash
    BY <2>4
  <2> QED BY <1>1, <2>1, <2>5, <2>6
<1> QED BY <1>2, <1>3

(* A sale earns at least its fee.                                          *)
LEMMA SalePays ==
  ASSUME NEW n \in Nat, n # 0, NEW px \in Prices
  PROVE  n * px \in Nat /\ n * px - Fee \in Int /\ n * px - Fee >= 0
<1>1. px \in Nat /\ Fee \in Nat /\ Fee <= px BY PaperAssumption
<1>2. n * px \in Nat BY <1>1
<1>3. n * px >= px
  <2>1. n - 1 \in Nat BY Z3
  <2>2. (n - 1) * px \in Nat BY <1>1, <2>1
  <2>3. n * px = (n - 1) * px + px BY <1>1
  <2> QED BY <1>1, <2>2, <2>3
<1> QED BY <1>1, <1>2, <1>3

LEMMA QuoteFound ==
  ASSUME rows \in [Codes -> [Dates -> Row]], NEW c \in Codes, NEW after, NEW q \in Quotes(c, after)
  PROVE  q.date \in Dates /\ q.px \in Prices
<1>1. PICK d \in QuoteDates(c, after) :
        q = [date |-> d, px |-> rows[c][d].px, ban |-> rows[c][d].ban]
  BY DEF Quotes
<1>2. d \in Dates /\ rows[c][d] # NoRow BY <1>1 DEF QuoteDates
<1>3. rows[c][d] \in [px : Prices, ban : Bans] BY <1>2 DEF Row
<1> QED BY <1>1, <1>2, <1>3
-----------------------------------------------------------------------------
(* The step of an order, field by field.                                   *)

(* The order goes out of turn; the account stays as it is.                 *)
Settled(o) ==
  /\ work.acct.pos[o.code].shares = o.target
  /\ work' = [work EXCEPT !.left = @ \ {o}]
Waits(o) == work' = [work EXCEPT !.left = @ \ {o}, !.kept = @ \cup {o}]

(* What a trade of n lots may make of a holding: a sale takes only what is *)
(* sellable and stops at the target, and so does a buy.                    *)
Moved(o, n, p, amount) ==
  LET old == work.acct.pos[o.code] IN
  /\ n \in Int /\ p \in Position /\ amount \in Int /\ work.acct.cash + amount >= 0
  /\ p.shares = old.shares + n /\ p.avail <= p.shares
  /\ \/ /\ o.side = "sell" /\ n < 0 /\ p.fresh = old.fresh
        /\ o.target <= old.shares => o.target <= p.shares
     \/ /\ o.side = "buy" /\ n > 0 /\ p.fresh = old.fresh + n
        /\ old.shares <= p.shares /\ p.shares <= o.target

LEMMA DatesAreNat == Dates \subseteq Nat
BY DEF Dates

LEMMA OrderParts ==
  ASSUME NEW o \in Order
  PROVE  o.code \in Codes /\ o.side \in Sides /\ o.target \in Nat
BY PaperAssumption DEF Order

LEMMA BatchParts ==
  ASSUME NEW b \in Batch
  PROVE  b.signal \in Dates /\ b.signal \in Nat /\ b.after \in Nat /\ b.orders \in SUBSET Order
BY DEF Batch, Dates

LEMMA WorkParts ==
  ASSUME work \in Scratch
  PROVE  /\ work.acct \in Account /\ work.new \in Totals
         /\ work.todo \in SUBSET Batch /\ work.left \in SUBSET Order /\ work.kept \in SUBSET Order
         /\ work.batch \in SUBSET Batch /\ work.remaining \in SUBSET Batch
BY DEF Scratch

LEMMA AccountParts ==
  ASSUME NEW a \in Account, NEW c \in Codes
  PROVE  /\ a.cash \in Int /\ a.pos \in [Codes -> Position] /\ a.pos[c] \in Position
         /\ a.pos[c].shares \in Nat /\ a.pos[c].avail \in Nat
         /\ a.pos[c].bought \in Nat /\ a.pos[c].fresh \in Nat
BY DEF Account, Position

LEMMA AttemptMoves ==
  ASSUME Typed, Funded, Attempt
  PROVE  \E b \in work.batch, o \in work.left :
           \/ Settled(o)
           \/ Waits(o)
           \/ \E n, p, amount : Moved(o, n, p, amount) /\ Trade(o, n, p, amount)
<1>1. PICK b \in work.batch, o \in NextOrders :
        LET quotes == Quotes(o.code, b.after) IN
          Done(o) \/ Blocked(o, quotes) \/ (\E q \in quotes : Sell(o, q) \/ Buy(o, q))
  BY DEF Attempt
<1>2. work \in Scratch /\ rows \in [Codes -> [Dates -> Row]] BY DEF Typed
<1>3. o \in work.left BY DEF NextOrders
<1>4. o \in Order BY <1>2, <1>3, WorkParts
<1>5. o.code \in Codes /\ o.side \in Sides /\ o.target \in Nat BY <1>4, OrderParts
<1>6. work.acct \in Account BY <1>2, WorkParts
<1> DEFINE old == work.acct.pos[o.code]
<1>7. /\ work.acct.cash \in Int /\ old \in Position
      /\ old.shares \in Nat /\ old.avail \in Nat /\ old.bought \in Nat /\ old.fresh \in Nat
  BY <1>5, <1>6, AccountParts
<1>8. old.avail <= old.shares /\ work.acct.cash >= 0 BY <1>5 DEF Funded, Sound
<1>9. CASE Done(o) BY <1>3, <1>9 DEF Done, Settled
<1>10. CASE Blocked(o, Quotes(o.code, b.after)) BY <1>3, <1>10 DEF Blocked, Waits
<1>11. ASSUME NEW q \in Quotes(o.code, b.after), Sell(o, q)
       PROVE  Waits(o) \/ \E n, p, amount : Moved(o, n, p, amount) /\ Trade(o, n, p, amount)
  <2> DEFINE n == SellLots(old, o.target)
  <2>1. /\ n \in Nat /\ n <= old.shares /\ n <= old.avail /\ n <= Distance(old.shares, o.target)
    BY <1>5, <1>7, SellLotsBound
  <2>2. q.px \in Prices BY <1>2, <1>5, QuoteFound
  <2>3. CASE n = 0 BY <1>11, <2>3 DEF Sell, Waits
  <2>4. CASE n # 0
    <3>1. o.side = "sell" /\ Trade(o, -n, Sold(old, n), n * q.px - Fee)
      BY <1>11, <2>4 DEF Sell
    <3> HIDE DEF n
    <3>2. n * q.px - Fee \in Int /\ n * q.px - Fee >= 0 BY <2>1, <2>2, <2>4, SalePays
    <3> DEFINE p == Sold(old, n)
    <3>3. /\ p \in Position /\ p.shares = old.shares - n /\ p.avail <= p.shares
          /\ p.fresh = old.fresh
      <4>1. CASE n = old.shares
        <5>1. p = [old EXCEPT !.shares = 0, !.avail = 0, !.bought = 0] BY <4>1 DEF Sold
        <5> HIDE DEF p
        <5>2. p = [shares |-> 0, avail |-> 0, bought |-> 0, fresh |-> old.fresh]
          BY <5>1, <1>7 DEF Position
        <5> QED BY <5>2, <4>1, <1>7 DEF Position
      <4>2. CASE n # old.shares
        <5>1. p = [old EXCEPT !.shares = @ - n, !.avail = @ - n] BY <4>2 DEF Sold
        <5>2. old.shares - n \in Nat /\ old.avail - n \in Nat BY <2>1, <1>7
        <5> HIDE DEF p
        <5>3. p = [shares |-> old.shares - n, avail |-> old.avail - n,
                   bought |-> old.bought, fresh |-> old.fresh]
          BY <5>1, <1>7 DEF Position
        <5> QED BY <5>2, <5>3, <1>7, <1>8, <2>1 DEF Position
      <4> QED BY <4>1, <4>2
    <3>4. o.target <= old.shares => o.target <= old.shares - n
      BY <1>5, <1>7, <2>1 DEF Distance
    <3>5. Moved(o, -n, p, n * q.px - Fee)
      BY <1>7, <1>8, <2>1, <2>4, <3>1, <3>2, <3>3, <3>4 DEF Moved
    <3> QED BY <3>1, <3>5
  <2> QED BY <2>3, <2>4
<1>12. ASSUME NEW q \in Quotes(o.code, b.after), Buy(o, q)
       PROVE  Waits(o) \/ \E n, p, amount : Moved(o, n, p, amount) /\ Trade(o, n, p, amount)
  <2> DEFINE n == BuyLots(work.acct.cash, old, o.target, q.px)
  <2>1. q.date \in Dates /\ q.px \in Prices BY <1>2, <1>5, QuoteFound
  <2>2. q.date \in Nat /\ q.px \in Nat /\ Fee \in Nat
    <3>1. Fee \in Nat /\ Prices \subseteq Nat BY PaperAssumption
    <3>2. q.px \in Nat BY <2>1, <3>1
    <3> QED BY <2>1, <3>1, <3>2, DatesAreNat
  <2>3. n \in Nat /\ (n # 0 => old.shares + n <= o.target /\ n * q.px + Fee <= work.acct.cash)
    BY <1>5, <1>7, <2>2, BuyLotsBound
  <2>4. CASE n = 0 BY <1>12, <2>4 DEF Buy, Waits
  <2>5. CASE n # 0
    <3>1. o.side = "buy" /\ Trade(o, n, Bought(old, n, q.date), -(n * q.px + Fee))
      BY <1>12, <2>5 DEF Buy
    <3> HIDE DEF n
    <3>2. n * q.px \in Nat BY <2>2, <2>3
    <3> DEFINE cost == n * q.px + Fee
    <3>3. cost \in Int /\ cost <= work.acct.cash BY <2>2, <2>3, <2>5, <3>2
    <3> HIDE DEF cost
    <3>4. -cost \in Int /\ work.acct.cash + (-cost) >= 0 BY <1>7, <3>3
    <3> DEFINE p == Bought(old, n, q.date)
    <3>5. /\ p \in Position /\ p.shares = old.shares + n /\ p.avail = old.avail
          /\ p.fresh = old.fresh + n
      BY <1>7, <2>2, <2>3 DEF Bought, Position
    <3>6. Moved(o, n, p, -cost)
      BY <1>7, <1>8, <2>3, <2>5, <3>1, <3>4, <3>5 DEF Moved
    <3> QED BY <3>1, <3>6 DEF cost
  <2> QED BY <2>4, <2>5
<1> QED BY <1>1, <1>3, <1>9, <1>10, <1>11, <1>12

(* The fields of the memory after a trade.                                 *)
LEMMA TradeParts ==
  ASSUME work \in Scratch, NEW o \in Order, NEW n, NEW p, NEW amount,
         Moved(o, n, p, amount), Trade(o, n, p, amount)
  PROVE  /\ work' \in Scratch
         /\ work'.left = work.left \ {o}
         /\ work'.kept = IF p.shares = o.target THEN work.kept ELSE work.kept \cup {o}
         /\ work'.todo = work.todo /\ work'.batch = work.batch /\ work'.remaining = work.remaining
         /\ work'.acct.cash = work.acct.cash + amount
         /\ work'.new.net = work.new.net + amount
         /\ \A c \in Codes : work'.acct.pos[c] = IF c = o.code THEN p ELSE work.acct.pos[c]
         /\ work'.new.lots[o.code] = work.new.lots[o.code] + n
         /\ \A c \in Codes \ {o.code} : work'.new.lots[c] = work.new.lots[c]
<1> DEFINE acct == [cash |-> work.acct.cash + amount, pos |-> [work.acct.pos EXCEPT ![o.code] = p]]
           new == [lots |-> [work.new.lots EXCEPT ![o.code] = @ + n], net |-> work.new.net + amount]
           kept == IF p.shares = o.target THEN work.kept ELSE work.kept \cup {o}
<1>1. o.code \in Codes BY OrderParts
<1>2. /\ work.acct \in Account /\ work.new \in Totals
      /\ work.left \in SUBSET Order /\ work.kept \in SUBSET Order
  BY WorkParts
<1>3. /\ work.acct.cash \in Int /\ work.acct.pos \in [Codes -> Position]
      /\ work.new.net \in Int /\ work.new.lots \in [Codes -> Int]
  BY <1>2 DEF Account, Totals
<1>4. n \in Int /\ p \in Position /\ amount \in Int BY DEF Moved
<1>5. acct \in Account BY <1>1, <1>3, <1>4 DEF Account
<1>6. new \in Totals BY <1>1, <1>3, <1>4 DEF Totals
<1>7. kept \in SUBSET Order BY <1>2
<1>8. work' = [work EXCEPT !.left = @ \ {o}, !.kept = kept, !.acct = acct, !.new = new]
  BY DEF Trade
<1>9. \A c \in Codes : acct.pos[c] = IF c = o.code THEN p ELSE work.acct.pos[c]
  BY <1>3
<1>10. /\ new.lots[o.code] = work.new.lots[o.code] + n
       /\ \A c \in Codes \ {o.code} : new.lots[c] = work.new.lots[c]
  BY <1>1, <1>3
<1>11. acct.cash = work.acct.cash + amount /\ new.net = work.new.net + amount OBVIOUS
<1> HIDE DEF acct, new, kept
<1>12. /\ work' \in Scratch /\ work'.left = work.left \ {o} /\ work'.kept = kept
       /\ work'.todo = work.todo /\ work'.batch = work.batch /\ work'.remaining = work.remaining
       /\ work'.acct = acct /\ work'.new = new
  BY <1>2, <1>5, <1>6, <1>7, <1>8 DEF Scratch
<1> QED BY <1>9, <1>10, <1>11, <1>12 DEF kept

(* The fields of the memory after a step that leaves the account alone.    *)
LEMMA PassParts ==
  ASSUME work \in Scratch, NEW o \in Order, Settled(o) \/ Waits(o)
  PROVE  /\ work' \in Scratch
         /\ work'.left = work.left \ {o}
         /\ \/ work'.kept = work.kept \cup {o}
            \/ work'.kept = work.kept /\ work.acct.pos[o.code].shares = o.target
         /\ work'.todo = work.todo /\ work'.batch = work.batch /\ work'.remaining = work.remaining
         /\ work'.acct = work.acct /\ work'.new = work.new
BY ZenonT(60) DEF Settled, Waits, Scratch

LEMMA IdleParts ==
  /\ Idle \in Scratch /\ Idle.acct.cash = 0 /\ Idle.new \in Totals /\ Idle.new.net = 0
  /\ \A c \in Codes : /\ Idle.acct.pos[c].shares = 0 /\ Idle.acct.pos[c].avail = 0
                      /\ Idle.acct.pos[c].fresh = 0 /\ Idle.new.lots[c] = 0
  /\ Idle.todo = {} /\ Idle.left = {} /\ Idle.kept = {} /\ Idle.batch = {} /\ Idle.remaining = {}
<1>1. [shares |-> 0, avail |-> 0, bought |-> 0, fresh |-> 0] \in Position BY DEF Position
<1>2. Idle.acct \in Account BY <1>1 DEF Idle, Account
<1>3. Idle.new \in Totals BY DEF Idle, Totals
<1>4. Idle = [acct |-> Idle.acct, new |-> Idle.new,
              todo |-> {}, left |-> {}, kept |-> {}, batch |-> {}, remaining |-> {}]
  BY Zenon DEF Idle
<1>5. Idle \in Scratch BY <1>2, <1>3, <1>4 DEF Scratch
<1> QED BY <1>2, <1>3, <1>5 DEF Idle

LEMMA LoadParts ==
  ASSUME Typed, Load
  PROVE  /\ work' \in Scratch /\ work'.acct = state /\ work'.new = Idle.new
         /\ work'.todo = {b \in pending : b.after <= day}
         /\ work'.remaining = {b \in pending : b.after > day}
         /\ work'.left = {} /\ work'.kept = {} /\ work'.batch = {}
<1> DEFINE todo == {b \in pending : b.after <= day}
           remaining == {b \in pending : b.after > day}
<1>1. todo \in SUBSET Batch /\ remaining \in SUBSET Batch /\ state \in Account BY DEF Typed
<1>2. work' = [Idle EXCEPT !.acct = state, !.todo = todo, !.remaining = remaining] BY DEF Load
<1> HIDE DEF todo, remaining
<1>3. Idle \in Scratch /\ Idle.left = {} /\ Idle.kept = {} /\ Idle.batch = {} BY IdleParts
<1>4. /\ work' \in Scratch /\ work'.acct = state /\ work'.new = Idle.new
      /\ work'.todo = todo /\ work'.remaining = remaining
      /\ work'.left = Idle.left /\ work'.kept = Idle.kept /\ work'.batch = Idle.batch
  BY <1>1, <1>2, <1>3 DEF Scratch
<1> QED BY <1>3, <1>4 DEF todo, remaining

LEMMA RefreshedParts ==
  ASSUME day \in Nat, NEW p \in Position
  PROVE  /\ Refreshed(p) \in Position /\ Refreshed(p).shares = p.shares
         /\ Refreshed(p).fresh = p.fresh /\ Refreshed(p).avail <= p.shares
BY DEF Refreshed, Position

LEMMA OpenParts ==
  ASSUME Typed, OpenBatch
  PROVE  \E b \in Earliest(work.todo) :
           /\ work' \in Scratch
           /\ work'.todo = work.todo \ {b} /\ work'.batch = {b} /\ work'.left = b.orders
           /\ work'.kept = {} /\ work'.remaining = work.remaining /\ work'.new = work.new
           /\ work'.acct.cash = work.acct.cash
           /\ \A c \in Codes : work'.acct.pos[c] = Refreshed(work.acct.pos[c])
<1> DEFINE pos == [c \in Codes |-> Refreshed(work.acct.pos[c])]
<1>1. PICK b \in Earliest(work.todo) :
        work' = [work EXCEPT !.todo = @ \ {b}, !.batch = {b}, !.left = b.orders, !.kept = {},
                   !.acct.pos = pos]
  BY DEF OpenBatch
<1>2. work \in Scratch /\ day \in Nat BY DatesAreNat DEF Typed
<1>3. work.acct \in Account /\ b \in Batch /\ work.todo \in SUBSET Batch
  BY <1>2, WorkParts DEF Earliest
<1>4. b.orders \in SUBSET Order BY <1>3, BatchParts
<1>5. \A c \in Codes : work.acct.pos[c] \in Position BY <1>3, AccountParts
<1>6. pos \in [Codes -> Position] BY <1>2, <1>5, RefreshedParts
<1> DEFINE acct == [work.acct EXCEPT !.pos = pos]
<1>7. \A c \in Codes : pos[c] = Refreshed(work.acct.pos[c]) OBVIOUS
<1> HIDE DEF pos
<1>8. acct \in Account /\ acct.cash = work.acct.cash /\ acct.pos = pos BY <1>3, <1>6 DEF Account
<1>9. work' = [work EXCEPT !.todo = @ \ {b}, !.batch = {b}, !.left = b.orders, !.kept = {},
                 !.acct = acct]
  BY <1>1, <1>2 DEF Scratch
<1> HIDE DEF acct
<1>10. /\ work' \in Scratch /\ work'.todo = work.todo \ {b} /\ work'.batch = {b}
       /\ work'.left = b.orders /\ work'.kept = {} /\ work'.remaining = work.remaining
       /\ work'.new = work.new /\ work'.acct = acct
  BY <1>2, <1>3, <1>4, <1>8, <1>9 DEF Scratch
<1> QED BY <1>7, <1>8, <1>10

LEMMA CloseParts ==
  ASSUME Typed, ControlOK, CloseBatch
  PROVE  \E b \in pending :
           /\ work.batch = {b}
           /\ work' \in Scratch /\ work'.batch = {} /\ work'.left = {} /\ work'.kept = {}
           /\ work'.todo = work.todo /\ work'.acct = work.acct /\ work'.new = work.new
           /\ \/ work.kept = {} /\ work'.remaining = work.remaining
              \/ /\ work.kept # {}
                 /\ \E r \in Batch : /\ work'.remaining = work.remaining \cup {r}
                                     /\ r.signal = b.signal /\ r.after = b.after
                                     /\ r.orders = work.kept
<1> DEFINE more == {[b EXCEPT !.orders = work.kept] : b \in {x \in work.batch : work.kept # {}}}
<1>1. PICK b \in pending : work.batch = {b} BY DEF ControlOK, CloseBatch
<1>2. work \in Scratch /\ b \in Batch BY <1>1 DEF Typed
<1>3. work.kept \in SUBSET Order /\ work.remaining \in SUBSET Batch BY <1>2, WorkParts
<1> DEFINE r == [b EXCEPT !.orders = work.kept]
<1>4. r \in Batch /\ r.signal = b.signal /\ r.after = b.after /\ r.orders = work.kept
  BY <1>2, <1>3 DEF Batch
<1>5. more = IF work.kept = {} THEN {} ELSE {r} BY <1>1
<1>6. work' = [work EXCEPT !.batch = {}, !.kept = {}, !.remaining = @ \cup more] BY DEF CloseBatch
<1> HIDE DEF more, r
<1>7. work.remaining \cup more \in SUBSET Batch BY <1>3, <1>4, <1>5
<1>8. /\ work' \in Scratch /\ work'.batch = {} /\ work'.left = work.left /\ work'.kept = {}
      /\ work'.todo = work.todo /\ work'.acct = work.acct /\ work'.new = work.new
      /\ work'.remaining = work.remaining \cup more
  BY <1>2, <1>6, <1>7 DEF Scratch
<1>9. work.left = {} BY DEF CloseBatch
<1>10. CASE work.kept = {} BY <1>1, <1>5, <1>8, <1>9, <1>10
<1>11. CASE work.kept # {} BY <1>1, <1>4, <1>5, <1>8, <1>9, <1>11
<1> QED BY <1>10, <1>11
-----------------------------------------------------------------------------
(* Steps keep the types, and what accounts hold.                           *)

(* A set of targets makes a batch with one order for each code.            *)
LEMMA PlanParts ==
  ASSUME state \in Account, NEW targets \in Targets
  PROVE  /\ OrdersFor(targets) \in SUBSET Order
         /\ \A o \in OrdersFor(targets) :
              /\ o.target = targets[o.code]
              /\ o.side = "sell" => o.target <= state.pos[o.code].shares
         /\ \A o, x \in OrdersFor(targets) : o.code = x.code => o = x
<1>1. \A c \in Codes : /\ state.pos[c].shares \in Nat /\ targets[c] \in 0..MaxLots
                       /\ targets[c] \in Nat
  BY AccountParts, PaperAssumption DEF Targets
<1>2. ASSUME NEW o \in OrdersFor(targets)
      PROVE  /\ o \in Order /\ o.target = targets[o.code]
             /\ o.side = (IF targets[o.code] > state.pos[o.code].shares THEN "buy" ELSE "sell")
             /\ o = [code |-> o.code, side |-> o.side, target |-> o.target]
  <2>1. PICK c \in Codes :
          o = [code |-> c, side |-> IF targets[c] > state.pos[c].shares THEN "buy" ELSE "sell",
               target |-> targets[c]]
    BY DEF OrdersFor
  <2>2. o.code = c /\ o.target = targets[c] BY <2>1
  <2>3. o.side = (IF targets[c] > state.pos[c].shares THEN "buy" ELSE "sell") BY <2>1
  <2>4. o.side \in Sides BY <2>3 DEF Sides
  <2>5. o = [code |-> o.code, side |-> o.side, target |-> o.target] BY <2>1
  <2>6. o \in Order BY <2>2, <2>4, <2>5, <1>1 DEF Order
  <2> QED BY <2>2, <2>3, <2>5, <2>6
<1>3. ASSUME NEW o \in OrdersFor(targets), o.side = "sell"
      PROVE  o.target <= state.pos[o.code].shares
  <2>1. o.code \in Codes BY <1>2, OrderParts
  <2> QED BY <1>1, <1>2, <1>3, <2>1
<1>4. ASSUME NEW o \in OrdersFor(targets), NEW x \in OrdersFor(targets), o.code = x.code
      PROVE  o = x
  BY <1>2, <1>4, Zenon
<1> QED BY <1>2, <1>3, <1>4

LEMMA TypedStep == ASSUME Typed, Funded, ControlOK, [Next]_vars PROVE Typed'
<1>1. work \in Scratch /\ Idle \in Scratch BY IdleParts DEF Typed
<1>2. ASSUME NEW j \in Commands, Start(j) PROVE Typed'
  <2>1. pc' \in Steps BY <1>2, PaperAssumption DEF Start, Steps
  <2> QED BY <2>1, <1>2 DEF Start, Typed, files
<1>3. CASE Load
  <2>1. work' \in Scratch BY <1>3, LoadParts
  <2> QED BY <2>1, <1>3 DEF Load, Typed, Steps, files
<1>4. CASE OpenBatch
  <2>1. work' \in Scratch BY <1>4, OpenParts
  <2> QED BY <2>1, <1>4 DEF OpenBatch, Typed, Steps, files
<1>5. CASE Attempt
  <2>1. PICK b \in work.batch, o \in work.left :
          \/ Settled(o) \/ Waits(o)
          \/ \E n, p, amount : Moved(o, n, p, amount) /\ Trade(o, n, p, amount)
    BY <1>5, AttemptMoves
  <2>2. o \in Order BY <1>1, WorkParts
  <2>3. work' \in Scratch BY <1>1, <2>1, <2>2, TradeParts, PassParts
  <2> QED BY <2>3, <1>5 DEF Attempt, Typed, Steps, files
<1>6. CASE CloseBatch
  <2>1. work' \in Scratch BY <1>6, CloseParts
  <2> QED BY <2>1, <1>6 DEF CloseBatch, Typed, Steps, files
<1>7. CASE SavePending
  <2>1. work.remaining \in SUBSET Batch BY <1>1, WorkParts
  <2> QED BY <2>1, <1>7 DEF SavePending, Typed, Steps
<1>8. CASE SaveState
  <2>1. work.acct \in Account BY <1>1, WorkParts
  <2> QED BY <2>1, <1>8 DEF SaveState, Typed, Steps
<1>9. CASE AppendTrades
  <2>1. work.new \in Totals BY <1>1, WorkParts
  <2>2. /\ trades.net + work.new.net \in Int
        /\ [c \in Codes |-> trades.lots[c] + work.new.lots[c]] \in [Codes -> Int]
    BY <2>1 DEF Typed, Totals
  <2>3. trades' \in Totals BY <1>9, <2>2 DEF AppendTrades, Totals
  <2> QED BY <2>3, <1>9 DEF AppendTrades, Typed, Steps
<1>10. CASE WritePositions
  <2>1. \A c \in Codes : work.acct.pos[c].shares \in Nat BY <1>1, WorkParts, AccountParts
  <2>2. view' \in [Codes -> Nat] BY <1>10, <2>1 DEF WritePositions
  <2>3. work' \in Scratch /\ job' \in Commands \cup {"none"} /\ saved' \in SUBSET Batch /\ pc' \in Steps
    BY <1>1, <1>10 DEF WritePositions, Stop, Typed, Steps
  <2> QED BY <2>2, <2>3, <1>10 DEF WritePositions, Typed
<1>11. CASE UpdateNav
  <2>1. \A c \in Codes : state.pos[c].shares \in Nat BY AccountParts DEF Typed
  <2>2. view' \in [Codes -> Nat] BY <1>11, <2>1 DEF UpdateNav
  <2>3. work' \in Scratch /\ job' \in Commands \cup {"none"} /\ saved' \in SUBSET Batch /\ pc' \in Steps
    BY <1>1, <1>11 DEF UpdateNav, Stop, Typed, Steps
  <2> QED BY <2>2, <2>3, <1>11 DEF UpdateNav, Typed
<1>12. CASE ClearTargets BY <1>12 DEF ClearTargets, Typed, Steps
<1>13. CASE Generate
  <2>1. PICK targets \in Targets :
          pending' = {b \in pending : b.signal # day} \cup
                       {[signal |-> day, after |-> NextSession(day), orders |-> OrdersFor(targets)]}
    BY <1>13 DEF Generate
  <2>2. OrdersFor(targets) \in SUBSET Order BY PlanParts DEF Typed
  <2>3. day + 1 \in Nat BY DatesAreNat DEF Typed
  <2>4. [signal |-> day, after |-> NextSession(day), orders |-> OrdersFor(targets)] \in Batch
    BY <2>2, <2>3 DEF Batch, NextSession, Typed
  <2>5. pending' \in SUBSET Batch BY <2>1, <2>4 DEF Typed
  <2> QED BY <2>5, <1>13 DEF Generate, Typed, Steps
<1>14. CASE Finish BY <1>1, <1>14 DEF Finish, Stop, Typed, Steps, files
<1>15. CASE GenerationFails BY <1>15 DEF GenerationFails, Typed, Steps, files
<1>16. CASE Restore BY <1>1, <1>16 DEF Restore, Stop, Typed, Steps
<1>17. CASE Crash
  <2>1. crashes' \in 0..MaxCrashes BY <1>17, PaperAssumption DEF Crash, Typed
  <2>2. torn' \in BOOLEAN BY <1>17, Zenon DEF Crash, Typed
  <2> QED BY <1>1, <1>17, <2>1, <2>2 DEF Crash, Stop, Typed, Steps, files
<1>18. CASE NextDay
  <2>1. PICK new \in [Codes -> Row] :
          rows' = [c \in Codes |-> [rows[c] EXCEPT ![day + 1] = new[c]]]
    BY <1>18 DEF NextDay
  <2>2. day' \in Dates
    <3>1. LastDay \in Nat BY PaperAssumption
    <3>2. day' = day + 1 /\ day < LastDay BY <1>18 DEF NextDay
    <3> QED BY <3>1, <3>2 DEF Typed, Dates
  <2>3. rows' \in [Codes -> [Dates -> Row]] BY <2>1 DEF Typed
  <2>4. \A c \in Codes : [state.pos[c] EXCEPT !.fresh = 0] \in Position
    BY AccountParts DEF Typed, Position
  <2>5. state' \in Account BY <1>18, <2>4 DEF NextDay, Typed, Account
  <2> QED BY <1>18, <2>2, <2>3, <2>5 DEF NextDay, Typed
<1>19. CASE UNCHANGED vars BY <1>19 DEF vars, files, Typed
<1> QED
  BY <1>2, <1>3, <1>4, <1>5, <1>6, <1>7, <1>8, <1>9, <1>10, <1>11, <1>12, <1>13, <1>14, <1>15,
     <1>16, <1>17, <1>18, <1>19 DEF Next

LEMMA FundedStep == ASSUME Typed, Funded, ControlOK, [Next]_vars PROVE Funded'
<1>1. work \in Scratch BY DEF Typed
<1>2. Sound(Idle.acct) BY IdleParts DEF Sound
<1>3. CASE Load
  <2>1. work'.acct = state /\ state' = state BY <1>3, LoadParts DEF Load, files
  <2> QED BY <2>1 DEF Funded, Sound
<1>4. CASE OpenBatch
  <2>1. state' = state BY <1>4 DEF OpenBatch, files
  <2>2. \A c \in Codes : work.acct.pos[c] \in Position BY <1>1, WorkParts, AccountParts
  <2>3. day \in Nat BY DatesAreNat DEF Typed
  <2>4. /\ work'.acct.cash = work.acct.cash
        /\ \A c \in Codes : work'.acct.pos[c] = Refreshed(work.acct.pos[c])
    BY <1>4, OpenParts
  <2>5. \A c \in Codes : work'.acct.pos[c].avail <= work'.acct.pos[c].shares
    BY <2>2, <2>3, <2>4, RefreshedParts
  <2> QED BY <2>1, <2>4, <2>5 DEF Funded, Sound
<1>5. CASE Attempt
  <2>1. PICK b \in work.batch, o \in work.left :
          \/ Settled(o) \/ Waits(o)
          \/ \E n, p, amount : Moved(o, n, p, amount) /\ Trade(o, n, p, amount)
    BY <1>5, AttemptMoves
  <2>2. o \in Order BY <1>1, WorkParts
  <2>3. state' = state BY <1>5 DEF Attempt, files
  <2>4. CASE Settled(o) \/ Waits(o)
    <3>1. work'.acct = work.acct BY <1>1, <2>2, <2>4, PassParts
    <3> QED BY <2>3, <3>1 DEF Funded, Sound
  <2>5. ASSUME NEW n, NEW p, NEW amount, Moved(o, n, p, amount), Trade(o, n, p, amount)
        PROVE  Funded'
    <3>1. /\ work'.acct.cash = work.acct.cash + amount
          /\ \A c \in Codes : work'.acct.pos[c] = IF c = o.code THEN p ELSE work.acct.pos[c]
      BY <1>1, <2>2, <2>5, TradeParts
    <3>2. p.avail <= p.shares /\ work.acct.cash + amount >= 0 BY <2>5 DEF Moved
    <3> QED BY <2>3, <3>1, <3>2 DEF Funded, Sound
  <2> QED BY <2>1, <2>4, <2>5
<1>6. CASE CloseBatch
  <2>1. work'.acct = work.acct BY <1>6, CloseParts
  <2>2. state' = state BY <1>6 DEF CloseBatch, files
  <2> QED BY <2>1, <2>2 DEF Funded, Sound
<1>7. CASE NextDay
  <2>1. \A c \in Codes : state'.pos[c] = [state.pos[c] EXCEPT !.fresh = 0] /\ state'.cash = state.cash
    BY <1>7 DEF NextDay, Typed, Account
  <2>2. \A c \in Codes : state.pos[c] \in Position BY AccountParts DEF Typed
  <2>3. \A c \in Codes : /\ state'.pos[c].shares = state.pos[c].shares
                         /\ state'.pos[c].avail = state.pos[c].avail
    BY <2>1, <2>2 DEF Position
  <2>4. state'.cash = state.cash BY <1>7 DEF NextDay, Typed, Account
  <2>5. work' = work BY <1>7 DEF NextDay
  <2> QED BY <2>3, <2>4, <2>5 DEF Funded, Sound
<1>8. CASE SaveState BY <1>8 DEF SaveState, Funded, Sound
<1>9. CASE ~(Load \/ OpenBatch \/ Attempt \/ CloseBatch \/ NextDay \/ SaveState)
  <2>1. state' = state /\ work' \in {work, Idle}
    BY <1>9 DEF Next, Start, SavePending, AppendTrades, WritePositions, UpdateNav, ClearTargets,
       Generate, Finish, GenerationFails, Restore, Crash, Stop, files, vars
  <2> QED BY <2>1, <1>2 DEF Funded, Sound
<1> QED BY <1>3, <1>4, <1>5, <1>6, <1>7, <1>8, <1>9
-----------------------------------------------------------------------------
(* Steps keep the control.                                                 *)

LEMMA ControlStep == ASSUME Typed, Funded, ControlOK, QueueOK, [Next]_vars PROVE ControlOK'
<1>1. work \in Scratch BY DEF Typed
<1>2. Idle.todo = {} /\ Idle.batch = {} /\ Idle.left = {} /\ Idle.kept = {} BY IdleParts
<1>3. job \in Commands \cup {"none"} /\ "none" \notin Commands BY PaperAssumption DEF Typed
<1>4. ASSUME NEW j \in Commands, Start(j) PROVE ControlOK'
  <2>1. /\ pc' \in {"load", "nav", "plan"} /\ j # "none" /\ pc = "idle" /\ job' = j
        /\ (pc' = "plan" => j # "run-daily") /\ (Daily => j = "run-daily")
    BY <1>4, PaperAssumption DEF Start, Daily
  <2>2. work' = work /\ saved' = saved BY <1>4 DEF Start
  <2> QED BY <2>1, <2>2 DEF ControlOK, Executing, Daily
<1>5. CASE Load
  <2>1. work'.left = {} /\ work'.kept = {} /\ work'.batch = {} BY <1>5, LoadParts
  <2> QED BY <2>1, <1>5 DEF Load, ControlOK, Executing, Daily, files
<1>6. CASE OpenBatch
  <2>1. PICK b \in Earliest(work.todo) : work'.batch = {b} BY <1>6, OpenParts
  <2>2. b \in pending BY DEF Earliest, QueueOK
  <2> QED BY <2>1, <2>2, <1>6 DEF OpenBatch, ControlOK, Executing, Daily, files
<1>7. CASE Attempt
  <2>1. PICK b \in work.batch, o \in work.left :
          \/ Settled(o) \/ Waits(o)
          \/ \E n, p, amount : Moved(o, n, p, amount) /\ Trade(o, n, p, amount)
    BY <1>7, AttemptMoves
  <2>2. o \in Order BY <1>1, WorkParts
  <2>3. work'.batch = work.batch BY <1>1, <2>1, <2>2, TradeParts, PassParts
  <2> QED BY <2>3, <1>7 DEF Attempt, ControlOK, Executing, Daily, files
<1>8. CASE CloseBatch
  <2>1. work'.batch = {} /\ work'.left = {} /\ work'.kept = {} BY <1>8, CloseParts
  <2> QED BY <2>1, <1>8 DEF CloseBatch, ControlOK, Executing, Daily, files
<1>9. CASE SavePending BY <1>9 DEF SavePending, ControlOK, Executing, Daily
<1>10. CASE SaveState BY <1>10 DEF SaveState, ControlOK, Executing, Daily
<1>11. CASE AppendTrades BY <1>11 DEF AppendTrades, ControlOK, Executing, Daily
<1>12. CASE WritePositions BY <1>2, <1>3, <1>12 DEF WritePositions, Stop, ControlOK, Executing, Daily
<1>13. CASE UpdateNav BY <1>2, <1>3, <1>13 DEF UpdateNav, Stop, ControlOK, Executing, Daily
<1>14. CASE ClearTargets BY <1>14 DEF ClearTargets, ControlOK, Executing, Daily
<1>15. CASE Generate BY <1>15 DEF Generate, ControlOK, Executing, Daily
<1>16. CASE Finish BY <1>2, <1>16 DEF Finish, Stop, ControlOK, Executing, Daily
<1>17. CASE GenerationFails BY <1>17 DEF GenerationFails, ControlOK, Executing, Daily, files
<1>18. CASE Restore BY <1>2, <1>18 DEF Restore, Stop, ControlOK, Executing, Daily
<1>19. CASE Crash BY <1>2, <1>19 DEF Crash, Stop, ControlOK, Executing, Daily
<1>20. CASE NextDay BY <1>20 DEF NextDay, ControlOK, Executing, Daily
<1>21. CASE UNCHANGED vars BY <1>21 DEF vars, files, ControlOK, Daily
<1> QED
  BY <1>4, <1>5, <1>6, <1>7, <1>8, <1>9, <1>10, <1>11, <1>12, <1>13, <1>14, <1>15, <1>16, <1>17,
     <1>18, <1>19, <1>20, <1>21 DEF Next
-----------------------------------------------------------------------------
(* Steps keep the books.                                                   *)

LEMMA BooksStep == ASSUME Typed, Funded, ControlOK, BooksOK, [Next]_vars PROVE BooksOK'
<1>1. work \in Scratch /\ state \in Account /\ trades \in Totals BY DEF Typed
<1>2. /\ state.cash \in Int /\ trades.net \in Int /\ InitCash \in Int
      /\ \A c \in Codes : state.pos[c].shares \in Int /\ trades.lots[c] \in Int
  BY <1>1, AccountParts, PaperAssumption DEF Totals, Account
<1>3. /\ work.acct.cash \in Int /\ work.new.net \in Int
      /\ \A c \in Codes : work.acct.pos[c].shares \in Int /\ work.new.lots[c] \in Int
  BY <1>1, WorkParts, AccountParts DEF Totals, Account
<1>4. Idle.new.net = 0 /\ \A c \in Codes : Idle.new.lots[c] = 0 BY IdleParts
<1>5. CASE Load
  <2>1. work'.acct = state /\ work'.new = Idle.new BY <1>5, LoadParts
  <2> QED BY <2>1, <1>2, <1>4, <1>5 DEF Load, BooksOK, Adds, OnFile, files
<1>6. CASE OpenBatch
  <2>1. /\ work'.new = work.new /\ work'.acct.cash = work.acct.cash
        /\ \A c \in Codes : work'.acct.pos[c] = Refreshed(work.acct.pos[c])
    BY <1>6, OpenParts
  <2>2. day \in Nat /\ \A c \in Codes : work.acct.pos[c] \in Position
    BY <1>1, WorkParts, AccountParts, DatesAreNat DEF Typed
  <2>3. \A c \in Codes : work'.acct.pos[c].shares = work.acct.pos[c].shares
    BY <2>1, <2>2, RefreshedParts
  <2> QED BY <2>1, <2>3, <1>6 DEF OpenBatch, BooksOK, Adds, OnFile, files
<1>7. CASE Attempt
  <2>1. PICK b \in work.batch, o \in work.left :
          \/ Settled(o) \/ Waits(o)
          \/ \E n, p, amount : Moved(o, n, p, amount) /\ Trade(o, n, p, amount)
    BY <1>7, AttemptMoves
  <2>2. o \in Order /\ o.code \in Codes BY <1>1, WorkParts, OrderParts
  <2>3. CASE Settled(o) \/ Waits(o)
    <3>1. work'.acct = work.acct /\ work'.new = work.new BY <1>1, <2>2, <2>3, PassParts
    <3> QED BY <3>1, <1>7 DEF Attempt, BooksOK, Adds, OnFile, files
  <2>4. ASSUME NEW n, NEW p, NEW amount, Moved(o, n, p, amount), Trade(o, n, p, amount)
        PROVE  BooksOK'
    <3>1. /\ work'.acct.cash = work.acct.cash + amount /\ work'.new.net = work.new.net + amount
          /\ \A c \in Codes : work'.acct.pos[c] = IF c = o.code THEN p ELSE work.acct.pos[c]
      BY <1>1, <2>2, <2>4, TradeParts
    <3>6. /\ work'.new.lots[o.code] = work.new.lots[o.code] + n
          /\ \A c \in Codes \ {o.code} : work'.new.lots[c] = work.new.lots[c]
      BY <1>1, <2>2, <2>4, TradeParts
    <3>2. n \in Int /\ amount \in Int /\ p.shares = work.acct.pos[o.code].shares + n
      BY <2>4 DEF Moved
    <3>3. pc = "order" /\ pc' = "order" /\ state' = state /\ trades' = trades /\ torn' = torn
      BY <1>7 DEF Attempt, files
    <3>4. Adds(work.acct, state, work.new) BY <3>3 DEF BooksOK
    <3>5. Adds(work.acct, state, work.new)'
      BY <1>2, <1>3, <2>2, <3>1, <3>2, <3>3, <3>4, <3>6 DEF Adds
    <3> QED BY <3>3, <3>5 DEF BooksOK, OnFile
  <2> QED BY <2>1, <2>3, <2>4
<1>8. CASE CloseBatch
  <2>1. work'.acct = work.acct /\ work'.new = work.new BY <1>8, CloseParts
  <2> QED BY <2>1, <1>8 DEF CloseBatch, BooksOK, Adds, OnFile, files
<1>9. CASE SavePending BY <1>9 DEF SavePending, BooksOK, Adds, OnFile
<1>10. CASE SaveState
  <2>1. Adds(work.acct, state, work.new) /\ (~torn => OnFile(state)) BY <1>10 DEF SaveState, BooksOK
  <2>2. state' = work.acct /\ pc' = "append" /\ trades' = trades /\ work' = work /\ torn' = torn
    BY <1>10 DEF SaveState
  <2> QED BY <2>1, <2>2, <1>2, <1>3 DEF BooksOK, Adds, OnFile
<1>11. CASE AppendTrades
  <2>1. /\ trades'.net = trades.net + work.new.net
        /\ \A c \in Codes : trades'.lots[c] = trades.lots[c] + work.new.lots[c]
    BY <1>11 DEF AppendTrades
  <2>2. pc = "append" /\ pc' = "write_positions" /\ state' = state /\ torn' = torn
    BY <1>11 DEF AppendTrades
  <2> QED BY <2>1, <2>2, <1>2, <1>3 DEF BooksOK, OnFile
<1>12. CASE Crash
  <2>1. pc' = "idle" /\ state' = state /\ trades' = trades BY <1>12 DEF Crash, Stop, files
  <2>2. SUFFICES ASSUME ~torn' PROVE OnFile(state)'
    BY <2>1 DEF BooksOK
  <2>3. ~torn /\ (pc = "append" => work.new = Idle.new) BY <1>12, <2>2 DEF Crash
  <2>4. CASE pc = "append"
    <3>1. work.new.net = 0 /\ \A c \in Codes : work.new.lots[c] = 0 BY <2>3, <2>4, <1>4
    <3> QED BY <2>1, <2>3, <2>4, <3>1, <1>2 DEF BooksOK, OnFile
  <2>5. CASE pc # "append" BY <2>1, <2>3, <2>5 DEF BooksOK, OnFile
  <2> QED BY <2>4, <2>5
<1>13. CASE NextDay
  <2>1. \A c \in Codes : state'.pos[c] = [state.pos[c] EXCEPT !.fresh = 0]
    BY <1>13 DEF NextDay, Typed, Account
  <2>2. state'.cash = state.cash BY <1>13 DEF NextDay, Typed, Account
  <2>3. \A c \in Codes : state.pos[c] \in Position BY AccountParts DEF Typed
  <2>4. \A c \in Codes : state'.pos[c].shares = state.pos[c].shares BY <2>1, <2>3 DEF Position
  <2> QED BY <2>2, <2>4, <1>13 DEF NextDay, BooksOK, OnFile
<1>14. CASE ~(Load \/ OpenBatch \/ Attempt \/ CloseBatch \/ SavePending \/ SaveState \/ AppendTrades
              \/ Crash \/ NextDay \/ UNCHANGED vars)
  <2>1. /\ state' = state /\ trades' = trades /\ torn' = torn
        /\ pc \notin {"batch", "order", "save_state", "append"}
        /\ pc' \notin {"batch", "order", "save_state", "append"}
    BY <1>14, PaperAssumption
    DEF Next, Start, WritePositions, UpdateNav, ClearTargets, Generate, Finish, GenerationFails,
        Restore, Stop, files
  <2> QED BY <2>1 DEF BooksOK, OnFile
<1>15. CASE UNCHANGED vars BY <1>15 DEF vars, files, BooksOK, Adds, OnFile
<1> QED
  BY <1>5, <1>6, <1>7, <1>8, <1>9, <1>10, <1>11, <1>12, <1>13, <1>14, <1>15
(* One step of an execution, as far as the queue and the holdings go.      *)
Stepped(o) ==
  LET old == work.acct.pos[o.code]
      new == work'.acct.pos[o.code] IN
  /\ work'.left = work.left \ {o} /\ work'.kept \subseteq work.kept \cup {o}
  /\ work.kept \subseteq work'.kept
  /\ o \in work'.kept \/ new.shares = o.target
  /\ work'.todo = work.todo /\ work'.batch = work.batch /\ work'.remaining = work.remaining
  /\ \A c \in Codes : c # o.code => work'.acct.pos[c] = work.acct.pos[c]
  /\ \/ new = old
     \/ /\ o.side = "sell" /\ new.shares <= old.shares /\ new.fresh = old.fresh
        /\ o.target <= old.shares => o.target <= new.shares
     \/ /\ o.side = "buy" /\ old.shares <= new.shares /\ new.shares <= o.target
        /\ \E n \in Nat : new.shares = old.shares + n /\ new.fresh = old.fresh + n

LEMMA AttemptParts ==
  ASSUME Typed, Funded, Attempt
  PROVE  \E b \in work.batch, o \in work.left : o \in Order /\ Stepped(o)
<1>1. PICK b \in work.batch, o \in work.left :
        \/ Settled(o) \/ Waits(o)
        \/ \E n, p, amount : Moved(o, n, p, amount) /\ Trade(o, n, p, amount)
  BY AttemptMoves
<1>2. work \in Scratch BY DEF Typed
<1>3. o \in Order /\ o.code \in Codes BY <1>2, WorkParts, OrderParts
<1>4. CASE Settled(o) \/ Waits(o)
  <2>1. /\ work'.left = work.left \ {o}
        /\ \/ work'.kept = work.kept \cup {o}
           \/ work'.kept = work.kept /\ work.acct.pos[o.code].shares = o.target
        /\ work'.todo = work.todo /\ work'.batch = work.batch /\ work'.remaining = work.remaining
        /\ work'.acct = work.acct
    BY <1>2, <1>3, <1>4, PassParts
  <2> QED BY <1>3, <2>1 DEF Stepped
<1>5. ASSUME NEW n, NEW p, NEW amount, Moved(o, n, p, amount), Trade(o, n, p, amount)
      PROVE  Stepped(o)
  <2> DEFINE old == work.acct.pos[o.code]
  <2>1. /\ work'.left = work.left \ {o}
        /\ work'.kept = IF p.shares = o.target THEN work.kept ELSE work.kept \cup {o}
        /\ work'.todo = work.todo /\ work'.batch = work.batch /\ work'.remaining = work.remaining
        /\ \A c \in Codes : work'.acct.pos[c] = IF c = o.code THEN p ELSE work.acct.pos[c]
    BY <1>2, <1>3, <1>5, TradeParts
  <2>2. work'.acct.pos[o.code] = p BY <1>3, <2>1
  <2>3. n \in Int /\ p.shares = old.shares + n /\ old.shares \in Nat /\ p.shares \in Nat
    BY <1>2, <1>3, <1>5, WorkParts, AccountParts DEF Moved, Position
  <2>4. \/ /\ o.side = "sell" /\ p.shares <= old.shares /\ p.fresh = old.fresh
           /\ o.target <= old.shares => o.target <= p.shares
        \/ /\ o.side = "buy" /\ old.shares <= p.shares /\ p.shares <= o.target
           /\ n \in Nat /\ p.shares = old.shares + n /\ p.fresh = old.fresh + n
    BY <1>5, <2>3 DEF Moved
  <2>5. /\ work'.kept \subseteq work.kept \cup {o} /\ work.kept \subseteq work'.kept
        /\ o \in work'.kept \/ p.shares = o.target
    BY <2>1
  <2>6. \A c \in Codes : c # o.code => work'.acct.pos[c] = work.acct.pos[c] BY <2>1
  <2> HIDE DEF old
  <2>7. \/ /\ o.side = "sell" /\ p.shares <= old.shares /\ p.fresh = old.fresh
           /\ o.target <= old.shares => o.target <= p.shares
        \/ /\ o.side = "buy" /\ old.shares <= p.shares /\ p.shares <= o.target
           /\ \E m \in Nat : p.shares = old.shares + m /\ p.fresh = old.fresh + m
    BY <2>4
  <2> QED BY <2>1, <2>2, <2>5, <2>6, <2>7, Zenon DEF Stepped, old
<1> QED BY <1>1, <1>3, <1>4, <1>5

(* Steps keep what positions.csv shows.                                    *)

LEMMA ViewStep == ASSUME Typed, BooksOK, ViewOK, [Next]_vars PROVE ViewOK'
<1>1. crashes \in Nat BY PaperAssumption DEF Typed
<1>2. CASE WritePositions
  <2>1. \A c \in Codes : view'[c] = work.acct.pos[c].shares BY <1>2 DEF WritePositions
  <2>2. state' = state /\ pc = "write_positions" /\ pc' # "write_positions"
    BY <1>2 DEF WritePositions, Stop
  <2> QED BY <2>1, <2>2 DEF ViewOK, Shown
<1>3. CASE UpdateNav
  <2>1. \A c \in Codes : view'[c] = state.pos[c].shares BY <1>3 DEF UpdateNav
  <2>2. state' = state /\ pc' # "write_positions" BY <1>3 DEF UpdateNav, Stop
  <2> QED BY <2>1, <2>2 DEF ViewOK, Shown
<1>4. CASE SaveState BY <1>4 DEF SaveState, ViewOK, Valued
<1>5. CASE AppendTrades BY <1>5 DEF AppendTrades, BooksOK, ViewOK, Valued
<1>6. CASE NextDay
  <2>1. \A c \in Codes : state'.pos[c] = [state.pos[c] EXCEPT !.fresh = 0]
    BY <1>6 DEF NextDay, Typed, Account
  <2>2. \A c \in Codes : state.pos[c] \in Position BY AccountParts DEF Typed
  <2>3. \A c \in Codes : state'.pos[c].shares = state.pos[c].shares BY <2>1, <2>2 DEF Position
  <2> QED BY <1>6, <2>3 DEF NextDay, ViewOK, Shown, Valued
<1>7. CASE Crash BY <1>1, <1>7 DEF Crash, Stop, files, ViewOK, Valued
<1>8. CASE UNCHANGED vars BY <1>8 DEF vars, files, ViewOK, Shown, Valued
<1>9. CASE ~(WritePositions \/ UpdateNav \/ SaveState \/ AppendTrades \/ NextDay \/ Crash \/ UNCHANGED vars)
  <2>1. /\ state' = state /\ view' = view /\ crashes' = crashes
        /\ pc \notin {"append", "write_positions"} /\ pc' \notin {"append", "write_positions"}
        /\ Valued' => Valued
    BY <1>9, PaperAssumption
    DEF Next, Start, Load, OpenBatch, Attempt, CloseBatch, SavePending, ClearTargets, Generate,
        Finish, GenerationFails, Restore, Stop, files, Valued
  <2> QED BY <2>1 DEF ViewOK, Shown
<1> QED BY <1>2, <1>3, <1>4, <1>5, <1>6, <1>7, <1>8, <1>9
-----------------------------------------------------------------------------
(* Steps keep the queue in order.                                          *)

LEMMA QueueStep == ASSUME Typed, Funded, ControlOK, QueueOK, [Next]_vars PROVE QueueOK'
<1>1. work \in Scratch /\ pending \in SUBSET Batch /\ day \in Nat BY DatesAreNat DEF Typed
<1>2. Idle.todo = {} /\ Idle.batch = {} /\ Idle.remaining = {} BY IdleParts
<1>3. CASE Load
  <2>1. /\ work'.todo = {b \in pending : b.after <= day} /\ work'.batch = {}
        /\ work'.remaining = {b \in pending : b.after > day}
    BY <1>3, LoadParts
  <2>2. pending' = pending /\ saved' = saved /\ day' = day BY <1>3 DEF Load, files
  <2>3. LeftOver(work'.remaining, pending) BY <2>1 DEF LeftOver
  <2>4. \A b \in work'.remaining, x \in work'.todo : b.signal # x.signal
    <3>1. SUFFICES ASSUME NEW b \in work'.remaining, NEW x \in work'.todo, b.signal = x.signal
                   PROVE  FALSE
      OBVIOUS
    <3>2. b = x BY <2>1, <3>1 DEF QueueOK, Distinct
    <3>3. b \in Batch BY <1>1, <2>1
    <3>4. b.after \in Nat BY <3>3, BatchParts
    <3> QED BY <1>1, <2>1, <3>2, <3>4
  <2>5. Distinct(work'.remaining) BY <2>1 DEF QueueOK, Distinct
  <2> QED BY <2>1, <2>2, <2>3, <2>4, <2>5 DEF QueueOK, LeftOver, Distinct, OneForEach
<1>4. CASE OpenBatch
  <2>1. PICK b \in Earliest(work.todo) :
          /\ work'.todo = work.todo \ {b} /\ work'.batch = {b} /\ work'.left = b.orders
          /\ work'.kept = {} /\ work'.remaining = work.remaining
    BY <1>4, OpenParts
  <2>2. pc = "batch" /\ pending' = pending /\ saved' = saved /\ day' = day
    BY <1>4 DEF OpenBatch, files
  <2>3. b \in work.todo /\ \A x \in work.todo : b.signal <= x.signal BY DEF Earliest
  <2>4. \A x \in work.todo : x \in pending /\ x \in Batch /\ x.signal \in Nat
    <3>1. work.todo \subseteq pending BY DEF QueueOK
    <3> QED BY <3>1, <1>1, BatchParts
  <2>5. ASSUME NEW x \in work'.todo PROVE b.signal < x.signal
    <3>1. x \in work.todo /\ x # b BY <2>1
    <3>2. b.signal # x.signal BY <2>3, <2>4, <3>1 DEF QueueOK, Distinct
    <3> QED BY <2>3, <2>4, <3>1, <3>2
  <2>6. \A y \in work'.remaining, x \in work'.todo \cup work'.batch : y.signal # x.signal
    BY <2>1, <2>3 DEF QueueOK
  <2>7. LeftOver(work'.remaining, pending) /\ Distinct(work'.remaining)
    BY <2>1, <2>2 DEF QueueOK
  <2>8. /\ work'.todo \subseteq pending /\ \A x \in work'.todo : x.after <= day
        /\ \A x \in work'.batch : x.after <= day
    BY <2>1, <2>3 DEF QueueOK
  <2>9. \A x \in work'.batch : work'.left \subseteq x.orders /\ work'.kept \subseteq x.orders
    BY <2>1
  <2>10. \A y \in work'.batch, x \in work'.todo : y.signal < x.signal BY <2>1, <2>5
  <2> QED BY <2>2, <2>6, <2>7, <2>8, <2>9, <2>10 DEF QueueOK, LeftOver, Distinct, OneForEach
<1>5. CASE Attempt
  <2>3. PICK b \in work.batch, o \in work.left :
          /\ work'.left = work.left \ {o} /\ work'.kept \subseteq work.kept \cup {o}
          /\ work'.todo = work.todo /\ work'.batch = work.batch /\ work'.remaining = work.remaining
    BY <1>5, AttemptParts DEF Stepped
  <2>4. pc = "order" /\ pending' = pending /\ saved' = saved /\ day' = day
    BY <1>5 DEF Attempt, files
  <2>5. \A x \in work'.batch : work'.left \subseteq x.orders /\ work'.kept \subseteq x.orders
    BY <2>3 DEF QueueOK
  <2> QED BY <2>3, <2>4, <2>5 DEF QueueOK, LeftOver, Distinct, OneForEach
<1>6. CASE CloseBatch
  <2>1. PICK b \in pending :
          /\ work.batch = {b}
          /\ work'.batch = {} /\ work'.todo = work.todo
          /\ \/ work'.remaining = work.remaining
             \/ \E r \in Batch : /\ work'.remaining = work.remaining \cup {r}
                                 /\ r.signal = b.signal /\ r.after = b.after
                                 /\ r.orders = work.kept
    BY <1>6, CloseParts
  <2>2. pc = "order" /\ pending' = pending /\ saved' = saved /\ day' = day
    BY <1>6 DEF CloseBatch, files
  <2>3. work.kept \subseteq b.orders BY <2>1 DEF QueueOK
  <2>4. LeftOver(work'.remaining, pending) BY <2>1, <2>2, <2>3 DEF QueueOK, LeftOver
  <2>5. Distinct(work'.remaining)
    <3>1. \A x \in work.remaining : x.signal # b.signal BY <2>1 DEF QueueOK
    <3> QED BY <2>1, <3>1 DEF QueueOK, Distinct
  <2>6. \A y \in work'.remaining, x \in work'.todo : y.signal # x.signal
    <3>1. b.signal \in Nat BY <1>1, BatchParts
    <3>2. \A x \in work.todo : b.signal < x.signal BY <2>1 DEF QueueOK
    <3>3. \A x \in work.todo : b.signal # x.signal
      <4>1. \A x \in work.todo : x.signal \in Nat BY <1>1, WorkParts, BatchParts
      <4> QED BY <3>1, <3>2, <4>1
    <3> QED BY <2>1, <3>3 DEF QueueOK
  <2> QED BY <2>1, <2>2, <2>4, <2>5, <2>6 DEF QueueOK, LeftOver, Distinct, OneForEach
<1>7. CASE SavePending
  <2>1. pending' = work.remaining /\ saved' = saved /\ day' = day /\ work' = work /\ pc = "batch"
        /\ pc' = "save_state" /\ work.todo = {}
    BY <1>7 DEF SavePending
  <2>2. work.batch = {} BY <2>1 DEF ControlOK
  <2>3. Distinct(work.remaining) BY DEF QueueOK
  <2>4. OneForEach(work.remaining) BY <2>1 DEF QueueOK, LeftOver, OneForEach
  <2>5. Distinct(pending') /\ OneForEach(pending') BY <2>1, <2>3, <2>4 DEF Distinct, OneForEach
  <2> QED BY <2>1, <2>2, <2>3, <2>5 DEF QueueOK, Distinct, OneForEach
<1>8. CASE ClearTargets
  <2>1. pending' = {} /\ saved' = pending /\ work' = work /\ work = Idle /\ day' = day /\ pc' = "plan"
    BY <1>8 DEF ClearTargets, ControlOK, Executing
  <2> QED BY <2>1, <1>2 DEF QueueOK, Distinct, OneForEach
<1>9. CASE Generate
  <2>1. PICK targets \in Targets :
          pending' = {b \in pending : b.signal # day} \cup
                       {[signal |-> day, after |-> NextSession(day), orders |-> OrdersFor(targets)]}
    BY <1>9 DEF Generate
  <2>2. work' = work /\ work = Idle /\ saved' = saved /\ pc' = "planned"
    BY <1>9 DEF Generate, ControlOK, Executing
  <2>3. \A o, x \in OrdersFor(targets) : o.code = x.code => o = x BY PlanParts DEF Typed
  <2>4. Distinct(pending') BY <2>1 DEF QueueOK, Distinct
  <2>5. OneForEach(pending') BY <2>1, <2>3 DEF QueueOK, OneForEach
  <2> QED BY <2>2, <2>4, <2>5, <1>2 DEF QueueOK, Distinct, OneForEach
<1>10. CASE Restore
  <2>1. pending' = saved /\ saved' = {} /\ work' = Idle /\ pc' = "idle" BY <1>10 DEF Restore, Stop
  <2> QED BY <2>1, <1>2 DEF QueueOK, Distinct, OneForEach
<1>11. CASE NextDay
  <2>1. pending' = pending /\ saved' = saved /\ work' = work /\ work = Idle /\ pc' = "idle"
    BY <1>11 DEF NextDay, ControlOK, Executing
  <2> QED BY <2>1, <1>2 DEF QueueOK, Distinct, OneForEach
<1>12. CASE ~(Load \/ OpenBatch \/ Attempt \/ CloseBatch \/ SavePending \/ ClearTargets \/ Generate
              \/ Restore \/ NextDay)
  <2>1. /\ pending' = pending /\ saved' \in {saved, {}} /\ day' = day /\ work' \in {work, Idle}
        /\ pc' \in {"batch", "order"} => pc' = pc /\ work' = work
    BY <1>12, PaperAssumption
    DEF Next, Start, SaveState, AppendTrades, WritePositions, UpdateNav, Finish, GenerationFails,
        Crash, Stop, files, vars
  <2>2. CASE work' = work BY <2>1, <2>2 DEF QueueOK, LeftOver, Distinct, OneForEach
  <2>3. CASE work' = Idle /\ work' # work BY <2>1, <2>3, <1>2 DEF QueueOK, Distinct, OneForEach
  <2> QED BY <2>1, <2>2, <2>3
<1> QED
  BY <1>3, <1>4, <1>5, <1>6, <1>7, <1>8, <1>9, <1>10, <1>11, <1>12
-----------------------------------------------------------------------------
(* Steps keep account of the orders.                                       *)

LEMMA OrdersStep ==
  ASSUME Typed, Funded, ControlOK, QueueOK, OrdersOK, [Next]_vars
  PROVE  OrdersOK'
<1>1. work \in Scratch /\ pending \in SUBSET Batch /\ day \in Nat BY DatesAreNat DEF Typed
<1>2. CASE Load
  <2>1. /\ work'.todo = {b \in pending : b.after <= day} /\ work'.batch = {}
        /\ work'.remaining = {b \in pending : b.after > day}
    BY <1>2, LoadParts
  <2>2. pending' = pending /\ day' = day BY <1>2 DEF Load, files
  <2>3. \A b \in pending : b.after \in Nat BY <1>1, BatchParts
  <2>4. \A b \in pending : b \in work'.todo \/ b \in work'.remaining BY <1>1, <2>1, <2>3
  <2>5. \A b \in pending : \A o \in b.orders : Accounted(b, o)' BY <2>4 DEF Accounted
  <2> QED BY <2>1, <2>2, <2>5 DEF OrdersOK
<1>3. CASE OpenBatch
  <2>1. PICK b \in Earliest(work.todo) :
          /\ work'.todo = work.todo \ {b} /\ work'.batch = {b} /\ work'.left = b.orders
          /\ work'.remaining = work.remaining
          /\ \A c \in Codes : work'.acct.pos[c] = Refreshed(work.acct.pos[c])
    BY <1>3, OpenParts
  <2>2. pc = "batch" /\ pending' = pending /\ day' = day BY <1>3 DEF OpenBatch, files
  <2>3. b \in work.todo /\ work.batch = {} BY <2>2 DEF Earliest, ControlOK
  <2>4. \A c \in Codes : work'.acct.pos[c].shares = work.acct.pos[c].shares
    BY <1>1, <2>1, WorkParts, AccountParts, RefreshedParts
  <2>5. ASSUME NEW x \in pending, NEW o \in x.orders PROVE Accounted(x, o)'
    <3>1. o.code \in Codes BY <1>1, BatchParts, OrderParts
    <3>2. Accounted(x, o) BY <2>2 DEF OrdersOK
    <3> QED BY <2>1, <2>2, <2>3, <2>4, <3>1, <3>2 DEF Accounted
  <2> QED BY <2>1, <2>2, <2>3, <2>5 DEF OrdersOK
<1>4. CASE Attempt
  <2>1. PICK b \in work.batch, o \in work.left : o \in Order /\ Stepped(o) BY <1>4, AttemptParts
  <2>2. pc = "order" /\ pending' = pending /\ day' = day BY <1>4 DEF Attempt, files
  <2>3. work.batch = {b} /\ b \in pending /\ o \in b.orders /\ b.after <= day
    BY <2>1, <2>2, SMTT(30) DEF ControlOK, QueueOK
  <2>4. /\ work'.left = work.left \ {o} /\ work.kept \subseteq work'.kept
        /\ o \in work'.kept \/ work'.acct.pos[o.code].shares = o.target
        /\ work'.todo = work.todo /\ work'.batch = work.batch /\ work'.remaining = work.remaining
        /\ \A c \in Codes : c # o.code => work'.acct.pos[c] = work.acct.pos[c]
    BY <2>1 DEF Stepped
  <2>5. ASSUME NEW x \in pending, NEW y \in x.orders PROVE Accounted(x, y)'
    <3>1. y.code \in Codes BY <1>1, BatchParts, OrderParts
    <3>2. Accounted(x, y) BY <2>2 DEF OrdersOK
    <3>3. CASE x = b /\ y = o BY <2>3, <2>4, <3>3 DEF Accounted
    <3>4. CASE x = b /\ y # o
      <4>1. y.code # o.code BY <2>3, <3>4 DEF QueueOK, OneForEach
      <4> QED BY <2>2, <2>3, <2>4, <3>1, <3>2, <3>4, <4>1 DEF Accounted
    <3>5. CASE x # b /\ y.code # o.code
      BY <2>2, <2>3, <2>4, <3>1, <3>2, <3>5 DEF Accounted
    <3>6. CASE x # b /\ y.code = o.code
      <4>1. x.after \in Nat /\ x.signal \in Nat /\ b.signal \in Nat BY <1>1, <2>3, BatchParts
      <4>2. CASE x \in work.todo BY <2>4, <4>2 DEF Accounted
      <4>3. CASE x.after > day
        <5>1. x \in work.remaining BY <2>2, <4>3 DEF OrdersOK
        <5> QED BY <2>4, <5>1 DEF Accounted
      <4>4. CASE x \notin work.todo /\ x.after <= day
        <5>1. x.signal < b.signal BY <2>2, <2>3, <3>6, <4>4 DEF OrdersOK
        <5>2. b.signal > x.signal BY <4>1, <5>1
        <5> QED BY <2>2, <2>3, <3>6, <5>2 DEF Accounted
      <4> QED BY <1>1, <4>1, <4>2, <4>3, <4>4
    <3> QED BY <3>3, <3>4, <3>5, <3>6
  <2> QED BY <2>2, <2>4, <2>5 DEF OrdersOK
<1>5. CASE CloseBatch
  <2>1. PICK b \in pending :
          /\ work.batch = {b}
          /\ work'.batch = {} /\ work'.todo = work.todo /\ work'.acct = work.acct
          /\ \/ work.kept = {} /\ work'.remaining = work.remaining
             \/ \E r \in Batch : /\ work'.remaining = work.remaining \cup {r}
                                 /\ r.signal = b.signal /\ r.orders = work.kept
    BY <1>5, CloseParts
  <2>2. pc = "order" /\ pending' = pending /\ day' = day /\ work.left = {}
    BY <1>5 DEF CloseBatch, files
  <2>3. ASSUME NEW x \in pending, NEW o \in x.orders PROVE Accounted(x, o)'
    <3>1. Accounted(x, o) BY <2>2 DEF OrdersOK
    <3> QED BY <2>1, <2>2, <3>1 DEF Accounted
  <2>4. \A x \in work.todo : b.signal < x.signal BY <2>1 DEF QueueOK
  <2>5. \A x \in pending : x.after > day => x \in work'.remaining BY <2>1, <2>2 DEF OrdersOK
  <2>6. \A x \in pending \ work.todo, y \in work.todo : x.after <= day => x.signal < y.signal
    BY <2>1, <2>2, <2>4 DEF OrdersOK
  <2> QED BY <2>1, <2>2, <2>3, <2>5, <2>6 DEF OrdersOK
<1>6. CASE UNCHANGED vars BY <1>6 DEF vars, files, OrdersOK, Accounted
<1>7. CASE ~(Load \/ OpenBatch \/ Attempt \/ CloseBatch \/ UNCHANGED vars)
  <2>1. pc' \notin {"batch", "order"}
    BY <1>7, PaperAssumption
    DEF Next, Start, SavePending, SaveState, AppendTrades, WritePositions, UpdateNav, ClearTargets,
        Generate, Finish, GenerationFails, Restore, Crash, Stop, NextDay
  <2> QED BY <2>1 DEF OrdersOK
<1> QED BY <1>2, <1>3, <1>4, <1>5, <1>6, <1>7
-----------------------------------------------------------------------------
(* Steps on the timers' schedule.                                          *)

(* What is left over of batches is in order where they are.                *)
LEMMA LeftOverKeeps ==
  ASSUME NEW batches, NEW of, LeftOver(batches, of), OnePlan(of)
  PROVE  OnePlan(batches) /\ \A acct : Sellable(acct, of) => Sellable(acct, batches)
<1>1. ASSUME NEW b \in batches, NEW x \in batches, NEW o \in b.orders, NEW y \in x.orders,
             o.code = y.code
      PROVE  o = y
  <2>1. PICK bb \in of : b.orders \subseteq bb.orders BY DEF LeftOver
  <2>2. PICK xx \in of : x.orders \subseteq xx.orders BY DEF LeftOver
  <2> QED BY <1>1, <2>1, <2>2 DEF OnePlan
<1>2. ASSUME NEW acct, Sellable(acct, of), NEW b \in batches, NEW o \in b.orders, o.side = "sell"
      PROVE  /\ o.target <= acct.pos[o.code].shares
             /\ b.after <= day => acct.pos[o.code].fresh = 0
  <2>1. PICK x \in of : b.signal = x.signal /\ b.after = x.after /\ b.orders \subseteq x.orders
    BY DEF LeftOver
  <2> QED BY <1>2, <2>1 DEF Sellable
<1> QED BY <1>1, <1>2 DEF OnePlan, Sellable

LEMMA DailyStep ==
  ASSUME Typed, Funded, ControlOK, QueueOK, DailyOK, [Next]_vars
  PROVE  DailyOK'
<1> SUFFICES ASSUME Daily PROVE DailyOK'
  BY DEF DailyOK, Daily
<1>1. work \in Scratch /\ state \in Account /\ pending \in SUBSET Batch /\ saved \in SUBSET Batch
      /\ day \in Nat
  BY DatesAreNat DEF Typed
<1>2. FreshHeld(Idle.acct) BY IdleParts DEF FreshHeld
<1>3. /\ FreshHeld(state) /\ FreshHeld(work.acct) /\ OnePlan(pending) /\ OnePlan(saved)
      /\ Sellable(state, pending) /\ Sellable(state, saved)
      /\ pc \in Executing => Sellable(work.acct, pending)
  BY DEF DailyOK
<1>4. CASE Load
  <2>1. work'.acct = state BY <1>4, LoadParts
  <2>2. /\ state' = state /\ pending' = pending /\ saved' = saved /\ day' = day
    BY <1>4 DEF Load, files
  <2> QED BY <1>3, <2>1, <2>2 DEF DailyOK, FreshHeld, OnePlan, Sellable
<1>5. CASE OpenBatch
  <2>1. \A c \in Codes : work'.acct.pos[c] = Refreshed(work.acct.pos[c]) BY <1>5, OpenParts
  <2>2. \A c \in Codes : /\ work'.acct.pos[c].shares = work.acct.pos[c].shares
                         /\ work'.acct.pos[c].fresh = work.acct.pos[c].fresh
    BY <1>1, <2>1, WorkParts, AccountParts, RefreshedParts
  <2>3. /\ state' = state /\ pending' = pending /\ saved' = saved /\ day' = day /\ pc = "batch"
    BY <1>5 DEF OpenBatch, files
  <2>4. Sellable(work.acct, pending) BY <1>3, <2>3 DEF Executing
  <2>5. \A b \in pending : \A o \in b.orders : o.code \in Codes BY <1>1, BatchParts, OrderParts
  <2>6. Sellable(work.acct, pending)' BY <2>2, <2>3, <2>4, <2>5 DEF Sellable
  <2>7. FreshHeld(work.acct)' BY <1>3, <2>2 DEF FreshHeld
  <2> QED BY <1>3, <2>3, <2>6, <2>7 DEF DailyOK, FreshHeld, OnePlan, Sellable
<1>6. CASE Attempt
  <2>1. PICK b \in work.batch, o \in work.left : o \in Order /\ Stepped(o) BY <1>6, AttemptParts
  <2>2. /\ pc = "order" /\ state' = state /\ pending' = pending /\ saved' = saved /\ day' = day
    BY <1>6 DEF Attempt, files
  <2>3. b \in pending /\ o \in b.orders /\ b.after <= day
    BY <2>1, <2>2, SMTT(30) DEF ControlOK, QueueOK
  <2> DEFINE old == work.acct.pos[o.code]
             new == work'.acct.pos[o.code]
  <2>4. /\ \A c \in Codes : c # o.code => work'.acct.pos[c] = work.acct.pos[c]
        /\ \/ new = old
           \/ /\ o.side = "sell" /\ new.shares <= old.shares /\ new.fresh = old.fresh
              /\ o.target <= old.shares => o.target <= new.shares
           \/ /\ o.side = "buy" /\ \E n \in Nat : new.shares = old.shares + n /\ new.fresh = old.fresh + n
    BY <2>1 DEF Stepped
  <2>5. o.code \in Codes /\ o.target \in Nat BY <2>1, OrderParts
  <2>6. old.shares \in Nat /\ old.fresh \in Nat BY <1>1, <2>5, WorkParts, AccountParts
  <2>14. new.shares \in Nat
    <3>1. work' \in Scratch BY TypedStep DEF Typed
    <3>2. work'.acct \in Account BY <3>1 DEF Scratch
    <3> QED BY <2>5, <3>2 DEF Account, Position
  <2>7. Sellable(work.acct, pending) BY <1>3, <2>2 DEF Executing
  <2>8. o.side = "sell" => o.target <= old.shares /\ old.fresh = 0
    BY <2>3, <2>7 DEF Sellable
  <2>9. \A c \in Codes : work.acct.pos[c].fresh <= work.acct.pos[c].shares BY <1>3 DEF FreshHeld
  <2> HIDE DEF old, new
  <2>10. new.fresh <= new.shares
    <3>1. old.fresh <= old.shares BY <2>5, <2>9 DEF old
    <3>2. CASE o.side = "sell" BY <2>4, <2>5, <2>6, <2>8, <2>14, <3>1, <3>2
    <3>3. CASE o.side # "sell" BY <2>4, <2>6, <3>1, <3>3
    <3> QED BY <3>2, <3>3
  <2>11. FreshHeld(work.acct)' BY <2>4, <2>9, <2>10 DEF FreshHeld, new
  <2>12. ASSUME NEW x \in pending, NEW y \in x.orders, y.side = "sell"
         PROVE  /\ y.target <= work'.acct.pos[y.code].shares
                /\ x.after <= day => work'.acct.pos[y.code].fresh = 0
    <3>1. y.code \in Codes BY <1>1, BatchParts, OrderParts
    <3>2. CASE y.code # o.code BY <2>4, <2>7, <2>12, <3>1, <3>2 DEF Sellable
    <3>3. CASE y.code = o.code
      <4>1. y = o BY <1>3, <2>3, <3>3 DEF OnePlan
      <4>2. o.target <= new.shares /\ new.fresh = 0 BY <2>4, <2>8, <2>12, <4>1
      <4> QED BY <4>1, <4>2 DEF new
    <3> QED BY <3>2, <3>3
  <2>13. Sellable(work.acct, pending)' BY <2>2, <2>12 DEF Sellable
  <2> QED BY <1>3, <2>2, <2>11, <2>13 DEF DailyOK, FreshHeld, OnePlan, Sellable
<1>7. CASE CloseBatch
  <2>1. work'.acct = work.acct BY <1>7, CloseParts
  <2>2. /\ state' = state /\ pending' = pending /\ saved' = saved /\ day' = day /\ pc = "order"
    BY <1>7 DEF CloseBatch, files
  <2> QED BY <1>3, <2>1, <2>2 DEF DailyOK, FreshHeld, OnePlan, Sellable, Executing
<1>8. CASE SavePending
  <2>1. /\ state' = state /\ saved' = saved /\ day' = day /\ work' = work /\ pc = "batch"
        /\ pending' = work.remaining
    BY <1>8 DEF SavePending
  <2>2. LeftOver(work.remaining, pending) BY <2>1 DEF QueueOK
  <2>3. /\ OnePlan(pending') /\ Sellable(state, pending') /\ Sellable(work.acct, pending')
    BY <1>3, <2>1, <2>2, LeftOverKeeps DEF Executing
  <2> QED BY <1>3, <2>1, <2>3 DEF DailyOK, FreshHeld, OnePlan, Sellable
<1>9. CASE SaveState
  <2>1. /\ state' = work.acct /\ saved' = saved /\ day' = day /\ work' = work /\ pc = "save_state"
        /\ pending' = pending
    BY <1>9 DEF SaveState
  <2>2. saved = {} /\ Sellable(work.acct, pending) BY <1>3, <2>1 DEF ControlOK, Executing
  <2> QED BY <1>3, <2>1, <2>2 DEF DailyOK, FreshHeld, OnePlan, Sellable
<1>10. CASE AppendTrades
  BY <1>3, <1>10 DEF AppendTrades, DailyOK, FreshHeld, OnePlan, Sellable, Executing
<1>11. CASE ClearTargets
  <2>1. /\ state' = state /\ saved' = pending /\ day' = day /\ work' = work /\ pc' = "plan"
        /\ pending' = {}
    BY <1>11 DEF ClearTargets
  <2> QED BY <1>3, <2>1 DEF DailyOK, FreshHeld, OnePlan, Sellable, Executing
<1>12. CASE Generate
  <2>1. PICK targets \in Targets :
          pending' = {b \in pending : b.signal # day} \cup
                       {[signal |-> day, after |-> NextSession(day), orders |-> OrdersFor(targets)]}
    BY <1>12 DEF Generate
  <2>2. /\ state' = state /\ saved' = saved /\ day' = day /\ work' = work /\ pc' = "planned"
        /\ pending = {}
    BY <1>12 DEF Generate, ControlOK
  <2>3. /\ \A o \in OrdersFor(targets) : o.side = "sell" => o.target <= state.pos[o.code].shares
        /\ \A o, x \in OrdersFor(targets) : o.code = x.code => o = x
    BY <1>1, PlanParts
  <2>4. \A b \in pending' : b.orders = OrdersFor(targets) /\ b.after = day + 1
    BY <2>1, <2>2 DEF NextSession
  <2>5. OnePlan(pending') BY <2>3, <2>4 DEF OnePlan
  <2>6. Sellable(state, pending') BY <1>1, <2>3, <2>4 DEF Sellable
  <2> QED BY <1>3, <2>2, <2>5, <2>6 DEF DailyOK, FreshHeld, OnePlan, Sellable, Executing
<1>13. CASE Restore
  <2>1. /\ state' = state /\ pending' = saved /\ saved' = {} /\ day' = day /\ work' = Idle
        /\ pc' = "idle"
    BY <1>13 DEF Restore, Stop
  <2> QED BY <1>2, <1>3, <2>1 DEF DailyOK, FreshHeld, OnePlan, Sellable, Executing
<1>14. CASE NextDay
  <2>1. \A c \in Codes : state'.pos[c] = [state.pos[c] EXCEPT !.fresh = 0]
    BY <1>14 DEF NextDay, Typed, Account
  <2>2. \A c \in Codes : state.pos[c] \in Position /\ state.pos[c].shares \in Nat
    BY <1>1, AccountParts
  <2>3. \A c \in Codes : state'.pos[c].shares = state.pos[c].shares /\ state'.pos[c].fresh = 0
    BY <2>1, <2>2 DEF Position
  <2>4. /\ pending' = pending /\ saved' = saved /\ work' = work /\ pc' = "idle"
    BY <1>14 DEF NextDay
  <2>5. \A b \in pending \cup saved : \A o \in b.orders : o.code \in Codes
    BY <1>1, BatchParts, OrderParts
  <2>6. Sellable(state, pending)' /\ Sellable(state, saved)'
    BY <1>3, <2>3, <2>4, <2>5 DEF Sellable
  <2>7. FreshHeld(state)' BY <2>2, <2>3 DEF FreshHeld
  <2> QED BY <1>3, <2>4, <2>6, <2>7 DEF DailyOK, FreshHeld, OnePlan, Executing
<1>15. CASE UNCHANGED vars
  BY <1>3, <1>15 DEF vars, files, DailyOK, FreshHeld, OnePlan, Sellable
<1>16. CASE ~(Load \/ OpenBatch \/ Attempt \/ CloseBatch \/ SavePending \/ SaveState \/ AppendTrades
              \/ ClearTargets \/ Generate \/ Restore \/ NextDay \/ UNCHANGED vars)
  <2>1. /\ state' = state /\ pending' = pending /\ saved' \in {saved, {}} /\ day' = day
        /\ work' \in {work, Idle} /\ pc' \notin Executing
    BY <1>16, PaperAssumption
    DEF Next, Start, WritePositions, UpdateNav, Finish, GenerationFails, Crash, Stop, files, Executing
  <2> QED BY <1>2, <1>3, <2>1 DEF DailyOK, FreshHeld, OnePlan, Sellable
<1> QED
  BY <1>4, <1>5, <1>6, <1>7, <1>8, <1>9, <1>10, <1>11, <1>12, <1>13, <1>14, <1>15, <1>16
-----------------------------------------------------------------------------
(* The theorems.                                                           *)

LEMMA InitIInv == Init => IInv
<1> SUFFICES ASSUME Init PROVE IInv
  OBVIOUS
<1> USE IdleParts
<1>1. state \in Account /\ state.cash = InitCash /\ state.pos = Idle.acct.pos
  BY PaperAssumption DEF Init, Scratch, Account
<1>2. Typed
  <2>1. day \in Dates /\ crashes \in 0..MaxCrashes BY PaperAssumption DEF Init, Dates
  <2>2. rows \in [Codes -> [Dates -> Row]] BY DEF Init, Row
  <2>3. trades \in Totals /\ view \in [Codes -> Nat] BY DEF Init, Totals
  <2>4. torn \in BOOLEAN BY Zenon DEF Init
  <2>5. job \in Commands \cup {"none"} /\ pc \in Steps BY DEF Init, Steps
  <2>6. pending \in SUBSET Batch /\ saved \in SUBSET Batch /\ work \in Scratch BY DEF Init
  <2> QED BY <1>1, <2>1, <2>2, <2>3, <2>4, <2>5, <2>6, Zenon DEF Typed
<1>3. Funded
  <2>1. InitCash \in Nat BY PaperAssumption
  <2> QED BY <1>1, <2>1 DEF Init, Funded, Sound
<1>4. ControlOK BY DEF Init, ControlOK, Executing
<1>5. BooksOK
  <2>1. InitCash \in Nat BY PaperAssumption
  <2> QED BY <1>1, <2>1 DEF Init, BooksOK, OnFile
<1>6. QueueOK BY DEF Init, QueueOK, Distinct, OneForEach
<1>7. OrdersOK BY DEF Init, OrdersOK
<1>8. DailyOK BY <1>1 DEF Init, DailyOK, FreshHeld, OnePlan, Sellable, Executing
<1>9. ViewOK BY <1>1, PaperAssumption DEF Init, ViewOK, Shown
<1> QED BY <1>2, <1>3, <1>4, <1>5, <1>6, <1>7, <1>8, <1>9 DEF IInv

(* The inductive invariant holds in every state of commands, kills and     *)
(* failures.                                                               *)
THEOREM PaperInvariance == Spec => []IInv
<1>1. IInv /\ [Next]_vars => IInv'
  BY TypedStep, FundedStep, ControlStep, BooksStep, ViewStep, QueueStep, OrdersStep, DailyStep DEF IInv
<1> QED BY <1>1, InitIInv, PTL DEF Spec

(* The account, the queue, trades.csv and the memory of a command keep     *)
(* their shape, and no holding has more sellable shares than shares.       *)
THEOREM PaperTypeCorrect == Spec => []TypeOK
<1>1. IInv => TypeOK
  BY DEF IInv, Typed, Funded, Sound, TypeOK, Steps, Scratch
<1> QED BY <1>1, PaperInvariance, PTL

(* No execution spends money the account does not have, at whatever price  *)
(* its orders meet.                                                        *)
THEOREM PaperSolvent == Spec => []Solvent
<1>1. IInv => Solvent BY DEF IInv, Funded, Sound, Solvent
<1> QED BY <1>1, PaperInvariance, PTL

(* Only a kill between state.json and trades.csv parts the books from the  *)
(* account, and positions.csv differs from it only inside an execution or  *)
(* after a kill, until the daily cycle has valued the account.             *)
THEOREM PaperReconciled == Spec => []Reconciled
<1>1. IInv => Reconciled BY DEF IInv, BooksOK, OnFile, ViewOK, Shown, Reconciled
<1> QED BY <1>1, PaperInvariance, PTL

(* An execution loses no order: what it drops was filled, or made way for  *)
(* a later order for its code.                                             *)
THEOREM PaperOrdersLeaveFilled == Spec => OrdersLeaveFilled
<1> DEFINE A == pc = "batch" /\ pc' = "save_state" =>
       \A b \in pending : \A o \in b.orders :
         \/ \E x \in pending' : x.signal = b.signal /\ o \in x.orders
         \/ work.acct.pos[o.code].shares = o.target
         \/ \E x \in pending : x.signal > b.signal /\ x.after <= day
                              /\ \E y \in x.orders : y.code = o.code
<1>1. ASSUME IInv, [Next]_vars PROVE [A]_vars
  <2> SUFFICES ASSUME pc = "batch", pc' = "save_state", NEW b \in pending, NEW o \in b.orders
               PROVE  \/ \E x \in pending' : x.signal = b.signal /\ o \in x.orders
                      \/ work.acct.pos[o.code].shares = o.target
                      \/ \E x \in pending : x.signal > b.signal /\ x.after <= day
                                           /\ \E y \in x.orders : y.code = o.code
    OBVIOUS
  <2>1. SavePending
    BY <1>1 DEF Next, Start, Load, OpenBatch, Attempt, CloseBatch, SavePending, SaveState,
       AppendTrades, WritePositions, UpdateNav, ClearTargets, Generate, Finish, GenerationFails,
       Restore, Crash, Stop, NextDay, vars
  <2>2. work.todo = {} /\ work.batch = {} /\ pending' = work.remaining
    BY <1>1, <2>1 DEF SavePending, IInv, ControlOK
  <2>3. Accounted(b, o) BY <1>1 DEF IInv, OrdersOK
  <2> QED BY <2>2, <2>3 DEF Accounted
<1> QED BY <1>1, PaperInvariance, PTL DEF Spec, OrdersLeaveFilled

(* On the timers' schedule shares bought in a run are still there when its *)
(* day ends.                                                               *)
THEOREM PaperSettlesNextDay == ASSUME Daily PROVE Spec => []SettlesNextDay
<1>1. IInv => SettlesNextDay BY DEF IInv, DailyOK, FreshHeld, SettlesNextDay
<1> QED BY <1>1, PaperInvariance, PTL

(* On the timers' schedule no order moves a holding past its target,       *)
(* however often runs are killed and plans fail before it is executed.     *)
THEOREM PaperNoOvershoot == ASSUME Daily PROVE Spec => NoOvershoot
<1> DEFINE A == \A b \in work.batch, o \in work.left \ work'.left :
       (pc = "order" /\ pc' = "order") =>
         LET old == work.acct.pos[o.code].shares
             new == work'.acct.pos[o.code].shares IN
           \/ old <= new /\ new <= o.target
           \/ o.target <= new /\ new <= old
<1>1. ASSUME IInv, [Next]_vars PROVE [A]_vars
  <2> SUFFICES ASSUME NEW c \in work.batch, NEW o \in work.left \ work'.left,
                      pc = "order", pc' = "order"
               PROVE  LET old == work.acct.pos[o.code].shares
                          new == work'.acct.pos[o.code].shares IN
                        \/ old <= new /\ new <= o.target
                        \/ o.target <= new /\ new <= old
    OBVIOUS
  <2>1. Attempt
    BY <1>1 DEF Next, Start, Load, OpenBatch, CloseBatch, SavePending, SaveState,
       AppendTrades, WritePositions, UpdateNav, ClearTargets, Generate, Finish, GenerationFails,
       Restore, Crash, Stop, NextDay, vars
  <2>2. PICK b \in work.batch, s \in work.left : s \in Order /\ Stepped(s)
    BY <1>1, <2>1, AttemptParts DEF IInv
  <2>3. s = o BY <2>2 DEF Stepped
  <2>4. b \in pending /\ o \in b.orders BY <1>1, <2>2, <2>3 DEF IInv, ControlOK, QueueOK
  <2>5. o.side = "sell" => o.target <= work.acct.pos[o.code].shares
    BY <1>1, <2>4 DEF IInv, DailyOK, Sellable, Executing
  <2>6. o.code \in Codes /\ o.target \in Nat BY <2>2, <2>3, OrderParts
  <2>7. work.acct.pos[o.code].shares \in Nat
    BY <1>1, <2>6, WorkParts, AccountParts DEF IInv, Typed
  <2> QED BY <2>2, <2>3, <2>5, <2>6, <2>7 DEF Stepped
<1> QED BY <1>1, PaperInvariance, PTL DEF Spec, NoOvershoot
=============================================================================
