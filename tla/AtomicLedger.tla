---------------------------- MODULE AtomicLedger ----------------------------
(***************************************************************************)
(* What a paper account promises, whatever files it is kept in: an order   *)
(* is open until it is booked, a booking moves holdings, money and the     *)
(* trade ledger together, and nothing else touches any of the three.       *)
(* SettlementAccount implements this specification with four files and a   *)
(* journal.                                                                *)
(***************************************************************************)
EXTENDS Integers, FiniteSets

CONSTANTS Accounts, Codes, InitCash, OrderIds

VARIABLES
  holdings,   \* [Accounts -> [Codes -> Nat]]  lots held
  money,      \* [Accounts -> Int]  cash plus unsettled sale proceeds
  openIds,    \* SUBSET OrderIds    orders waiting to be executed
  rows,       \* [OrderIds -> Nat]  rows the trade ledger holds for an order
  lots,       \* [Accounts -> [Codes -> Int]]  signed lots the ledger adds up to
  net         \* [Accounts -> Int]  net amount the ledger adds up to

ledgerVars == <<holdings, money, rows, lots, net>>
vars == <<holdings, money, openIds, rows, lots, net>>

Booked == {i \in OrderIds : rows[i] > 0}

Init ==
  /\ holdings = [a \in Accounts |-> [c \in Codes |-> 0]]
  /\ money = [a \in Accounts |-> InitCash]
  /\ openIds \in SUBSET OrderIds
  /\ rows = [i \in OrderIds |-> 0]
  /\ lots = [a \in Accounts |-> [c \in Codes |-> 0]]
  /\ net = [a \in Accounts |-> 0]

(* The due orders that fill leave the open set and get one row each; what  *)
(* the rows add to the ledger's totals, the account gains.                 *)
Settle ==
  /\ openIds' \subseteq openIds
  /\ rows' = [i \in OrderIds |->
                rows[i] + (IF i \in openIds \ openIds' THEN 1 ELSE 0)]
  /\ \A a \in Accounts :
       /\ money'[a] - money[a] = net'[a] - net[a]
       /\ \A c \in Codes : holdings'[a][c] - holdings[a][c] = lots'[a][c] - lots[a][c]

(* A new target replaces the open orders; a booked order never reopens.    *)
Retarget ==
  /\ openIds' \in SUBSET (OrderIds \ Booked)
  /\ UNCHANGED ledgerVars

Next == Settle \/ Retarget

Spec == Init /\ [][Next]_vars

(* Every row of the ledger fills a different order, and no open order has  *)
(* a row.                                                                  *)
ExactlyOnce ==
  /\ \A i \in OrderIds : rows[i] \in {0, 1}
  /\ openIds \cap Booked = {}
  /\ openIds \subseteq OrderIds

(* The account is what its trade ledger says it is.                        *)
Reconciled ==
  \A a \in Accounts :
    /\ money[a] = InitCash + net[a]
    /\ \A c \in Codes : holdings[a][c] = lots[a][c]
=============================================================================
