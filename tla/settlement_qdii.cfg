SPECIFICATION Spec
CONSTANTS
  Accounts = {a1}
  Retired = a0
  Codes = {c1, c2}
  InitCash = 33
  Unit = 10
  Fee = 1
  Prices = {1, 2}
  MaxLots = 1
  ReserveCash = 11
  SettleDays = 1
  ReuseProceeds = TRUE
  MaxOrders = 3
  LastDay = 3
  MaxCrashes = 1
  None = None
INVARIANTS
  TypeOK
  ExactlyOnce
  Reconciled
  Solvent
  DailyReadsSettled
PROPERTIES
  AtomicSpec
  OrdersLeaveByFillOrReplacement
