SPECIFICATION FairSpec
CONSTANTS
  Accounts = {a1}
  Retired = a0
  Codes = {c1}
  InitCash = 11
  Unit = 10
  Fee = 1
  Prices = {1}
  MaxLots = 1
  ReserveCash = 0
  SettleDays = 1
  ReuseProceeds = FALSE
  MaxOrders = 2
  LastDay = 5
  MaxCrashes = 1
  None = None
INVARIANTS
  Reconciled
PROPERTIES
  JournalIsReplayed
  ProceedsBecomeCash
