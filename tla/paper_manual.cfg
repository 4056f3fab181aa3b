SPECIFICATION Spec
CONSTANTS
  Codes = {c1}
  InitCash = 3
  Fee = 1
  Prices = {1, 2}
  Bans <- MCBans
  NoRow = NoRow
  MaxLots = 2
  LastDay = 4
  MaxCrashes = 1
  Commands = {"rebalance", "execute", "update-nav"}
INVARIANTS
  Reconciled
PROPERTIES
  OrdersLeaveFilled
