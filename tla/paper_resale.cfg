SPECIFICATION Spec
CONSTANTS
  Codes = {c1}
  InitCash = 5
  Fee = 1
  Prices = {1, 2}
  Bans <- MCBans
  NoRow = NoRow
  MaxLots = 2
  LastDay = 4
  MaxCrashes = 0
  Commands = {"rebalance", "execute", "update-nav"}
INVARIANTS
  SettlesNextDay
