SPECIFICATION Spec
CONSTANTS
  Codes = {c1, c2}
  InitCash = 5
  Fee = 1
  Prices = {1, 2}
  Bans <- MCBans
  NoRow = NoRow
  MaxLots = 2
  LastDay = 3
  MaxCrashes = 1
  Commands = {"run-daily"}
INVARIANTS
  TypeOK
  Solvent
  SettlesNextDay
  Reconciled
PROPERTIES
  NoOvershoot
SYMMETRY MCSymmetry
