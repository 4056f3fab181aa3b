SPECIFICATION Spec
CONSTANTS
  Entries = 2
  Bodies = {b1, b2}
  MaxCrashes = 1
  MaxPlans = 0
  None = None
INVARIANTS
  Audited
