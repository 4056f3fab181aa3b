SPECIFICATION Spec
CONSTANTS
  Entries = 2
  Bodies = {b1, b2}
  MaxCrashes = 1
  MaxPlans = 2
  None = None
INVARIANTS
  TypeOK
  Recoverable
  AllOrNothing
  OldOrdersRetired
PROPERTIES
  ArchivedBeforeCleared
  RerunChangesNothing
SYMMETRY MCSymmetry
