SPECIFICATION Spec
CONSTANTS
  Worker = {v, w}
  Job = {night, fix1, fix2}
  Doc = {1, 2}
  Items <- MCItems
  Prompt <- MCPrompt
  Repairs = {fix1, fix2}
  Bound = {night}
  Result = {0, 2}
  MaxStarts = 3
  Past = {night}
  MaxFaults = 1
  None = None
SYMMETRY MCSymmetry
CHECK_DEADLOCK FALSE
INVARIANTS TypeOK SomeReadingVisible ImportedIsSettled OneCallPerRow
PROPERTIES ResultsAreFinal
