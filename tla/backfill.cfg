SPECIFICATION Spec
CONSTANTS
  Worker = {v, w}
  Job = {"month", "narrow"}
  Code = {"x", "y", "z", "u"}
  Listed = {"x"}
  Day = {1, 2}
  Doc <- MCDoc
  Resume <- MCResume
  Limit <- MCLimit
  Roots <- MCRoots
  Rounds = 1
  MaxEvents = 3
  None = None
INVARIANTS
  TypeOK
  LeafHoldsItsDocuments
  CompleteJobIsCovered
  CompleteJobIsTrusted
PROPERTIES
  ReportIsTakenBackForCause
  ReopenedForCause
SYMMETRY MCSymmetry
VIEW MCView
CHECK_DEADLOCK FALSE
