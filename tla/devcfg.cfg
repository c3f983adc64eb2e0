SPECIFICATION Spec
CONSTANTS
  Levels = {"report", "trace"}
  Report = "report"
  Networks <- MCNetworks
  Empty = "empty"
  Erased = "erased"
  MaxChanges = 3
  MaxFailures = 2
INVARIANTS Sane RestIsSaved IInv
PROPERTIES FinallySaved
CHECK_DEADLOCK FALSE
