SPECIFICATION Spec
CONSTANTS
  Procs = {p, q}
  Sources = {s, t}
  Route <- BugFix
  NeedsApproval = FALSE
  Reviewer = TRUE
  RepairLimit = 1
  MaxCalls = 2
  MaxUpsets = 2
  None = None
SYMMETRY Symmetry
PROPERTY
  CancellationIsFinal
CHECK_DEADLOCK FALSE
