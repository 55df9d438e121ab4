SPECIFICATION Spec
CONSTANTS
  Procs = {p}
  Sources = {s, t}
  Route <- BugFix
  NeedsApproval = FALSE
  Reviewer = FALSE
  RepairLimit = 1
  MaxCalls = 2
  MaxUpsets = 2
  None = None
PROPERTY
  DriversEnd
CHECK_DEADLOCK FALSE
