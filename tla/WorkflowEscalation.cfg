SPECIFICATION Spec
CONSTANTS
  Procs = {p}
  Sources = {s}
  Route <- BugFix
  NeedsApproval = FALSE
  Reviewer = TRUE
  RepairLimit = 1
  MaxCalls = 0
  MaxUpsets = 2
  None = None
SYMMETRY Symmetry
INVARIANT
  EscalationResumable
CHECK_DEADLOCK FALSE
