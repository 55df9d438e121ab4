SPECIFICATION Spec
CONSTANTS
  Procs = {p, q}
  Sources = {s, t}
  Route <- BugFix
  NeedsApproval = FALSE
  Reviewer = FALSE
  RepairLimit = 1
  MaxCalls = 2
  MaxUpsets = 1
  None = None
SYMMETRY Symmetry
INVARIANTS
  TypeOK
  OnlyOwnerRuns
  VerifiedTogether
  ApprovedWork
PROPERTY
  CancelledIsInert
CHECK_DEADLOCK FALSE
