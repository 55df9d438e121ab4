SPECIFICATION Spec
CONSTANTS
  Procs = {p1, p2}
  LockIds = {a, b, c}
  None = None
  Malformed = Malformed
CHECK_DEADLOCK FALSE
INVARIANTS
  MutualExclusion
