SPECIFICATION MCSpec
CONSTANTS
  Procs = {p1, p2}
  LockIds = {a, b, c}
  None = None
  Malformed = Malformed
  Controllers = {c}
  MaxSessions = 2
  OutputLimit = 1
  Foregrounds = {f, g}
  Schedules = {i}
  NoOne = NoOne
  MaxClaims = 1
  Orchestrators = {c, d}
  Reviews = {2}
  LimitOf <- Limits
  MaxAdmitted = 2
  Unowned = Unowned
  MaxInstalls = 2
  MaxControllers = 2
  MaxToolCrashes = 2
  NoTool = NoTool
  Servers = {s}
  Candidates = {a}
  InstalledVersion = InstalledVersion
  Nobody = Nobody
  Handoffs = {1, 2}
  MaxOthers = 1
CHECK_DEADLOCK FALSE
INVARIANTS
  TypesOK
  ExclusiveUntilOrphaned
  ExclusiveUntilForeignUnlink
  StaleMeansDead
PROPERTIES
  MalformedKept
  CallsEnd
