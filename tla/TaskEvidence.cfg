SPECIFICATION MCSpec
CONSTANTS
  c1 = c1
  t1 = t1
  Criteria = {c1}
  Texts = {t1}
  Checks = {k}
  Sources = {s1, s2}
  Runs = {r1}
  Callers = {x}
  Verifiers = {v}
  Engines = {"acceptance"}
  Goals <- OneApproval
  None = None
  MaxEvidence = 2
  MaxRevisions = 2
  Clients = {c, d}
  WorkTasks = {t, u}
  SourceFiles = {f, g}
  FileTexts = {x, y}
  Deleted = Deleted
  MaxTouches = 2
  MaxCalls = 2
  Preserved = {p, q}
  Targets = {t}
  Mandatory = {m}
  Preexisting = {n}
  Dependencies = {d}
  Controllers = {c, d}
  MaxSessions = 2
  Foregrounds = {f, g}
  Schedules = {i}
  NoOne = NoOne
  MaxClaims = 2
  Orchestrators = {c, d}
  Reviews = {1, 2}
  LimitOf <- Limits
  MaxAdmitted = 2
  Unowned = Unowned
  MaxInstalls = 2
  MaxControllers = 2
  MaxToolCrashes = 2
  NoTool = NoTool
SYMMETRY Symmetry
VIEW Moving
INVARIANTS
  VerifiedStands
  OneProvider
  ExecutedIsRecorded
  ServedIsRecorded
PROPERTIES
  ReviewsHold
  WorkspacesHold
  EvaluationsHold
