SPECIFICATION MCSpec
CONSTANTS
  c1 = c1
  t1 = t1
  t2 = t2
  Criteria = {c1}
  Texts = {t1, t2}
  Checks = {k}
  Sources = {s1}
  Runs = {r1, r2}
  Callers = {x, y}
  Verifiers = {v}
  Engines = {"gate"}
  Goals <- OneCriterion
  None = None
  MaxEvidence = 1
  MaxRevisions = 2
  RecordKinds = {"assumption", "observation"}
  MaxRecords = 2
  MaxHistory = 3
  Files = {a, b}
  TheCriterion = TheCriterion
  TheFile = TheFile
  TheMemory = TheMemory
  NoRecord = NoRecord
  MaxChanges = 2
  Agent = Agent
  User = User
  Digests = {x, y}
  Statements = {r1, r2}
  NoDecision = NoDecision
  MaxCalls = 3
  Requests = {q1, q2}
  Terms = {p, q}
  Unwritten = Unwritten
  MaxMoves = 1
  MaxContractCrashes = 1
  Entries = {e, f}
  Unstorable = {f}
  Contents = {a, b}
  Absent = Absent
  MaxRegistrations = 2
  MaxTasks = 3
  MaxEvents = 3
  MaxEntries = 2
  MaxTotalFiles = 4
  MaxTotalBytes = 6
  MaxFilesPerEntry = 3
  MaxCandidates = 3
  Sizes = {1, 2}
  Reviewers = {r, s}
  Comments = {m}
  NoComment = NoComment
  MaxWrites = 3
  MaxEdits = 2
  Invocations = {i, j}
  Unknown = Unknown
  Retention = 2
  MaxUsage = 2
  MaxTime = 3
  MaxSettings = 1
  Drivers = {x, y}
  Work = {w}
  Trees = {u}
  NoBrief = NoBrief
  Gone = Gone
  MaxRevision = 3
  MaxDispatch = 5
  Snapshots = {x, y}
  Missing = Missing
  Legacy = Legacy
  MaxClock = 2
  MaxTaskEvents = 3
  Projects = {x, y}
  Wordings = {r1, r2}
  Scrubbed = Scrubbed
  Nothing = Nothing
  MaxMemoryIds = 2
  MaxMemoryRevision = 2
SYMMETRY Symmetry
VIEW Moving
INVARIANTS
  TypesOK
  OwnershipAgrees
  EvidenceOfText
  ConflictMeansUnapplied
  DecisionsStand
  ContractsHold
  ImportsHold
  ReadersToldTrue
PROPERTIES
  ChangedAsRead
  ReplaysOnlyCorrect
