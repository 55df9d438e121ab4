SPECIFICATION MCSpec
CONSTANTS
  f1 = f1
  f2 = f2
  Files = {f1, f2}
  Versions = {v1, v2}
  Foreign = Foreign
  Absent = Absent
  NoJournal = NoJournal
  NoSurvey = NoSurvey
  Batch <- OneBatch
  MaxEdits = 1
  MaxConfigs = 0
  MaxFaults = 2
  Commands = {c}
  Hooks = {h}
  Templates = {v1, v2}
  RuntimeVersions = {v1}
  Edited = Edited
  Missing = Missing
  Nowhere = Nowhere
  MaxOps = 3
  MaxLauncherEdits = 1
  MaxCrashes = 2
  Operators = {p, q}
  Recoverers = {r, s}
  Free = Free
  MaxLocks = 4
  Servers = {s, t}
  Candidates = {a}
  InstalledVersion = InstalledVersion
  Nobody = Nobody
  Handoffs = {1, 2}
  MaxOthers = 1
  Wizards = {p, q}
  Choices = {x, y}
  Directories = {d}
  Spellings = {1, 2}
  MaxActions = 3
  Queries = {q}
  Synchronizers = {s, t}
  NoIndex = NoIndex
  MaxOutside = 2
  MaxBuilds = 2
  McpServers = {a, b}
  Definitions = {x}
  ForeignEntry = ForeignEntry
  Unlisted = Unlisted
  MaxSets = 2
  MaxUserSteps = 2
  Tools = {a, b, c}
  Cursors = {x, y}
  LastPage = LastPage
  MaxPages = 2
  MaxTools = 2
VIEW Moving
CHECK_DEADLOCK FALSE
INVARIANTS
  TypesOK
  Installed
  Decidable
  OneOperation
  RecordedIsSaved
  UpdatesHold
PROPERTIES
  EditsSurvive
  LaunchersHold
  
