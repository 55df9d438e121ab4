SPECIFICATION Spec
CONSTANTS
  f1 = f1
  f2 = f2
  Files = {f1, f2}
  Versions = {v1}
  Foreign = Foreign
  Absent = Absent
  NoJournal = NoJournal
  NoSurvey = NoSurvey
  Batch <- TwoBatches
  MaxEdits = 1
  MaxConfigs = 1
  MaxFaults = 2
CHECK_DEADLOCK FALSE
PROPERTIES
  OperationsEnd
  ImplementsAtomicInstall
