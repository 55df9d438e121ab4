SPECIFICATION Spec
CONSTANTS
  f1 = f1
  f2 = f2
  Files = {f1, f2}
  Versions = {v1, v2}
  Foreign = Foreign
  Absent = Absent
  NoJournal = NoJournal
  NoSurvey = NoSurvey
  Batch <- OneBatch
  MaxEdits = 0
  MaxConfigs = 0
  MaxFaults = 1
CHECK_DEADLOCK FALSE
INVARIANTS
  JournalRecognised
