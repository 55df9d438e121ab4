SPECIFICATION Spec
CONSTANTS
  c1 = c1
  t1 = t1
  Criteria = {c1}
  Texts = {t1}
  Checks = {k}
  Sources = {s1, s2}
  Runs = {r1}
  Callers = {x}
  Verifiers = {v}
  Engines = {"acceptance"}
  Goals <- OneApproval
  None = None
  MaxEvidence = 2
  MaxRevisions = 2
PROPERTIES
  RecordedAsTested
