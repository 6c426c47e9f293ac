SPECIFICATION Spec
CONSTANTS
  Workers = {w1, w2}
  Personas = {p1, p2}
  Valid = {p1}
  Memories = {m1}
  Owners = {o1}
  Tools = {t1}
  Questions = {q1}
  GapStatuses = {"open", "resolved"}
  MaxVersions = 3
  MaxGaps = 2
  MaxRequests = 5
  Torn = Torn
  None = None
SYMMETRY Interchangeable
INVARIANTS PublishedStands LossIsNotHidden
PROPERTY NoSecondOpenGap
CHECK_DEADLOCK FALSE
