SPECIFICATION Spec
CONSTANTS
  Workers = {w1, w2}
  Gaps = {g1, g2}
  Audits = {a1, a2}
  Snapshots = {s1, s2}
  Policies = {p1}
  GapStatuses = {"open", "resolved"}
  MaxAttempts = 2
  MaxObservations = 2
  MaxPromotions = 2
  None = None
SYMMETRY Interchangeable
INVARIANTS RecordsAgree CountsAreExact ConfirmedWasReopened ProofsAreOnLedger OneActiveRevision
PROPERTIES DecisionsStay
