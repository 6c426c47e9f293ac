SPECIFICATION Spec
CONSTANTS
  t1 = t1 t2 = t2 a1 = a1 a2 = a2 a3 = a3 m1 = m1 m2 = m2 c1 = c1 c2 = c2
  None = None
  TurnIDs = {t1, t2}
  AttemptIDs = {a1, a2}
  MessageIDs = {m1, m2}
  Contents = {c1, c2}
  Workers = {w1, w2}
  Requests <- RetryAndNext
  Faults = {}
INVARIANT GateReleasedOnAllPaths
