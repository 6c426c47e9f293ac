SPECIFICATION Spec
CONSTANTS
  Workers = {w1, w2}
  Documents = {d1}
  Jobs = {j1}
  Spaces = {main, s1}
  DefaultSpace = main
  Contents = {c1, c2}
  BadSource = BadSource
  Reviews = {"active", "rejected"}
  SpaceStatuses = {"active", "archived"}
  MaxSources = 2
  MaxRequests = 3
  MaxCrashes = 1
  None = None
SYMMETRY Interchangeable
INVARIANTS ImportedIsGated ClosedJobAccounts EditsNeedOpenSpace DecisionsStandUntilRace
CHECK_DEADLOCK FALSE
