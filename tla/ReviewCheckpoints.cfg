SPECIFICATION Spec
CONSTANTS
  k1 = k1 k2 = k2 k3 = k3 f1 = f1 f2 = f2
  Requests <- ThreeKeys
  Workers = {w1, w2}
  Keys = {k1, k2, k3}
  Fingerprints = {f1, f2}
  Snapshots = {s1, s2}
  Sizes = {1}
  MaxRecords = 2
  MaxFileBytes = 2
  Faults = {"io", "crash", "damage"}
  None = None
SYMMETRY Interchangeable
INVARIANTS OneCheckpointPerKey RetriesAgree
PROPERTIES CapacityOnlyForNew ImplementsRegister
