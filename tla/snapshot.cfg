SPECIFICATION Spec
CONSTANTS
  Datasets = {d1, d2}
  Contents = {v1, v2}
  Results = {r1}
  Absent = absent
  Torn = torn
  MaxEpoch = 3
INVARIANTS TypeOK VerdictSound RecoveryPoint RestoreComplete
