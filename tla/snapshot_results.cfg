SPECIFICATION Spec
CONSTANTS
  Datasets = {d1}
  Contents = {v1}
  Results = {r1}
  Absent = absent
  Torn = torn
  MaxEpoch = 2
INVARIANT ResultsRecovered
