SPECIFICATION Spec
CONSTANTS
  Configs <- MCConfigs
  Measurements <- MCMeasurements
  NoPair = NoPair
INVARIANTS TypeOK DecisionAgrees UtilizationAgrees
