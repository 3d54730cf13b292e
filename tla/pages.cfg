\* Pages while rows are committed and statements fail.
SPECIFICATION LiveSpec
CONSTANTS
  Observations = {o1, o2, o3}
  o1 = o1
  o2 = o2
  o3 = o3
  Timestamp <- MCTimestamp
  Registry <- MCRegistry
  cloudMask = cloudMask
  landcover = landcover
  PairIds = {1, 2}
  Times = {1, 2}
  MaxRows = 3
  PageSize = 1
  RecentLimit = 2
  NoPair = NoPair
INVARIANTS TypeOK StatusConsistent NewestShown WalkComplete
PROPERTIES DashboardServed
