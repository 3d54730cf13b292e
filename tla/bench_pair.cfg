\* Two concurrent pairs, every kind of failure once.
SPECIFICATION LiveSpec
CONSTANTS
  Attempts = {p1, p2}
  Workloads = {cloudMask, landcover}
  EdgeTargets = {edgeSim, edgeMeasured}
  Ground = ground
  cloudMask = cloudMask
  landcover = landcover
  edgeSim = edgeSim
  edgeMeasured = edgeMeasured
  EdgeOf <- MCEdgeOf
  Simulated = {edgeSim}
  NoAttempt = NoAttempt
  NoWorkload = NoWorkload
  MaxFaults <- EachOnce
INVARIANTS
  TypeOK
  PairsWhole
  WaitsForward
  FailedAtomicallyIfKnown
  ResultsAccounted
PROPERTIES
  HangIsLocal
CHECK_DEADLOCK FALSE
