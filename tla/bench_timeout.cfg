\* A target that never returns.
SPECIFICATION LiveSpec
CONSTANTS
  Attempts = {p1, p2}
  Workloads = {cloudMask, landcover}
  EdgeTargets = {edgeSim, edgeMeasured}
  Ground = ground
  cloudMask = cloudMask
  landcover = landcover
  edgeSim = edgeSim
  edgeMeasured = edgeMeasured
  EdgeOf <- MCEdgeOf
  Simulated = {edgeSim}
  NoAttempt = NoAttempt
  NoWorkload = NoWorkload
  MaxFaults <- TimeoutOnce
PROPERTIES
  TimeoutAnswered
CHECK_DEADLOCK FALSE
