--------------------------- MODULE MCBenchmarkPair ---------------------------
(***************************************************************************)
(* Instances of BenchmarkPair for TLC: two workloads on the simulated edge *)
(* or one of them on a measured one, so that concurrent attempts share     *)
(* every catalog row or only the ground target's.                          *)
(***************************************************************************)
EXTENDS BenchmarkPair, TLC

CONSTANTS cloudMask, landcover, edgeSim, edgeMeasured

MCEdgeOf == (cloudMask :> edgeSim @@ landcover :> edgeMeasured)

EachOnce   == [f \in FaultKinds |-> 1]
PutOnce    == [f \in FaultKinds |-> IF f = "put" THEN 1 ELSE 0]
TimeoutOnce == [f \in FaultKinds |-> IF f = "timeout" THEN 1 ELSE 0]
=============================================================================
