------------------------------ MODULE MCIngest ------------------------------
(***************************************************************************)
(* Instances of Ingest for TLC.  Requests: one SatNOGS observation as      *)
(* upstream serves it (obsA), the same observation with changed contents   *)
(* (obsB), and one Sentinel-2 scene (crop).                                *)
(***************************************************************************)
EXTENDS Ingest, TLC

CONSTANTS obsA, obsB, crop

MCIdOf     == (obsA :> "obs" @@ obsB :> "obs" @@ crop :> "crop")
MCKeyOf    == (obsA :> "obs.json" @@ obsB :> "obs.json" @@ crop :> "crop.tif")
MCBytesOf  == (obsA :> "a" @@ obsB :> "b" @@ crop :> "c")
MCSourceOf == (obsA :> "satnogs" @@ obsB :> "satnogs" @@ crop :> "sentinel2")

\* A cfg's Requests is a subset of the three: the functions are cut down to it.
Cut(f) == [r \in Requests |-> f[r]]
MCIds  == {MCIdOf[r] : r \in Requests}
MCKeys == {MCKeyOf[r] : r \in Requests}
CutIdOf     == Cut(MCIdOf)
CutKeyOf    == Cut(MCKeyOf)
CutBytesOf  == Cut(MCBytesOf)
CutSourceOf == Cut(MCSourceOf)

\* Failure budgets.
EachOnce   == [f \in FaultKinds |-> 1]
LiveOnce   == [f \in FaultKinds |-> IF f \in {"ack", "conn"} THEN 0 ELSE 1]
CommitOnce == [f \in FaultKinds |-> IF f = "db" THEN 1 ELSE 0]

WorkerSymmetry == Permutations(Workers)
=============================================================================
