-------------------------------- MODULE MCPages --------------------------------
(***************************************************************************)
(* Three observations, two of one moment, and the pairs of two workloads.  *)
(***************************************************************************)
EXTENDS Pages

CONSTANTS o1, o2, o3, cloudMask, landcover

MCTimestamp == [o \in Observations |-> IF o = o3 THEN 2 ELSE 1]
MCRegistry == <<cloudMask, landcover>>

=============================================================================
