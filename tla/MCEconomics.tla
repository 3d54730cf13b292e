------------------------------ MODULE MCEconomics ------------------------------
(***************************************************************************)
(* Prices and measurements for TLC, small enough for every order of the    *)
(* two totals and a tie: free downlink in the environment, costly          *)
(* hardware, outputs smaller than, equal to and larger than the input.     *)
(***************************************************************************)
EXTENDS Economics

MCConfigs == [price : 0..3, electricity : {1}, rent : {1, 3}, capexPerRun : {1, 4, 9},
              runsPerDay : {0, 1, 3}, lifetimeDays : {2}]
MCMeasurements == [input : {3}, output : 1..4, groundWall : 1..2, edgeWall : {1, 3},
                   groundWatts : {2}, edgeWatts : {1}]
=============================================================================
