---------------------------- MODULE ChartServerMC ---------------------------
(***************************************************************************)
(* Instances of ChartServer for TLC.                                       *)
(***************************************************************************)
EXTENDS ChartServer, TLC

CONSTANTS cpuavg, cpumax, memavg, memmax, data, len

AlikeWords == Permutations(Words)
=============================================================================
