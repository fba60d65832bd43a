--------------------------- MODULE TopidSessionMC ---------------------------
(***************************************************************************)
(* Instances of TopidSession for TLC.                                      *)
(***************************************************************************)
EXTENDS TopidSession

CONSTANTS t1, t2

\* One session takes a snapshot with each record, the other none.
TheSnapped == [s \in Sessions |-> IF s = t1 THEN 1..MaxRecords ELSE {}]
=============================================================================
