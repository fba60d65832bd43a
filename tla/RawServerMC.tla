---------------------------- MODULE RawServerMC ----------------------------
(***************************************************************************)
(* Instances of RawServer for TLC.                                         *)
(***************************************************************************)
EXTENDS RawServer

CONSTANTS unix, tcp, c1, c2, c3

TheVia == [c \in Conns |-> IF c = c1 THEN unix ELSE tcp]
=============================================================================
