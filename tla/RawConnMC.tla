----------------------------- MODULE RawConnMC -----------------------------
(***************************************************************************)
(* Instances of RawConn for TLC.                                           *)
(***************************************************************************)
EXTENDS RawConn

\* A download: short requests, replies beyond the buffers of reader and socket.
Download == [e \in Ends |-> IF e = "client" THEN 2 ELSE 9]
=============================================================================
