----------------------------- MODULE RecorderMC -----------------------------
(***************************************************************************)
(* Instances of Recorder for TLC.                                          *)
(***************************************************************************)
EXTENDS Recorder

CONSTANTS a, b

\* One piece for the log, one for the stream and one for the pipe; and a client
\* whose file does not grow.
ThePieces == [c \in Clients |-> IF c = a THEN 3 ELSE 0]
=============================================================================
