---------------------------- MODULE EchoClientMC ----------------------------
(***************************************************************************)
(* Instances of EchoClient for TLC.                                        *)
(***************************************************************************)
EXTENDS EchoClient

CONSTANTS a, b

\* One client with workers, one with an event goroutine.
TheCommands == [c \in Clients |-> IF c = a THEN "echo" ELSE "whoelse"]
TheRounds == [c \in Clients |-> IF c = a THEN 1 ELSE 0]
=============================================================================
