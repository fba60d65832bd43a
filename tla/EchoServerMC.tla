---------------------------- MODULE EchoServerMC ----------------------------
(***************************************************************************)
(* Instances of EchoServer for TLC.                                        *)
(***************************************************************************)
EXTENDS EchoServer

CONSTANTS c1, c2, c3, s1, s2

TheAddrs == {"tcp", "@"}

\* One TCP client, and clients on the same machine: an accepted Unix-domain
\* socket whose client end is not bound reads "@", whoever connected.
TheAddr == [c \in Conns |-> IF c = c1 THEN "tcp" ELSE "@"]

\* Every subscription is made on a connection of its own.
TheOwner == [s \in Subs |-> IF s = s1 THEN c1 ELSE c2]
=============================================================================
