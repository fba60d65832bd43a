---------------------------- MODULE LifecycleMC ----------------------------
(***************************************************************************)
(* Instances of Lifecycle for TLC.                                         *)
(***************************************************************************)
EXTENDS Lifecycle

CONSTANTS a, b

Both(k, m, n) ==
  [p \in Programs |-> [kind |-> k, port |-> IF p = a THEN m ELSE n]]

\* Two chart servers for one port, and two recorders for one port or
\* one of them with "0".
TheSetups ==
  {Both("topidchart", 1, 1), Both("recorder", 2, 2), Both("recorder", 2, Any)}
=============================================================================
