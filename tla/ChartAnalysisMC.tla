-------------------------- MODULE ChartAnalysisMC --------------------------
(***************************************************************************)
(* Instances of ChartAnalysis for TLC: a process with a pid in its name,   *)
(* and two kernel threads that are listed under one name with a bracket.   *)
(***************************************************************************)
EXTENDS ChartAnalysis, TLC

CONSTANTS sh, kworkerA, kworkerB, shName, kworkerName

TheProcs == {sh, kworkerA, kworkerB}
TheName == sh :> shName @@ kworkerA :> kworkerName @@ kworkerB :> kworkerName

Light == [cpu |-> 0, mem |-> 1023]
Heavy == [cpu |-> 2, mem |-> 2048]
TheLoads == {Light, Heavy}

Of(p, load) == [proc |-> p, load |-> load]
Ones == {<<Of(p, load)>> : p \in {sh, kworkerA}, load \in TheLoads}
Pairs == {<<Of(p, load), Of(kworkerB, Heavy)>> : p \in {sh, kworkerA}, load \in TheLoads}
TheRecords == {<<>>} \union Ones \union Pairs

\* The average decides for CPU, which never exceeds its maximum of 2, and the
\* maximum for memory.
TheFilter == [cpu |-> [avg |-> 1, max |-> 2], mem |-> [avg |-> 1, max |-> 1]]
=============================================================================
