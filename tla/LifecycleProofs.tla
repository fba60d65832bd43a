-------------------------- MODULE LifecycleProofs --------------------------
(***************************************************************************)
(* Proofs about Lifecycle, for any set of programs and any ports.          *)
(***************************************************************************)
EXTENDS Lifecycle, TLAPS

Met ==
  \A p, q \in Programs :
    p # q /\ Kind(p) = Kind(q) /\ Live(p) /\ Live(q) => Raced(p, q)

Taken ==
  \A p \in Programs :
    charts[p] = "taken" => \E q \in Programs \ {p} : Port(q) = Port(p) /\ Raced(p, q)

Places == TypeOK /\ FilesReachable /\ ChartsWhere

LEMMA Split == IInv <=> Places /\ Met /\ Taken
BY DEF IInv, Places, Met, Taken

LEMMA Starts == Init => IInv
<1> SUFFICES ASSUME Init PROVE IInv
  OBVIOUS
<1>1. Places
  BY SetupsAssumption DEF Init, Places, TypeOK, FilesReachable, ChartsWhere, States, Starting, Stopping
<1>2. Met /\ Taken
  BY DEF Init, Met, Taken, Live, Published, Changing, Starting, Stopping
<1> QED
  BY <1>1, <1>2, Split

-----------------------------------------------------------------------------
(* Types and places                                                          *)

\* What every step does with the pairs.
LEMMA HistoryFacts ==
  ASSUME met \subseteq SUBSET Programs, missed \subseteq SUBSET Programs, History
  PROVE  /\ met' \subseteq SUBSET Programs /\ missed' \subseteq SUBSET Programs
         /\ \A p, q \in Programs : Raced(p, q) => Raced(p, q)'
         /\ \A p, q \in Programs : Changing(p)' /\ Changing(q)' => Raced(p, q)'
         /\ \A p, q \in Programs :
              pc[p] = "check" /\ pc'[p] = "files" /\ Published(q) => Raced(p, q)'
BY DEF History, Raced

LEMMA PlacesKept ==
  ASSUME Places, Next
  PROVE  Places'
<1> USE DEF Places, TypeOK, FilesReachable, ChartsWhere, States, Starting, Stopping, Kind, Goto
<1>1. PICK p \in Programs :
        \/ Start(p) \/ Main(p) \/ ServeReturns(p) \/ Servers(p)
        \/ DocitHandle(p) \/ DocitGone(p) \/ Browse(p) \/ Stop(p)
  BY DEF Next, Step
<1>2. setup' = setup /\ met' \subseteq SUBSET Programs /\ missed' \subseteq SUBSET Programs
  BY HistoryFacts DEF Next
<1>3. CASE Start(p) \/ Look(p) \/ AlreadyRunning(p) \/ DrainCharts(p) \/ DrainFiles(p)
  BY <1>2, <1>3 DEF Start, Look, AlreadyRunning, DrainCharts, DrainFiles
<1>4. CASE NewFileServer(p)
  BY <1>2, <1>4 DEF NewFileServer
<1>5. CASE AskDocit(p) \/ DocitAnswered(p)
  BY <1>2, <1>5 DEF AskDocit, DocitAnswered
<1>51. CASE DocitHandle(p) \/ DocitGone(p)
  BY <1>2, <1>51 DEF DocitHandle, DocitGone
<1>52. CASE Browse(p)
  BY <1>2, <1>52 DEF Browse
<1>6. CASE Run(p)
  BY <1>2, <1>6 DEF Run
<1>7. CASE Publish(p) \/ ServeReturns(p)
  BY <1>2, <1>7 DEF Publish, ServeReturns, Deferred
<1>8. CASE StopCharts(p) \/ StopFiles(p)
  BY <1>2, <1>8 DEF StopCharts, StopFiles
<1>9. CASE FilesServe(p)
  BY <1>2, <1>9 DEF FilesServe, FilesShut
<1>10. CASE ChartsStart(p) \/ ChartsListen(p)
  BY <1>2, <1>10 DEF ChartsStart, ChartsListen
<1>11. CASE ChartsServe(p)
  <2>1. /\ charts[p] = "bound" /\ UNCHANGED <<pc, stop, files, busy, request>>
        /\ \/ charts' = [charts EXCEPT ![p] = "closed"]
           \/ charts' = [charts EXCEPT ![p] = "serving"] /\ ~ ChartsShut(p)
    BY <1>11 DEF ChartsServe
  <2>2. CASE charts' = [charts EXCEPT ![p] = "closed"]
    BY <1>2, <2>1, <2>2
  <2>3. CASE charts' = [charts EXCEPT ![p] = "serving"] /\ ~ ChartsShut(p)
    <3>1. pc[p] \in {"publish", "serve", "stopCharts"}
      BY <2>1, <2>3 DEF ChartsShut
    <3> QED
      BY <1>2, <2>1, <2>3, <3>1
  <2> QED
    BY <2>1, <2>2, <2>3
<1>12. CASE Stop(p)
  <2>1. CASE UNCHANGED <<pc, files, charts, busy, request>> /\ stop' \in [Programs -> BOOLEAN]
    BY <1>2, <2>1
  <2>2. CASE /\ pc[p] \in {"check", "found", "files", "docit", "wait"} /\ Goto(p, "crashed")
             /\ files' = [files EXCEPT ![p] = IF @ = "none" THEN @ ELSE "closed"]
             /\ UNCHANGED <<stop, charts, busy, request>>
    <3>1. charts[p] = "none" /\ "crashed" \in States
      BY <2>2
    <3>2. TypeOK'
      BY <1>2, <2>2, <3>1
    <3>3. FilesReachable'
      BY <1>2, <2>2
    <3>4. ChartsWhere'
      BY <1>2, <2>2, <3>1
    <3> QED
      BY <3>2, <3>3, <3>4
  <2>3. stop' \in [Programs -> BOOLEAN]
    BY <1>12 DEF Stop
  <2>4. \/ UNCHANGED <<pc, files, charts, busy, request>>
        \/ /\ pc[p] \in {"check", "found", "files", "docit", "wait"} /\ Goto(p, "crashed")
           /\ files' = [files EXCEPT ![p] = IF @ = "none" THEN @ ELSE "closed"]
           /\ UNCHANGED <<stop, charts, busy, request>>
    <3> HIDE DEF Places, Goto
    <3> QED
      BY <1>12 DEF Stop
  <2> QED
    BY <2>1, <2>2, <2>3, <2>4
<1> QED
  <2> HIDE DEF Places, TypeOK, FilesReachable, ChartsWhere, Goto
  <2> QED
    BY <1>1, <1>3, <1>4, <1>5, <1>51, <1>52, <1>6, <1>7, <1>8, <1>9, <1>10, <1>11, <1>12 DEF Main, Servers

-----------------------------------------------------------------------------
(* Who is at work with whom                                                  *)

\* Nobody comes to work but by a look for a running service that finds none.
LEMMA OnlyLookBegins ==
  ASSUME Places, Next, NEW r \in Programs, Live(r)', ~ Live(r)
  PROVE  /\ Changing(r)' /\ pc[r] = "check" /\ pc'[r] = "files"
         /\ \A q \in Programs \ {r} : pc'[q] = pc[q] /\ charts'[q] = charts[q]
<1> USE DEF Places, TypeOK, Goto, States, Starting, Stopping
<1>1. PICK p \in Programs :
        \/ Start(p) \/ Main(p) \/ ServeReturns(p) \/ Servers(p)
        \/ DocitHandle(p) \/ DocitGone(p) \/ Browse(p) \/ Stop(p)
  BY DEF Next, Step
<1>2. CASE Look(p)
  BY <1>2 DEF Look, Live, Changing, Published
<1>3. CASE UNCHANGED <<pc, charts>>
  BY <1>3 DEF Live, Changing, Published
<1>4. CASE charts' = charts /\ pc[p] \in Starting \cup Stopping \cup {"serve"} /\ \E l : Goto(p, l)
  BY <1>4 DEF Live, Changing, Published
<1>5. CASE charts' = charts /\ (Goto(p, "check") \/ Goto(p, "over") \/ Goto(p, "crashed"))
  BY <1>5 DEF Live, Changing, Published
<1>6. CASE Run(p)
  BY <1>6 DEF Run, Live, Changing, Published
<1>7. CASE pc' = pc /\ charts[p] \in {"spawned", "binding", "bound"} /\ \E l : charts' = [charts EXCEPT ![p] = l]
  BY <1>7 DEF Live, Changing, Published
<1>8. CASE StopCharts(p)
  BY <1>8 DEF StopCharts, Live, Changing, Published
<1>9. CASE Start(p) \/ Stop(p) \/ DocitHandle(p) \/ DocitGone(p) \/ Browse(p)
  BY <1>3, <1>5, <1>9 DEF Start, Stop, DocitHandle, DocitGone, Browse
<1>10. CASE Servers(p)
  BY <1>3, <1>7, <1>10 DEF Servers, FilesServe, ChartsStart, ChartsListen, ChartsServe
<1>13. CASE AlreadyRunning(p)
  BY <1>5, <1>13 DEF AlreadyRunning
<1>11. CASE NewFileServer(p) \/ AskDocit(p) \/ DocitAnswered(p)
  BY <1>4, <1>11 DEF NewFileServer, AskDocit, DocitAnswered
<1>12. CASE Publish(p) \/ ServeReturns(p) \/ DrainCharts(p) \/ StopFiles(p) \/ DrainFiles(p)
  BY <1>4, <1>12 DEF Publish, ServeReturns, DrainCharts, StopFiles, DrainFiles
<1> QED
  BY <1>1, <1>2, <1>6, <1>8, <1>9, <1>10, <1>11, <1>12, <1>13 DEF Main

LEMMA MetKept ==
  ASSUME Places, Met, Next
  PROVE  Met'
<1> SUFFICES ASSUME NEW p \in Programs, NEW q \in Programs, p # q,
                    Kind(p)' = Kind(q)', Live(p)', Live(q)'
             PROVE  Raced(p, q)'
  BY DEF Met
<1>1. /\ Kind(p) = Kind(q)
      /\ \A s, t \in Programs :
           /\ Raced(s, t) \/ (Changing(s)' /\ Changing(t)') => Raced(s, t)'
           /\ pc[s] = "check" /\ pc'[s] = "files" /\ Published(t) => Raced(s, t)'
  BY HistoryFacts DEF Next, Places, TypeOK, Kind
<1>2. CASE Live(p) /\ Live(q)
  BY <1>1, <1>2 DEF Met
\* One of them has looked, and found none: it has missed the other, or that is changing
\* too.
<1>3. ASSUME NEW r \in {p, q}, NEW o \in {p, q}, r # o, ~ Live(r)
      PROVE  Raced(r, o)'
  <2>1. /\ Changing(r)' /\ pc[r] = "check" /\ pc'[r] = "files"
        /\ Live(o)' /\ pc'[o] = pc[o]
    BY <1>3, OnlyLookBegins
  <2>2. CASE Published(o)
    BY <2>1, <2>2, <1>1
  <2>3. CASE ~ Published(o)
    BY <2>1, <2>3, <1>1 DEF Live, Published
  <2> QED
    BY <2>2, <2>3
<1>4. Raced(p, q)' <=> Raced(q, p)'
  <2>1. {p, q} = {q, p}
    OBVIOUS
  <2> QED
    BY <2>1 DEF Raced
<1> QED
  BY <1>2, <1>3, <1>4

LEMMA TakenKept ==
  ASSUME Places, Met, Taken, Next
  PROVE  Taken'
<1> SUFFICES ASSUME NEW p \in Programs, charts'[p] = "taken"
             PROVE  \E q \in Programs \ {p} : Port(q)' = Port(p)' /\ Raced(p, q)'
  BY DEF Taken
<1>1. setup' = setup /\ \A s, t \in Programs : Raced(s, t) => Raced(s, t)'
  BY HistoryFacts DEF Next, Places, TypeOK
<1>2. CASE charts[p] = "taken"
  BY <1>1, <1>2 DEF Taken, Port
<1>3. CASE charts[p] # "taken"
  <2>1. charts[p] = "binding" /\ Holders(Port(p)) # {}
    <3>1. PICK o \in Programs :
            \/ Start(o) \/ Main(o) \/ ServeReturns(o) \/ Servers(o)
            \/ DocitHandle(o) \/ DocitGone(o) \/ Browse(o) \/ Stop(o)
      BY DEF Next, Step
    <3>2. \/ charts' = charts \/ StopCharts(o) \/ Run(o)
          \/ ChartsStart(o) \/ ChartsListen(o) \/ ChartsServe(o)
      BY <3>1 DEF Start, Main, ServeReturns, Servers, DocitHandle, DocitGone, Browse, Stop,
           Look, AlreadyRunning, NewFileServer, AskDocit, DocitAnswered, Publish, DrainCharts, StopFiles,
           DrainFiles, FilesServe
    <3>3. charts \in [Programs -> {"none", "spawned", "binding", "bound", "serving", "closed", "taken", "failed"}]
      BY DEF Places, TypeOK
    <3>4. o = p /\ ChartsListen(p)
      BY <1>3, <3>2, <3>3 DEF StopCharts, Run, ChartsStart, ChartsListen, ChartsServe
    <3> QED
      BY <1>3, <3>3, <3>4 DEF ChartsListen
  <2>2. PICK q \in Holders(Port(p)) : TRUE
    BY <2>1
  <2>3. /\ Kind(p) = "topidchart" /\ Kind(q) = Kind(p) /\ Port(q) = Port(p) /\ q \in Programs
        /\ charts[q] \in {"bound", "serving"}
    <3>1. q \in Programs /\ Port(q) = Port(p)
      BY <2>2 DEF Holders
    <3>2. Kind(p) = "topidchart"
      BY <2>1 DEF Places, ChartsWhere
    <3>3. Kind(q) = Kind(p)
      BY <3>1, SetupsAssumption DEF Places, TypeOK, Kind, Port
    <3> QED
      BY <2>2, <3>1, <3>2, <3>3 DEF Holders
  <2>4. p # q /\ Live(p) /\ Live(q)
    BY <2>1, <2>3 DEF Places, ChartsWhere, Live, Changing, Published, Starting, Stopping
  <2> QED
    BY <1>1, <2>3, <2>4 DEF Met, Port
<1> QED
  BY <1>2, <1>3

-----------------------------------------------------------------------------
(* Theorems                                                                  *)

\* The inductive invariant: types, which listeners are open where, and that programs of
\* a kind at work together, or with one port, have raced.
THEOREM LifecycleInvariance == Spec => []IInv
<1>1. IInv /\ [Next]_vars => IInv'
  <2> SUFFICES ASSUME IInv, [Next]_vars PROVE IInv'
    OBVIOUS
  <2>1. CASE Next
    <3>1. Places' /\ Met' /\ Taken'
      BY <2>1, Split, PlacesKept, MetKept, TakenKept
    <3> QED
      BY <3>1 DEF IInv, Places, Met, Taken
  <2>2. CASE UNCHANGED vars
    BY <2>2 DEF vars, IInv, TypeOK, FilesReachable, ChartsWhere, Live, Changing, Published, Kind, Port, Raced
  <2> QED
    BY <2>1, <2>2
<1> QED
  BY Starts, <1>1, PTL DEF Spec

\* Two chart servers, or two recorders, are both published only if they were starting
\* or stopping at the same time, or one did not find the other within its three seconds.
THEOREM OneServer == Spec => []OneServerUnlessRaced
<1>1. IInv => OneServerUnlessRaced
  BY DEF IInv, OneServerUnlessRaced, Live
<1> QED
  BY <1>1, LifecycleInvariance, PTL

\* A chart server has lost its port to another one only if the two have raced so.
THEOREM ChartsKeepTheirPort == Spec => []ChartsUnlessRaced
<1>1. IInv => ChartsUnlessRaced
  BY DEF IInv, ChartsUnlessRaced
<1> QED
  BY <1>1, LifecycleInvariance, PTL
=============================================================================
