-------------------------- MODULE EchoClientProofs --------------------------
(***************************************************************************)
(* Proofs about EchoClient, for any clients, workers and loop bounds.      *)
(***************************************************************************)
EXTENDS EchoClient, FiniteSetTheorems, TLAPS

\* The steps, thread by thread.
LEMMA Steps ==
  ASSUME Next
  PROVE  \E c \in Clients :
           \/ Discover(c) \/ Subscribe(c) \/ Spawn(c) \/ Wait(c) \/ Close(c)
           \/ RecvEvent(c) \/ Break(c) \/ Stop(c)
           \/ \E t \in Threads :
                \/ Loop(c, t) \/ Receive(c, t) \/ Fail(c, t) \/ OnNewStream(c, t)
                \/ \E m \in msgs : m.client = c /\ m.stream = t /\ (Handle(m) \/ Reply(m))
BY DEF Next, Starter, Thread, Service

LEMMA ThreadFacts ==
  /\ Main \in Threads /\ Event \in Threads /\ 1..Workers \subseteq Threads
  /\ Main # Event /\ Main \notin 1..Workers /\ Event \notin 1..Workers
  /\ \A t \in Threads : t = Main \/ t = Event \/ t \in 1..Workers
BY ClientAssumption DEF Threads, Main, Event

-----------------------------------------------------------------------------
(* Types                                                                     *)

\* A message on its way from the request to the reply.
LEMMA MessageFacts ==
  ASSUME NEW m \in Messages, NEW a \in {"counted", "reply"}
  PROVE  \E n \in Messages :
           /\ n = [m EXCEPT !.at = a] /\ n.at = a
           /\ n.client = m.client /\ n.stream = m.stream /\ n.by = m.by /\ n.round = m.round
<1> DEFINE n == [m EXCEPT !.at = a]
<1>1. n \in Messages
  BY DEF Messages
<1>2. /\ n.at = a
      /\ n.client = m.client /\ n.stream = m.stream /\ n.by = m.by /\ n.round = m.round
  BY DEF Messages
<1> QED
  BY <1>1, <1>2

\* What the service makes of a message.
LEMMA HandleFacts ==
  ASSUME msgs \subseteq Messages, NEW m \in msgs, Handle(m) \/ Reply(m)
  PROVE  /\ UNCHANGED <<running, pc, round, wg, link, answered, sessions, sessionNum>>
         /\ \E n \in Messages :
              /\ msgs' = (msgs \ {m}) \cup {n}
              /\ n.client = m.client /\ n.stream = m.stream /\ n.by = m.by /\ n.round = m.round
              /\ n.at # "sent"
              /\ \/ Cmd[m.client] = "echo" /\ m.at = "sent" /\ counter' = counter + 1
                 \/ Cmd[m.client] = "echo" /\ m.at # "sent" /\ counter' = counter
                 \/ Cmd[m.client] # "echo" /\ counter' = counter
<1>0. m \in Messages
  OBVIOUS
<1>1. CASE Reply(m)
  BY <1>0, <1>1, MessageFacts DEF Reply, service, client
<1>2. CASE Handle(m)
  <2>1. CASE Cmd[m.client] = "echo"
    BY <1>0, <1>2, <2>1, MessageFacts DEF Handle, client
  <2>2. CASE Cmd[m.client] # "echo"
    BY <1>0, <1>2, <2>2, MessageFacts DEF Handle, client
  <2> QED
    BY <2>1, <2>2
<1> QED
  BY <1>1, <1>2

LEMMA AskFacts ==
  ASSUME msgs \subseteq Messages, NEW c \in Clients, NEW t \in Threads, NEW r \in Int, Ask(c, t, r)
  PROVE  \E n \in Messages :
           /\ msgs' = msgs \cup {n} /\ n.at = "sent" /\ n.client = c
           /\ n.stream = t /\ n.by = t /\ n.round = r
<1> DEFINE n == [client |-> c, stream |-> StreamOf(t), by |-> t, round |-> r, at |-> "sent"]
<1>1. /\ n \in Messages /\ n.at = "sent" /\ n.client = c
      /\ n.stream = t /\ n.by = t /\ n.round = r
  BY DEF Messages, StreamOf
<1>2. msgs' = msgs \cup {n}
  BY DEF Ask
<1> QED
  BY <1>1, <1>2

LEMMA GotoType ==
  ASSUME pc \in [Clients -> [Threads -> States]],
         NEW c \in Clients, NEW t \in Threads, NEW l \in States, Goto(c, t, l)
  PROVE  pc' \in [Clients -> [Threads -> States]]
BY DEF Goto

LEMMA TypeStep ==
  ASSUME TypeOK, Next
  PROVE  TypeOK'
<1> USE DEF TypeOK, service, client
<1>0. /\ Main \in Threads /\ Event \in Threads /\ 1..Workers \subseteq Threads
      /\ 0 \in Int
  BY ThreadFacts
<1>00. /\ {"close", "spawn", "ended", "loop", "sent", "wait", "over", "recv", "wrongNumber"} \subseteq States
  BY DEF States
<1>1. PICK c \in Clients :
        \/ Discover(c) \/ Subscribe(c) \/ Spawn(c) \/ Wait(c) \/ Close(c)
        \/ RecvEvent(c) \/ Break(c) \/ Stop(c)
        \/ \E t \in Threads :
             \/ Loop(c, t) \/ Receive(c, t) \/ Fail(c, t) \/ OnNewStream(c, t)
             \/ \E m \in msgs : m.client = c /\ m.stream = t /\ (Handle(m) \/ Reply(m))
  BY Steps
<1>2. CASE Discover(c)
  <2>1. pc' \in [Clients -> [Threads -> States]]
    <3>1. CASE Goto(c, Main, "over")
      BY <1>0, <1>00, <3>1, GotoType
    <3>2. CASE pc' = [pc EXCEPT ![c][Main] = "loop",
                                ![c][Event] = IF Cmd[c] = "echo" THEN @ ELSE "subscribe"]
      BY <1>0, <3>2 DEF States
    <3> QED
      BY <1>2, <3>1, <3>2 DEF Discover
  <2> QED
    BY <1>2, <2>1 DEF Discover
<1>3. CASE Subscribe(c)
  BY <1>0, <1>00, <1>3, GotoType, AskFacts DEF Subscribe
<1>4. CASE Spawn(c)
  <2>1. pc' \in [Clients -> [Threads -> States]]
    BY <1>0, <1>00, <1>4, GotoType DEF Spawn
  <2>2. wg' \in [Clients -> Int]
    BY <1>4 DEF Spawn
  <2> QED
    BY <1>4, <2>1, <2>2 DEF Spawn
<1>5. CASE Wait(c) \/ Close(c) \/ RecvEvent(c)
  <2>1. pc' \in [Clients -> [Threads -> States]]
    BY <1>0, <1>00, <1>5, GotoType DEF Wait, Close, RecvEvent, EventLoop
  <2>2. link' \in [Clients -> {"none", "up", "closed", "broken"}]
    BY <1>5 DEF Wait, Close, RecvEvent
  <2> QED
    BY <1>5, <2>1, <2>2 DEF Wait, Close, RecvEvent
<1>6. CASE Break(c)
  BY <1>6 DEF Break
<1>61. CASE Stop(c)
  BY <1>61 DEF Stop
<1>7. ASSUME NEW t \in Threads, Loop(c, t) PROVE TypeOK'
  <2>1. pc' \in [Clients -> [Threads -> States]]
    BY <1>00, <1>7, GotoType DEF Loop, Leave
  <2>2. wg' \in [Clients -> Int]
    BY <1>7 DEF Loop, Leave
  <2>3. round[c][t] + 1 \in Int /\ round' \in [Clients -> [Threads -> Int]]
    BY <1>7 DEF Loop
  <2>4. msgs' \subseteq Messages
    BY <1>7, <2>3, AskFacts DEF Loop
  <2> QED
    BY <1>7, <2>1, <2>2, <2>3, <2>4 DEF Loop
<1>8. ASSUME NEW t \in Threads, Receive(c, t) PROVE TypeOK'
  <2>1. pc' \in [Clients -> [Threads -> States]]
    BY <1>00, <1>8, GotoType DEF Receive, EventLoop
  <2>2. msgs' \subseteq Messages /\ answered' \in Nat
    BY <1>8 DEF Receive
  <2> QED
    BY <1>8, <2>1, <2>2 DEF Receive
<1>9. ASSUME NEW t \in Threads, Fail(c, t) PROVE TypeOK'
  <2>1. pc' \in [Clients -> [Threads -> States]]
    BY <1>00, <1>9, GotoType DEF Fail, Leave
  <2>2. wg' \in [Clients -> Int]
    BY <1>9 DEF Fail, Leave
  <2> QED
    BY <1>9, <2>1, <2>2 DEF Fail
<1>10. ASSUME NEW t \in Threads, OnNewStream(c, t) PROVE TypeOK'
  BY <1>0, <1>10 DEF OnNewStream
<1>11. ASSUME NEW m \in msgs, Handle(m) \/ Reply(m) PROVE TypeOK'
  <2>1. PICK n \in Messages :
          /\ msgs' = (msgs \ {m}) \cup {n}
          /\ counter' = counter + 1 \/ counter' = counter
    BY <1>11, HandleFacts
  <2>2. msgs' \subseteq Messages
    BY <2>1
  <2>3. counter' \in Nat
    BY <2>1
  <2>4. UNCHANGED <<running, pc, round, wg, link, answered, sessions, sessionNum>>
    BY <1>11, HandleFacts
  <2> QED
    BY <2>2, <2>3, <2>4
<1> QED
  BY <1>1, <1>2, <1>3, <1>4, <1>5, <1>6, <1>61, <1>7, <1>8, <1>9, <1>10, <1>11
-----------------------------------------------------------------------------
(* The WaitGroup, and who is at work when                                    *)

\* Phases, of one client, with its variables as parameters.
Phase(p, g, l, r) ==
  LET work == {w \in 1..Workers : p[w] \notin {"none", "ended"}}
  IN  /\ g = Cardinality(work)
      /\ p[Main] \in {"discover", "loop", "sent", "close", "over"} => work = {}
      /\ p[Main] \in {"discover", "loop", "sent", "spawn", "wait", "close", "over"}
      /\ p[Main] = "discover" => l = "none"
      /\ l = "closed" => p[Main] = "over"
      /\ \A w \in 1..Workers : p[w] \in {"none", "loop", "sent", "ended"}
      /\ p[Event] \in {"none", "subscribe", "sent", "recv", "ended"}
      /\ r[Event] = 0

LEMMA PhaseOf ==
  /\ Phases <=> \A c \in Clients : Phase(pc[c], wg[c], link[c], round[c])
  /\ Phases' <=> \A c \in Clients : Phase(pc'[c], wg'[c], link'[c], round'[c])
BY DEF Phases, Phase, AtWork

LEMMA WorkIsFinite ==
  ASSUME NEW p
  PROVE  LET work == {w \in 1..Workers : p[w] \notin {"none", "ended"}}
         IN  IsFiniteSet(work) /\ Cardinality(work) \in Nat
<1>1. IsFiniteSet(1..Workers)
  BY FS_Interval, ClientAssumption
<1> DEFINE work == {w \in 1..Workers : p[w] \notin {"none", "ended"}}
<1>2. IsFiniteSet(work)
  BY <1>1, FS_Subset
<1> QED
  BY <1>2, FS_CardinalityType

\* A step of one thread, seen by its client.
LEMMA PhaseKept ==
  ASSUME NEW p \in [Threads -> States], NEW g \in Int, NEW l, NEW r \in [Threads -> Int],
         Phase(p, g, l, r), NEW t \in Threads, NEW s \in States
  PROVE  \* Start, within a phase
         /\ t = Main /\ l # "closed" /\ s \in {"over", "close", "loop", "sent"}
            /\ (p[Main] \in {"discover", "loop", "sent", "close"} \/ (p[Main] = "wait" /\ g = 0))
              => Phase([p EXCEPT ![t] = s], g, l, r)
         /\ t = Main /\ l # "closed" /\ s \in {"spawn", "wait"} => Phase([p EXCEPT ![t] = s], g, l, r)
         \* the event goroutine
         /\ t = Event /\ s \in {"sent", "recv", "ended"} => Phase([p EXCEPT ![t] = s], g, l, r)
         \* a worker goes on, begins, ends
         /\ t \in 1..Workers /\ p[t] \in {"loop", "sent"} /\ s \in {"loop", "sent"}
              => Phase([p EXCEPT ![t] = s], g, l, r)
         /\ t \in 1..Workers /\ p[t] = "none" /\ p[Main] = "spawn" /\ s = "loop"
              => Phase([p EXCEPT ![t] = s], g + 1, l, r)
         /\ t \in 1..Workers /\ p[t] \in {"loop", "sent"} /\ s = "ended"
              => Phase([p EXCEPT ![t] = s], g - 1, l, r)
<1> DEFINE q == [p EXCEPT ![t] = s]
           work == {w \in 1..Workers : p[w] \notin {"none", "ended"}}
           now == {w \in 1..Workers : q[w] \notin {"none", "ended"}}
<1>1. q[t] = s /\ \A u \in Threads \ {t} : q[u] = p[u]
  OBVIOUS
<1>2. IsFiniteSet(work) /\ g = Cardinality(work) /\ (g = 0 => work = {})
  BY WorkIsFinite, FS_EmptySet DEF Phase
<1>3. ASSUME t \notin 1..Workers PROVE now = work
  BY <1>1, <1>3, ThreadFacts
<1>4. ASSUME t \in 1..Workers, p[t] \in {"loop", "sent"}, s \in {"loop", "sent"} PROVE now = work
  BY <1>1, <1>4, ThreadFacts
<1>5. ASSUME t \in 1..Workers, p[t] = "none", s = "loop"
      PROVE  Cardinality(now) = g + 1
  <2>1. now = work \cup {t} /\ t \notin work
    BY <1>1, <1>5, ThreadFacts
  <2> QED
    BY <1>2, <2>1, FS_AddElement
<1>6. ASSUME t \in 1..Workers, p[t] \in {"loop", "sent"}, s = "ended"
      PROVE  Cardinality(now) = g - 1 /\ now \subseteq work
  <2>1. now = work \ {t} /\ t \in work
    BY <1>1, <1>6, ThreadFacts
  <2> HIDE DEF now, work
  <2>2. Cardinality(work \ {t}) = Cardinality(work) - 1
    BY <1>2, <2>1, FS_RemoveElement
  <2> QED
    BY <1>2, <2>1, <2>2
<1> HIDE DEF q, work, now
<1>7. Phase(p, g, l, r) <=>
        /\ g = Cardinality(work)
        /\ p[Main] \in {"discover", "loop", "sent", "close", "over"} => work = {}
        /\ p[Main] \in {"discover", "loop", "sent", "spawn", "wait", "close", "over"}
        /\ p[Main] = "discover" => l = "none"
        /\ l = "closed" => p[Main] = "over"
        /\ \A w \in 1..Workers : p[w] \in {"none", "loop", "sent", "ended"}
        /\ p[Event] \in {"none", "subscribe", "sent", "recv", "ended"}
        /\ r[Event] = 0
  BY DEF Phase, work
<1>8. \A h : Phase(q, h, l, r) <=>
        /\ h = Cardinality(now)
        /\ q[Main] \in {"discover", "loop", "sent", "close", "over"} => now = {}
        /\ q[Main] \in {"discover", "loop", "sent", "spawn", "wait", "close", "over"}
        /\ q[Main] = "discover" => l = "none"
        /\ l = "closed" => q[Main] = "over"
        /\ \A w \in 1..Workers : q[w] \in {"none", "loop", "sent", "ended"}
        /\ q[Event] \in {"none", "subscribe", "sent", "recv", "ended"}
        /\ r[Event] = 0
  BY DEF Phase, now
<1>9. CASE t = Main
  <2>1. now = work
    BY <1>3, <1>9, ThreadFacts
  <2>2. ASSUME l # "closed", s \in {"over", "close", "loop", "sent"},
               p[Main] \in {"discover", "loop", "sent", "close"} \/ (p[Main] = "wait" /\ g = 0)
        PROVE  Phase(q, g, l, r)
    BY <1>1, <1>2, <1>7, <1>8, <1>9, <2>1, <2>2, ThreadFacts
  <2>3. ASSUME l # "closed", s \in {"spawn", "wait"} PROVE Phase(q, g, l, r)
    BY <1>1, <1>7, <1>8, <1>9, <2>1, <2>3, ThreadFacts
  <2> QED
    BY <1>9, <2>2, <2>3, ThreadFacts DEF q
<1>10. CASE t = Event
  <2>1. now = work
    BY <1>3, <1>10, ThreadFacts
  <2>2. ASSUME s \in {"sent", "recv", "ended"} PROVE Phase(q, g, l, r)
    BY <1>1, <1>7, <1>8, <1>10, <2>1, <2>2, ThreadFacts
  <2> QED
    BY <1>10, <2>2, ThreadFacts DEF q
<1>11. CASE t \in 1..Workers
  <2>1. q[Main] = p[Main] /\ q[Event] = p[Event]
    BY <1>1, <1>11, ThreadFacts
  <2>2. ASSUME p[t] \in {"loop", "sent"}, s \in {"loop", "sent"} PROVE Phase(q, g, l, r)
    BY <1>1, <1>4, <1>7, <1>8, <1>11, <2>1, <2>2, ThreadFacts
  <2>3. ASSUME p[t] = "none", p[Main] = "spawn", s = "loop" PROVE Phase(q, g + 1, l, r)
    BY <1>1, <1>5, <1>7, <1>8, <1>11, <2>1, <2>3, ThreadFacts
  <2>4. ASSUME p[t] \in {"loop", "sent"}, s = "ended" PROVE Phase(q, g - 1, l, r)
    BY <1>1, <1>6, <1>7, <1>8, <1>11, <2>1, <2>4, ThreadFacts
  <2> QED
    BY <1>11, <2>2, <2>3, <2>4, ThreadFacts DEF q
<1> QED
  BY <1>9, <1>10, <1>11, ThreadFacts

\* A thread whose connection is up and that waits for a reply gets its own.
LEMMA OwnReply ==
  ASSUME TypeOK, OnePerStream, NEW c \in Clients, NEW t \in Threads, Receive(c, t)
  PROVE  Goto(c, t, IF t = Event THEN EventLoop(c) ELSE "loop")
BY ThreadFacts DEF Receive, OnePerStream, StreamOf, EventLoop

LEMMA PhasesStep ==
  ASSUME TypeOK, Phases, OnePerStream, Next
  PROVE  Phases'
<1>0. /\ pc \in [Clients -> [Threads -> States]] /\ round \in [Clients -> [Threads -> Int]]
      /\ wg \in [Clients -> Int] /\ link \in [Clients -> {"none", "up", "closed", "broken"}]
  BY DEF TypeOK
<1>00. /\ {"close", "spawn", "ended", "loop", "sent", "wait", "over", "recv"} \subseteq States
  BY DEF States
<1>1. PICK c \in Clients :
        \/ Discover(c) \/ Subscribe(c) \/ Spawn(c) \/ Wait(c) \/ Close(c)
        \/ RecvEvent(c) \/ Break(c) \/ Stop(c)
        \/ \E t \in Threads :
             \/ Loop(c, t) \/ Receive(c, t) \/ Fail(c, t) \/ OnNewStream(c, t)
             \/ \E m \in msgs : m.client = c /\ m.stream = t /\ (Handle(m) \/ Reply(m))
  BY Steps
<1>2. Phase(pc[c], wg[c], link[c], round[c])
  BY PhaseOf
\* It is enough to look at the client that steps.
<1>3. ASSUME \E p, g, l, r : /\ pc' = [pc EXCEPT ![c] = p] /\ wg' = [wg EXCEPT ![c] = g]
                             /\ link' = [link EXCEPT ![c] = l] /\ round' = [round EXCEPT ![c] = r]
                             /\ Phase(p, g, l, r)
      PROVE  Phases'
  BY <1>0, <1>3, PhaseOf
<1>4. /\ pc = [pc EXCEPT ![c] = pc[c]] /\ wg = [wg EXCEPT ![c] = wg[c]]
      /\ link = [link EXCEPT ![c] = link[c]] /\ round = [round EXCEPT ![c] = round[c]]
  BY <1>0
<1>5. /\ pc[c] \in [Threads -> States] /\ wg[c] \in Int /\ round[c] \in [Threads -> Int]
  BY <1>0
<1>6. CASE UNCHANGED <<pc, wg, link, round>>
  BY <1>2, <1>3, <1>4, <1>6
<1>7. CASE Break(c)
  <2>1. Phase(pc[c], wg[c], "broken", round[c])
    BY <1>2, <1>7 DEF Phase, Break
  <2> QED
    BY <1>3, <1>4, <1>7, <2>1 DEF Break
\* A thread that just goes on.
<1>8. ASSUME NEW t \in Threads, NEW s \in States, NEW g, Goto(c, t, s),
             Phase([pc[c] EXCEPT ![t] = s], g, link[c], round[c]),
             wg' = [wg EXCEPT ![c] = g], UNCHANGED <<link, round>>
      PROVE  Phases'
  BY <1>3, <1>4, <1>8 DEF Goto
<1> DEFINE Moves(t, s) == Goto(c, t, s) /\ UNCHANGED <<wg, link, round>>
<1>9. ASSUME pc[c][Main] = "discover", link' = [link EXCEPT ![c] = "up"],
             pc' = [pc EXCEPT ![c][Main] = "loop",
                              ![c][Event] = IF Cmd[c] = "echo" THEN @ ELSE "subscribe"],
             UNCHANGED <<wg, round>>
      PROVE  Phases'
  <2> DEFINE q == [pc[c] EXCEPT ![Main] = "loop",
                                ![Event] = IF Cmd[c] = "echo" THEN @ ELSE "subscribe"]
  <2>1. /\ q[Main] = "loop" /\ q[Event] \in {pc[c][Event], "subscribe"}
        /\ \A w \in 1..Workers : q[w] = pc[c][w]
    BY <1>5, ThreadFacts
  <2>2. pc' = [pc EXCEPT ![c] = q]
    BY <1>9, <1>5, ThreadFacts
  <2> HIDE DEF q
  <2>3. Phase(q, wg[c], "up", round[c])
    BY <1>2, <1>9, <2>1 DEF Phase
  <2> QED
    BY <1>3, <1>4, <1>9, <2>2, <2>3
<1>10. CASE Discover(c)
  <2>1. CASE Moves(Main, "over") /\ pc[c][Main] = "discover"
    <3>1. link[c] # "closed"
      BY <1>2, <2>1 DEF Phase
    <3>2. Phase([pc[c] EXCEPT ![Main] = "over"], wg[c], link[c], round[c])
      BY <1>00, <1>2, <1>5, <2>1, <3>1, PhaseKept, ThreadFacts
    <3> QED
      BY <1>00, <1>4, <1>8, <2>1, <3>2, ThreadFacts
  <2> QED
    BY <1>9, <1>10, <2>1 DEF Discover
<1>11. CASE Subscribe(c) \/ RecvEvent(c)
  <2>1. PICK s \in {"sent", "recv", "ended"} : Moves(Event, s)
    BY <1>11 DEF Subscribe, RecvEvent, EventLoop
  <2>2. Phase([pc[c] EXCEPT ![Event] = s], wg[c], link[c], round[c])
    BY <1>00, <1>2, <1>5, PhaseKept, ThreadFacts
  <2> QED
    BY <1>00, <1>4, <1>8, <2>1, <2>2, ThreadFacts
<1>12. CASE Spawn(c)
  <2>0. link[c] # "closed" /\ pc[c][Main] = "spawn"
    BY <1>2, <1>12 DEF Phase, Spawn
  <2>1. CASE Moves(Main, "wait")
    <3>1. Phase([pc[c] EXCEPT ![Main] = "wait"], wg[c], link[c], round[c])
      BY <1>00, <1>2, <1>5, <2>0, PhaseKept, ThreadFacts
    <3> QED
      BY <1>00, <1>4, <1>8, <2>1, <3>1, ThreadFacts
  <2>2. ASSUME NEW w \in 1..Workers, pc[c][w] = "none", Goto(c, w, "loop"),
               wg' = [wg EXCEPT ![c] = @ + 1], UNCHANGED <<link, round>>
        PROVE  Phases'
    <3>1. Phase([pc[c] EXCEPT ![w] = "loop"], wg[c] + 1, link[c], round[c])
      BY <1>00, <1>2, <1>5, <2>0, <2>2, PhaseKept, ThreadFacts
    <3> QED
      BY <1>00, <1>8, <2>2, <3>1, ThreadFacts
  <2> QED
    BY <1>12, <2>1, <2>2 DEF Spawn
<1>13. CASE Wait(c)
  <2>1. link[c] # "closed" /\ pc[c][Main] = "wait" /\ wg[c] = 0 /\ Moves(Main, "close")
    BY <1>2, <1>13 DEF Phase, Wait
  <2>2. Phase([pc[c] EXCEPT ![Main] = "close"], wg[c], link[c], round[c])
    BY <1>00, <1>2, <1>5, <2>1, PhaseKept, ThreadFacts
  <2> QED
    BY <1>00, <1>4, <1>8, <2>1, <2>2, ThreadFacts
<1>14. CASE Close(c)
  <2>1. link[c] # "closed" /\ pc[c][Main] = "close"
    BY <1>2, <1>14 DEF Phase, Close
  <2> DEFINE q == [pc[c] EXCEPT ![Main] = "over"]
  <2>2. Phase(q, wg[c], link[c], round[c]) /\ q[Main] = "over"
    BY <1>00, <1>2, <1>5, <2>1, PhaseKept, ThreadFacts
  <2>3. pc' = [pc EXCEPT ![c] = q] /\ UNCHANGED <<wg, round>>
    BY <1>14 DEF Close, Goto
  <2>4. PICK l : link' = [link EXCEPT ![c] = l]
    BY <1>14 DEF Close
  <2> HIDE DEF q
  <2>5. Phase(q, wg[c], l, round[c])
    BY <2>2 DEF Phase
  <2> QED
    BY <1>3, <1>4, <2>3, <2>4, <2>5
<1>15. ASSUME NEW t \in Threads, Receive(c, t) PROVE Phases'
  <2>1. pc[c][t] = "sent" /\ link[c] # "closed" /\ UNCHANGED <<wg, link, round>>
    BY <1>15 DEF Receive
  <2>2. PICK s \in {"loop", "recv", "ended"} : Moves(t, s) /\ (t # Event => s = "loop") /\ (t = Event => s # "loop")
    BY <1>15, <2>1, OwnReply DEF EventLoop
  <2>3. Phase([pc[c] EXCEPT ![t] = s], wg[c], link[c], round[c])
    BY <1>00, <1>2, <1>5, <2>1, <2>2, PhaseKept, ThreadFacts
  <2> QED
    BY <1>00, <1>4, <1>8, <2>2, <2>3
<1>16. ASSUME NEW t \in Threads, NEW l \in {"close", "spawn"},
              pc[c][t] \in {"loop", "sent", "subscribe", "recv"}, Leave(c, t, l), UNCHANGED <<link, round>>
       PROVE  Phases'
  <2>1. CASE t = Main
    <3>1. link[c] # "closed" /\ pc[c][Main] \in {"loop", "sent"}
      BY <1>2, <1>16, <2>1 DEF Phase
    <3>2. Moves(Main, l)
      BY <1>0, <1>16, <2>1, ThreadFacts DEF Leave
    <3>3. Phase([pc[c] EXCEPT ![Main] = l], wg[c], link[c], round[c])
      BY <1>00, <1>2, <1>5, <3>1, PhaseKept, ThreadFacts
    <3> QED
      BY <1>00, <1>4, <1>8, <3>2, <3>3, ThreadFacts
  <2>2. CASE t = Event
    <3>1. Moves(Event, "ended")
      BY <1>0, <1>16, <2>2, ThreadFacts DEF Leave
    <3>2. Phase([pc[c] EXCEPT ![Event] = "ended"], wg[c], link[c], round[c])
      BY <1>00, <1>2, <1>5, PhaseKept, ThreadFacts
    <3> QED
      BY <1>00, <1>4, <1>8, <3>1, <3>2, ThreadFacts
  <2>3. CASE t \in 1..Workers
    <3>1. pc[c][t] \in {"loop", "sent"}
      BY <1>2, <1>16, <2>3 DEF Phase
    <3>2. Goto(c, t, "ended") /\ wg' = [wg EXCEPT ![c] = wg[c] - 1]
      BY <1>16, <2>3, ThreadFacts DEF Leave
    <3>3. Phase([pc[c] EXCEPT ![t] = "ended"], wg[c] - 1, link[c], round[c])
      BY <1>00, <1>2, <1>5, <2>3, <3>1, PhaseKept
    <3> QED
      BY <1>00, <1>8, <1>16, <3>2, <3>3
  <2> QED
    BY <2>1, <2>2, <2>3, ThreadFacts
<1>17. ASSUME NEW t \in Threads, Loop(c, t) PROVE Phases'
  <2>1. pc[c][t] = "loop" /\ t # Event /\ UNCHANGED link
    BY <1>2, <1>17 DEF Phase, Loop
  <2>2. CASE /\ Goto(c, t, "sent") /\ UNCHANGED wg /\ link[c] = "up"
             /\ round' = [round EXCEPT ![c][t] = @ + 1]
    <3> DEFINE r == [round[c] EXCEPT ![t] = @ + 1]
               q == [pc[c] EXCEPT ![t] = "sent"]
    <3>1. Phase(q, wg[c], link[c], round[c])
      BY <1>00, <1>2, <1>5, <2>1, <2>2, PhaseKept, ThreadFacts
    <3>2. r[Event] = round[c][Event]
      BY <1>5, <2>1, ThreadFacts
    <3>3. pc' = [pc EXCEPT ![c] = q] /\ round' = [round EXCEPT ![c] = r]
      BY <2>2 DEF Goto
    <3> HIDE DEF q, r
    <3>4. Phase(q, wg[c], link[c], r)
      BY <3>1, <3>2 DEF Phase
    <3> QED
      BY <1>3, <1>4, <2>1, <2>2, <3>3, <3>4
  <2> QED
    BY <1>16, <1>17, <2>1, <2>2 DEF Loop
<1>18. ASSUME NEW t \in Threads, Fail(c, t) PROVE Phases'
  BY <1>16, <1>18 DEF Fail
<1>19. CASE Stop(c)
  BY <1>6, <1>19 DEF Stop
<1>20. ASSUME NEW t \in Threads, OnNewStream(c, t) PROVE Phases'
  BY <1>6, <1>20 DEF OnNewStream, client
<1>21. ASSUME NEW m \in msgs, Handle(m) \/ Reply(m) PROVE Phases'
  BY <1>6, <1>21, HandleFacts DEF TypeOK
<1> QED
  BY <1>1, <1>7, <1>10, <1>11, <1>12, <1>13, <1>14, <1>15, <1>17, <1>18, <1>19, <1>20, <1>21

-----------------------------------------------------------------------------
(* One message on a stream                                                   *)

\* No new message, and what there was is as it should be.
LEMMA StillOne ==
  ASSUME OnePerStream, msgs' \subseteq msgs,
         \A m \in msgs' :
           /\ link'[m.client] # "none"
           /\ link'[m.client] = "up" =>
                pc'[m.client][m.stream] = "sent" /\ m.round = round'[m.client][m.stream]
  PROVE  OnePerStream'
<1>1. IsFiniteSet(msgs')
  BY FS_Subset DEF OnePerStream
<1> QED
  BY <1>1 DEF OnePerStream

\* A thread goes on that waits for nothing on this connection.
LEMMA OthersWait ==
  ASSUME TypeOK, OnePerStream, NEW c \in Clients, NEW t \in Threads, NEW s, Goto(c, t, s),
         link[c] # "up" \/ pc[c][t] # "sent", UNCHANGED <<round, msgs>>,
         (\/ UNCHANGED link
          \/ \E l : link' = [link EXCEPT ![c] = l] /\ l # "none" /\ (l = "up" => link[c] = "up"))
  PROVE  OnePerStream'
<1>1. ASSUME NEW m \in msgs
      PROVE  /\ link'[m.client] # "none"
             /\ link'[m.client] = "up" =>
                  pc'[m.client][m.stream] = "sent" /\ m.round = round'[m.client][m.stream]
  <2>1. /\ m.client \in Clients /\ m.stream \in Threads
    BY DEF TypeOK, Messages
  <2>2. /\ pc \in [Clients -> [Threads -> States]] /\ link \in [Clients -> {"none", "up", "closed", "broken"}]
    BY DEF TypeOK
  <2>3. link'[m.client] # "none" /\ (link'[m.client] = "up" => link[m.client] = "up")
    BY <2>1, <2>2 DEF OnePerStream
  <2>4. link[m.client] = "up" => m.client # c \/ m.stream # t
    BY DEF OnePerStream
  <2>5. m.client # c \/ m.stream # t => pc'[m.client][m.stream] = pc[m.client][m.stream]
    BY <2>1, <2>2 DEF Goto
  <2> QED
    BY <2>3, <2>4, <2>5 DEF OnePerStream
<1> QED
  BY <1>1, StillOne

\* A thread sends a request on a stream with none.
LEMMA AsksOnce ==
  ASSUME TypeOK, OnePerStream, NEW c \in Clients, NEW t \in Threads, NEW r \in Int,
         link[c] = "up", pc[c][t] # "sent", Ask(c, t, r), Goto(c, t, "sent"),
         round' = [round EXCEPT ![c][t] = r], UNCHANGED link
  PROVE  OnePerStream'
<1>1. PICK n \in Messages :
        /\ msgs' = msgs \cup {n} /\ n.at = "sent" /\ n.client = c
        /\ n.stream = t /\ n.by = t /\ n.round = r
  BY AskFacts DEF TypeOK
<1>2. /\ pc \in [Clients -> [Threads -> States]] /\ round \in [Clients -> [Threads -> Int]]
  BY DEF TypeOK
<1>3. \A m \in msgs : /\ m.client \in Clients /\ m.stream \in Threads
                      /\ m.client # c \/ m.stream # t
  BY DEF TypeOK, Messages, OnePerStream
<1>4. /\ pc'[c][t] = "sent" /\ round'[c][t] = r
      /\ \A d \in Clients, u \in Threads :
           d # c \/ u # t => pc'[d][u] = pc[d][u] /\ round'[d][u] = round[d][u]
  BY <1>2 DEF Goto
<1>5. IsFiniteSet(msgs')
  BY <1>1, FS_AddElement DEF OnePerStream
<1>6. \A m \in msgs' :
        /\ m.by = m.stream /\ link'[m.client] # "none"
        /\ link'[m.client] = "up" =>
             pc'[m.client][m.stream] = "sent" /\ m.round = round'[m.client][m.stream]
  BY <1>1, <1>3, <1>4 DEF OnePerStream
<1>7. \A m, k \in msgs' : m.client = k.client /\ m.stream = k.stream => m = k
  BY <1>1, <1>3 DEF OnePerStream
<1> QED
  BY <1>5, <1>6, <1>7 DEF OnePerStream

LEMMA OnePerStreamStep ==
  ASSUME TypeOK, Phases, OnePerStream, Next
  PROVE  OnePerStream'
<1>0. /\ pc \in [Clients -> [Threads -> States]] /\ round \in [Clients -> [Threads -> Int]]
      /\ link \in [Clients -> {"none", "up", "closed", "broken"}]
      /\ msgs \subseteq Messages
  BY DEF TypeOK
<1>1. PICK c \in Clients :
        \/ Discover(c) \/ Subscribe(c) \/ Spawn(c) \/ Wait(c) \/ Close(c)
        \/ RecvEvent(c) \/ Break(c) \/ Stop(c)
        \/ \E t \in Threads :
             \/ Loop(c, t) \/ Receive(c, t) \/ Fail(c, t) \/ OnNewStream(c, t)
             \/ \E m \in msgs : m.client = c /\ m.stream = t /\ (Handle(m) \/ Reply(m))
  BY Steps
<1>2. \A m \in msgs : m.client \in Clients /\ m.stream \in Threads
  BY <1>0 DEF Messages
<1>3. CASE UNCHANGED <<pc, round, link, msgs>>
  BY <1>3, StillOne DEF OnePerStream
<1>4. CASE Discover(c)
  <2>1. link[c] = "none"
    BY <1>4 DEF Discover, Phases
  <2>2. \A m \in msgs : m.client # c
    BY <2>1 DEF OnePerStream
  <2>3. \A d \in Clients : d # c => pc'[d] = pc[d] /\ link'[d] = link[d]
    BY <1>0, <1>4, ThreadFacts DEF Discover, Goto
  <2> QED
    BY <1>2, <1>4, <2>2, <2>3, StillOne DEF Discover, OnePerStream
<1>5. CASE Subscribe(c)
  <2>1. round[c][Event] = 0
    BY DEF Phases
  <2>2. [round[c] EXCEPT ![Event] = 0] = round[c]
    BY <1>0, <2>1, ThreadFacts
  <2>3. round' = [round EXCEPT ![c][Event] = 0]
    BY <1>0, <1>5, <2>2 DEF Subscribe
  <2>4. /\ link[c] = "up" /\ pc[c][Event] # "sent" /\ Ask(c, Event, 0) /\ Goto(c, Event, "sent")
        /\ UNCHANGED link /\ Event \in Threads /\ 0 \in Int
    BY <1>5, ThreadFacts DEF Subscribe
  <2> QED
    BY <2>3, <2>4, AsksOnce
<1>6. CASE Spawn(c)
  BY <1>6, OthersWait, ThreadFacts DEF Spawn
<1>7. CASE Wait(c) \/ RecvEvent(c)
  BY <1>7, OthersWait, ThreadFacts DEF Wait, RecvEvent
<1>8. CASE Close(c)
  <2>1. \/ UNCHANGED link
        \/ \E l : link' = [link EXCEPT ![c] = l] /\ l # "none" /\ (l = "up" => link[c] = "up")
    <3>1. CASE link[c] = "none"
      BY <1>0, <1>8, <3>1 DEF Close
    <3> QED
      BY <1>0, <1>8, <3>1 DEF Close
  <2> QED
    BY <1>8, <2>1, OthersWait, ThreadFacts DEF Close
<1>9. CASE Break(c)
  BY <1>0, <1>2, <1>9, StillOne DEF Break, OnePerStream
<1>10. CASE Stop(c)
  BY <1>3, <1>10 DEF Stop
<1>11. ASSUME NEW t \in Threads, Loop(c, t) PROVE OnePerStream'
  <2>1. CASE link[c] = "up" /\ Ask(c, t, round[c][t] + 1) /\ Goto(c, t, "sent")
             /\ round' = [round EXCEPT ![c][t] = @ + 1]
    <3>1. round[c][t] + 1 \in Int /\ round' = [round EXCEPT ![c][t] = round[c][t] + 1]
      BY <1>0, <2>1
    <3> QED
      BY <1>11, <2>1, <3>1, AsksOnce DEF Loop
  <2>2. CASE UNCHANGED <<msgs, round>> /\ \E l \in {"close", "spawn"} : Leave(c, t, l)
    BY <1>11, <2>2, OthersWait DEF Loop, Leave
  <2> QED
    BY <1>11, <2>1, <2>2 DEF Loop
<1>12. ASSUME NEW t \in Threads, Receive(c, t) PROVE OnePerStream'
  <2>1. PICK s : Goto(c, t, s)
    BY <1>12, OwnReply
  <2>2. PICK m \in msgs : m.client = c /\ m.stream = t /\ msgs' = msgs \ {m}
    BY <1>12 DEF Receive, StreamOf
  <2>3. \A k \in msgs' : k.client # c \/ k.stream # t
    BY <2>2 DEF OnePerStream
  <2>4. \A d \in Clients, u \in Threads : d # c \/ u # t => pc'[d][u] = pc[d][u]
    BY <1>0, <2>1 DEF Goto
  <2> QED
    BY <1>2, <1>12, <2>2, <2>3, <2>4, StillOne DEF Receive, OnePerStream
<1>13. ASSUME NEW t \in Threads, Fail(c, t) PROVE OnePerStream'
  BY <1>13, OthersWait DEF Fail, Leave
<1>14. ASSUME NEW t \in Threads, OnNewStream(c, t) PROVE OnePerStream'
  BY <1>3, <1>14 DEF OnNewStream, client
<1>15. ASSUME NEW m \in msgs, Handle(m) \/ Reply(m) PROVE OnePerStream'
  <2>1. UNCHANGED <<pc, round, link>>
    BY <1>0, <1>15, HandleFacts
  <2>2. PICK n \in Messages :
          /\ msgs' = (msgs \ {m}) \cup {n}
          /\ n.client = m.client /\ n.stream = m.stream /\ n.by = m.by /\ n.round = m.round
    BY <1>0, <1>15, HandleFacts
  <2>3. IsFiniteSet(msgs')
    BY <2>2, FS_AddElement, FS_RemoveElement DEF OnePerStream
  <2>4. \A k \in msgs' :
          /\ k.by = k.stream /\ link'[k.client] # "none"
          /\ link'[k.client] = "up" =>
               pc'[k.client][k.stream] = "sent" /\ k.round = round'[k.client][k.stream]
    BY <2>1, <2>2 DEF OnePerStream
  <2>5. \A j, k \in msgs' : j.client = k.client /\ j.stream = k.stream => j = k
    BY <2>2 DEF OnePerStream
  <2> QED
    BY <2>3, <2>4, <2>5 DEF OnePerStream
<1> QED
  BY <1>1, <1>4, <1>5, <1>6, <1>7, <1>8, <1>9, <1>10, <1>11, <1>12, <1>13, <1>14, <1>15
-----------------------------------------------------------------------------
(* The numbers of sessions                                                   *)

LEMMA NumbersStep ==
  ASSUME TypeOK, Numbers, SessionsUnique, Next
  PROVE  Numbers' /\ SessionsUnique'
<1>1. PICK c \in Clients :
        \/ Discover(c) \/ Subscribe(c) \/ Spawn(c) \/ Wait(c) \/ Close(c)
        \/ RecvEvent(c) \/ Break(c) \/ Stop(c)
        \/ \E t \in Threads :
             \/ Loop(c, t) \/ Receive(c, t) \/ Fail(c, t) \/ OnNewStream(c, t)
             \/ \E m \in msgs : m.client = c /\ m.stream = t /\ (Handle(m) \/ Reply(m))
  BY Steps
<1>2. CASE UNCHANGED <<sessions, sessionNum>>
  BY <1>2 DEF Numbers, SessionsUnique
<1>3. ASSUME NEW t \in Threads, OnNewStream(c, t) PROVE Numbers' /\ SessionsUnique'
  <2>1. /\ sessionNum' = sessionNum + 1 /\ sessions' = sessions \cup {<<c, t, sessionNum + 1>>}
    BY <1>3 DEF OnNewStream
  <2>2. sessionNum \in Nat /\ \A x \in sessions : x[3] \in 1..sessionNum
    BY DEF TypeOK, Numbers
  <2>3. <<c, t, sessionNum + 1>>[3] = sessionNum + 1
    OBVIOUS
  <2>4. \A x \in sessions : x[3] \in 1..(sessionNum + 1) /\ x[3] # sessionNum + 1
    BY <2>2
  <2>5. \A x \in sessions' : x[3] \in 1..sessionNum'
    BY <2>1, <2>2, <2>3, <2>4
  <2>6. \A x, y \in sessions' : x[3] = y[3] => x = y
    BY <2>1, <2>3, <2>4 DEF SessionsUnique
  <2> QED
    BY <2>5, <2>6 DEF Numbers, SessionsUnique
<1>4. ASSUME NEW m \in msgs, Handle(m) \/ Reply(m) PROVE UNCHANGED <<sessions, sessionNum>>
  BY <1>4, HandleFacts DEF TypeOK
<1> QED
  BY <1>1, <1>2, <1>3, <1>4
     DEF Discover, Subscribe, Spawn, Wait, Close, RecvEvent, Break, Stop, Loop, Receive, Fail, service
-----------------------------------------------------------------------------
(* The count                                                                 *)

LEMMA CountedStep ==
  ASSUME TypeOK, OnePerStream, CountedOnce, Next
  PROVE  CountedOnce'
<1> DEFINE begun == {m \in msgs : Cmd[m.client] = "echo" /\ m.at # "sent"}
<1>0. /\ msgs \subseteq Messages /\ answered \in Nat /\ counter \in Nat
      /\ IsFiniteSet(begun) /\ Cardinality(begun) \in Nat
  BY FS_Subset, FS_CardinalityType DEF TypeOK, OnePerStream
<1>1. PICK c \in Clients :
        \/ Discover(c) \/ Subscribe(c) \/ Spawn(c) \/ Wait(c) \/ Close(c)
        \/ RecvEvent(c) \/ Break(c) \/ Stop(c)
        \/ \E t \in Threads :
             \/ Loop(c, t) \/ Receive(c, t) \/ Fail(c, t) \/ OnNewStream(c, t)
             \/ \E m \in msgs : m.client = c /\ m.stream = t /\ (Handle(m) \/ Reply(m))
  BY Steps
<1>2. ASSUME counter' = answered' + Cardinality(begun') PROVE CountedOnce'
  BY <1>2 DEF CountedOnce
<1>3. CASE UNCHANGED <<msgs, counter, answered>>
  BY <1>3 DEF CountedOnce
<1>4. ASSUME NEW t \in Threads, NEW r \in Int, Ask(c, t, r), UNCHANGED <<counter, answered>>
      PROVE  CountedOnce'
  <2>1. PICK n \in Messages : msgs' = msgs \cup {n} /\ n.at = "sent"
    BY <1>0, <1>4, AskFacts
  <2>2. begun' = begun
    BY <2>1
  <2> QED
    BY <1>2, <1>4, <2>2 DEF CountedOnce
<1>5. ASSUME NEW t \in Threads, Receive(c, t) PROVE CountedOnce'
  <2>1. PICK m \in msgs : m.client = c /\ m.at = "reply" /\ msgs' = msgs \ {m}
    BY <1>5 DEF Receive
  <2>2. counter' = counter /\ answered' = IF Cmd[c] = "echo" THEN answered + 1 ELSE answered
    BY <1>5 DEF Receive, service
  <2>3. CASE Cmd[c] = "echo"
    <3>1. begun' = begun \ {m} /\ m \in begun
      BY <2>1, <2>3
    <3>2. counter = answered + Cardinality(begun)
      BY DEF CountedOnce
    <3>3. begun' = begun \ {m} => Cardinality(begun') = Cardinality(begun) - 1
      <4> HIDE DEF begun
      <4>1. Cardinality(begun \ {m}) = Cardinality(begun) - 1
        BY <1>0, <3>1, FS_RemoveElement
      <4> QED
        BY <4>1
    <3> QED
      BY <1>0, <1>2, <2>2, <2>3, <3>1, <3>2, <3>3
  <2>4. CASE Cmd[c] # "echo"
    <3>1. begun' = begun
      BY <2>1, <2>4
    <3> QED
      BY <1>2, <2>2, <2>4, <3>1 DEF CountedOnce
  <2> QED
    BY <2>3, <2>4
<1>6. ASSUME NEW m \in msgs, Handle(m) \/ Reply(m) PROVE CountedOnce'
  <2>1. PICK n \in Messages :
          /\ msgs' = (msgs \ {m}) \cup {n}
          /\ n.client = m.client /\ n.stream = m.stream /\ n.at # "sent"
          /\ \/ Cmd[m.client] = "echo" /\ m.at = "sent" /\ counter' = counter + 1
             \/ Cmd[m.client] = "echo" /\ m.at # "sent" /\ counter' = counter
             \/ Cmd[m.client] # "echo" /\ counter' = counter
    BY <1>0, <1>6, HandleFacts
  <2>2. answered' = answered
    BY <1>0, <1>6, HandleFacts
  <2>3. n \in msgs => n = m
    BY <2>1 DEF OnePerStream
  <2>4. CASE Cmd[m.client] = "echo" /\ m.at = "sent" /\ counter' = counter + 1
    <3>1. begun' = begun \cup {n} /\ n \notin begun
      BY <2>1, <2>3, <2>4
    <3>2. Cardinality(begun') = Cardinality(begun) + 1
      BY <1>0, <3>1, FS_AddElement
    <3> QED
      BY <1>0, <1>2, <2>2, <2>4, <3>2 DEF CountedOnce
  <2>5. CASE Cmd[m.client] = "echo" /\ m.at # "sent" /\ counter' = counter
    <3>1. begun' = (begun \ {m}) \cup {n} /\ m \in begun /\ n \notin begun \ {m}
      BY <2>1, <2>3, <2>5
    <3>2. ASSUME NEW b, IsFiniteSet(b), m \in b, n \notin b \ {m}
          PROVE  Cardinality((b \ {m}) \cup {n}) = Cardinality(b)
      <4>1. IsFiniteSet(b \ {m}) /\ Cardinality(b \ {m}) = Cardinality(b) - 1
        BY <3>2, FS_RemoveElement
      <4>2. Cardinality((b \ {m}) \cup {n}) = Cardinality(b \ {m}) + 1
        BY <3>2, <4>1, FS_AddElement
      <4> QED
        BY <3>2, <4>1, <4>2, FS_CardinalityType
    <3>3. Cardinality(begun') = Cardinality(begun)
      BY <1>0, <3>1, <3>2
    <3> QED
      BY <1>2, <2>2, <2>5, <3>3 DEF CountedOnce
  <2>6. CASE Cmd[m.client] # "echo" /\ counter' = counter
    <3>1. begun' = begun
      BY <2>1, <2>6
    <3> QED
      BY <1>2, <2>2, <2>6, <3>1 DEF CountedOnce
  <2> QED
    BY <2>1, <2>4, <2>5, <2>6
<1>7. ASSUME NEW t \in Threads, Loop(c, t) PROVE CountedOnce'
  <2>1. round[c][t] + 1 \in Int
    BY DEF TypeOK
  <2> QED
    BY <1>3, <1>4, <1>7, <2>1 DEF Loop, service
<1>8. CASE Subscribe(c)
  BY <1>4, <1>8, ThreadFacts DEF Subscribe, service
<1> QED
  BY <1>1, <1>3, <1>5, <1>6, <1>7, <1>8
     DEF Discover, Spawn, Wait, Close, RecvEvent, Break, Stop, Fail, OnNewStream, service, client
-----------------------------------------------------------------------------
(* The invariant                                                             *)

LEMMA FromPhases ==
  ASSUME Phases
  PROVE  ClosedUnderNoWorker /\ NoWrongNumber
BY ThreadFacts DEF Phases, ClosedUnderNoWorker, NoWrongNumber

LEMMA FromPhasesNext ==
  ASSUME Phases'
  PROVE  ClosedUnderNoWorker' /\ NoWrongNumber'
BY ThreadFacts, ZenonT(60) DEF Phases, ClosedUnderNoWorker, NoWrongNumber, AtWork

LEMMA Initially ==
  ASSUME Init
  PROVE  IInv
<1>1. TypeOK
  BY ThreadFacts DEF Init, TypeOK, States
<1>2. \A c \in Clients :
        /\ pc[c][Main] = "discover" /\ pc[c][Event] = "none"
        /\ \A w \in 1..Workers : pc[c][w] = "none"
  BY ThreadFacts DEF Init
<1>3. \A c \in Clients : AtWork(c) = {}
  BY <1>2 DEF AtWork
<1>4. Phases
  BY <1>2, <1>3, FS_EmptySet, ThreadFacts DEF Init, Phases
<1>5. OnePerStream /\ Numbers /\ SessionsUnique
  BY FS_EmptySet DEF Init, OnePerStream, Numbers, SessionsUnique
<1>6. CountedOnce
  <2>1. {m \in msgs : Cmd[m.client] = "echo" /\ m.at # "sent"} = {}
    BY DEF Init
  <2> QED
    BY <2>1, FS_EmptySet DEF Init, CountedOnce
<1> QED
  BY <1>1, <1>4, <1>5, <1>6, FromPhases DEF IInv

\* For any clients, workers and loop bounds: the WaitGroup counts the workers at work,
\* no stream has two messages, session numbers are unique, the connection is closed
\* under no worker, and no worker is brought down by a number that is not its own.
THEOREM ClientInvariance == Spec => []IInv
<1>1. Init => IInv
  BY Initially
<1>2. IInv /\ [Next]_vars => IInv'
  <2>1. ASSUME IInv, Next PROVE IInv'
    <3>1. TypeOK'
      BY <2>1, TypeStep DEF IInv
    <3>2. Phases' /\ OnePerStream'
      BY <2>1, PhasesStep, OnePerStreamStep DEF IInv
    <3>3. Numbers' /\ SessionsUnique' /\ CountedOnce'
      BY <2>1, NumbersStep, CountedStep DEF IInv
    <3>4. ClosedUnderNoWorker' /\ NoWrongNumber'
      BY <3>2, FromPhasesNext
    <3> QED
      BY <3>1, <3>2, <3>3, <3>4 DEF IInv
  <2>2. ASSUME IInv, UNCHANGED vars PROVE IInv'
    <3> USE DEF vars
    <3>1. TypeOK' /\ Numbers' /\ SessionsUnique' /\ CountedOnce'
      BY <2>2 DEF IInv, TypeOK, Numbers, SessionsUnique, CountedOnce
    <3>2. Phases'
      BY <2>2 DEF IInv, Phases, AtWork
    <3>3. OnePerStream'
      BY <2>2 DEF IInv, OnePerStream
    <3>4. ClosedUnderNoWorker' /\ NoWrongNumber'
      BY <3>2, FromPhasesNext
    <3> QED
      BY <3>1, <3>2, <3>3, <3>4 DEF IInv
  <2> QED
    BY <2>1, <2>2
<1> QED
  BY <1>1, <1>2, PTL DEF Spec

\* The client's check of the number it is sent back (echoclient.go:49) never fails:
\* replies are not mixed up between the streams of a connection.
THEOREM NumbersAreRight == Spec => []NoWrongNumber
<1>1. IInv => NoWrongNumber
  BY DEF IInv
<1> QED
  BY <1>1, ClientInvariance, PTL

\* The service counts each echo request it begins to handle once (handlers.go:15).
THEOREM EachCountedOnce == Spec => []CountedOnce
<1>1. IInv => CountedOnce
  BY DEF IInv
<1> QED
  BY <1>1, ClientInvariance, PTL
=============================================================================
