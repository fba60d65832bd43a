----------------------------- MODULE EchoClient -----------------------------
(***************************************************************************)
(* Runs of the echo client (echo/client/echoclient.go) and what the echo   *)
(* service does with their requests: the naming of sessions and the        *)
(* Request handler's counter (echo/server.go, echo/handlers.go).           *)
(*                                                                         *)
(* A client is a process.  Its threads are the one that runs Start, the    *)
(* workers of doEcho and the event goroutine of doWhoelse; each talks on a *)
(* stream of its own of the one connection.  EchoServer says which events  *)
(* a subscriber is sent; here they just come.                              *)
(***************************************************************************)
EXTENDS Integers, FiniteSets

CONSTANTS
  Clients,
  Cmd,      \* what each does: "echo" or "whoelse"
  Workers,  \* number of workers of doEcho: 10 in the code
  Rounds    \* requests each sends in a loop: 9 or 200 in the code

ASSUME ClientAssumption ==
  /\ Cmd \in [Clients -> {"echo", "whoelse"}]
  /\ Workers \in Nat \ {0} /\ Rounds \in [Clients -> Nat]

Main == 0
Event == -1
Threads == -1..Workers

VARIABLES
  running,     \* the global of each process
  pc,          \* what each thread does next
  round,       \* requests it has sent in its loop
  wg,          \* the WaitGroup of doEcho
  link,        \* the connection: "none", "up", "closed" by the client, "broken"
  msgs,        \* requests and replies under way
  sessions,    \* the numbers the service has given streams
  sessionNum,
  counter,
  answered     \* history: replies to echo requests that clients have received

vars == <<running, pc, round, wg, link, msgs, sessions, sessionNum, counter, answered>>
service == <<sessions, sessionNum, counter>>

Init ==
  /\ running = [c \in Clients |-> TRUE]
  /\ pc = [c \in Clients |-> [t \in Threads |-> IF t = Main THEN "discover" ELSE "none"]]
  /\ round = [c \in Clients |-> [t \in Threads |-> 0]]
  /\ wg = [c \in Clients |-> 0]
  /\ link = [c \in Clients |-> "none"]
  /\ msgs = {} /\ sessions = {}
  /\ sessionNum = 0 /\ counter = 0 /\ answered = 0

Goto(c, t, l) == pc' = [pc EXCEPT ![c][t] = l]

-----------------------------------------------------------------------------
(* The client                                                                *)

\* Start: the service is found, or not within three seconds.  doWhoelse begins with
\* the start of the event goroutine.
Discover(c) ==
  /\ pc[c][Main] = "discover"
  /\ \/ /\ link' = [link EXCEPT ![c] = "up"]
        /\ pc' = [pc EXCEPT ![c][Main] = "loop",
                            ![c][Event] = IF Cmd[c] = "echo" THEN @ ELSE "subscribe"]
     \/ Goto(c, Main, "over") /\ UNCHANGED link
  /\ UNCHANGED <<running, round, wg, msgs, service, answered>>

\* A worker ends with wg.Done; Start goes on after its loop, or leaves doEcho or
\* doWhoelse at an error.
Leave(c, t, next) ==
  /\ Goto(c, t, IF t = Main THEN next ELSE "ended")
  /\ wg' = [wg EXCEPT ![c] = IF t \in 1..Workers THEN @ - 1 ELSE @]

SharedStream(t) ==    \* mutant: one stream for all workers
  IF t = Main THEN Main ELSE 1

\* conn itself is the stream of Start, the others call conn.NewStream.
StreamOf(t) == t

\* The sending half of SendRecv.
Ask(c, t, r) ==
  msgs' = msgs \cup {[client |-> c, stream |-> StreamOf(t), by |-> t, round |-> r, at |-> "sent"]}

More(c, t) == running[c] /\ round[c][t] < Rounds[c]

EventLoop(c) == IF running[c] THEN "recv" ELSE "ended"

\* The head of a loop, with the sending half of its request or the error of that.
Loop(c, t) ==
  /\ pc[c][t] = "loop"
  /\ \/ /\ More(c, t) /\ link[c] = "up"
        /\ Ask(c, t, round[c][t] + 1)
        /\ round' = [round EXCEPT ![c][t] = @ + 1]
        /\ Goto(c, t, "sent")
        /\ UNCHANGED wg
     \/ /\ More(c, t) /\ link[c] # "up"
        /\ Leave(c, t, "close")
        /\ UNCHANGED <<msgs, round>>
     \/ /\ ~ More(c, t)
        /\ Leave(c, t, IF Cmd[c] = "echo" THEN "spawn" ELSE "close")
        /\ UNCHANGED <<msgs, round>>
  /\ UNCHANGED <<running, link, service, answered>>

\* Its receiving half.  A worker panics unless the number is the one it has sent,
\* plus one; the event goroutine has its subscription.
Receive(c, t) ==
  /\ pc[c][t] = "sent" /\ link[c] = "up"
  /\ \E m \in msgs :
       /\ m.client = c /\ m.stream = StreamOf(t) /\ m.at = "reply"
       /\ msgs' = msgs \ {m}
       /\ \/ t = Main /\ Goto(c, t, "loop")
          \/ t = Event /\ Goto(c, t, EventLoop(c))
          \/ t \in 1..Workers /\ m.by = t /\ m.round = round[c][t] /\ Goto(c, t, "loop")
          \/ t \in 1..Workers /\ (m.by # t \/ m.round # round[c][t]) /\ Goto(c, t, "wrongNumber")
  /\ answered' = IF Cmd[c] = "echo" THEN answered + 1 ELSE answered
  /\ UNCHANGED <<running, round, wg, link, service>>

\* SendRecv or Recv returns an error.
Fail(c, t) ==
  /\ pc[c][t] \in {"subscribe", "sent", "recv"} /\ link[c] # "up"
  /\ Leave(c, t, "close")
  /\ UNCHANGED <<running, round, link, msgs, service, answered>>

Subscribe(c) ==
  /\ pc[c][Event] = "subscribe" /\ link[c] = "up"
  /\ Ask(c, Event, 0)
  /\ Goto(c, Event, "sent")
  /\ UNCHANGED <<running, round, wg, link, service, answered>>

\* The event goroutine receives the address of a new client.
RecvEvent(c) ==
  /\ pc[c][Event] = "recv" /\ link[c] = "up" /\ Goto(c, Event, EventLoop(c))
  /\ UNCHANGED <<running, round, wg, link, msgs, service, answered>>

\* wg.Add and the start of the next worker, until there are enough.
Spawn(c) ==
  /\ pc[c][Main] = "spawn"
  /\ \/ /\ running[c]
        /\ \E w \in 1..Workers :
             /\ pc[c][w] = "none" /\ \A v \in 1..(w - 1) : pc[c][v] # "none"
             /\ Goto(c, w, "loop")
        /\ wg' = [wg EXCEPT ![c] = @ + 1]
     \/ /\ running[c] => \A w \in 1..Workers : pc[c][w] # "none"
        /\ Goto(c, Main, "wait")
        /\ UNCHANGED wg
  /\ UNCHANGED <<running, round, link, msgs, service, answered>>

WaitUnlessStopped(c) ==  \* mutant: a stopped client does not wait for its workers
  /\ pc[c][Main] = "wait" /\ (wg[c] = 0 \/ ~ running[c])
  /\ Goto(c, Main, "close")
  /\ UNCHANGED <<running, round, wg, link, msgs, service, answered>>

\* wg.Wait
Wait(c) ==
  /\ pc[c][Main] = "wait" /\ wg[c] = 0
  /\ Goto(c, Main, "close")
  /\ UNCHANGED <<running, round, wg, link, msgs, service, answered>>

CloseForgotten(c) ==  \* mutant: Start returns without conn.Close
  /\ pc[c][Main] = "close" /\ Goto(c, Main, "over")
  /\ UNCHANGED <<running, round, wg, link, msgs, service, answered>>

\* The deferred conn.Close.
Close(c) ==
  /\ pc[c][Main] = "close" /\ Goto(c, Main, "over")
  /\ link' = [link EXCEPT ![c] = IF @ = "up" THEN "closed" ELSE @]
  /\ UNCHANGED <<running, round, wg, msgs, service, answered>>

\* External: the connection breaks.  A request that has not been handled then may
\* never be.
Break(c) ==
  /\ link[c] = "up" /\ link' = [link EXCEPT ![c] = "broken"]
  /\ UNCHANGED <<running, pc, round, wg, msgs, service, answered>>

\* The shell that has called Start stops it.
Stop(c) ==
  /\ running[c] /\ pc[c][Main] # "over"
  /\ running' = [running EXCEPT ![c] = FALSE]
  /\ UNCHANGED <<pc, round, wg, link, msgs, service, answered>>

-----------------------------------------------------------------------------
(* The service                                                               *)

Named(c, s) == \E n \in 1..sessionNum : <<c, s, n>> \in sessions

client == <<running, pc, round, wg, link, answered>>

OnNewStreamOfClient(c, s) ==  \* mutant: a number per connection
  /\ ~ Named(c, s) /\ \E m \in msgs : m.client = c /\ m.stream = s
  /\ sessionNum' = sessionNum + 1
  /\ sessions' = sessions \cup {<<c, s, Cardinality({x \in sessions : x[1] = c}) + 1>>}
  /\ UNCHANGED <<client, msgs, counter>>

\* The first message of a stream has it named.
OnNewStream(c, s) ==
  /\ ~ Named(c, s) /\ \E m \in msgs : m.client = c /\ m.stream = s
  /\ sessionNum' = sessionNum + 1
  /\ sessions' = sessions \cup {<<c, s, sessionNum + 1>>}
  /\ UNCHANGED <<client, msgs, counter>>

\* Request.Handle counts, sleeps and replies; the other two handlers just reply.
Handle(m) ==
  /\ m.at = "sent" /\ Named(m.client, m.stream)
  /\ IF Cmd[m.client] = "echo"
     THEN /\ counter' = counter + 1
          /\ msgs' = (msgs \ {m}) \cup {[m EXCEPT !.at = "counted"]}
     ELSE /\ UNCHANGED counter
          /\ msgs' = (msgs \ {m}) \cup {[m EXCEPT !.at = "reply"]}
  /\ UNCHANGED <<client, sessions, sessionNum>>

ReplyCounts(m) ==     \* mutant: the count comes after the half second as well
  /\ m.at = "counted"
  /\ counter' = counter + 1
  /\ msgs' = (msgs \ {m}) \cup {[m EXCEPT !.at = "reply"]}
  /\ UNCHANGED <<client, sessions, sessionNum>>

\* After half a second.
Reply(m) ==
  /\ m.at = "counted"
  /\ msgs' = (msgs \ {m}) \cup {[m EXCEPT !.at = "reply"]}
  /\ UNCHANGED <<client, service>>

-----------------------------------------------------------------------------

Thread(c, t) == Loop(c, t) \/ Receive(c, t) \/ Fail(c, t)
Starter(c) == Discover(c) \/ Subscribe(c) \/ Spawn(c) \/ Wait(c) \/ Close(c)
Service(c, s) ==
  \/ OnNewStream(c, s)
  \/ \E m \in msgs : m.client = c /\ m.stream = s /\ (Handle(m) \/ Reply(m))

Next ==
  \E c \in Clients :
    \/ Starter(c) \/ RecvEvent(c) \/ Break(c) \/ Stop(c)
    \/ \E t \in Threads : Thread(c, t) \/ Service(c, t)

Spec == Init /\ [][Next]_vars

\* As long as some goroutine can go on, or some request on a connection that is up
\* can be handled, something of this kind is done: everyone makes a bounded number
\* of steps, so no more is needed.  No event has to come, nobody has to call Stop.
Progress ==
  \E c \in Clients :
    \/ Starter(c)
    \/ \E t \in Threads : Thread(c, t) \/ (link[c] = "up" /\ Service(c, t))

FairSpec == Spec /\ WF_vars(Progress)

-----------------------------------------------------------------------------
(* Properties                                                                *)

States ==
  {"none", "discover", "loop", "subscribe", "sent", "recv", "spawn", "wait", "close",
   "over", "ended", "wrongNumber"}

Messages ==
  [client : Clients, stream : Threads, by : Threads, round : Int,
   at : {"sent", "counted", "reply"}]

TypeOK ==
  /\ running \in [Clients -> BOOLEAN]
  /\ pc \in [Clients -> [Threads -> States]]
  /\ round \in [Clients -> [Threads -> Int]]
  /\ wg \in [Clients -> Int]
  /\ link \in [Clients -> {"none", "up", "closed", "broken"}]
  /\ msgs \subseteq Messages
  /\ sessions \subseteq Clients \X Threads \X Nat
  /\ sessionNum \in Nat /\ counter \in Nat /\ answered \in Nat

AtWork(c) == {w \in 1..Workers : pc[c][w] \notin {"none", "ended"}}

\* The connection stays open under workers that still use it: what Start closes is
\* used by no one but the event goroutine, which ends by it.
ClosedUnderNoWorker == \A c \in Clients : link[c] = "closed" => AtWork(c) = {}

\* Replies never get mixed up: no worker of doEcho is brought down by a number that
\* is not the one it has sent, plus one, whatever the others on its connection do.
NoWrongNumber == \A c \in Clients, t \in Threads : pc[c][t] # "wrongNumber"

\* Signatures tell sessions apart: no number is given to two streams, of one
\* connection or of several.
SessionsUnique ==
  \A x, y \in sessions : x[3] = y[3] => x = y

\* The count the service logs when it stops is that of the echo requests whose
\* handler it has begun: each once, whether its answer has been received, is under
\* way or has missed its client.
CountedOnce ==
  counter = answered + Cardinality({m \in msgs : Cmd[m.client] = "echo" /\ m.at # "sent"})

\* Runs of the client end with their connections closed, their workers and their
\* event goroutines gone, stopped or not.
ClientsEnd ==
  <>(\A c \in Clients :
       /\ pc[c][Main] = "over" /\ link[c] # "up"
       /\ \A t \in Threads \ {Main} : pc[c][t] \in {"none", "ended"})

-----------------------------------------------------------------------------
(* The inductive invariant                                                   *)

\* Workers there are between the first loop of doEcho and its end, and the WaitGroup
\* counts those at work.
Phases ==
  \A c \in Clients :
    /\ wg[c] = Cardinality(AtWork(c))
    /\ pc[c][Main] \in {"discover", "loop", "sent", "close", "over"} => AtWork(c) = {}
    /\ pc[c][Main] \in {"discover", "loop", "sent", "spawn", "wait", "close", "over"}
    /\ pc[c][Main] = "discover" => link[c] = "none"
    /\ link[c] = "closed" => pc[c][Main] = "over"
    /\ \A w \in 1..Workers : pc[c][w] \in {"none", "loop", "sent", "ended"}
    /\ pc[c][Event] \in {"none", "subscribe", "sent", "recv", "ended"}
    /\ round[c][Event] = 0

\* There is one message at most on a stream; while the connection is up, it is the
\* last request of the thread that waits there, or the reply to it.
OnePerStream ==
  /\ IsFiniteSet(msgs)
  /\ \A m \in msgs :
       /\ m.by = m.stream /\ link[m.client] # "none"
       /\ link[m.client] = "up" =>
            pc[m.client][m.stream] = "sent" /\ m.round = round[m.client][m.stream]
  /\ \A m, n \in msgs : m.client = n.client /\ m.stream = n.stream => m = n

Numbers == \A x \in sessions : x[3] \in 1..sessionNum

IInv ==
  /\ TypeOK /\ Phases /\ OnePerStream /\ Numbers
  /\ ClosedUnderNoWorker /\ NoWrongNumber /\ SessionsUnique /\ CountedOnce
=============================================================================
