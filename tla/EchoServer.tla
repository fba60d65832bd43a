----------------------------- MODULE EchoServer -----------------------------
(***************************************************************************)
(* The connection registry and the "who else" event feed of the echo       *)
(* service: statMgr in echo/server.go and the SubWhoElseEvent and WhoElse  *)
(* handlers in echo/handlers.go.                                           *)
(*                                                                         *)
(* Actors: one callback sequence per connection (onConnect ... onDiscon-   *)
(* nect, run by the adaptiveservice library), one broadcast goroutine per  *)
(* connection (started by onConnect), one handler call and one delivery    *)
(* goroutine per subscription.  They share statMgr's two maps under its    *)
(* RWMutex and talk over channels of capacity one.                         *)
(*                                                                         *)
(* Locking.  Every section under the mutex is straight-line code that      *)
(* cannot block inside, the read sections of the broadcast included: it    *)
(* takes the lock, lets the iteration produce one entry and drops the lock *)
(* before it sends.  Such a section is one step.  An event is named by the *)
(* connection that caused it; what is sent is RemoteAddr of it.            *)
(***************************************************************************)
EXTENDS Naturals, Sequences

CONSTANTS
  Conns,       \* network connections; each one connects once
  Subs,        \* subscriptions; each one is one SubWhoElseEvent message
  Owner,       \* the connection each subscription is made on
  Addrs,       \* what RemoteAddr().String() can return
  RemoteAddr,  \* the address of every connection
  Quitters,    \* connections whose client may go away
  Zero,        \* the reply 0 of the SubWhoElseEvent handler
  Nil          \* no connection, no subscription

ASSUME EchoAssumption ==
  /\ RemoteAddr \in [Conns -> Addrs]
  /\ Owner \in [Subs -> Conns]
  /\ Quitters \subseteq Conns
  /\ Zero \notin Conns
  /\ Nil \notin Conns \union Subs \union {Zero}

VARIABLES
  conn,         \* phase of each connection
  clients,      \* statMgr.clients
  subscribers,  \* statMgr.subscribers
  bpc,          \* program counter of each broadcast goroutine
  atStart,      \* subscribers when its iteration began
  visited,      \* channels its iteration has produced
  target,       \* the channel it is sending to
  handler,      \* the handler call of a subscription
  dpc,          \* program counter of each delivery goroutine
  slot,         \* the one-element buffer of its channel
  hold,         \* the address it has received and is sending
  out           \* what was sent on its stream while the client was there

connVars  == <<conn, clients>>
castVars  == <<bpc, atStart, visited, target>>
subVars   == <<subscribers, handler, dpc, slot, hold, out>>
vars      == <<connVars, castVars, subVars>>

Carried(s) == {out[s][i] : i \in 1..Len(out[s])}

\* The connections between the end of onConnect's critical section and the
\* start of onDisconnect's: those the server has at this moment.
Connected == {c \in Conns : conn[c] \in {"up", "closing"}}

\* What the WhoElse handler answers: the keys of clients, read under RLock.
WhoElse == clients

Init ==
  /\ conn = [c \in Conns |-> "idle"]
  /\ clients = {}
  /\ subscribers = {}
  /\ bpc = [c \in Conns |-> "none"]
  /\ atStart = [c \in Conns |-> {}]
  /\ visited = [c \in Conns |-> {}]
  /\ target = [c \in Conns |-> Nil]
  /\ handler = [s \in Subs |-> "none"]
  /\ dpc = [s \in Subs |-> "none"]
  /\ slot = [s \in Subs |-> Nil]
  /\ hold = [s \in Subs |-> Nil]
  /\ out = [s \in Subs |-> <<>>]

-----------------------------------------------------------------------------
(* The callbacks of a connection. *)

\* onConnect lists the address, starts the broadcast and returns.  The go
\* statement touches nothing shared, so it is one step with the section before.
OnConnect(c) ==
  /\ conn[c] = "idle"
  /\ clients' = clients \union {RemoteAddr[c]}
  /\ conn' = [conn EXCEPT ![c] = "up"]
  /\ bpc' = [bpc EXCEPT ![c] = "begin"]
  /\ UNCHANGED <<atStart, visited, target, subVars>>

\* The client closes its end (external): sends may still succeed and be lost
\* until the library notices.
PeerGone(c) ==
  /\ c \in Quitters
  /\ conn[c] = "up"
  /\ conn' = [conn EXCEPT ![c] = "closing"]
  /\ UNCHANGED <<clients, castVars, subVars>>

\* Mutant: the address stays listed.
OnDisconnectKeeps(c) ==
  /\ conn[c] = "closing"
  /\ conn' = [conn EXCEPT ![c] = "down"]
  /\ UNCHANGED <<clients, castVars, subVars>>

OnDisconnect(c) ==
  /\ conn[c] = "closing"
  /\ clients' = clients \ {RemoteAddr[c]}
  /\ conn' = [conn EXCEPT ![c] = "down"]
  /\ UNCHANGED <<castVars, subVars>>

-----------------------------------------------------------------------------
(* The broadcast goroutine: for ch := range subscribers { ch <- raddr }    *)
(* under a read lock that is dropped around every send.                    *)

\* The entries the iteration of c began with, or would begin with now.
Begun(c) == IF bpc[c] = "begin" THEN subscribers ELSE atStart[c]

\* Mutant: the iteration starts over each time the lock is retaken.
BroadcastNextAgain(c, s) ==
  /\ bpc[c] \in {"begin", "range"}
  /\ s \in subscribers
  /\ atStart' = [atStart EXCEPT ![c] = Begun(c)]
  /\ visited' = [visited EXCEPT ![c] = @ \union {s}]
  /\ target' = [target EXCEPT ![c] = s]
  /\ bpc' = [bpc EXCEPT ![c] = "send"]
  /\ UNCHANGED <<connVars, subVars>>

\* RLock; the iteration produces an entry not yet produced; RUnlock.  Go may
\* or may not produce entries added since the iteration began.
BroadcastNext(c, s) ==
  /\ bpc[c] \in {"begin", "range"}
  /\ s \in subscribers \ visited[c]
  /\ atStart' = [atStart EXCEPT ![c] = Begun(c)]
  /\ visited' = [visited EXCEPT ![c] = @ \union {s}]
  /\ target' = [target EXCEPT ![c] = s]
  /\ bpc' = [bpc EXCEPT ![c] = "send"]
  /\ UNCHANGED <<connVars, subVars>>

\* Mutant: select { case ch <- raddr: default: } drops when the buffer is full.
BroadcastSendOrDrop(c) ==
  /\ bpc[c] = "send"
  /\ slot' = IF slot[target[c]] = Nil THEN [slot EXCEPT ![target[c]] = c] ELSE slot
  /\ target' = [target EXCEPT ![c] = Nil]
  /\ bpc' = [bpc EXCEPT ![c] = "range"]
  /\ UNCHANGED <<connVars, atStart, visited,
                 subscribers, handler, dpc, hold, out>>

\* ch <- raddr blocks while the buffer is full.
BroadcastSend(c) ==
  /\ bpc[c] = "send"
  /\ slot[target[c]] = Nil
  /\ slot' = [slot EXCEPT ![target[c]] = c]
  /\ target' = [target EXCEPT ![c] = Nil]
  /\ bpc' = [bpc EXCEPT ![c] = "range"]
  /\ UNCHANGED <<connVars, atStart, visited,
                 subscribers, handler, dpc, hold, out>>

\* Mutant: the iteration stops after the first entry.
BroadcastEndEarly(c) ==
  /\ bpc[c] \in {"begin", "range"}
  /\ bpc[c] = "range" \/ subscribers = {}
  /\ atStart' = [atStart EXCEPT ![c] = Begun(c)]
  /\ bpc' = [bpc EXCEPT ![c] = "done"]
  /\ UNCHANGED <<connVars, visited, target, subVars>>

\* The iteration may end once every surviving entry it began with was produced.
BroadcastEnd(c) ==
  /\ bpc[c] \in {"begin", "range"}
  /\ Begun(c) \intersect subscribers \subseteq visited[c]
  /\ atStart' = [atStart EXCEPT ![c] = Begun(c)]
  /\ bpc' = [bpc EXCEPT ![c] = "done"]
  /\ UNCHANGED <<connVars, visited, target, subVars>>

-----------------------------------------------------------------------------
(* The SubWhoElseEvent handler and the delivery goroutine it starts.       *)

\* Handlers run on the library's worker pool, so the connection may have gone
\* by the time the message is handled.
Subscribe(s) ==
  /\ handler[s] = "none"
  /\ conn[Owner[s]] # "idle"
  /\ subscribers' = subscribers \union {s}
  /\ dpc' = [dpc EXCEPT ![s] = "recv"]
  /\ handler' = [handler EXCEPT ![s] = "reply"]
  /\ UNCHANGED <<connVars, castVars, slot, hold, out>>

\* return 0: the library sends the reply on the same stream.
Reply(s) ==
  /\ handler[s] = "reply"
  /\ handler' = [handler EXCEPT ![s] = "done"]
  /\ out' = IF conn[Owner[s]] = "up"
            THEN [out EXCEPT ![s] = Append(@, Zero)] ELSE out
  /\ UNCHANGED <<connVars, castVars, subscribers, dpc, slot, hold>>

\* addr := <-ch
Receive(s) ==
  /\ dpc[s] = "recv"
  /\ slot[s] # Nil
  /\ hold' = [hold EXCEPT ![s] = slot[s]]
  /\ slot' = [slot EXCEPT ![s] = Nil]
  /\ dpc' = [dpc EXCEPT ![s] = "send"]
  /\ UNCHANGED <<connVars, castVars, subscribers, handler, out>>

\* stream.Send(addr): it works while the client is there, fails once the
\* library has torn the connection down, and may do either in between.
SendOK(s) ==
  /\ dpc[s] = "send"
  /\ conn[Owner[s]] \in {"up", "closing"}
  /\ out' = IF conn[Owner[s]] = "up"
            THEN [out EXCEPT ![s] = Append(@, hold[s])] ELSE out
  /\ hold' = [hold EXCEPT ![s] = Nil]
  /\ dpc' = [dpc EXCEPT ![s] = "recv"]
  /\ UNCHANGED <<connVars, castVars, subscribers, handler, slot>>

\* Mutant: the goroutine returns without deleting its channel.
SendErrorReturns(s) ==
  /\ dpc[s] = "send"
  /\ conn[Owner[s]] \in {"closing", "down"}
  /\ hold' = [hold EXCEPT ![s] = Nil]
  /\ dpc' = [dpc EXCEPT ![s] = "exit"]
  /\ UNCHANGED <<connVars, castVars, subscribers, handler, slot, out>>

SendError(s) ==
  /\ dpc[s] = "send"
  /\ conn[Owner[s]] \in {"closing", "down"}
  /\ hold' = [hold EXCEPT ![s] = Nil]
  /\ dpc' = [dpc EXCEPT ![s] = "unsub"]
  /\ UNCHANGED <<connVars, castVars, subscribers, handler, slot, out>>

\* Mutant: a broadcast keeps its read lock while it sends.
UnsubscribeLockedOut(s) ==
  /\ dpc[s] = "unsub"
  /\ \A c \in Conns : bpc[c] # "send"
  /\ subscribers' = subscribers \ {s}
  /\ dpc' = [dpc EXCEPT ![s] = "exit"]
  /\ UNCHANGED <<connVars, castVars, handler, slot, hold, out>>

\* delete(subscribers, ch) and return: from here on nobody reads the channel.
Unsubscribe(s) ==
  /\ dpc[s] = "unsub"
  /\ subscribers' = subscribers \ {s}
  /\ dpc' = [dpc EXCEPT ![s] = "exit"]
  /\ UNCHANGED <<connVars, castVars, handler, slot, hold, out>>

-----------------------------------------------------------------------------
Callback(c) == OnConnect(c) \/ PeerGone(c) \/ OnDisconnect(c)

Broadcast(c) ==
  \/ \E s \in Subs : BroadcastNext(c, s)
  \/ BroadcastSend(c)
  \/ BroadcastEnd(c)

Delivery(s) == Receive(s) \/ SendOK(s) \/ SendError(s) \/ Unsubscribe(s)

Next ==
  \/ \E c \in Conns : Callback(c) \/ Broadcast(c)
  \/ \E s \in Subs : Subscribe(s) \/ Reply(s) \/ Delivery(s)

Spec == Init /\ [][Next]_vars

(***************************************************************************)
(* Fairness.  Goroutines that can run are scheduled: weak fairness of the  *)
(* steps of every started goroutine and handler.  A blocked channel send   *)
(* waits in the channel's FIFO queue, so it gets its turn when the buffer  *)
(* empties again and again: strong fairness of BroadcastSend.  Clients owe *)
(* nothing: no fairness for connecting, subscribing or leaving.            *)
(***************************************************************************)
Fairness ==
  /\ \A c \in Conns : WF_vars(Broadcast(c)) /\ SF_vars(BroadcastSend(c))
  /\ \A s \in Subs : WF_vars(Reply(s)) /\ WF_vars(Delivery(s))

FairSpec == Spec /\ Fairness

-----------------------------------------------------------------------------
(* Properties. *)

TypeOK ==
  /\ conn \in [Conns -> {"idle", "up", "closing", "down"}]
  /\ clients \subseteq Addrs
  /\ subscribers \subseteq Subs
  /\ bpc \in [Conns -> {"none", "begin", "range", "send", "done"}]
  /\ atStart \in [Conns -> SUBSET Subs]
  /\ visited \in [Conns -> SUBSET Subs]
  /\ target \in [Conns -> Subs \union {Nil}]
  /\ handler \in [Subs -> {"none", "reply", "done"}]
  /\ dpc \in [Subs -> {"none", "recv", "send", "unsub", "exit"}]
  /\ slot \in [Subs -> Conns \union {Nil}]
  /\ hold \in [Subs -> Conns \union {Nil}]
  /\ out \in [Subs -> Seq(Conns \union {Zero})]

\* The event of c has been handed to s and is somewhere between the channel's
\* buffer and the client, or is about to be put into the buffer.
Handed(s, c)  == slot[s] = c \/ hold[s] = c \/ c \in Carried(s)
Pending(s, c) == bpc[c] = "send" /\ target[c] = s

\* A stream carries no message twice, although the broadcast drops its lock in
\* the middle of the iteration (echo/server.go:42-46).
AtMostOnce ==
  \A s \in Subs : \A i, j \in 1..Len(out[s]) : out[s][i] = out[s][j] => i = j

\* When a broadcast has ended, the new connection was handed to everyone who
\* was subscribed when it began and whose client is still there: dropping the
\* lock around the sends loses nobody, whoever subscribes or leaves meanwhile.
CompletedBroadcastReachesAll ==
  \A c \in Conns : bpc[c] = "done" =>
    \A s \in atStart[c] : conn[Owner[s]] = "up" => Handed(s, c)

\* WhoElse never reports a client that has gone, even where connections share
\* an address and a late delete meets an early insert.
NoGhostClients == WhoElse \subseteq {RemoteAddr[c] : c \in Connected}

\* "WhoElse reports all client addresses the server has so far"
\* (echo/messages.go:33): so it does for a connection whose address no other
\* connection ever has, whatever the others do (server.go:33-59).  Of those that
\* share an address, the first to leave takes all off the list.
OwnAddressIsListed ==
  \A c \in Connected :
    (\A d \in Conns : RemoteAddr[d] = RemoteAddr[c] => d = c)
    => RemoteAddr[c] \in WhoElse

\* What WhoElse replies: those with an address of their own, and no one who has gone.
ListIsRight == NoGhostClients /\ OwnAddressIsListed

\* A broadcast that waits on a full channel whose reader has returned.
Stuck(c) ==
  bpc[c] = "send" /\ dpc[target[c]] = "exit" /\ slot[target[c]] # Nil

\* A subscriber "reports new incoming connection" (echo/messages.go:28-29):
\* a broadcast that still has to reach a connected subscriber never waits on a
\* full channel whose reader has returned, which nothing empties any more.
NobodyStranded ==
  \A c \in Conns, s \in Subs :
    s \in atStart[c] \ visited[c] /\ conn[Owner[s]] = "up" => ~ Stuck(c)

\* Who was subscribed when a broadcast began, and stays, is sent the event, as
\* long as no subscriber leaves (NobodyStranded says what happens then).
SubscribersAreNotified ==
  \A s \in Subs, c \in Conns :
    s \in atStart[c] ~> (c \in Carried(s) \/ conn[Owner[s]] # "up")

\* A broadcast blocks for ever on nothing but the channel of a delivery
\* goroutine that has returned.
BlockedOnlyByExited ==
  \A c \in Conns, s \in Subs :
    Pending(s, c) ~> (~ Pending(s, c) \/ dpc[s] = "exit")

\* A subscription whose connection is down leaves the map when it is sent one
\* more event: no lock is held across a blocking send, so its delete gets in.
DeadSubscriberUnregisters ==
  \A s \in Subs :
    (dpc[s] = "send" /\ conn[Owner[s]] = "down") ~> s \notin subscribers

-----------------------------------------------------------------------------
(* The inductive invariant behind AtMostOnce, CompletedBroadcastReachesAll  *)
(* and the refinement of the feed.                                          *)

\* The phases of a subscription and of a broadcast go together.
Phases ==
  /\ \A s \in Subs :
       /\ s \in subscribers <=> dpc[s] \in {"recv", "send", "unsub"}
       /\ dpc[s] = "none" <=> handler[s] = "none"
       /\ dpc[s] = "send" <=> hold[s] # Nil
       /\ dpc[s] # "none" => conn[Owner[s]] # "idle"
       /\ dpc[s] \in {"unsub", "exit"} => conn[Owner[s]] # "up"
  /\ \A c \in Conns :
       /\ conn[c] = "idle" <=> bpc[c] = "none"
       /\ bpc[c] \in {"none", "begin"} => atStart[c] = {} /\ visited[c] = {}
       /\ bpc[c] = "send" => target[c] \in visited[c]
       /\ \A s \in atStart[c] \union visited[c] : dpc[s] # "none"

\* Only a channel the broadcast has left behind can hold its event, and the
\* event is in one place.
InOnePlace ==
  \A s \in Subs :
    /\ \A c \in Conns : Handed(s, c) => s \in visited[c] /\ ~ Pending(s, c)
    /\ slot[s] # Nil => slot[s] # hold[s]
    /\ slot[s] \notin Carried(s) /\ hold[s] \notin Carried(s)
    /\ Zero \in Carried(s) => handler[s] = "done"

\* Nothing handed to a client that is there gets lost, and a broadcast ends
\* only when it has visited those it has to.
NothingLost ==
  \A c \in Conns :
    /\ \A s \in visited[c] :
         conn[Owner[s]] = "up" => Handed(s, c) \/ Pending(s, c)
    /\ bpc[c] = "done" =>
         \A s \in atStart[c] : conn[Owner[s]] = "up" => s \in visited[c]

IInv == TypeOK /\ Phases /\ InOnePlace /\ AtMostOnce /\ NothingLost

-----------------------------------------------------------------------------
\* The feed the service promises; a subscription is open while its client is
\* there.
Feed == INSTANCE WhoElseFeed WITH
  announced <- {c \in Conns : conn[c] # "idle"},
  open      <- {s \in Subs : handler[s] # "none" /\ conn[Owner[s]] = "up"}

\* Each subscriber's stream behaves as WhoElseFeed says: the reply and events
\* of accepted connections, none twice, nothing once the client has gone.
ImplementsFeed == Feed!Spec
=============================================================================
