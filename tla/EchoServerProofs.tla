------------------------- MODULE EchoServerProofs -------------------------
(***************************************************************************)
(* Proofs about EchoServer for any connections, subscriptions, owners and  *)
(* addresses.  IInv is inductive; the safety properties follow from it.    *)
(***************************************************************************)
EXTENDS EchoServer, SequenceTheorems, TLAPS

-----------------------------------------------------------------------------
(* Streams. *)

\* Appending a message that a stream has not carried keeps the messages apart
\* and adds just that message.
LEMMA AppendFresh ==
  ASSUME NEW S, NEW seq \in Seq(S), NEW m \in S,
         \A i \in 1..Len(seq) : seq[i] # m,
         \A i, j \in 1..Len(seq) : seq[i] = seq[j] => i = j
  PROVE  LET new == Append(seq, m) IN
         /\ new \in Seq(S)
         /\ \A i, j \in 1..Len(new) : new[i] = new[j] => i = j
         /\ {new[i] : i \in 1..Len(new)} = {seq[i] : i \in 1..Len(seq)} \union {m}
<1> DEFINE new == Append(seq, m)
<1>1. /\ new \in Seq(S)
      /\ Len(seq) \in Nat
      /\ Len(new) = Len(seq) + 1
      /\ \A i \in 1..Len(seq) : new[i] = seq[i]
      /\ new[Len(seq) + 1] = m
  BY AppendProperties
<1> HIDE DEF new
<1>2. \A i \in 1..Len(new) : i \in 1..Len(seq) \/ i = Len(seq) + 1
  BY <1>1
<1>3. \A i, j \in 1..Len(new) : new[i] = new[j] => i = j
  BY <1>1, <1>2
<1>4. {new[i] : i \in 1..Len(new)} = {seq[i] : i \in 1..Len(seq)} \union {m}
  BY <1>1, <1>2
<1> QED
  BY <1>1, <1>3, <1>4 DEF new

\* The effect of Reply and SendOK on a stream: a message it has not carried is
\* added when the client is there, and nothing else changes.
LEMMA StreamGrows ==
  ASSUME TypeOK, AtMostOnce, NEW s \in Subs, NEW m \in Conns \union {Zero},
         m \notin Carried(s),
         out' = IF conn[Owner[s]] = "up" THEN [out EXCEPT ![s] = Append(@, m)] ELSE out
  PROVE  /\ out' \in [Subs -> Seq(Conns \union {Zero})]
         /\ AtMostOnce'
         /\ \A u \in Subs \ {s} : Carried(u)' = Carried(u)
         /\ Carried(s)' = IF conn[Owner[s]] = "up" THEN Carried(s) \union {m} ELSE Carried(s)
<1>1. CASE conn[Owner[s]] # "up"
  BY <1>1 DEF TypeOK, AtMostOnce, Carried
<1>2. CASE conn[Owner[s]] = "up"
  <2>1. out[s] \in Seq(Conns \union {Zero})
    BY DEF TypeOK
  <2>2. /\ \A i \in 1..Len(out[s]) : out[s][i] # m
        /\ \A i, j \in 1..Len(out[s]) : out[s][i] = out[s][j] => i = j
    BY DEF Carried, AtMostOnce
  <2>3. LET new == Append(out[s], m) IN
         /\ new \in Seq(Conns \union {Zero})
         /\ \A i, j \in 1..Len(new) : new[i] = new[j] => i = j
         /\ {new[i] : i \in 1..Len(new)} = Carried(s) \union {m}
    BY <2>1, <2>2, AppendFresh, SMTT(30) DEF Carried
  <2>4. out'[s] = Append(out[s], m) /\ \A u \in Subs \ {s} : out'[u] = out[u]
    BY <1>2 DEF TypeOK
  <2>5. out' \in [Subs -> Seq(Conns \union {Zero})]
    BY <1>2, <2>3 DEF TypeOK
  <2>6. AtMostOnce'
    BY <2>3, <2>4 DEF AtMostOnce
  <2>7. /\ \A u \in Subs \ {s} : Carried(u)' = Carried(u)
        /\ Carried(s)' = Carried(s) \union {m}
    BY <2>3, <2>4 DEF Carried
  <2> QED
    BY <1>2, <2>5, <2>6, <2>7
<1> QED
  BY <1>1, <1>2

-----------------------------------------------------------------------------
(* IInv holds at first and every action keeps it. *)

LEMMA InitIInv == Init => IInv
<1> SUFFICES ASSUME Init PROVE IInv
  OBVIOUS
<1>1. \A s \in Subs : out[s] = <<>> /\ Len(out[s]) = 0 /\ Carried(s) = {}
  BY DEF Init, Carried
<1>2. TypeOK
  BY EchoAssumption DEF Init, TypeOK
<1>3. Phases
  BY DEF Init, Phases
<1>4. InOnePlace
  BY <1>1, EchoAssumption DEF Init, InOnePlace, Handed
<1>5. AtMostOnce
  BY <1>1 DEF AtMostOnce
<1>6. NothingLost
  BY DEF Init, NothingLost
<1> QED
  BY <1>2, <1>3, <1>4, <1>5, <1>6 DEF IInv

\* Steps that leave the streams alone keep what was carried.
LEMMA StreamsSame ==
  ASSUME out' = out
  PROVE  /\ \A s \in Subs : Carried(s)' = Carried(s)
         /\ AtMostOnce' <=> AtMostOnce
BY DEF Carried, AtMostOnce

LEMMA CallbackStep ==
  ASSUME IInv, NEW c \in Conns, Callback(c)
  PROVE  IInv'
<1> USE EchoAssumption DEF IInv, castVars, subVars
<1>1. CASE OnConnect(c)
  <2> USE <1>1 DEF OnConnect
  <2>1. TypeOK'
    BY DEF TypeOK
  <2>2. Phases'
    BY DEF Phases, TypeOK
  <2>3. InOnePlace' /\ AtMostOnce'
    BY StreamsSame DEF InOnePlace, Handed, Pending, TypeOK
  <2>4. NothingLost'
    BY StreamsSame DEF NothingLost, Handed, Pending, Phases, TypeOK
  <2> QED
    BY <2>1, <2>2, <2>3, <2>4
<1>2. CASE PeerGone(c)
  <2> USE <1>2 DEF PeerGone
  <2>1. TypeOK'
    BY DEF TypeOK
  <2>2. Phases'
    BY DEF Phases, TypeOK
  <2>3. InOnePlace' /\ AtMostOnce'
    BY StreamsSame DEF InOnePlace, Handed, Pending
  <2>4. NothingLost'
    BY StreamsSame DEF NothingLost, Handed, Pending, Phases, TypeOK
  <2> QED
    BY <2>1, <2>2, <2>3, <2>4
<1>3. CASE OnDisconnect(c)
  <2> USE <1>3 DEF OnDisconnect
  <2>1. TypeOK'
    BY DEF TypeOK
  <2>2. Phases'
    BY DEF Phases, TypeOK
  <2>3. InOnePlace' /\ AtMostOnce'
    BY StreamsSame DEF InOnePlace, Handed, Pending
  <2>4. NothingLost'
    BY StreamsSame DEF NothingLost, Handed, Pending, Phases, TypeOK
  <2> QED
    BY <2>1, <2>2, <2>3, <2>4
<1> QED
  BY <1>1, <1>2, <1>3 DEF Callback

LEMMA BroadcastStep ==
  ASSUME IInv, NEW c \in Conns, Broadcast(c)
  PROVE  IInv'
<1> USE EchoAssumption DEF IInv, connVars, subVars
<1>1. ASSUME NEW s \in Subs, BroadcastNext(c, s)
      PROVE  IInv'
  <2> USE <1>1 DEF BroadcastNext
  <2>1. TypeOK'
    BY DEF TypeOK, Begun
  <2>2. Phases'
    <3>1. /\ Begun(c) \subseteq Subs
          /\ \A u \in Begun(c) : dpc[u] # "none"
          /\ dpc[s] # "none"
      BY DEF Begun, Phases, TypeOK
    <3> QED
      BY <3>1 DEF Phases, TypeOK
  <2>3. InOnePlace' /\ AtMostOnce'
    BY StreamsSame DEF InOnePlace, Handed, Pending, TypeOK
  <2>4. NothingLost'
    BY StreamsSame DEF NothingLost, Handed, Pending, Phases, TypeOK
  <2> QED
    BY <2>1, <2>2, <2>3, <2>4
<1>2. CASE BroadcastSend(c)
  <2> USE <1>2 DEF BroadcastSend
  <2>1. TypeOK'
    BY DEF TypeOK
  <2>2. Phases'
    BY DEF Phases, TypeOK
  <2>3. InOnePlace' /\ AtMostOnce'
    BY StreamsSame DEF InOnePlace, Handed, Pending, Phases, TypeOK
  <2>4. NothingLost'
    BY StreamsSame DEF NothingLost, Handed, Pending, Phases, TypeOK
  <2> QED
    BY <2>1, <2>2, <2>3, <2>4
<1>3. CASE BroadcastEnd(c)
  <2> USE <1>3 DEF BroadcastEnd
  <2>1. TypeOK'
    BY DEF TypeOK, Begun
  <2>2. Phases'
    BY DEF Phases, TypeOK, Begun
  <2>3. InOnePlace' /\ AtMostOnce'
    BY StreamsSame DEF InOnePlace, Handed, Pending, TypeOK
  <2>4. NothingLost'
    <3>1. \A s \in Begun(c) : conn[Owner[s]] = "up" => s \in subscribers
      BY DEF Begun, Phases, TypeOK
    <3> QED
      BY <3>1, StreamsSame DEF NothingLost, Handed, Pending, Phases, TypeOK
  <2> QED
    BY <2>1, <2>2, <2>3, <2>4
<1> QED
  BY <1>1, <1>2, <1>3 DEF Broadcast

LEMMA SubscribeStep ==
  ASSUME IInv, NEW s \in Subs, Subscribe(s)
  PROVE  IInv'
<1> USE EchoAssumption DEF IInv, connVars, castVars, Subscribe
<1>1. TypeOK'
  BY DEF TypeOK
<1>2. Phases'
  BY DEF Phases, TypeOK
<1>3. InOnePlace' /\ AtMostOnce'
  BY StreamsSame DEF InOnePlace, Handed, Pending, TypeOK
<1>4. NothingLost'
  BY StreamsSame DEF NothingLost, Handed, Pending, TypeOK
<1> QED
  BY <1>1, <1>2, <1>3, <1>4

LEMMA ReplyStep ==
  ASSUME IInv, NEW s \in Subs, Reply(s)
  PROVE  IInv'
<1> USE EchoAssumption DEF IInv, connVars, castVars, Reply
<1>1. /\ out' \in [Subs -> Seq(Conns \union {Zero})]
      /\ AtMostOnce'
      /\ \A u \in Subs \ {s} : Carried(u)' = Carried(u)
      /\ Carried(s)' = IF conn[Owner[s]] = "up" THEN Carried(s) \union {Zero} ELSE Carried(s)
  BY StreamGrows DEF InOnePlace
<1>2. TypeOK'
  BY <1>1 DEF TypeOK
<1>3. Phases'
  BY DEF Phases, TypeOK
<1>4. InOnePlace'
  BY <1>1 DEF InOnePlace, Handed, Pending, TypeOK
<1>5. NothingLost'
  <2>1. \A u \in Subs, c \in Conns : Handed(u, c)' <=> Handed(u, c)
    BY <1>1 DEF Handed
  <2> QED
    BY <2>1 DEF NothingLost, Pending, TypeOK
<1> QED
  BY <1>1, <1>2, <1>3, <1>4, <1>5

LEMMA DeliveryStep ==
  ASSUME IInv, NEW s \in Subs, Delivery(s)
  PROVE  IInv'
<1> USE EchoAssumption DEF IInv, connVars, castVars
<1>1. CASE Receive(s)
  <2> USE <1>1 DEF Receive
  <2>1. TypeOK'
    BY DEF TypeOK
  <2>2. Phases'
    BY DEF Phases, TypeOK
  <2>3. InOnePlace' /\ AtMostOnce'
    BY StreamsSame DEF InOnePlace, Handed, Pending, Phases, TypeOK
  <2>4. NothingLost'
    BY StreamsSame DEF NothingLost, Handed, Pending, Phases, TypeOK
  <2> QED
    BY <2>1, <2>2, <2>3, <2>4
<1>2. CASE SendOK(s)
  <2> USE <1>2 DEF SendOK
  <2>1. hold[s] \in Conns /\ hold[s] \notin Carried(s)
    BY DEF Phases, InOnePlace, TypeOK
  <2>2. /\ out' \in [Subs -> Seq(Conns \union {Zero})]
        /\ AtMostOnce'
        /\ \A u \in Subs \ {s} : Carried(u)' = Carried(u)
        /\ Carried(s)' = IF conn[Owner[s]] = "up"
                         THEN Carried(s) \union {hold[s]} ELSE Carried(s)
    BY <2>1, StreamGrows
  <2>3. \A u \in Subs, c \in Conns :
          /\ Handed(u, c)' => Handed(u, c)
          /\ conn[Owner[u]] = "up" => (Handed(u, c)' <=> Handed(u, c))
    BY <2>1, <2>2 DEF Handed, TypeOK
  <2>4. TypeOK'
    BY <2>2 DEF TypeOK
  <2>5. Phases'
    BY DEF Phases, TypeOK
  <2>6. InOnePlace'
    <3>1. ASSUME NEW u \in Subs
          PROVE  /\ slot'[u] # Nil => slot'[u] # hold'[u]
                 /\ slot'[u] \notin Carried(u)' /\ hold'[u] \notin Carried(u)'
                 /\ Zero \in Carried(u)' => handler'[u] = "done"
      <4>1. Nil \notin Carried(u)'
        BY <2>2 DEF Carried
      <4> QED
        BY <4>1, <2>1, <2>2 DEF InOnePlace, TypeOK
    <3> QED
      BY <3>1, <2>3 DEF InOnePlace, Pending
  <2>7. NothingLost'
    BY <2>3 DEF NothingLost, Pending, TypeOK
  <2> QED
    BY <2>2, <2>4, <2>5, <2>6, <2>7
<1>3. CASE SendError(s)
  <2> USE <1>3 DEF SendError
  <2>1. TypeOK'
    BY DEF TypeOK
  <2>2. Phases'
    BY DEF Phases, TypeOK
  <2>3. InOnePlace' /\ AtMostOnce'
    <3>1. Nil \notin Carried(s)
      BY DEF Carried, TypeOK
    <3> QED
      BY <3>1, StreamsSame DEF InOnePlace, Handed, Pending, TypeOK
  <2>4. NothingLost'
    BY StreamsSame DEF NothingLost, Handed, Pending, TypeOK, Phases
  <2> QED
    BY <2>1, <2>2, <2>3, <2>4
<1>4. CASE Unsubscribe(s)
  <2> USE <1>4 DEF Unsubscribe
  <2>1. TypeOK'
    BY DEF TypeOK
  <2>2. Phases'
    BY DEF Phases, TypeOK
  <2>3. InOnePlace' /\ AtMostOnce'
    BY StreamsSame DEF InOnePlace, Handed, Pending
  <2>4. NothingLost'
    BY StreamsSame DEF NothingLost, Handed, Pending, TypeOK
  <2> QED
    BY <2>1, <2>2, <2>3, <2>4
<1> QED
  BY <1>1, <1>2, <1>3, <1>4 DEF Delivery

LEMMA IInvStep == IInv /\ [Next]_vars => IInv'
<1> SUFFICES ASSUME IInv, [Next]_vars PROVE IInv'
  OBVIOUS
<1>1. CASE UNCHANGED vars
  BY <1>1, StreamsSame DEF vars, connVars, castVars, subVars, IInv, TypeOK, Phases,
     InOnePlace, NothingLost, Handed, Pending
<1>2. CASE Next
  BY <1>2, CallbackStep, BroadcastStep, SubscribeStep, ReplyStep, DeliveryStep DEF Next
<1> QED
  BY <1>1, <1>2

THEOREM Invariance == Spec => []IInv
<1>1. Init => IInv
  BY InitIInv
<1>2. IInv /\ [Next]_vars => IInv'
  BY IInvStep
<1> QED
  BY <1>1, <1>2, PTL DEF Spec

-----------------------------------------------------------------------------
(* Safety. *)

\* The state stays in its types: no buffer or pending send holds anything but
\* the event of a connection.
THEOREM TypeCorrect == Spec => []TypeOK
<1>1. IInv => TypeOK
  BY DEF IInv
<1> QED
  BY <1>1, Invariance, PTL

\* No stream carries the reply or an event twice (echo/server.go:40-48).
THEOREM NoDuplicates == Spec => []AtMostOnce
<1>1. IInv => AtMostOnce
  BY DEF IInv
<1> QED
  BY <1>1, Invariance, PTL

\* A broadcast that ran to its end reached everyone it had to, although it
\* does not hold the lock while it sends.
THEOREM BroadcastComplete == Spec => []CompletedBroadcastReachesAll
<1>1. IInv => CompletedBroadcastReachesAll
  BY DEF IInv, TypeOK, NothingLost, Pending, CompletedBroadcastReachesAll
<1> QED
  BY <1>1, Invariance, PTL

\* A client that has gone is not reported by WhoElse, whatever addresses the
\* connections have (echo/server.go:53-59).
THEOREM GhostsAreGone == Spec => []NoGhostClients
<1> USE DEF NoGhostClients, WhoElse, Connected
<1>1. Init => NoGhostClients
  BY DEF Init
<1>2. ASSUME TypeOK, NoGhostClients, [Next]_vars
      PROVE  NoGhostClients'
  <2>1. ASSUME NEW c \in Conns, OnConnect(c)
        PROVE  NoGhostClients'
    BY <2>1, <1>2 DEF OnConnect, TypeOK
  <2>2. ASSUME NEW c \in Conns, PeerGone(c)
        PROVE  NoGhostClients'
    BY <2>2, <1>2 DEF PeerGone, TypeOK
  <2>3. ASSUME NEW c \in Conns, OnDisconnect(c)
        PROVE  NoGhostClients'
    BY <2>3, <1>2 DEF OnDisconnect, TypeOK
  <2>4. ASSUME UNCHANGED connVars
        PROVE  NoGhostClients'
    BY <2>4, <1>2 DEF connVars
  <2>5. CASE UNCHANGED vars
    BY <2>4, <2>5 DEF vars
  <2>6. ASSUME NEW c \in Conns, Broadcast(c)
        PROVE  UNCHANGED connVars
    BY <2>6 DEF Broadcast, BroadcastNext, BroadcastSend, BroadcastEnd
  <2>7. ASSUME NEW s \in Subs, Subscribe(s) \/ Reply(s) \/ Delivery(s)
        PROVE  UNCHANGED connVars
    BY <2>7 DEF Subscribe, Reply, Delivery, Receive, SendOK, SendError, Unsubscribe
  <2> QED
    BY <1>2, <2>1, <2>2, <2>3, <2>4, <2>5, <2>6, <2>7 DEF Next, Callback
<1> QED
  BY <1>1, <1>2, TypeCorrect, PTL DEF Spec

\* WhoElse leaves out nobody whose address no other connection has.
THEOREM AloneAreListed == Spec => []OwnAddressIsListed
<1> USE DEF OwnAddressIsListed, WhoElse, Connected
<1>1. Init => OwnAddressIsListed
  BY DEF Init
<1>2. ASSUME TypeOK, OwnAddressIsListed, [Next]_vars
      PROVE  OwnAddressIsListed'
  <2>1. ASSUME NEW c \in Conns, OnConnect(c)
        PROVE  OwnAddressIsListed'
    BY <2>1, <1>2 DEF OnConnect, TypeOK
  <2>2. ASSUME NEW c \in Conns, PeerGone(c)
        PROVE  OwnAddressIsListed'
    BY <2>2, <1>2 DEF PeerGone, TypeOK
  <2>3. ASSUME NEW c \in Conns, OnDisconnect(c)
        PROVE  OwnAddressIsListed'
    BY <2>3, <1>2 DEF OnDisconnect, TypeOK
  <2>4. ASSUME UNCHANGED connVars
        PROVE  OwnAddressIsListed'
    BY <2>4, <1>2 DEF connVars
  <2>5. CASE UNCHANGED vars
    BY <2>4, <2>5 DEF vars
  <2>6. ASSUME NEW c \in Conns, Broadcast(c)
        PROVE  UNCHANGED connVars
    BY <2>6 DEF Broadcast, BroadcastNext, BroadcastSend, BroadcastEnd
  <2>7. ASSUME NEW s \in Subs, Subscribe(s) \/ Reply(s) \/ Delivery(s)
        PROVE  UNCHANGED connVars
    BY <2>7 DEF Subscribe, Reply, Delivery, Receive, SendOK, SendError, Unsubscribe
  <2> QED
    BY <1>2, <2>1, <2>2, <2>3, <2>4, <2>5, <2>6, <2>7 DEF Next, Callback
<1> QED
  BY <1>1, <1>2, TypeCorrect, PTL DEF Spec

\* Both together: what WhoElse replies.
THEOREM WhoElseIsRight == Spec => []ListIsRight
BY GhostsAreGone, AloneAreListed, PTL DEF ListIsRight

-----------------------------------------------------------------------------
(* The feed. *)

Announced == {c \in Conns : conn[c] # "idle"}
Open == {s \in Subs : handler[s] # "none" /\ conn[Owner[s]] = "up"}

LEMMA FeedStep == IInv /\ [Next]_vars => [Feed!Next]_(Feed!vars)
<1> SUFFICES ASSUME IInv, [Next]_vars PROVE [Feed!Next]_(Feed!vars)
  OBVIOUS
<1> USE EchoAssumption DEF IInv
<1> DEFINE Same == Announced' = Announced /\ Open' = Open /\ out' = out
<1>1. ASSUME Same PROVE UNCHANGED Feed!vars
  BY <1>1 DEF Feed!vars, Announced, Open
<1>2. ASSUME NEW c \in Conns, OnConnect(c) PROVE Feed!Next
  <2>1. Open' = Open
    BY <1>2 DEF OnConnect, subVars, Open, Phases, TypeOK
  <2>2. Announced' = Announced \union {c} /\ out' = out
    BY <1>2 DEF OnConnect, subVars, Announced, TypeOK
  <2>3. Feed!Announce(c)
    BY <2>1, <2>2 DEF Feed!Announce, Announced, Open
  <2> QED
    BY <2>3 DEF Feed!Next
<1>3. ASSUME NEW c \in Conns, PeerGone(c) PROVE Feed!Next
  <2> DEFINE gone == {s \in Subs : Owner[s] = c}
  <2>1. Open' = Open \ gone
    BY <1>3 DEF PeerGone, subVars, Open, TypeOK
  <2>2. Announced' = Announced /\ out' = out
    BY <1>3 DEF PeerGone, subVars, Announced, TypeOK
  <2>3. Feed!Leave(gone)
    BY <2>1, <2>2 DEF Feed!Leave, Announced, Open
  <2> QED
    BY <2>3 DEF Feed!Next
<1>4. ASSUME NEW c \in Conns, OnDisconnect(c) PROVE Same
  BY <1>4 DEF OnDisconnect, subVars, Announced, Open, TypeOK
<1>5. ASSUME NEW c \in Conns, Broadcast(c) PROVE Same
  BY <1>5 DEF Broadcast, BroadcastNext, BroadcastSend, BroadcastEnd,
     connVars, subVars, Announced, Open
<1>6. ASSUME NEW s \in Subs, Subscribe(s) PROVE Feed!Next \/ Same
  <2> USE <1>6 DEF Subscribe, connVars
  <2>1. Announced' = Announced /\ out' = out
    BY DEF Announced
  <2>2. CASE conn[Owner[s]] # "up"
    <3>1. Open' = Open
      BY <2>2 DEF Open, TypeOK
    <3> QED
      BY <2>1, <3>1
  <2>3. CASE conn[Owner[s]] = "up"
    <3>1. Open' = Open \union {s} /\ s \notin Open
      BY <2>3 DEF Open, TypeOK
    <3>2. Carried(s) = {}
      <4>1. \A m \in Carried(s) : m \in Conns \union {Zero}
        BY DEF Carried, TypeOK
      <4>2. Zero \notin Carried(s)
        BY DEF InOnePlace
      <4>3. \A c \in Conns : c \notin Carried(s)
        BY DEF InOnePlace, Handed, Phases
      <4> QED
        BY <4>1, <4>2, <4>3
    <3>3. out[s] = <<>>
      <4>1. out[s] \in Seq(Conns \union {Zero})
        BY DEF TypeOK
      <4>2. Len(out[s]) \in Nat
        BY <4>1
      <4>3. \A i \in 1..Len(out[s]) : out[s][i] \in Carried(s)
        BY DEF Carried
      <4>4. Len(out[s]) = 0
        BY <3>2, <4>2, <4>3
      <4> QED
        BY <4>1, <4>4
    <3>4. Feed!Subscribe(s)
      BY <2>1, <3>1, <3>3 DEF Feed!Subscribe, Announced, Open
    <3> QED
      BY <3>4 DEF Feed!Next
  <2> QED
    BY <2>2, <2>3
<1>7. ASSUME NEW s \in Subs, NEW m \in Conns \union {Zero},
             m \notin Carried(s), m \in Announced \union {Zero},
             Announced' = Announced, Open' = Open, handler[s] # "none",
             out' = IF conn[Owner[s]] = "up" THEN [out EXCEPT ![s] = Append(@, m)] ELSE out
      PROVE  Feed!Next \/ Same
  <2>1. CASE conn[Owner[s]] # "up"
    BY <1>7, <2>1
  <2>2. CASE conn[Owner[s]] = "up"
    <3>1. s \in Open
      BY <1>7, <2>2 DEF Open
    <3>2. Feed!Deliver(s, m)
      BY <1>7, <2>2, <3>1 DEF Feed!Deliver, Feed!Carried, Carried, Announced, Open
    <3> QED
      BY <3>2 DEF Feed!Next
  <2> QED
    BY <2>1, <2>2
<1>8. ASSUME NEW s \in Subs, Reply(s) PROVE Feed!Next \/ Same
  <2>1. Zero \notin Carried(s) /\ handler[s] # "none"
    BY <1>8 DEF Reply, InOnePlace
  <2>2. Announced' = Announced /\ Open' = Open
    BY <1>8 DEF Reply, connVars, Announced, Open, TypeOK
  <2> QED
    BY <1>7, <1>8, <2>1, <2>2 DEF Reply
<1>9. ASSUME NEW s \in Subs, SendOK(s) PROVE Feed!Next \/ Same
  <2>1. hold[s] \in Conns /\ hold[s] \notin Carried(s) /\ handler[s] # "none"
    BY <1>9 DEF SendOK, Phases, InOnePlace, TypeOK
  <2>2. hold[s] \in Announced
    BY <2>1 DEF Announced, InOnePlace, Handed, Phases
  <2>3. Announced' = Announced /\ Open' = Open
    BY <1>9 DEF SendOK, connVars, Announced, Open
  <2> QED
    BY <1>7, <1>9, <2>1, <2>2, <2>3 DEF SendOK
<1>10. ASSUME NEW s \in Subs, Receive(s) \/ SendError(s) \/ Unsubscribe(s) PROVE Same
  BY <1>10 DEF Receive, SendError, Unsubscribe, connVars, Announced, Open
<1>11. ASSUME UNCHANGED vars PROVE Same
  BY <1>11 DEF vars, connVars, subVars, Announced, Open
<1> HIDE DEF Same
<1>12. CASE Next
  BY <1>12, <1>2, <1>3, <1>4, <1>5, <1>6, <1>8, <1>9, <1>10, <1>1
  DEF Next, Callback, Delivery
<1> QED
  BY <1>1, <1>11, <1>12

\* Every stream of the server behaves as the abstract feed allows: events of
\* accepted connections and one reply, each once, only while the client is there.
THEOREM FeedRefinement == Spec => ImplementsFeed
<1>1. Init => Feed!Init
  BY EchoAssumption DEF Init, Feed!Init
<1>2. IInv /\ [Next]_vars => [Feed!Next]_(Feed!vars)
  BY FeedStep
<1> QED
  BY <1>1, <1>2, Invariance, PTL DEF Spec, ImplementsFeed, Feed!Spec
=============================================================================
