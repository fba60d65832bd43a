------------------------------ MODULE RawProofs ------------------------------
(***************************************************************************)
(* The raw benchmark, for all sizes of messages, buffers and sockets and   *)
(* any number of listeners and connections.                                *)
(*                                                                         *)
(*  - A connection in stream mode takes turns (Turns), and its messages    *)
(*    arrive as they were written.                                         *)
(*  - In either mode nothing is lost or swapped on a connection            *)
(*    (NothingLost): a read moves units from what is under way to what has *)
(*    been read.                                                           *)
(*  - The server ends for an error only, and for the first one.            *)
(***************************************************************************)
EXTENDS RawConn, RawServer, SequenceTheorems, WellFoundedInduction, TLAPS

Unit == Nat \X Nat

\* The types of the variables that Turns is about.
Typed ==
  /\ pc \in [Ends -> {"write", "read", "closed"}]
  /\ sent \in [Ends -> Nat]
  /\ todo \in [Ends -> Seq(Unit)]
  /\ wire \in [Ends -> Seq(Unit)]
  /\ part \in [Ends -> Seq(Unit)]
  /\ cap \in [Ends -> Nat]
  /\ got \in [Ends -> Seq(Seq(Unit))]

\* A message that is being read fits the buffer (server.go:79-85).
Fits == \A e \in Ends : part[e] # <<>> => Size[Peer(e)] <= cap[e]

StreamInv == ~ packet => Typed /\ Turns /\ Fits /\ MessagesIntact

LEMMA PeerFacts ==
  \A e \in Ends : Peer(e) \in Ends /\ Peer(e) # e /\ Peer(Peer(e)) = e
  BY DEF Ends, Peer

LEMMA Joined ==
  ASSUME NEW S, NEW q \in Seq(S), NEW r \in Seq(S)
  PROVE  q \o r \in Seq(S) /\ Len(q \o r) = Len(q) + Len(r)
  OBVIOUS

LEMMA MessageShape ==
  ASSUME NEW e \in Ends, NEW k \in Nat, ~ packet
  PROVE  /\ Message(e, k) \in Seq(Unit)
         /\ Len(Message(e, k)) = Size[e] + 1
         /\ Message(e, k) # <<>>
  <1>1. Size[e] \in Nat
    BY RawConnAssumption
  <1>2. [i \in 1..Size[e] |-> <<k, i>>] \in Seq(Unit) /\ Len([i \in 1..Size[e] |-> <<k, i>>]) = Size[e]
    BY <1>1 DEF Unit
  <1>3. <<<<k, 0>>>> \in Seq(Unit) /\ Len(<<<<k, 0>>>>) = 1
    BY DEF Unit
  <1>4. Message(e, k) = <<<<k, 0>>>> \o [i \in 1..Size[e] |-> <<k, i>>]
    BY DEF Message
  <1>5. Message(e, k) \in Seq(Unit) /\ Len(Message(e, k)) = 1 + Size[e]
    <2> DEFINE size == <<<<k, 0>>>>
               body == [i \in 1..Size[e] |-> <<k, i>>]
    <2>1. size \in Seq(Unit) /\ body \in Seq(Unit) /\ Len(size) = 1 /\ Len(body) = Size[e]
      BY <1>2, <1>3
    <2>2. Message(e, k) = size \o body
      BY <1>4
    <2> HIDE DEF size, body
    <2>3. size \o body \in Seq(Unit) /\ Len(size \o body) = Len(size) + Len(body)
      BY <2>1, Joined, Zenon
    <2> QED BY <2>1, <2>2, <2>3
  <1> QED BY <1>1, <1>5

\* Units that move from the head of one sequence to the end of the one before it
\* leave the two together as they were.
LEMMA Moved ==
  \A q, r \in Seq(Unit) : \A n \in 1..Len(r) :
    /\ SubSeq(r, 1, n) \in Seq(Unit) /\ SubSeq(r, n + 1, Len(r)) \in Seq(Unit)
    /\ q \o SubSeq(r, 1, n) \in Seq(Unit)
    /\ q \o SubSeq(r, 1, n) # <<>>
    /\ (q \o SubSeq(r, 1, n)) \o SubSeq(r, n + 1, Len(r)) = q \o r
  <1> TAKE q, r \in Seq(Unit)
  <1> TAKE n \in 1..Len(r)
  <1> DEFINE head == SubSeq(r, 1, n)
             rest == SubSeq(r, n + 1, Len(r))
  <1>1. head \in Seq(Unit) /\ rest \in Seq(Unit) /\ Len(head) = n
    BY SubSeqProperties, ElementOfSeq, LenProperties
  <1>2. head \o rest = r
    BY ConcatAdjacentSubSeq, SubSeqFull, LenProperties
  <1> HIDE DEF head, rest
  <1>3. (q \o head) \o rest = q \o r
    <2>1. (q \o head) \o rest = q \o (head \o rest)
      BY <1>1
    <2> QED BY <2>1, <1>2
  <1>4. q \o head \in Seq(Unit) /\ Len(q \o head) = Len(q) + n /\ Len(q) \in Nat
    BY <1>1, ConcatProperties, LenProperties
  <1>5. q \o head # <<>>
    BY <1>4
  <1> QED BY <1>1, <1>3, <1>4, <1>5 DEF head, rest

LEMMA Associative ==
  \A q, r, s \in Seq(Unit) : (q \o r) \o s = q \o (r \o s)
  OBVIOUS

LEMMA AllOfIt ==
  \A q, r, s \in Seq(Unit) :
    Len((q \o r) \o s) <= Len(q) => r = <<>> /\ s = <<>> /\ (q \o r) \o s = q
  OBVIOUS

LEMMA NothingUnderWay ==
  \A q, r, s \in Seq(Unit) : (q \o r) \o s = <<>> <=> q = <<>> /\ r = <<>> /\ s = <<>>
  OBVIOUS

LEMMA Lengthened ==
  \A q \in Seq(Seq(Unit)) : \A x \in Seq(Unit) :
    /\ Append(q, x) \in Seq(Seq(Unit)) /\ Len(Append(q, x)) = Len(q) + 1
    /\ \A k \in 1..(Len(q) + 1) :
         Append(q, x)[k] = IF k = Len(q) + 1 THEN x ELSE q[k]
  OBVIOUS

-----------------------------------------------------------------------------
(* Turns in stream mode. *)

LEMMA InitStream == Init => StreamInv
  <1> SUFFICES ASSUME Init, ~ packet PROVE Typed /\ Turns /\ Fits /\ MessagesIntact
    BY DEF StreamInv
  <1>1. Typed
    <2>1. Message("client", 1) \in Seq(Unit) /\ <<>> \in Seq(Unit) /\ <<>> \in Seq(Seq(Unit))
      BY MessageShape DEF Ends
    <2>2. BufSize \in Nat
      BY RawConnAssumption
    <2> QED BY <2>1, <2>2 DEF Init, Typed
  <1>2. Turns
    <2>1. /\ part = [e \in Ends |-> <<>>] /\ wire = [e \in Ends |-> <<>>]
          /\ todo["client"] = Message("client", 1) /\ todo["server"] = <<>>
          /\ sent["client"] = 1 /\ sent["server"] = 0
          /\ got["client"] = <<>> /\ got["server"] = <<>>
      BY DEF Init, Ends
    <2>2. UnderWay("client") = Message("client", 1)
      BY <2>1, MessageShape DEF UnderWay, Ends, Peer
    <2>3. UnderWay("server") = <<>>
      BY <2>1 DEF UnderWay, Ends, Peer
    <2> QED BY <2>1, <2>2, <2>3 DEF Turns, Ends, Peer
  <1>3. Fits
    BY PeerFacts DEF Init, Fits
  <1>4. MessagesIntact
    BY DEF Init, MessagesIntact
  <1> QED BY <1>1, <1>2, <1>3, <1>4

\* A write moves units from what is to be written into the socket: what is under way
\* is the same.
LEMMA WritesMove ==
  ASSUME NEW w \in Ends, WriteSome(w), Typed
  PROVE  /\ Typed'
         /\ \A e \in Ends : UnderWay(e)' = UnderWay(e)
         /\ \A e \in Ends : \A k : Message(e, k)' = Message(e, k)
         /\ packet' = packet /\ sent' = sent /\ cap' = cap /\ part' = part /\ got' = got
         /\ \A e \in Ends : pc'[e] # "write" /\ (pc[e] # "write" => todo[e] = <<>>) => todo'[e] = <<>>
         /\ \A e \in Ends : Len(wire[e]) <= Room => Len(wire'[e]) <= Room
  <1>1. PICK n \in 1..Len(todo[w]) :
          /\ Len(wire[w]) + n <= Room
          /\ wire' = [wire EXCEPT ![w] = @ \o SubSeq(todo[w], 1, n)]
          /\ todo' = [todo EXCEPT ![w] = SubSeq(@, n + 1, Len(@))]
    BY DEF WriteSome
  <1>2. /\ pc' = [pc EXCEPT ![w] = IF todo'[w] = <<>> THEN "read" ELSE "write"]
        /\ packet' = packet /\ sent' = sent /\ cap' = cap /\ part' = part /\ got' = got
    BY DEF WriteSome
  <1>3. wire[w] \in Seq(Unit) /\ todo[w] \in Seq(Unit) /\ part[Peer(w)] \in Seq(Unit)
    BY PeerFacts DEF Typed
  <1>4. /\ wire'[w] \in Seq(Unit) /\ todo'[w] \in Seq(Unit)
        /\ wire'[w] \o todo'[w] = wire[w] \o todo[w]
        /\ \A e \in Ends : e # w => wire'[e] = wire[e] /\ todo'[e] = todo[e]
    <2>1. /\ wire'[w] = wire[w] \o SubSeq(todo[w], 1, n)
          /\ todo'[w] = SubSeq(todo[w], n + 1, Len(todo[w]))
          /\ \A e \in Ends : e # w => wire'[e] = wire[e] /\ todo'[e] = todo[e]
      BY <1>1 DEF Typed
    <2> DEFINE q == wire[w]
               r == todo[w]
    <2>2. /\ q \in Seq(Unit) /\ r \in Seq(Unit) /\ n \in 1..Len(r)
          /\ wire'[w] = q \o SubSeq(r, 1, n) /\ todo'[w] = SubSeq(r, n + 1, Len(r))
      BY <2>1, <1>3
    <2> HIDE DEF q, r
    <2>3. wire'[w] \in Seq(Unit) /\ todo'[w] \in Seq(Unit) /\ wire'[w] \o todo'[w] = q \o r
      <3>1. /\ SubSeq(r, n + 1, Len(r)) \in Seq(Unit) /\ q \o SubSeq(r, 1, n) \in Seq(Unit)
            /\ (q \o SubSeq(r, 1, n)) \o SubSeq(r, n + 1, Len(r)) = q \o r
        BY <2>2, Moved, Zenon
      <3> QED BY <2>2, <3>1, Zenon
    <2> QED BY <2>1, <2>3 DEF q, r
  <1>5. Typed'
    <2>1. wire' \in [Ends -> Seq(Unit)]
      BY <1>1, <1>4 DEF Typed
    <2>2. todo' \in [Ends -> Seq(Unit)]
      BY <1>1, <1>4 DEF Typed
    <2> QED BY <2>1, <2>2, <1>2 DEF Typed
  <1>6. \A e \in Ends : UnderWay(e)' = UnderWay(e)
    <2> TAKE e \in Ends
    <2>2. CASE e # w
      BY <2>2, <1>2, <1>4 DEF UnderWay
    <2>3. CASE e = w
      <3>1. (part[Peer(w)] \o wire'[w]) \o todo'[w] = part[Peer(w)] \o (wire'[w] \o todo'[w])
        BY <1>3, <1>4, Associative, Zenon
      <3>2. (part[Peer(w)] \o wire[w]) \o todo[w] = part[Peer(w)] \o (wire[w] \o todo[w])
        BY <1>3, Associative, Zenon
      <3> QED BY <2>3, <3>1, <3>2, <1>2, <1>4 DEF UnderWay
    <2> QED BY <2>2, <2>3
  <1>7. \A e \in Ends : \A k : Message(e, k)' = Message(e, k)
    BY <1>2 DEF Message
  <1>8. ASSUME NEW e \in Ends, pc'[e] # "write", pc[e] # "write" => todo[e] = <<>>
        PROVE  todo'[e] = <<>>
    <2>1. CASE e = w
      BY <2>1, <1>2, <1>8 DEF Typed
    <2>2. CASE e # w
      BY <2>2, <1>2, <1>4, <1>8 DEF Typed
    <2> QED BY <2>1, <2>2
  <1>9. ASSUME NEW e \in Ends, Len(wire[e]) <= Room PROVE Len(wire'[e]) <= Room
    <2>1. CASE e = w
      <3>1. wire'[w] = wire[w] \o SubSeq(todo[w], 1, n)
        BY <1>1 DEF Typed
      <3>2. SubSeq(todo[w], 1, n) \in Seq(Unit) /\ Len(SubSeq(todo[w], 1, n)) = n
        BY <1>3
      <3>3. Len(wire[w] \o SubSeq(todo[w], 1, n)) = Len(wire[w]) + n
        BY <3>2, <1>3, Joined
      <3> QED BY <2>1, <3>1, <3>3, <1>1
    <2>2. CASE e # w
      BY <2>2, <1>4, <1>9
    <2> QED BY <2>1, <2>2
  <1> QED BY <1>2, <1>5, <1>6, <1>7, <1>8, <1>9

LEMMA WritesStream ==
  ASSUME NEW w \in Ends, WriteSome(w), ~ packet, Typed, Turns, Fits, MessagesIntact
  PROVE  Typed' /\ Turns' /\ Fits' /\ MessagesIntact'
  <1>1. Typed' /\ packet' = packet /\ sent' = sent /\ cap' = cap /\ part' = part /\ got' = got
    BY WritesMove
  <1>2. \A e \in Ends : UnderWay(e)' = UnderWay(e) /\ Message(e, sent[e])' = Message(e, sent[e])
    BY <1>1, WritesMove DEF Message
  <1>3. Turns'
    BY <1>1, <1>2 DEF Turns
  <1>4. Fits' /\ MessagesIntact'
    BY <1>1 DEF Fits, MessagesIntact, Message
  <1> QED BY <1>1, <1>3, <1>4

\* A read takes units from the socket.  Those of an unfinished message are kept; the
\* last ones make it whole, and then nothing else is under way from either end.
LEMMA ReadsStream ==
  ASSUME NEW r \in Ends, ReadStream(r), ~ packet, Typed, Turns, Fits, MessagesIntact
  PROVE  Typed' /\ Turns' /\ Fits' /\ MessagesIntact'
  <1> DEFINE p == Peer(r)
  <1>1. p = Peer(r) /\ p \in Ends /\ p # r /\ Peer(p) = r /\ \A e \in Ends : e = r \/ e = p
    BY PeerFacts DEF Ends, Peer
  <1>2. part[r] \in Seq(Unit) /\ wire[p] \in Seq(Unit) /\ todo[p] \in Seq(Unit)
    BY <1>1 DEF Typed
  <1>3. part[p] \in Seq(Unit) /\ wire[r] \in Seq(Unit) /\ todo[r] \in Seq(Unit)
    BY <1>1 DEF Typed
  <1>4. /\ sent[r] \in Nat /\ sent[p] \in Nat /\ Len(got[r]) \in Nat /\ Len(got[p]) \in Nat
        /\ got[r] \in Seq(Seq(Unit)) /\ cap[r] \in Nat /\ Size[p] \in Nat
    BY <1>1, RawConnAssumption DEF Typed
  <1>5. PICK n \in 1..Missing(r) :
          /\ n <= Len(wire[p])
          /\ wire' = [wire EXCEPT ![p] = SubSeq(@, n + 1, Len(@))]
          /\ IF Len(part[r] \o SubSeq(wire[p], 1, n)) = Size[p] + 1
             THEN part' = [part EXCEPT ![r] = <<>>] /\ Return(r, part[r] \o SubSeq(wire[p], 1, n))
             ELSE /\ part' = [part EXCEPT ![r] = part[r] \o SubSeq(wire[p], 1, n)]
                  /\ UNCHANGED <<pc, sent, todo, got>>
    BY DEF ReadStream
  <1> DEFINE units == part[r] \o SubSeq(wire[p], 1, n)
             rest == SubSeq(wire[p], n + 1, Len(wire[p]))
  <1> HIDE DEF p
  <1>6. n \in 1..Len(wire[p])
    <2>1. Missing(r) \in Int
      BY <1>1, <1>4 DEF Missing
    <2> QED BY <2>1, <1>5, <1>2
  <1>7. /\ units \in Seq(Unit) /\ rest \in Seq(Unit) /\ units # <<>>
        /\ units \o rest = part[r] \o wire[p]
    BY <1>6, <1>2, Moved, Zenon
  <1>8. /\ wire'[p] = rest /\ wire'[r] = wire[r] /\ wire' \in [Ends -> Seq(Unit)]
        /\ packet' = packet
    BY <1>1, <1>4, <1>5, <1>7 DEF Typed, ReadStream
  <1>9. /\ cap' \in [Ends -> Nat] /\ cap'[p] = cap[p]
        /\ part[r] = <<>> => Size[p] <= cap'[r]
        /\ part[r] # <<>> => cap'[r] = cap[r]
    <2>1. cap' = IF part[r] = <<>> /\ Size[p] > cap[r] THEN [cap EXCEPT ![r] = Size[p]] ELSE cap
      BY <1>1 DEF ReadStream
    <2> QED BY <2>1, <1>1, <1>4, SMTT(60) DEF Typed
  <1>10. \A e \in Ends : \A k : Message(e, k)' = Message(e, k)
    BY <1>8 DEF Message
  <1> HIDE DEF units, rest
  <1>11. CASE Len(units) # Size[p] + 1
    <2>1. part' = [part EXCEPT ![r] = units] /\ UNCHANGED <<pc, sent, todo, got>>
      BY <1>5, <1>11 DEF units
    <2>2. part'[r] = units /\ part'[p] = part[p] /\ part' \in [Ends -> Seq(Unit)]
      BY <2>1, <1>1, <1>7 DEF Typed
    <2>3. Typed'
      BY <2>1, <2>2, <1>8, <1>9 DEF Typed
    <2>4. UnderWay(p)' = UnderWay(p) /\ UnderWay(r)' = UnderWay(r)
      BY <2>1, <2>2, <1>1, <1>7, <1>8 DEF UnderWay
    <2>5. Turns'
      BY <2>1, <2>4, <1>1, <1>8, <1>10 DEF Turns
    <2>6. Fits'
      <3>1. part'[r] # <<>> => Size[p] <= cap'[r]
        BY <1>1, <1>9 DEF Fits
      <3>2. part'[p] # <<>> => Size[Peer(p)] <= cap'[p]
        BY <2>2, <1>1, <1>9 DEF Fits
      <3> QED BY <3>1, <3>2, <1>1 DEF Fits
    <2>7. MessagesIntact'
      BY <2>1, <1>8 DEF MessagesIntact, Message
    <2> QED BY <2>3, <2>5, <2>6, <2>7
  <1>12. CASE Len(units) = Size[p] + 1
    <2>1. part' = [part EXCEPT ![r] = <<>>] /\ Return(r, units)
      BY <1>5, <1>12 DEF units
    \* The message is whole.
    <2>2. UnderWay(p) = (units \o rest) \o todo[p]
      BY <1>1, <1>7 DEF UnderWay
    <2>3. sent[p] = Len(got[r]) + 1 /\ UnderWay(p) = Message(p, sent[p])
      <3>1. UnderWay(p) # <<>>
        <4>1. (units \o rest) \o todo[p] # <<>>
          BY <1>7, <1>2, NothingUnderWay, Zenon
        <4> QED BY <4>1, <2>2
      <3> QED BY <3>1, <1>1 DEF Turns
    <2>4. rest = <<>> /\ todo[p] = <<>> /\ units = Message(p, Len(got[r]) + 1)
      <3>1. Len(Message(p, sent[p])) = Size[p] + 1
        BY <1>1, <1>4, MessageShape
      <3>2. Len((units \o rest) \o todo[p]) <= Len(units)
        BY <3>1, <2>2, <2>3, <1>4, <1>12
      <3>3. rest = <<>> /\ todo[p] = <<>> /\ (units \o rest) \o todo[p] = units
        BY <3>2, <1>7, <1>2, AllOfIt, Zenon
      <3> QED BY <3>3, <2>2, <2>3
    \* Nothing is under way the other way.
    <2>5. sent[r] = Len(got[p]) /\ UnderWay(r) = <<>>
      <3>1. CASE r = "client"
        BY <3>1, <2>3, <1>1, <1>4 DEF Turns, Ends, Peer
      <3>2. CASE r = "server"
        BY <3>2, <2>3, <1>1, <1>4 DEF Turns, Ends, Peer
      <3> QED BY <3>1, <3>2 DEF Ends
    <2>6. part[p] = <<>> /\ wire[r] = <<>> /\ todo[r] = <<>>
      <3>1. (part[p] \o wire[r]) \o todo[r] = <<>>
        BY <2>5, <1>1 DEF UnderWay
      <3> QED BY <3>1, <1>3, NothingUnderWay, Zenon
    <2>7. /\ got' = [got EXCEPT ![r] = Append(@, units)]
          /\ got'[r] = Append(got[r], units) /\ got'[p] = got[p]
          /\ got' \in [Ends -> Seq(Seq(Unit))] /\ Len(got'[r]) = Len(got[r]) + 1
          /\ \A k \in 1..Len(got'[r]) :
               got'[r][k] = IF k = Len(got[r]) + 1 THEN units ELSE got[r][k]
      <3>1. got' = [got EXCEPT ![r] = Append(@, units)]
        BY <2>1 DEF Return
      <3>2. got'[r] = Append(got[r], units) /\ got'[p] = got[p]
        BY <3>1, <1>1 DEF Typed
      <3>3. /\ Append(got[r], units) \in Seq(Seq(Unit))
            /\ Len(Append(got[r], units)) = Len(got[r]) + 1
            /\ \A k \in 1..(Len(got[r]) + 1) :
                 Append(got[r], units)[k] = IF k = Len(got[r]) + 1 THEN units ELSE got[r][k]
        BY <1>4, <1>7, Lengthened, Zenon
      <3>4. Len(got'[r]) = Len(got[r]) + 1
        BY <3>2, <3>3
      <3>5. \A k \in 1..Len(got'[r]) :
               got'[r][k] = IF k = Len(got[r]) + 1 THEN units ELSE got[r][k]
        BY <3>2, <3>3, <3>4
      <3> QED BY <3>1, <3>2, <3>3, <3>4, <3>5 DEF Typed
    <2>8. part' \in [Ends -> Seq(Unit)] /\ part'[r] = <<>> /\ part'[p] = <<>>
      BY <2>1, <2>6, <1>1 DEF Typed
    <2>9. Fits'
      BY <2>8, <1>1 DEF Fits
    <2>10. MessagesIntact'
      <3>1. \A k \in 1..Len(got'[r]) : got'[r][k] = Message(p, k)
        BY <2>4, <2>7, <1>1, <1>4, SMTT(60) DEF MessagesIntact
      <3>2. \A k \in 1..Len(got'[p]) : got'[p][k] = Message(r, k)
        BY <2>7, <1>1 DEF MessagesIntact
      <3>3. \A e \in Ends : \A k \in 1..Len(got'[e]) : got'[e][k] = Message(Peer(e), k)
        BY <3>1, <3>2, <1>1
      <3> QED BY <3>3, <1>8 DEF MessagesIntact, Message
    \* The end that has read goes on to its next message, or is the client and has
    \* had enough.
    <2>11. \/ Write(r)
           \/ r = "client" /\ pc' = [pc EXCEPT ![r] = "closed"] /\ UNCHANGED <<sent, todo>>
      <3>1. r = "server" => units = Message("client", Len(got'["server"]))
        BY <2>4, <2>7, <1>1 DEF Peer
      <3> QED BY <3>1, <2>1 DEF Return
    <2>12. CASE Write(r)
      <3>1. /\ pc' = [pc EXCEPT ![r] = "write"] /\ sent' = [sent EXCEPT ![r] = @ + 1]
            /\ todo' = [todo EXCEPT ![r] = Message(r, sent[r] + 1)]
        BY <2>12 DEF Write
      <3>2. Message(r, sent[r] + 1) \in Seq(Unit)
        <4>1. sent[r] + 1 \in Nat
          BY <1>4
        <4> QED BY <4>1, MessageShape
      <3>3. /\ sent'[r] = sent[r] + 1 /\ sent'[p] = sent[p] /\ sent' \in [Ends -> Nat]
            /\ todo'[r] = Message(r, sent[r] + 1) /\ todo'[p] = todo[p]
            /\ todo' \in [Ends -> Seq(Unit)]
            /\ pc' \in [Ends -> {"write", "read", "closed"}]
        <4>1. sent'[r] = sent[r] + 1 /\ sent'[p] = sent[p] /\ sent' \in [Ends -> Nat]
          BY <3>1, <1>1, <1>4 DEF Typed
        <4>2. todo'[r] = Message(r, sent[r] + 1) /\ todo'[p] = todo[p]
          BY <3>1, <1>1 DEF Typed
        <4>3. todo' \in [Ends -> Seq(Unit)]
          BY <3>1, <3>2 DEF Typed
        <4>4. pc' \in [Ends -> {"write", "read", "closed"}]
          BY <3>1 DEF Typed
        <4> QED BY <4>1, <4>2, <4>3, <4>4
      <3>4. Typed'
        BY <3>3, <2>7, <2>8, <1>8, <1>9 DEF Typed
      <3>5. UnderWay(r)' = Message(r, sent[r] + 1)
        BY <3>2, <3>3, <2>6, <2>8, <1>1, <1>8 DEF UnderWay
      <3>6. UnderWay(p)' = <<>>
        BY <3>3, <2>4, <2>8, <1>1, <1>8 DEF UnderWay
      <3>7. \A e \in Ends :
              \/ sent'[e] = Len(got'[Peer(e)]) /\ UnderWay(e)' = <<>>
              \/ sent'[e] = Len(got'[Peer(e)]) + 1 /\ UnderWay(e)' = Message(e, sent[e])'
        <4>1. Message(r, sent[r])' = Message(r, sent[r] + 1)
          BY <3>3, <1>8 DEF Message
        <4>2. sent'[r] = Len(got'[p]) + 1 /\ sent'[p] = Len(got'[r])
          BY <3>3, <2>3, <2>5, <2>7
        <4> QED BY <4>1, <4>2, <3>5, <3>6, <1>1
      <3>8. sent'["client"] <= Len(got'["client"]) + 1 /\ sent'["server"] = Len(got'["server"])
        <4>1. CASE r = "client"
          BY <4>1, <3>3, <2>7, <1>1, <1>4, SMTT(60) DEF Turns, Peer
        <4>2. CASE r = "server"
          BY <4>2, <3>3, <2>7, <1>1, <1>4, SMTT(60) DEF Turns, Peer
        <4> QED BY <4>1, <4>2 DEF Ends
      <3>9. Turns'
        BY <3>7, <3>8 DEF Turns
      <3> QED BY <3>4, <3>9, <2>9, <2>10
    <2>13. CASE r = "client" /\ pc' = [pc EXCEPT ![r] = "closed"] /\ UNCHANGED <<sent, todo>>
      <3>1. Typed'
        BY <2>7, <2>8, <2>13, <1>8, <1>9 DEF Typed
      <3>2. UnderWay(r)' = <<>>
        BY <2>6, <2>8, <2>13, <1>1, <1>8 DEF UnderWay
      <3>3. UnderWay(p)' = <<>>
        BY <2>4, <2>8, <2>13, <1>1, <1>8 DEF UnderWay
      <3>4. \A e \in Ends : sent'[e] = Len(got'[Peer(e)]) /\ UnderWay(e)' = <<>>
        BY <3>2, <3>3, <2>3, <2>5, <2>7, <2>13, <1>1
      <3>5. sent'["client"] <= Len(got'["client"]) + 1 /\ sent'["server"] = Len(got'["server"])
        BY <2>7, <2>13, <1>1, <1>4 DEF Turns, Peer
      <3>6. Turns'
        BY <3>4, <3>5 DEF Turns
      <3> QED BY <3>1, <3>6, <2>9, <2>10
    <2> QED BY <2>11, <2>12, <2>13
  <1> QED BY <1>11, <1>12

\* The steps of packet mode and the end of the stream do not touch it.
LEMMA StreamNext == StreamInv /\ [Next]_vars => StreamInv'
  <1> SUFFICES ASSUME StreamInv, [Next]_vars, ~ packet'
               PROVE  Typed' /\ Turns' /\ Fits' /\ MessagesIntact'
    BY DEF StreamInv
  <1>1. packet' = packet
    BY DEF Next, Run, WriteSome, ReadStream, ReadPacket, EndOfStream, vars
  <1>2. ~ packet /\ Typed /\ Turns /\ Fits /\ MessagesIntact
    BY <1>1 DEF StreamInv
  <1>3. CASE UNCHANGED vars
    BY <1>2, <1>3 DEF vars, Typed, Turns, UnderWay, Message, Fits, MessagesIntact
  <1>4. CASE Next
    <2>1. PICK e \in Ends : Run(e)
      BY <1>4 DEF Next
    <2>2. CASE WriteSome(e)
      BY <2>2, <1>2, WritesStream
    <2>3. CASE ReadStream(e)
      BY <2>3, <1>2, ReadsStream
    <2>4. CASE ReadPacket(e)
      BY <2>4, <1>2 DEF ReadPacket
    <2>5. CASE EndOfStream(e)
      <3>1. Typed'
        BY <2>5, <1>2 DEF EndOfStream, Typed
      <3> QED BY <3>1, <2>5, <1>2 DEF EndOfStream, Turns, UnderWay, Message, Fits, MessagesIntact
    <2> QED BY <2>1, <2>2, <2>3, <2>4, <2>5 DEF Run
  <1> QED BY <1>3, <1>4

\* In stream mode requests and replies take turns on the connection, and one that is
\* longer than the buffer is read into a buffer that holds it
\* (asbench/raw/server/server.go:73-90, asbench/raw/client/client.go:46-80).
THEOREM StreamInvariance == Spec => []StreamInv
  BY InitStream, StreamNext, PTL DEF Spec

\* What WriteStream has written is what ReadStream returns, message by message and in
\* order, for every size of messages, buffer and socket and every way the socket
\* cuts them (asbench/raw/server/server.go:73-98).
THEOREM IntactMessages == Spec => []MessagesIntact
  <1>1. StreamInv => MessagesIntact
    BY DEF StreamInv, MessagesIntact
  <1> QED BY <1>1, StreamInvariance, PTL

-----------------------------------------------------------------------------
(* All that is written is read, in either mode. *)

\* Induction over the numbers, for a set instead of a predicate.
LEMMA NumbersInSet ==
  ASSUME NEW S, 0 \in S, \A n \in Nat : n \in S => n + 1 \in S
  PROVE  Nat \subseteq S
  <1> DEFINE R == {ss \in Nat \X Nat : ss[1] < ss[2]}
             T == Nat \ S
  <1>1. IsWellFoundedOn(R, Nat)
    BY NatLessThanWellFounded DEF OpToRel
  <1>2. SUFFICES ASSUME T # {} PROVE FALSE
    OBVIOUS
  <1>3. PICK x \in T : \A y \in T : ~ (<<y, x>> \in R)
    <2> HIDE DEF R
    <2> QED BY <1>1, <1>2, WFMin
  <1>4. x # 0 /\ x - 1 \in Nat /\ x = (x - 1) + 1
    OBVIOUS
  <1>5. x - 1 \notin T
    <2>1. <<x - 1, x>> \in R
      <3>1. <<x - 1, x>> \in Nat \X Nat /\ <<x - 1, x>>[1] < <<x - 1, x>>[2]
        BY <1>4
      <3> QED BY <3>1
    <2> QED BY <2>1, <1>3
  <1> QED BY <1>4, <1>5

\* What FlattenSeq counts on: f[i] is the first i sequences of q one after another.
Joins(f, q, n) ==
  /\ f \in [1..n -> Seq(Unit)]
  /\ \A i \in 1..n : f[i] = IF i = 1 THEN q[i] ELSE f[i - 1] \o q[i]

LEMMA JoinsOneMore ==
  ASSUME NEW q \in Seq(Seq(Unit)), NEW n \in Nat, n < Len(q),
         NEW f, Joins(f, q, n)
  PROVE  Joins([i \in 1..(n + 1) |-> IF i <= n THEN f[i]
                                     ELSE IF n = 0 THEN q[1] ELSE f[n] \o q[n + 1]],
               q, n + 1)
  <1> DEFINE last == IF n = 0 THEN q[1] ELSE f[n] \o q[n + 1]
             g == [i \in 1..(n + 1) |-> IF i <= n THEN f[i] ELSE last]
  <1>1. q[n + 1] \in Seq(Unit) /\ (n = 0 => q[1] \in Seq(Unit))
    BY ElementOfSeq
  <1>2. last \in Seq(Unit)
    <2>1. CASE n = 0
      BY <2>1, <1>1
    <2>2. CASE n # 0
      <3>1. f[n] \in Seq(Unit)
        BY <2>2 DEF Joins
      <3>2. f[n] \o q[n + 1] \in Seq(Unit)
        BY <3>1, <1>1, ConcatProperties
      <3> QED BY <3>2, <2>2
    <2> QED BY <2>1, <2>2
  <1>3. last = IF n + 1 = 1 THEN q[n + 1] ELSE f[n] \o q[n + 1]
    OBVIOUS
  <1> HIDE DEF last
  <1>4. g \in [1..(n + 1) -> Seq(Unit)]
    BY <1>2 DEF Joins
  <1>5. ASSUME NEW i \in 1..(n + 1)
        PROVE  g[i] = IF i = 1 THEN q[i] ELSE g[i - 1] \o q[i]
    <2>1. CASE i = n + 1
      BY <2>1, <1>3
    <2>2. CASE i # n + 1
      <3>1. i \in 1..n /\ (i # 1 => i - 1 \in 1..n /\ i - 1 \in 1..(n + 1))
        BY <2>2
      <3>2. g[i] = f[i] /\ (i # 1 => g[i - 1] = f[i - 1])
        BY <3>1
      <3>3. f[i] = IF i = 1 THEN q[i] ELSE f[i - 1] \o q[i]
        BY <3>1 DEF Joins
      <3> HIDE DEF g
      <3> QED BY <3>2, <3>3
    <2> QED BY <2>1, <2>2
  <1> HIDE DEF g
  <1>6. Joins(g, q, n + 1)
    BY <1>4, <1>5 DEF Joins
  <1> QED BY <1>6 DEF g, last

LEMMA JoinsExists ==
  ASSUME NEW q \in Seq(Seq(Unit)) PROVE \E f : Joins(f, q, Len(q))
  <1> DEFINE S == {n \in Nat : n <= Len(q) => \E f : Joins(f, q, n)}
  <1>1. 0 \in S
    <2>1. Joins([i \in 1..0 |-> <<>>], q, 0)
      BY DEF Joins
    <2> QED BY <2>1
  <1>2. ASSUME NEW n \in Nat, n \in S PROVE n + 1 \in S
    <2>1. CASE n + 1 <= Len(q)
      <3>1. PICK f : Joins(f, q, n)
        BY <1>2, <2>1
      <3>2. n < Len(q)
        BY <2>1, LenProperties
      <3>3. \E g : Joins(g, q, n + 1)
        BY <3>1, <3>2, JoinsOneMore, Zenon
      <3> QED BY <3>3
    <2> QED BY <2>1
  <1>3. Nat \subseteq S
    <2> HIDE DEF S
    <2> QED BY <1>1, <1>2, NumbersInSet
  <1> QED BY <1>3, LenProperties

\* Whatever follows the rule of FlattenSeq is what FlattenSeq takes.
LEMMA FlattenIs ==
  ASSUME NEW q \in Seq(Seq(Unit)), q # <<>>, NEW f, Joins(f, q, Len(q))
  PROVE  FlattenSeq(q) = f[Len(q)]
  <1> DEFINE Rule(g) == g = [i \in 1..Len(q) |-> IF i = 1 THEN q[i] ELSE g[i - 1] \o q[i]]
             c == CHOOSE g : Rule(g)
  <1>1. Len(q) \in Nat \ {0}
    BY EmptySeq
  <1>2. Rule(f)
    BY DEF Joins
  <1>3. Rule(c)
    <2> HIDE DEF Rule
    <2> QED BY <1>2
  <1>4. FlattenSeq(q) = c[Len(q)]
    BY <1>1 DEF FlattenSeq
  <1> HIDE DEF c
  <1> DEFINE S == {n \in Nat : n + 1 <= Len(q) => c[n + 1] = f[n + 1]}
  <1>5. 0 \in S
    <2>1. c[1] = q[1] /\ f[1] = q[1]
      BY <1>1, <1>2, <1>3
    <2> QED BY <2>1
  <1>6. ASSUME NEW n \in Nat, n \in S PROVE n + 1 \in S
    <2>1. CASE n + 2 <= Len(q)
      <3>1. n + 2 \in 1..Len(q) /\ n + 2 # 1 /\ (n + 2) - 1 = n + 1
        BY <2>1, <1>1
      <3>2. c[n + 2] = c[n + 1] \o q[n + 2]
        BY <3>1, <1>3
      <3>3. f[n + 2] = f[n + 1] \o q[n + 2]
        BY <3>1, <1>2
      <3>4. c[n + 1] = f[n + 1]
        BY <1>6, <2>1, <1>1
      <3>5. c[n + 2] = f[n + 2]
        BY <3>2, <3>3, <3>4
      <3>6. (n + 1) + 1 = n + 2
        OBVIOUS
      <3> QED BY <3>5, <3>6
    <2>2. CASE ~ (n + 2 <= Len(q))
      BY <2>2, <1>1
    <2> QED BY <2>1, <2>2
  <1>7. Nat \subseteq S
    <2> HIDE DEF S
    <2> QED BY <1>5, <1>6, NumbersInSet
  <1>8. c[Len(q)] = f[Len(q)]
    <2>1. Len(q) - 1 \in Nat /\ (Len(q) - 1) + 1 = Len(q)
      BY <1>1
    <2>2. Len(q) - 1 \in S
      BY <2>1, <1>7
    <2> QED BY <2>1, <2>2
  <1> QED BY <1>4, <1>8

LEMMA FlattenAppend ==
  \A q \in Seq(Seq(Unit)) : \A x \in Seq(Unit) :
    /\ FlattenSeq(q) \in Seq(Unit)
    /\ FlattenSeq(Append(q, x)) = FlattenSeq(q) \o x
  <1> TAKE q \in Seq(Seq(Unit))
  <1> TAKE x \in Seq(Unit)
  <1> DEFINE r == Append(q, x)
             n == Len(q)
  <1>1. /\ n \in Nat /\ r \in Seq(Seq(Unit)) /\ Len(r) = n + 1 /\ r # <<>>
        /\ r[n + 1] = x /\ \A i \in 1..n : r[i] = q[i]
    BY AppendProperties, LenProperties
  <1>2. PICK f : Joins(f, q, n)
    BY JoinsExists
  <1> HIDE DEF r, n
  <1>3. Joins(f, r, n)
    BY <1>1, <1>2 DEF Joins
  <1> DEFINE last == IF n = 0 THEN r[1] ELSE f[n] \o r[n + 1]
             g == [i \in 1..(n + 1) |-> IF i <= n THEN f[i] ELSE last]
  <1>4. Joins(g, r, n + 1)
    <2>1. n < Len(r)
      BY <1>1
    <2> QED BY <2>1, <1>1, <1>3, JoinsOneMore, Zenon
  <1>5. FlattenSeq(r) = g[n + 1]
    <2> HIDE DEF g
    <2> QED BY <1>1, <1>4, FlattenIs
  <1>6. g[n + 1] = last
    <2> HIDE DEF last
    <2> QED BY <1>1
  <1> HIDE DEF g
  <1>7. CASE n = 0
    <2>1. q = <<>>
      BY <1>7, EmptySeq DEF n
    <2>2. FlattenSeq(q) = <<>>
      BY <2>1 DEF FlattenSeq
    <2>3. last = x
      BY <1>1, <1>7
    <2>4. <<>> \o x = x /\ <<>> \in Seq(Unit)
      BY ConcatEmptySeq
    <2> HIDE DEF last
    <2> QED BY <1>5, <1>6, <2>2, <2>3, <2>4 DEF r
  <1>8. CASE n # 0
    <2>1. q # <<>>
      BY <1>8 DEF n
    <2>2. FlattenSeq(q) = f[n]
      BY <2>1, <1>2, FlattenIs DEF n
    <2>3. last = f[n] \o x
      BY <1>8, <1>1
    <2>4. f[n] \in Seq(Unit)
      BY <1>8, <1>1, <1>2 DEF Joins
    <2> HIDE DEF last
    <2> QED BY <1>5, <1>6, <2>2, <2>3, <2>4 DEF r
  <1> QED BY <1>7, <1>8

\* Sequences of units that an end has written, in messages.
Written(e) == [k \in 1..sent[e] |-> Message(e, k)]

\* NothingLost, as seen from the writer.
Delivered(e) == FlattenSeq(got[Peer(e)]) \o UnderWay(e) = FlattenSeq(Written(e))

\* The units under way are of messages the end has begun to write.
Known(e) == ToSet(UnderWay(e)) \subseteq (1..sent[e]) \X (0..Size[e])

\* A part of a message in stream mode is shorter than the message, and fits.
PartFits(e) == part[e] # <<>> => Len(part[e]) <= Size[Peer(e)] /\ Size[Peer(e)] <= cap[e]

FlowInv ==
  /\ packet \in BOOLEAN /\ Typed /\ AtRest
  /\ \A e \in Ends : Delivered(e) /\ Known(e) /\ Len(wire[e]) <= Room /\ PartFits(e)

LEMMA ToSetOfConcat ==
  \A q, r \in Seq(Unit) : ToSet(q \o r) = ToSet(q) \cup ToSet(r)
  <1> TAKE q, r \in Seq(Unit)
  <1>1. /\ Len(q) \in Nat /\ Len(r) \in Nat /\ DOMAIN (q \o r) = 1..(Len(q) + Len(r))
        /\ DOMAIN q = 1..Len(q) /\ DOMAIN r = 1..Len(r)
    BY ConcatProperties, LenProperties
  <1>2. \A i \in 1..(Len(q) + Len(r)) :
          (q \o r)[i] = IF i <= Len(q) THEN q[i] ELSE r[i - Len(q)]
    BY ConcatProperties
  <1>3. ASSUME NEW i \in 1..(Len(q) + Len(r)) PROVE (q \o r)[i] \in ToSet(q) \cup ToSet(r)
    <2>1. CASE i <= Len(q)
      <3>1. i \in 1..Len(q)
        BY <2>1
      <3> QED BY <3>1, <2>1, <1>1, <1>2 DEF ToSet
    <2>2. CASE ~ (i <= Len(q))
      <3>1. i - Len(q) \in 1..Len(r)
        BY <2>2, <1>1
      <3> QED BY <3>1, <2>2, <1>1, <1>2 DEF ToSet
    <2> QED BY <2>1, <2>2
  <1>4. ASSUME NEW i \in 1..Len(q) PROVE q[i] \in ToSet(q \o r)
    <2>1. i \in 1..(Len(q) + Len(r)) /\ (q \o r)[i] = q[i]
      BY <1>1, <1>2
    <2> QED BY <2>1, <1>1 DEF ToSet
  <1>5. ASSUME NEW i \in 1..Len(r) PROVE r[i] \in ToSet(q \o r)
    <2>1. Len(q) + i \in 1..(Len(q) + Len(r)) /\ (q \o r)[Len(q) + i] = r[i]
      BY <1>1, <1>2
    <2> QED BY <2>1, <1>1 DEF ToSet
  <1>6. ToSet(q \o r) \subseteq ToSet(q) \cup ToSet(r)
    BY <1>1, <1>3 DEF ToSet
  <1>7. ToSet(q) \cup ToSet(r) \subseteq ToSet(q \o r)
    BY <1>1, <1>4, <1>5 DEF ToSet
  <1> QED BY <1>6, <1>7

LEMMA MessageUnits ==
  \A e \in Ends : \A k \in Nat \ {0} :
    Message(e, k) \in Seq(Unit) /\ ToSet(Message(e, k)) \subseteq {k} \X (0..Size[e])
  <1> TAKE e \in Ends
  <1> TAKE k \in Nat \ {0}
  <1> DEFINE body == [i \in 1..Size[e] |-> <<k, i>>]
             size == <<<<k, 0>>>>
  <1>1. Size[e] \in Nat
    BY RawConnAssumption
  <1>2. body \in Seq(Unit) /\ size \in Seq(Unit) /\ Len(size) = 1 /\ size[1] = <<k, 0>>
    BY <1>1 DEF Unit
  <1>3. Message(e, k) = IF packet THEN body ELSE size \o body
    BY DEF Message
  <1>4. ToSet(body) \subseteq {k} \X (0..Size[e])
    <2>1. \A i \in 1..Size[e] : <<k, i>> \in {k} \X (0..Size[e])
      BY <1>1
    <2>2. ToSet(body) = {<<k, i>> : i \in 1..Size[e]}
      BY <1>1 DEF ToSet
    <2> QED BY <2>1, <2>2
  <1>5. ToSet(size) \subseteq {k} \X (0..Size[e])
    BY <1>1 DEF ToSet
  <1> HIDE DEF body, size
  <1>6. size \o body \in Seq(Unit) /\ ToSet(size \o body) = ToSet(size) \cup ToSet(body)
    BY <1>2, ToSetOfConcat, ConcatProperties
  <1> QED BY <1>2, <1>3, <1>4, <1>5, <1>6

LEMMA EmptyIsUnits == <<>> \in Seq(Unit) /\ <<>> \in Seq(Seq(Unit))
  OBVIOUS

LEMMA FromEmpty ==
  \A q, r \in Seq(Unit) : /\ (<<>> \o q) \o r = q \o r /\ (q \o r) \o <<>> = q \o r
                          /\ q \o r \in Seq(Unit) /\ (q \o <<>>) = q
  OBVIOUS

\* A message that is read goes from what is under way to what has been read.
LEMMA Regrouped ==
  \A f, u, s, t \in Seq(Unit) : (f \o u) \o (s \o t) = f \o ((u \o s) \o t)
  <1> TAKE f, u, s, t \in Seq(Unit)
  <1>1. s \o t \in Seq(Unit)
    BY FromEmpty, Zenon
  <1>2. (f \o u) \o (s \o t) = f \o (u \o (s \o t))
    BY <1>1, Associative, ZenonT(60)
  <1>3. (u \o s) \o t = u \o (s \o t)
    BY Associative, ZenonT(60)
  <1> QED BY <1>2, <1>3, Zenon

\* Written(e) is a sequence of messages, and one more of them makes it one longer.
LEMMA WrittenOneMore ==
  ASSUME NEW e \in Ends, NEW n \in Nat
  PROVE  /\ [k \in 1..n |-> Message(e, k)] \in Seq(Seq(Unit))
         /\ [k \in 1..(n + 1) |-> Message(e, k)]
            = Append([k \in 1..n |-> Message(e, k)], Message(e, n + 1))
  <1> DEFINE few == [k \in 1..n |-> Message(e, k)]
             more == [k \in 1..(n + 1) |-> Message(e, k)]
  <1>1. \A k \in Nat \ {0} : Message(e, k) \in Seq(Unit)
    BY MessageUnits
  <1>2. few \in Seq(Seq(Unit)) /\ Len(few) = n /\ \A k \in 1..n : few[k] = Message(e, k)
    BY <1>1
  <1>3. /\ more \in Seq(Seq(Unit)) /\ Len(more) = n + 1
        /\ \A k \in 1..(n + 1) : more[k] = Message(e, k)
    BY <1>1
  <1>4. Message(e, n + 1) \in Seq(Unit)
    BY <1>1
  <1> HIDE DEF few, more
  <1>5. /\ Append(few, Message(e, n + 1)) \in Seq(Seq(Unit))
        /\ Len(Append(few, Message(e, n + 1))) = n + 1
        /\ \A k \in 1..(n + 1) :
             Append(few, Message(e, n + 1))[k] = IF k = n + 1 THEN Message(e, n + 1) ELSE few[k]
    BY <1>2, <1>4, Lengthened
  <1>6. \A k \in 1..(n + 1) : Append(few, Message(e, n + 1))[k] = more[k]
    BY <1>2, <1>3, <1>5
  <1>7. more = Append(few, Message(e, n + 1))
    BY <1>3, <1>5, <1>6, SeqEqual
  <1> QED BY <1>2, <1>7 DEF few, more

LEMMA InitFlow == Init => FlowInv
  <1> SUFFICES ASSUME Init PROVE FlowInv
    OBVIOUS
  <1>1. Message("client", 1) \in Seq(Unit) /\ ToSet(Message("client", 1)) \subseteq {1} \X (0..Size["client"])
    BY MessageUnits DEF Ends
  <1>2. Typed
    BY <1>1, EmptyIsUnits, RawConnAssumption DEF Init, Typed
  <1>3. AtRest
    BY DEF Init, AtRest
  <1>4. /\ part = [e \in Ends |-> <<>>] /\ wire = [e \in Ends |-> <<>>]
        /\ todo["client"] = Message("client", 1) /\ todo["server"] = <<>>
        /\ sent["client"] = 1 /\ sent["server"] = 0 /\ got = [e \in Ends |-> <<>>]
    BY DEF Init, Ends
  <1>5. UnderWay("client") = Message("client", 1) /\ UnderWay("server") = <<>>
    <2>1. UnderWay("client") = (<<>> \o <<>>) \o Message("client", 1)
      BY <1>4, PeerFacts DEF UnderWay, Ends
    <2>2. UnderWay("server") = (<<>> \o <<>>) \o <<>>
      BY <1>4, PeerFacts DEF UnderWay, Ends
    <2> QED BY <2>1, <2>2, <1>1
  <1>6. FlattenSeq(<<>>) = <<>>
    BY DEF FlattenSeq
  <1>7. Delivered("client")
    <2> DEFINE none == [k \in 1..0 |-> Message("client", k)]
    <2>1. Written("client") = Append(none, Message("client", 1)) /\ none = <<>>
      <3>1. [k \in 1..(0 + 1) |-> Message("client", k)] = Append(none, Message("client", 0 + 1))
        BY WrittenOneMore DEF Ends
      <3>2. none = <<>>
        OBVIOUS
      <3> QED BY <3>1, <3>2, <1>4 DEF Written
    <2>2. FlattenSeq(Written("client")) = <<>> \o Message("client", 1)
      <3>1. FlattenSeq(Append(<<>>, Message("client", 1))) = FlattenSeq(<<>>) \o Message("client", 1)
        BY FlattenAppend, EmptyIsUnits, <1>1
      <3> QED BY <2>1, <3>1, <1>6
    <2>3. got[Peer("client")] = <<>>
      BY <1>4, PeerFacts DEF Ends
    <2> QED BY <2>2, <2>3, <1>5, <1>6 DEF Delivered
  <1>8. Delivered("server")
    <2>1. Written("server") = <<>>
      BY <1>4 DEF Written
    <2>2. got[Peer("server")] = <<>>
      BY <1>4, PeerFacts DEF Ends
    <2>3. <<>> \o <<>> = <<>>
      OBVIOUS
    <2> QED BY <2>1, <2>2, <2>3, <1>5, <1>6, Zenon DEF Delivered
  <1>9. Known("client") /\ Known("server")
    <2>1. Known("client")
      BY <1>1, <1>4, <1>5 DEF Known
    <2>2. Known("server")
      BY <1>5 DEF Known, ToSet
    <2> QED BY <2>1, <2>2
  <1>10. \A e \in Ends : Len(wire[e]) <= Room /\ PartFits(e)
    BY <1>4, RawConnAssumption DEF PartFits
  <1>11. packet \in BOOLEAN
    BY DEF Init
  <1> QED BY <1>2, <1>3, <1>7, <1>8, <1>9, <1>10, <1>11 DEF FlowInv, Ends

LEMMA WritesFlow ==
  ASSUME NEW w \in Ends, WriteSome(w), FlowInv
  PROVE  FlowInv'
  <1>1. Typed /\ AtRest /\ packet \in BOOLEAN
    BY DEF FlowInv
  <1>2. Typed' /\ packet' = packet /\ sent' = sent /\ cap' = cap /\ part' = part /\ got' = got
    BY <1>1, WritesMove
  <1>3. \A e \in Ends : UnderWay(e)' = UnderWay(e) /\ \A k : Message(e, k)' = Message(e, k)
    BY <1>1, WritesMove
  <1>4. AtRest'
    <2>1. \A e \in Ends :
            pc'[e] # "write" /\ (pc[e] # "write" => todo[e] = <<>>) => todo'[e] = <<>>
      BY <1>1, WritesMove
    <2>2. \A e \in Ends : (pc[e] # "write" => todo[e] = <<>>) /\ (packet => part[e] = <<>>)
      BY <1>1, Zenon DEF AtRest
    <2>3. \A e \in Ends : pc'[e] # "write" => todo'[e] = <<>>
      BY <2>1, <2>2, Zenon
    <2>4. \A e \in Ends : packet' => part'[e] = <<>>
      BY <2>2, <1>2
    <2> QED BY <2>3, <2>4 DEF AtRest
  <1>5. ASSUME NEW e \in Ends PROVE Delivered(e)' /\ Known(e)' /\ Len(wire'[e]) <= Room /\ PartFits(e)'
    <2>1. Written(e)' = Written(e)
      BY <1>2, <1>3 DEF Written
    <2>2. Delivered(e)' /\ Known(e)' /\ PartFits(e)'
      BY <2>1, <1>2, <1>3 DEF FlowInv, Delivered, Known, PartFits
    <2>3. Len(wire'[e]) <= Room
      BY <1>1, WritesMove DEF FlowInv
    <2> QED BY <2>2, <2>3
  <1> QED BY <1>1, <1>2, <1>4, <1>5 DEF FlowInv

\* A read that returns takes units from what is under way to its end and appends them
\* to what has been read; the message that may follow goes behind what is under way the
\* other way.
LEMMA ReturnsFlow ==
  ASSUME NEW r \in Ends, NEW units \in Seq(Unit), NEW rest \in Seq(Unit),
         FlowInv, pc[r] = "read",
         part[r] \o wire[Peer(r)] = units \o rest, Len(rest) <= Len(wire[Peer(r)]),
         wire' = [wire EXCEPT ![Peer(r)] = rest], part' = [part EXCEPT ![r] = <<>>],
         packet' = packet, cap' \in [Ends -> Nat], cap'[Peer(r)] = cap[Peer(r)],
         Return(r, units)
  PROVE  FlowInv'
  <1> DEFINE p == Peer(r)
  <1>1. p \in Ends /\ p # r /\ Peer(p) = r /\ Peer(r) = p /\ \A e \in Ends : e = r \/ e = p
    BY PeerFacts DEF Ends, Peer
  <1>2. Typed /\ AtRest /\ packet \in BOOLEAN
    BY DEF FlowInv
  <1>3. /\ wire[r] \in Seq(Unit) /\ wire[p] \in Seq(Unit) /\ part[r] \in Seq(Unit)
        /\ part[p] \in Seq(Unit) /\ todo[r] \in Seq(Unit) /\ todo[p] \in Seq(Unit)
        /\ got[r] \in Seq(Seq(Unit)) /\ got[p] \in Seq(Seq(Unit)) /\ sent[r] \in Nat /\ sent[p] \in Nat
    BY <1>1, <1>2 DEF Typed
  <1>4. todo[r] = <<>>
    BY <1>2 DEF AtRest
  <1>5. \A e \in Ends : \A k : Message(e, k)' = Message(e, k)
    BY DEF Message
  <1>6. /\ wire' \in [Ends -> Seq(Unit)] /\ wire'[p] = rest /\ wire'[r] = wire[r]
        /\ part' \in [Ends -> Seq(Unit)] /\ part'[r] = <<>> /\ part'[p] = part[p]
    BY <1>1, <1>2, EmptyIsUnits DEF Typed
  <1>7. /\ got'[r] = Append(got[r], units) /\ got'[p] = got[p] /\ got' \in [Ends -> Seq(Seq(Unit))]
    <2>1. got' = [got EXCEPT ![r] = Append(got[r], units)]
      BY DEF Return
    <2>2. Append(got[r], units) \in Seq(Seq(Unit))
      BY <1>3, Lengthened
    <2> QED BY <2>1, <2>2, <1>1, <1>2 DEF Typed
  <1>8. /\ sent' \in [Ends -> Nat] /\ sent'[p] = sent[p]
        /\ todo' \in [Ends -> Seq(Unit)] /\ todo'[p] = todo[p]
        /\ pc' \in [Ends -> {"write", "read", "closed"}] /\ pc'[p] = pc[p]
        /\ \/ pc'[r] = "write" /\ sent'[r] = sent[r] + 1 /\ todo'[r] = Message(r, sent[r] + 1)
           \/ sent'[r] = sent[r] /\ todo'[r] = <<>>
    <2>1. CASE Write(r)
      <3>1. Message(r, sent[r] + 1) \in Seq(Unit)
        <4>0. sent[r] \in Nat
          BY <1>3
        <4>1. sent[r] + 1 \in Nat \ {0}
          BY <4>0
        <4> QED BY <4>1, MessageUnits
      <3>2. /\ pc' = [pc EXCEPT ![r] = "write"] /\ sent' = [sent EXCEPT ![r] = @ + 1]
            /\ todo' = [todo EXCEPT ![r] = Message(r, sent[r] + 1)]
        BY <2>1 DEF Write
      <3>3. sent' \in [Ends -> Nat] /\ sent'[p] = sent[p] /\ sent'[r] = sent[r] + 1
        BY <3>2, <1>1, <1>2, <1>3, SMTT(60) DEF Typed
      <3>4. todo' \in [Ends -> Seq(Unit)] /\ todo'[p] = todo[p] /\ todo'[r] = Message(r, sent[r] + 1)
        BY <3>1, <3>2, <1>1, <1>2 DEF Typed
      <3>5. pc' \in [Ends -> {"write", "read", "closed"}] /\ pc'[p] = pc[p] /\ pc'[r] = "write"
        BY <3>2, <1>1, <1>2 DEF Typed
      <3> QED BY <3>3, <3>4, <3>5
    <2>2. CASE ~ Write(r)
      <3>1. sent' = sent /\ todo' = todo /\ pc' \in {pc, [pc EXCEPT ![r] = "closed"]}
        BY <2>2 DEF Return
      <3>2. pc' \in [Ends -> {"write", "read", "closed"}] /\ pc'[p] = pc[p]
        BY <3>1, <1>1, <1>2 DEF Typed
      <3> QED BY <3>1, <3>2, <1>2, <1>4 DEF Typed
    <2> QED BY <2>1, <2>2
  <1> HIDE DEF p
  <1>9. Typed'
    BY <1>6, <1>7, <1>8 DEF Typed
  <1>10. AtRest'
    <2>1. (pc'[r] # "write" => todo'[r] = <<>>) /\ (packet' => part'[r] = <<>>)
      BY <1>6, <1>8
    <2>2. (pc'[p] # "write" => todo'[p] = <<>>) /\ (packet' => part'[p] = <<>>)
      <3>1. (pc[p] # "write" => todo[p] = <<>>) /\ (packet => part[p] = <<>>)
        BY <1>1, <1>2, Zenon DEF AtRest
      <3> QED BY <3>1, <1>6, <1>8, Zenon
    <2> QED BY <2>1, <2>2, <1>1, Zenon DEF AtRest
  \* Towards the end that reads.
  <1>11. UnderWay(p) = (units \o rest) \o todo[p] /\ UnderWay(p)' = rest \o todo[p]
    <2>1. UnderWay(p)' = (<<>> \o rest) \o todo[p]
      BY <1>1, <1>6, <1>8 DEF UnderWay
    <2>2. (<<>> \o rest) \o todo[p] = rest \o todo[p]
      BY <1>3, FromEmpty, Zenon
    <2>3. UnderWay(p) = (units \o rest) \o todo[p]
      BY <1>1 DEF UnderWay
    <2> QED BY <2>1, <2>2, <2>3
  <1>12. Written(p)' = Written(p)
    BY <1>1, <1>5, <1>8 DEF Written
  <1>13. Delivered(p)'
    <2>1. /\ FlattenSeq(got[r]) \in Seq(Unit)
          /\ FlattenSeq(Append(got[r], units)) = FlattenSeq(got[r]) \o units
      BY <1>3, FlattenAppend, Zenon
    <2>2. (FlattenSeq(got[r]) \o units) \o (rest \o todo[p])
          = FlattenSeq(got[r]) \o ((units \o rest) \o todo[p])
      <3>1. FlattenSeq(got[r]) \in Seq(Unit)
        BY <2>1
      <3>2. todo[p] \in Seq(Unit)
        BY <1>3
      <3>3. \A s, t \in Seq(Unit) : (FlattenSeq(got[r]) \o units) \o (s \o t)
                                    = FlattenSeq(got[r]) \o ((units \o s) \o t)
        BY <3>1, Regrouped, Zenon
      <3> QED BY <3>2, <3>3, Zenon
    <2>3. FlattenSeq(got[r]) \o UnderWay(p) = FlattenSeq(Written(p))
      BY <1>1 DEF FlowInv, Delivered
    <2>4. FlattenSeq(got'[r]) \o UnderWay(p)' = FlattenSeq(Written(p))
      BY <2>1, <2>2, <2>3, <1>7, <1>11
    <2> QED BY <2>4, <1>1, <1>12 DEF Delivered
  <1>14. Known(p)'
    <2>1. rest \o todo[p] \in Seq(Unit) /\ units \o rest \in Seq(Unit)
      BY <1>3, FromEmpty
    <2>2. /\ ToSet((units \o rest) \o todo[p]) = ToSet(units \o rest) \cup ToSet(todo[p])
          /\ ToSet(units \o rest) = ToSet(units) \cup ToSet(rest)
          /\ ToSet(rest \o todo[p]) = ToSet(rest) \cup ToSet(todo[p])
      BY <2>1, <1>3, ToSetOfConcat
    <2>3. ToSet(UnderWay(p)') \subseteq ToSet(UnderWay(p))
      BY <2>2, <1>11
    <2>4. ToSet(UnderWay(p)) \subseteq (1..sent[p]) \X (0..Size[p])
      BY <1>1 DEF FlowInv, Known
    <2> QED BY <2>3, <2>4, <1>8 DEF Known, ToSet
  \* The other way.
  <1>15. ASSUME sent'[r] = sent[r], todo'[r] = <<>> PROVE Delivered(r)' /\ Known(r)'
    <2>1. UnderWay(r)' = UnderWay(r) /\ Written(r)' = Written(r)
      BY <1>15, <1>1, <1>4, <1>5, <1>6 DEF UnderWay, Written
    <2>2. Delivered(r) /\ Known(r)
      BY DEF FlowInv
    <2> QED BY <2>1, <2>2, <1>1, <1>7, <1>15 DEF Delivered, Known
  <1>16. ASSUME sent'[r] = sent[r] + 1, todo'[r] = Message(r, sent[r] + 1)
         PROVE  Delivered(r)' /\ Known(r)'
    <2>0. sent[r] \in Nat
      BY <1>3
    <2> DEFINE next == Message(r, sent[r] + 1)
               read == FlattenSeq(got[p])
               before == UnderWay(r)
    <2>1. next \in Seq(Unit) /\ ToSet(next) \subseteq {sent[r] + 1} \X (0..Size[r])
      <3>1. sent[r] + 1 \in Nat \ {0}
        BY <2>0
      <3> QED BY <3>1, MessageUnits
    <2>2. read \in Seq(Unit)
      BY <1>3, EmptyIsUnits, FlattenAppend
    <2>3. before = part[p] \o wire[r] /\ before \in Seq(Unit)
      <3>1. UnderWay(r) = (part[p] \o wire[r]) \o <<>>
        BY <1>1, <1>4 DEF UnderWay
      <3>2. (part[p] \o wire[r]) \o <<>> = part[p] \o wire[r] /\ part[p] \o wire[r] \in Seq(Unit)
        BY <1>3, FromEmpty
      <3> QED BY <3>1, <3>2
    <2>4. UnderWay(r)' = before \o next
      BY <2>3, <1>1, <1>6, <1>16 DEF UnderWay
    <2>5. /\ Written(r) \in Seq(Seq(Unit))
          /\ Written(r)' = Append(Written(r), next)
      <3>1. Written(r)' = [k \in 1..(sent[r] + 1) |-> Message(r, k)]
        BY <1>5, <1>16 DEF Written
      <3> QED BY <3>1, <2>0, WrittenOneMore DEF Written
    <2>6. Delivered(r) /\ Known(r)
      BY DEF FlowInv
    <2> HIDE DEF next, read, before
    <2>7. FlattenSeq(Written(r)') = FlattenSeq(Written(r)) \o next
      <3>1. FlattenSeq(Append(Written(r), next)) = FlattenSeq(Written(r)) \o next
        BY <2>1, <2>5, FlattenAppend, Zenon
      <3> QED BY <3>1, <2>5
    <2>8. read \o (before \o next) = (read \o before) \o next
      BY <2>1, <2>2, <2>3, Associative, ZenonT(60)
    <2>9. read \o before = FlattenSeq(Written(r))
      BY <2>6, <1>1 DEF Delivered, read, before
    <2>10. FlattenSeq(got'[p]) \o UnderWay(r)' = FlattenSeq(Written(r)')
      <3>1. FlattenSeq(got'[p]) = read
        BY <1>7 DEF read
      <3> QED BY <3>1, <2>4, <2>7, <2>8, <2>9
    <2>11. Delivered(r)'
      BY <2>10, <1>1 DEF Delivered
    <2>12. ToSet(before \o next) = ToSet(before) \cup ToSet(next)
      BY <2>1, <2>3, ToSetOfConcat
    <2>13. ToSet(UnderWay(r)') \subseteq (1..(sent[r] + 1)) \X (0..Size[r])
      <3>1. ToSet(before) \subseteq (1..sent[r]) \X (0..Size[r])
        BY <2>6 DEF Known, before
      <3>2. (1..sent[r]) \subseteq 1..(sent[r] + 1) /\ sent[r] + 1 \in 1..(sent[r] + 1)
        BY <2>0
      <3>3. ToSet(before) \subseteq (1..(sent[r] + 1)) \X (0..Size[r])
        BY <3>1, <3>2
      <3>4. ToSet(next) \subseteq (1..(sent[r] + 1)) \X (0..Size[r])
        BY <2>1, <3>2
      <3> QED BY <3>3, <3>4, <2>4, <2>12
    <2>14. Known(r)'
      BY <2>13, <1>16 DEF Known, ToSet
    <2> QED BY <2>11, <2>14
  <1>17. \A e \in Ends : Len(wire'[e]) <= Room
    <2>1. Len(wire[r]) <= Room /\ Len(wire[p]) <= Room
      BY <1>1 DEF FlowInv
    <2>2. Len(rest) <= Room
      BY <2>1, <1>1, <1>3, LenProperties, RawConnAssumption, SMTT(60)
    <2> QED BY <2>1, <2>2, <1>1, <1>6
  <1>18. \A e \in Ends : PartFits(e)'
    <2>1. PartFits(p)
      BY <1>1 DEF FlowInv
    <2>2. PartFits(p)'
      BY <2>1, <1>1, <1>6 DEF PartFits
    <2>3. PartFits(r)'
      BY <1>6 DEF PartFits
    <2> QED BY <2>2, <2>3, <1>1
  <1>19. Delivered(r)' /\ Known(r)'
    BY <1>8, <1>15, <1>16
  <1> QED BY <1>1, <1>2, <1>9, <1>10, <1>13, <1>14, <1>17, <1>18, <1>19 DEF FlowInv

LEMMA StreamReadsFlow ==
  ASSUME NEW r \in Ends, ReadStream(r), FlowInv
  PROVE  FlowInv'
  <1> DEFINE p == Peer(r)
  <1>1. p \in Ends /\ p # r /\ Peer(p) = r /\ Peer(r) = p /\ \A e \in Ends : e = r \/ e = p
    BY PeerFacts DEF Ends, Peer
  <1>2. Typed /\ AtRest /\ packet \in BOOLEAN
    BY DEF FlowInv
  <1>3. /\ wire[p] \in Seq(Unit) /\ part[r] \in Seq(Unit) /\ todo[p] \in Seq(Unit)
        /\ cap[r] \in Nat /\ Size[p] \in Nat /\ Size[p] > 0
    BY <1>1, <1>2, RawConnAssumption DEF Typed
  <1>4. PICK n \in 1..Missing(r) :
          /\ n <= Len(wire[p])
          /\ wire' = [wire EXCEPT ![p] = SubSeq(@, n + 1, Len(@))]
          /\ IF Len(part[r] \o SubSeq(wire[p], 1, n)) = Size[p] + 1
             THEN part' = [part EXCEPT ![r] = <<>>] /\ Return(r, part[r] \o SubSeq(wire[p], 1, n))
             ELSE /\ part' = [part EXCEPT ![r] = part[r] \o SubSeq(wire[p], 1, n)]
                  /\ UNCHANGED <<pc, sent, todo, got>>
    BY DEF ReadStream
  <1>5. packet' = packet /\ pc[r] = "read" /\ ~ packet
    BY DEF ReadStream
  <1>6. /\ cap' \in [Ends -> Nat] /\ cap'[p] = cap[p]
        /\ part[r] = <<>> => Size[p] <= cap'[r]
        /\ part[r] # <<>> => cap'[r] = cap[r]
    <2>1. cap' = IF part[r] = <<>> /\ Size[p] > cap[r] THEN [cap EXCEPT ![r] = Size[p]] ELSE cap
      BY <1>1 DEF ReadStream
    <2> QED BY <2>1, <1>1, <1>2, <1>3, SMTT(60) DEF Typed
  <1> DEFINE units == part[r] \o SubSeq(wire[p], 1, n)
             rest == SubSeq(wire[p], n + 1, Len(wire[p]))
  <1>7. Missing(r) = IF part[r] = <<>> THEN 1 ELSE Size[p] + 1 - Len(part[r])
    BY <1>1 DEF Missing
  <1>8. n \in 1..Len(wire[p]) /\ n <= Missing(r) /\ n \in Nat
    BY <1>3, <1>4, <1>7
  <1> HIDE DEF p
  <1>9. /\ units \in Seq(Unit) /\ rest \in Seq(Unit) /\ units # <<>>
        /\ units \o rest = part[r] \o wire[p]
    BY <1>3, <1>8, Moved, Zenon
  <1>10. Len(rest) <= Len(wire[p]) /\ Len(units) = Len(part[r]) + n
    <2>1. Len(rest) = Len(wire[p]) - n /\ SubSeq(wire[p], 1, n) \in Seq(Unit) /\ Len(SubSeq(wire[p], 1, n)) = n
      BY <1>3, <1>8
    <2>2. Len(part[r] \o SubSeq(wire[p], 1, n)) = Len(part[r]) + n
      BY <2>1, <1>3, Joined
    <2> QED BY <2>1, <2>2, <1>3, <1>8
  <1>11. wire' = [wire EXCEPT ![p] = rest]
    BY <1>4
  <1> HIDE DEF units, rest
  <1>12. CASE Len(units) = Size[p] + 1
    <2>1. part' = [part EXCEPT ![r] = <<>>] /\ Return(r, units)
      BY <1>4, <1>12 DEF units
    <2> QED BY <2>1, <1>1, <1>5, <1>6, <1>9, <1>10, <1>11, ReturnsFlow
  <1>13. CASE Len(units) # Size[p] + 1
    <2>1. part' = [part EXCEPT ![r] = units] /\ UNCHANGED <<pc, sent, todo, got>>
      BY <1>4, <1>13 DEF units
    <2>2. part'[r] = units /\ part'[p] = part[p] /\ part' \in [Ends -> Seq(Unit)]
      BY <2>1, <1>1, <1>2, <1>9 DEF Typed
    <2>3. wire'[p] = rest /\ wire'[r] = wire[r] /\ wire' \in [Ends -> Seq(Unit)]
      BY <1>1, <1>2, <1>9, <1>11 DEF Typed
    <2>4. Typed'
      BY <2>1, <2>2, <2>3, <1>2, <1>6 DEF Typed
    <2>5. \A e \in Ends : UnderWay(e)' = UnderWay(e) /\ Written(e)' = Written(e)
      <3>1. UnderWay(p)' = UnderWay(p)
        BY <2>1, <2>2, <2>3, <1>1, <1>9 DEF UnderWay
      <3>2. UnderWay(r)' = UnderWay(r)
        BY <2>1, <2>2, <2>3, <1>1 DEF UnderWay
      <3>3. \A e \in Ends : Written(e)' = Written(e)
        BY <2>1, <1>5 DEF Written, Message
      <3> QED BY <3>1, <3>2, <3>3, <1>1
    <2>6. \A e \in Ends : Delivered(e)' /\ Known(e)'
      <3>1. \A e \in Ends : Delivered(e) /\ Known(e)
        BY DEF FlowInv
      <3> QED BY <3>1, <2>1, <2>5 DEF Delivered, Known
    <2>7. AtRest'
      <3>1. \A e \in Ends : pc'[e] # "write" => todo'[e] = <<>>
        BY <2>1, <1>2 DEF AtRest
      <3> QED BY <3>1, <1>5, Zenon DEF AtRest
    <2>8. \A e \in Ends : Len(wire'[e]) <= Room
      <3>1. Len(wire[r]) <= Room /\ Len(wire[p]) <= Room
        BY <1>1 DEF FlowInv
      <3>2. Len(rest) <= Room
        BY <3>1, <1>3, <1>9, <1>10, LenProperties, RawConnAssumption
      <3> QED BY <3>1, <3>2, <2>3, <1>1
    <2>9. PartFits(r)'
      <3>1. PartFits(r)
        BY DEF FlowInv
      <3>2. CASE part[r] = <<>>
        <4>1. Len(part'[r]) = 1
          BY <3>2, <2>2, <1>7, <1>8, <1>10
        <4>2. Len(part'[r]) <= Size[Peer(r)] /\ Size[Peer(r)] <= cap'[r]
          BY <4>1, <3>2, <1>1, <1>3, <1>6
        <4> QED BY <4>2 DEF PartFits
      <3>3. CASE part[r] # <<>>
        <4>1. Len(units) <= Size[p] + 1 /\ Len(units) \in Nat
          BY <3>3, <1>3, <1>7, <1>8, <1>10, LenProperties
        <4>2. Len(units) <= Size[p]
          BY <4>1, <1>3, <1>13
        <4>3. Size[p] <= cap[r] /\ cap'[r] = cap[r]
          BY <3>1, <3>3, <1>1, <1>6 DEF PartFits
        <4>4. Len(part'[r]) <= Size[Peer(r)] /\ Size[Peer(r)] <= cap'[r]
          BY <4>2, <4>3, <2>2, <1>1
        <4> QED BY <4>4 DEF PartFits
      <3> QED BY <3>2, <3>3
    <2>10. PartFits(p)'
      <3>1. PartFits(p)
        BY <1>1 DEF FlowInv
      <3> QED BY <3>1, <2>2, <1>1, <1>6 DEF PartFits
    <2> QED BY <2>4, <2>6, <2>7, <2>8, <2>9, <2>10, <1>1, <1>2, <1>5 DEF FlowInv
  <1> QED BY <1>12, <1>13

LEMMA PacketReadsFlow ==
  ASSUME NEW r \in Ends, ReadPacket(r), FlowInv
  PROVE  FlowInv'
  <1> DEFINE p == Peer(r)
             n == Min({Len(wire[p]), cap[r]})
             units == SubSeq(wire[p], 1, n)
             rest == SubSeq(wire[p], n + 1, Len(wire[p]))
  <1>1. p \in Ends /\ Peer(r) = p /\ p # r
    BY PeerFacts
  <1>2. Typed /\ AtRest /\ packet \in BOOLEAN
    BY DEF FlowInv
  <1>3. /\ packet /\ packet' = packet /\ pc[r] = "read" /\ wire[p] # <<>>
        /\ wire' = [wire EXCEPT ![p] = rest] /\ Return(r, units)
        /\ cap' = cap /\ part' = part
    BY <1>1 DEF ReadPacket
  <1>4. wire[p] \in Seq(Unit) /\ cap[r] \in Nat /\ part \in [Ends -> Seq(Unit)] /\ cap \in [Ends -> Nat]
    BY <1>1, <1>2 DEF Typed
  <1>5. part[r] = <<>>
    BY <1>2, <1>3, Zenon DEF AtRest
  <1>6. n \in 0..Len(wire[p])
    <2>1. Len(wire[p]) \in Nat
      BY <1>4, LenProperties
    <2>2. n = IF Len(wire[p]) <= cap[r] THEN Len(wire[p]) ELSE cap[r]
      BY <2>1, <1>4 DEF Min
    <2> QED BY <2>1, <2>2, <1>4
  <1> HIDE DEF p, n
  <1>7. units \in Seq(Unit) /\ rest \in Seq(Unit) /\ Len(rest) <= Len(wire[p])
    BY <1>4, <1>6
  <1>8. units \o rest = wire[p]
    <2> DEFINE q == wire[p]
    <2>1. q \in Seq(Unit) /\ Len(q) \in Nat
      BY <1>4, LenProperties
    <2>2. 1 \in 1..(Len(q) + 1) /\ n \in (1 - 1)..Len(q) /\ Len(q) \in n..Len(q)
      BY <2>1, <1>6
    <2> HIDE DEF q
    <2>3. SubSeq(q, 1, n) \o SubSeq(q, n + 1, Len(q)) = SubSeq(q, 1, Len(q))
      BY <2>1, <2>2, ConcatAdjacentSubSeq
    <2>4. SubSeq(q, 1, Len(q)) = q
      BY <2>1, SubSeqFull
    <2> QED BY <2>3, <2>4 DEF q
  <1> HIDE DEF units, rest
  <1>9. part[r] \o wire[p] = units \o rest
    <2>1. <<>> \o wire[p] = wire[p]
      BY <1>4, ConcatEmptySeq
    <2> QED BY <2>1, <1>5, <1>8
  <1>10. part' = [part EXCEPT ![r] = <<>>]
    BY <1>3, <1>4, <1>5
  <1> QED BY <1>1, <1>3, <1>4, <1>7, <1>9, <1>10, ReturnsFlow

LEMMA FlowNext == FlowInv /\ [Next]_vars => FlowInv'
  <1> SUFFICES ASSUME FlowInv, [Next]_vars PROVE FlowInv'
    OBVIOUS
  <1>1. CASE UNCHANGED vars
    BY <1>1 DEF vars, FlowInv, Typed, AtRest, Delivered, Known, PartFits, UnderWay, Written, Message
  <1>2. CASE Next
    <2>1. PICK e \in Ends : Run(e)
      BY <1>2 DEF Next
    <2>2. CASE WriteSome(e)
      BY <2>2, WritesFlow
    <2>3. CASE ReadStream(e)
      BY <2>3, StreamReadsFlow
    <2>4. CASE ReadPacket(e)
      BY <2>4, PacketReadsFlow
    <2>5. CASE EndOfStream(e)
      <3>1. /\ pc' = [pc EXCEPT ![e] = "closed"] /\ pc[e] = "read"
            /\ UNCHANGED <<packet, sent, todo, wire, cap, part, got>>
        BY <2>5 DEF EndOfStream
      <3>2. Typed'
        BY <3>1 DEF FlowInv, Typed
      <3>3. \A d \in Ends : pc'[d] # "write" => todo'[d] = <<>>
        BY <3>1 DEF FlowInv, AtRest, Typed
      <3>4. \A d \in Ends : packet' => part'[d] = <<>>
        BY <3>1, Zenon DEF FlowInv, AtRest
      <3>5. \A d \in Ends : UnderWay(d)' = UnderWay(d) /\ Written(d)' = Written(d)
        BY <3>1 DEF UnderWay, Written, Message
      <3> QED BY <3>1, <3>2, <3>3, <3>4, <3>5 DEF FlowInv, AtRest, Delivered, Known, PartFits
    <2> QED BY <2>1, <2>2, <2>3, <2>4, <2>5 DEF Run
  <1> QED BY <1>1, <1>2

-----------------------------------------------------------------------------
(* Neither end waits for ever in stream mode. *)

WaitInv == StreamInv /\ FlowInv /\ Waits

LEMMA InitWaits == Init => Waits
  <1> SUFFICES ASSUME Init, ~ packet PROVE Waits
    BY DEF Waits
  <1>1. /\ pc["client"] = "write" /\ pc["server"] = "read"
        /\ sent["client"] = 1 /\ got["client"] = <<>> /\ todo["client"] = Message("client", 1)
    BY DEF Init, Ends
  <1>2. Message("client", 1) # <<>>
    BY MessageShape DEF Ends
  <1> QED BY <1>1, <1>2 DEF Waits, Ends

\* A write that has units left goes on; the one that has not is over.
LEMMA WritesWait ==
  ASSUME NEW w \in Ends, WriteSome(w), ~ packet, Typed, Waits
  PROVE  Waits'
  <1>1. /\ pc' = [pc EXCEPT ![w] = IF todo'[w] = <<>> THEN "read" ELSE "write"]
        /\ pc[w] = "write" /\ sent' = sent /\ got' = got
        /\ \A e \in Ends : e # w => todo'[e] = todo[e]
    <2>1. PICK n \in 1..Len(todo[w]) : todo' = [todo EXCEPT ![w] = SubSeq(@, n + 1, Len(@))]
      BY DEF WriteSome
    <2>2. \A e \in Ends : e # w => todo'[e] = todo[e]
      BY <2>1 DEF Typed
    <2> QED BY <2>2 DEF WriteSome
  <1>2. \A e \in Ends : e # w => pc'[e] = pc[e]
    BY <1>1 DEF Typed
  <1>3. pc'[w] = IF todo'[w] = <<>> THEN "read" ELSE "write"
    BY <1>1 DEF Typed
  <1>4. \A e \in Ends : pc'[e] = "write" => todo'[e] # <<>>
    BY <1>1, <1>2, <1>3 DEF Waits
  <1>5. \A e \in Ends : pc'[e] = "closed" <=> pc[e] = "closed"
    BY <1>1, <1>2, <1>3
  <1> QED BY <1>1, <1>4, <1>5 DEF Waits, Ends

\* A read that has not all of a message goes on; one that has leads to the next message
\* of its end, or to the end of the client that has all its replies.
LEMMA ReadsWait ==
  ASSUME NEW r \in Ends, ReadStream(r), ~ packet, Typed, Waits, MessagesIntact', Typed'
  PROVE  Waits'
  <1>1. PICK n \in 1..Missing(r) :
          LET units == part[r] \o SubSeq(wire[Peer(r)], 1, n) IN
          IF Len(units) = Size[Peer(r)] + 1
          THEN part' = [part EXCEPT ![r] = <<>>] /\ Return(r, units)
          ELSE part' = [part EXCEPT ![r] = units] /\ UNCHANGED <<pc, sent, todo, got>>
    BY DEF ReadStream
  <1> DEFINE units == part[r] \o SubSeq(wire[Peer(r)], 1, n)
  <1>2. pc[r] = "read" /\ packet' = packet
    BY DEF ReadStream
  <1>3. CASE UNCHANGED <<pc, sent, todo, got>>
    BY <1>3 DEF Waits
  <1>4. CASE Return(r, units)
    <2> HIDE DEF units
    <2>1. got' = [got EXCEPT ![r] = Append(@, units)]
      BY <1>4 DEF Return
    <2>2. /\ got[r] \in Seq(Seq(Unit)) /\ got'[r] = Append(got[r], units)
          /\ \A e \in Ends : e # r => got'[e] = got[e]
      BY <2>1 DEF Typed
    <2>3. /\ Len(got[r]) \in Nat /\ Len(got'[r]) = Len(got[r]) + 1
          /\ got'[r][Len(got'[r])] = units
      BY <2>2
    <2>4. r = "server" => units = Message("client", Len(got'["server"]))
      <3>1. Len(got'[r]) \in 1..Len(got'[r])
        BY <2>3
      <3>2. \A e \in Ends : \A k \in 1..Len(got'[e]) : got'[e][k] = Message(Peer(e), k)
        BY <1>2 DEF MessagesIntact, Message
      <3>3. got'[r][Len(got'[r])] = Message(Peer(r), Len(got'[r]))
        BY <3>1, <3>2
      <3> QED BY <3>3, <2>3 DEF Peer
    <2>5. \/ ~ (r = "client" /\ sent[r] = Requests) /\ Write(r)
          \/ r = "client" /\ sent[r] = Requests /\ pc' = [pc EXCEPT ![r] = "closed"]
             /\ UNCHANGED <<sent, todo>>
      BY <1>4, <2>4 DEF Return
    <2>6. CASE Write(r)
      <3>1. /\ pc' = [pc EXCEPT ![r] = "write"] /\ sent' = [sent EXCEPT ![r] = @ + 1]
            /\ todo' = [todo EXCEPT ![r] = Message(r, sent[r] + 1)]
        BY <2>6 DEF Write
      <3>2. /\ pc'[r] = "write" /\ sent'[r] = sent[r] + 1 /\ todo'[r] = Message(r, sent[r] + 1)
            /\ \A e \in Ends : e # r => pc'[e] = pc[e] /\ sent'[e] = sent[e] /\ todo'[e] = todo[e]
        BY <3>1 DEF Typed
      <3>3. todo'[r] # <<>>
        <4>1. sent[r] + 1 \in Nat
          BY DEF Typed
        <4> QED BY <4>1, <3>2, MessageShape
      <3>4. \A e \in Ends : pc'[e] = "write" => todo'[e] # <<>>
        BY <3>2, <3>3 DEF Waits
      <3>5. CASE r = "client"
        <4>1. sent["client"] = Len(got["client"]) + 1
          BY <3>5, <1>2 DEF Waits
        <4>2. sent'["client"] = Len(got'["client"]) + 1 /\ pc'["client"] = "write"
          BY <4>1, <3>5, <3>2, <2>3
        <4>3. pc["server"] # "closed" /\ pc'["server"] = pc["server"]
          BY <3>5, <3>2, <1>2 DEF Waits, Ends
        <4> QED BY <4>2, <4>3, <3>4 DEF Waits
      <3>6. CASE r = "server"
        <4>1. pc'["client"] = pc["client"] /\ sent'["client"] = sent["client"]
              /\ got'["client"] = got["client"] /\ pc'["server"] = "write"
          BY <3>6, <3>2, <2>2 DEF Ends
        <4> QED BY <4>1, <3>4 DEF Waits
      <3> QED BY <3>5, <3>6 DEF Ends
    <2>7. CASE /\ r = "client" /\ sent[r] = Requests /\ pc' = [pc EXCEPT ![r] = "closed"]
               /\ UNCHANGED <<sent, todo>>
      <3>1. pc'["client"] = "closed" /\ pc'["server"] = pc["server"]
        BY <2>7 DEF Typed, Ends
      <3>2. sent["client"] = Len(got["client"]) + 1
        BY <2>7, <1>2 DEF Waits
      <3>3. sent'["client"] = Len(got'["client"]) + 0 /\ sent'["client"] = Requests
        BY <3>2, <2>3, <2>7
      <3>4. \A e \in Ends : pc'[e] = "write" => todo'[e] # <<>>
        BY <3>1, <2>7 DEF Waits, Ends
      <3> QED BY <3>1, <3>3, <3>4 DEF Waits
    <2> QED BY <2>5, <2>6, <2>7
  <1> QED BY <1>1, <1>3, <1>4

LEMMA WaitNext == WaitInv /\ [Next]_vars => WaitInv'
  <1> SUFFICES ASSUME WaitInv, [Next]_vars PROVE Waits'
    BY StreamNext, FlowNext DEF WaitInv
  <1>1. packet' = packet
    BY DEF Next, Run, WriteSome, ReadStream, ReadPacket, EndOfStream, vars
  <1>2. SUFFICES ASSUME ~ packet PROVE Waits'
    BY <1>1 DEF Waits
  <1>3. Typed /\ Waits /\ Typed' /\ MessagesIntact'
    BY <1>1, <1>2, StreamNext DEF WaitInv, StreamInv
  <1>4. CASE UNCHANGED vars
    BY <1>3, <1>4 DEF vars, Waits
  <1>5. CASE Next
    <2>1. PICK e \in Ends : Run(e)
      BY <1>5 DEF Next
    <2>2. CASE WriteSome(e)
      BY <2>2, <1>2, <1>3, WritesWait
    <2>3. CASE ReadStream(e)
      BY <2>3, <1>2, <1>3, ReadsWait
    <2>4. CASE ReadPacket(e)
      BY <2>4, <1>2 DEF ReadPacket
    \* Only the server reads the end of its stream.
    <2>5. CASE EndOfStream(e)
      <3>1. /\ pc[e] = "read" /\ pc[Peer(e)] = "closed" /\ pc' = [pc EXCEPT ![e] = "closed"]
            /\ UNCHANGED <<packet, sent, todo, wire, cap, part, got>>
        BY <2>5 DEF EndOfStream
      <3>2. e = "server" /\ pc["client"] = "closed"
        BY <3>1, <1>2, <1>3 DEF Waits, Ends, Peer
      <3>3. pc'["server"] = "closed" /\ pc'["client"] = pc["client"]
        BY <3>1, <3>2, <1>3 DEF Typed, Ends
      <3> QED BY <3>1, <3>2, <3>3, <1>2, <1>3 DEF Waits, Ends
    <2> QED BY <2>1, <2>2, <2>3, <2>4, <2>5 DEF Run
  <1> QED BY <1>4, <1>5

\* Units on their way are read by the end that waits for them, and an empty socket is
\* written to.
LEMMA GoesOn ==
  ASSUME ~ packet, FlowInv, NEW e \in Ends
  PROVE  /\ pc[e] = "write" /\ todo[e] # <<>> /\ wire[e] = <<>> => CanGoOn(e)
         /\ pc[e] = "read" /\ wire[Peer(e)] # <<>> => CanGoOn(e)
  <1> DEFINE p == Peer(e)
  <1>1. p \in Ends
    BY PeerFacts
  <1> HIDE DEF p
  <1>2. wire[e] \in Seq(Unit) /\ wire[p] \in Seq(Unit) /\ todo[e] \in Seq(Unit) /\ part[e] \in Seq(Unit)
    BY <1>1 DEF FlowInv, Typed
  <1>3. Room \in Nat \ {0} /\ Size[p] \in Nat \ {0}
    BY <1>1, RawConnAssumption
  <1>4. ASSUME pc[e] = "write", todo[e] # <<>>, wire[e] = <<>> PROVE CanGoOn(e)
    <2>1. 1 \in 1..Len(todo[e])
      BY <1>2, <1>4
    <2>2. Len(wire[e]) + 1 <= Room
      BY <1>3, <1>4
    <2> QED BY <2>1, <2>2, <1>4 DEF CanGoOn
  <1>5. ASSUME pc[e] = "read", wire[p] # <<>> PROVE CanGoOn(e)
    <2>1. Missing(e) \in Nat /\ 1 <= Missing(e)
      <3>1. CASE part[e] = <<>>
        BY <3>1 DEF Missing
      <3>2. CASE part[e] # <<>>
        <4>1. Len(part[e]) \in Nat /\ Len(part[e]) <= Size[p]
          BY <3>2, <1>2 DEF FlowInv, PartFits, p
        <4> QED BY <4>1, <3>2, <1>3 DEF Missing, p
      <3> QED BY <3>1, <3>2
    <2>2. 1 \in 1..Missing(e) /\ 1 <= Len(wire[p])
      BY <2>1, <1>2, <1>5
    <2> QED BY <2>2, <1>5 DEF CanGoOn, p
  <1> QED BY <1>4, <1>5 DEF p

\* Turns leaves one message under way at most, so an end that waits for the other has a
\* peer that does not wait for it.
LEMMA NeverBothWait == WaitInv => NeverStuck
  <1> SUFFICES ASSUME WaitInv, ~ packet, \A e \in Ends : ~ CanGoOn(e)
               PROVE  \A e \in Ends : pc[e] = "closed" /\ Len(got[e]) = Requests
    BY DEF NeverStuck
  <1>1. Typed /\ Turns /\ FlowInv /\ Waits /\ AtRest
    BY DEF WaitInv, StreamInv, FlowInv
  <1> DEFINE c == "client"
             s == "server"
  <1>2. c \in Ends /\ s \in Ends /\ Peer(c) = s /\ Peer(s) = c
    BY DEF Ends, Peer
  <1>3. /\ pc[c] \in {"write", "read", "closed"} /\ pc[s] \in {"write", "read", "closed"}
        /\ sent[c] \in Nat /\ sent[s] \in Nat /\ Len(got[c]) \in Nat /\ Len(got[s]) \in Nat
    BY <1>1, <1>2, LenProperties DEF Typed
  <1>4. \A e \in Ends : /\ wire[e] \in Seq(Unit) /\ todo[e] \in Seq(Unit)
                        /\ part[Peer(e)] \in Seq(Unit)
    BY <1>1, PeerFacts DEF Typed
  <1>5. /\ sent[s] = Len(got[s])
        /\ \/ sent[c] = Len(got[s]) /\ UnderWay(c) = <<>>
           \/ sent[c] = Len(got[s]) + 1 /\ UnderWay(c) = Message(c, sent[c])
        /\ \/ sent[s] = Len(got[c]) /\ UnderWay(s) = <<>>
           \/ sent[s] = Len(got[c]) + 1 /\ UnderWay(s) = Message(s, sent[s])
    BY <1>1, <1>2 DEF Turns
  <1>6. /\ sent[c] = Len(got[c]) + (IF pc[c] = "closed" THEN 0 ELSE 1)
        /\ pc[c] = "closed" => sent[c] = Requests
        /\ pc[s] = "closed" => pc[c] = "closed"
        /\ pc[c] = "write" => todo[c] # <<>>
        /\ pc[s] = "write" => todo[s] # <<>>
        /\ pc[c] # "write" => todo[c] = <<>>
        /\ pc[s] # "write" => todo[s] = <<>>
    BY <1>1, <1>2 DEF Waits, AtRest
  <1>7. \A e \in Ends : UnderWay(e) = <<>> => wire[e] = <<>> /\ todo[e] = <<>>
    BY <1>4, NothingUnderWay DEF UnderWay
  \* What a peer has read of an unfinished message is not all of it.
  <1>8. \A e \in Ends : wire[e] = <<>> /\ todo[e] = <<>> => UnderWay(e) # Message(e, sent[e])
    <2> SUFFICES ASSUME NEW e \in Ends, wire[e] = <<>>, todo[e] = <<>>
                 PROVE  UnderWay(e) # Message(e, sent[e])
      OBVIOUS
    <2>1. UnderWay(e) = part[Peer(e)]
      BY <1>4 DEF UnderWay
    <2>2. Len(Message(e, sent[e])) = Size[e] + 1 /\ Size[e] \in Nat
      BY <1>1, MessageShape, RawConnAssumption DEF Typed
    <2>3. part[Peer(e)] = <<>> \/ Len(part[Peer(e)]) <= Size[e]
      BY <1>1, PeerFacts DEF FlowInv, PartFits
    <2>4. Len(part[Peer(e)]) <= Size[e] /\ Len(part[Peer(e)]) \in Nat
      BY <2>2, <2>3, <1>4
    <2> QED BY <2>1, <2>2, <2>4
  <1>9. /\ pc[c] = "write" => wire[c] # <<>>
        /\ pc[s] = "write" => wire[s] # <<>>
        /\ pc[c] = "read" => wire[s] = <<>>
        /\ pc[s] = "read" => wire[c] = <<>>
    BY <1>1, <1>2, <1>6, GoesOn
  <1> HIDE DEF c, s
  <1>10. pc[c] # "write"
    <2> SUFFICES ASSUME pc[c] = "write" PROVE FALSE
      OBVIOUS
    <2>1. UnderWay(c) # <<>>
      BY <1>2, <1>6, <1>7
    <2>2. UnderWay(s) = <<>>
      BY <2>1, <1>3, <1>5, <1>6
    <2>3. pc[s] = "read"
      BY <2>2, <1>2, <1>3, <1>6, <1>7
    <2> QED BY <2>3, <1>9
  <1>11. pc[c] # "read"
    <2> SUFFICES ASSUME pc[c] = "read" PROVE FALSE
      OBVIOUS
    <2>1. pc[s] = "read" /\ wire[s] = <<>> /\ wire[c] = <<>> /\ todo[s] = <<>> /\ todo[c] = <<>>
      BY <1>3, <1>6, <1>9
    <2>2. UnderWay(c) = <<>> /\ UnderWay(s) = <<>>
      BY <2>1, <1>2, <1>5, <1>8
    <2>3. UnderWay(c) # Message(c, sent[c]) /\ UnderWay(s) # Message(s, sent[s])
      BY <2>1, <1>2, <1>8
    <2> QED BY <2>1, <2>3, <1>3, <1>5, <1>6
  <1>12. pc[c] = "closed" /\ sent[c] = Requests /\ Len(got[c]) = Requests
    <2>1. pc[c] = "closed"
      BY <1>3, <1>10, <1>11
    <2>2. sent[c] = Requests /\ sent[c] = Len(got[c]) + 0
      BY <2>1, <1>6
    <2> QED BY <2>1, <2>2, <1>3
  <1>13. Len(got[s]) = Requests
    BY <1>3, <1>5, <1>12
  <1>14. pc[s] # "write"
    <2> SUFFICES ASSUME pc[s] = "write" PROVE FALSE
      OBVIOUS
    <2>1. UnderWay(s) # <<>>
      BY <1>2, <1>6, <1>7
    <2> QED BY <2>1, <1>3, <1>5, <1>12, <1>13
  <1>15. pc[s] # "read"
    <2> SUFFICES ASSUME pc[s] = "read" PROVE FALSE
      OBVIOUS
    <2>1. wire[c] = <<>>
      BY <1>9
    <2> QED BY <2>1, <1>2, <1>12 DEF CanGoOn
  <1>16. pc[s] = "closed"
    BY <1>3, <1>14, <1>15
  <1> QED BY <1>12, <1>13, <1>16 DEF Ends, c, s

LEMMA WaitInvariance == Spec => []WaitInv
  <1>1. Init => WaitInv
    BY InitStream, InitFlow, InitWaits DEF WaitInv
  <1> QED BY <1>1, WaitNext, PTL DEF Spec

\* In stream mode client and server never wait for each other, for every size of
\* messages and socket: as long as not all requests are made and answered, and both
\* ends closed, one of the two can write or read
\* (asbench/raw/server/server.go:151-171, asbench/raw/client/client.go:46-80).
THEOREM NoDeadlock == Spec => []NeverStuck
  BY WaitInvariance, NeverBothWait, PTL

\* All that is read of a connection is what has been written to it, in order and without
\* a gap, and the buffer holds a message that is being read, in stream mode and in
\* packet mode and for every size of messages, buffers and socket
\* (asbench/raw/server/server.go:73-124).
THEOREM ConnInvariance == Spec => []IInv
  <1>1. ASSUME WaitInv PROVE IInv
    <2>0. FlowInv /\ StreamInv /\ Waits /\ NeverStuck
      BY <1>1, NeverBothWait DEF WaitInv
    <2>1. TypeOK
      <3>1. ASSUME NEW e \in Ends
            PROVE  ToSet(todo[e]) \cup ToSet(wire[e]) \cup ToSet(part[Peer(e)])
                   \subseteq (1..sent[e]) \X (0..Size[e])
        <4>1. wire[e] \in Seq(Unit) /\ todo[e] \in Seq(Unit) /\ part[Peer(e)] \in Seq(Unit)
          BY <2>0, PeerFacts DEF FlowInv, Typed
        <4>2. part[Peer(e)] \o wire[e] \in Seq(Unit)
          BY <4>1, FromEmpty
        <4>3. /\ ToSet(UnderWay(e)) = ToSet(part[Peer(e)] \o wire[e]) \cup ToSet(todo[e])
              /\ ToSet(part[Peer(e)] \o wire[e]) = ToSet(part[Peer(e)]) \cup ToSet(wire[e])
          BY <4>1, <4>2, ToSetOfConcat DEF UnderWay
        <4>4. Known(e)
          BY <2>0 DEF FlowInv
        <4> QED BY <4>3, <4>4 DEF Known
      <3> QED BY <3>1, <2>0 DEF FlowInv, Typed, TypeOK, PartFits, Unit
    <2>2. NothingLost
      <3> SUFFICES ASSUME NEW e \in Ends
                   PROVE  ((FlattenSeq(got[e]) \o part[e]) \o wire[Peer(e)]) \o todo[Peer(e)]
                          = FlattenSeq([k \in 1..sent[Peer(e)] |-> Message(Peer(e), k)])
        BY DEF NothingLost
      <3> DEFINE p == Peer(e)
      <3>1. p \in Ends /\ Peer(p) = e
        BY PeerFacts
      <3> HIDE DEF p
      <3>2. /\ part[e] \in Seq(Unit) /\ wire[p] \in Seq(Unit) /\ todo[p] \in Seq(Unit)
            /\ got[e] \in Seq(Seq(Unit))
        BY <2>0, <3>1 DEF FlowInv, Typed
      <3>3. FlattenSeq(got[e]) \in Seq(Unit)
        BY <3>2, EmptyIsUnits, FlattenAppend
      <3>4. FlattenSeq(got[e]) \o ((part[e] \o wire[p]) \o todo[p]) = FlattenSeq(Written(p))
        BY <2>0, <3>1 DEF FlowInv, Delivered, UnderWay
      <3>5. ((FlattenSeq(got[e]) \o part[e]) \o wire[p]) \o todo[p]
            = FlattenSeq(got[e]) \o ((part[e] \o wire[p]) \o todo[p])
        <4> DEFINE f == FlattenSeq(got[e])
                   a == part[e]
                   b == wire[p]
                   c == todo[p]
        <4>1. f \in Seq(Unit) /\ a \in Seq(Unit) /\ b \in Seq(Unit) /\ c \in Seq(Unit)
          BY <3>2, <3>3
        <4> HIDE DEF f, a, b, c
        <4>2. (f \o a) \o b = f \o (a \o b)
          BY <4>1, Associative, ZenonT(60)
        <4>3. a \o b \in Seq(Unit)
          BY <4>1, Joined
        <4>4. (f \o (a \o b)) \o c = f \o ((a \o b) \o c)
          BY <4>1, <4>3, Associative, ZenonT(60)
        <4> QED BY <4>2, <4>4 DEF f, a, b, c
      <3> QED BY <3>4, <3>5 DEF Written, p
    <2>3. Turns
      BY <1>1, <2>0 DEF StreamInv, Turns
    <2> QED BY <2>1, <2>2, <2>3, <2>0 DEF IInv, FlowInv
  <1> QED BY <1>1, WaitInvariance, PTL

-----------------------------------------------------------------------------
(* Run of the server. *)

LEMMA InitServer == ServerInit => ServerInv
  BY DEF ServerInit, ServerInv, ServerTypeOK, SurvivesEOF, ErrorsAreSeen, Failed, Errors

\* Nothing but a report makes Failed true, and nothing makes it false again.
LEMMA SameFailed ==
  ASSUME UNCHANGED error,
         \A l \in Listeners : accept'[l] = "gone" <=> accept[l] = "gone",
         \A c \in Conns : handler'[c] = "closed" <=> handler[c] = "closed"
  PROVE  Failed' <=> Failed
  BY DEF Failed

LEMMA NextServer == ServerInv /\ [ServerNext]_serverVars => ServerInv'
  <1> SUFFICES ASSUME ServerInv, [ServerNext]_serverVars PROVE ServerInv'
    OBVIOUS
  <1> USE DEF ServerInv
  <1>1. CASE UNCHANGED serverVars
    BY <1>1 DEF serverVars, ServerTypeOK, SurvivesEOF, ErrorsAreSeen, Failed
  <1>2. CASE Listen
    <2>1. ServerTypeOK'
      BY <1>2 DEF Listen, ServerTypeOK
    <2>2. Failed' <=> Failed
      BY <1>2 DEF Listen, Failed, ServerTypeOK
    <2>3. run' # "listen" /\ run' # "returned"
      BY <1>2 DEF Listen
    <2> QED BY <1>2, <2>1, <2>2, <2>3 DEF Listen, SurvivesEOF, ErrorsAreSeen
  <1>3. CASE Take
    <2>1. Failed' <=> Failed
      BY <1>3 DEF Take, Failed
    <2>2. run = "loop" /\ errChan \in {<<err>> : err \in Errors} /\ errChan' = <<>>
      BY <1>3 DEF Take, ServerTypeOK
    <2>3. ServerTypeOK'
      BY <1>3 DEF Take, ServerTypeOK
    <2>4. CASE errChan = <<"EOF">>
      <3>1. ~ Failed
        BY <2>2, <2>4 DEF ErrorsAreSeen
      <3>2. run' = "loop"
        BY <1>3, <2>4 DEF Take
      <3> QED BY <2>1, <2>2, <2>3, <3>1, <3>2 DEF SurvivesEOF, ErrorsAreSeen
    <2>5. CASE errChan = <<"other">>
      <3>1. run' = "returned"
        BY <1>3, <2>5 DEF Take
      <3> QED BY <2>1, <2>2, <2>3, <2>5, <3>1 DEF SurvivesEOF, ErrorsAreSeen
    <2> QED BY <2>2, <2>4, <2>5 DEF Errors
  <1>4. CASE Exit
    BY <1>4 DEF Exit, ServerTypeOK, SurvivesEOF, ErrorsAreSeen, Failed
  <1>5. ASSUME NEW l \in Listeners, AcceptFails(l) PROVE ServerInv'
    <2>1. ServerTypeOK'
      BY <1>5 DEF AcceptFails, ServerTypeOK
    <2>2. Failed' <=> Failed
      BY <1>5, SameFailed DEF AcceptFails, ServerTypeOK
    <2> QED BY <1>5, <2>1, <2>2 DEF AcceptFails, SurvivesEOF, ErrorsAreSeen
  <1>6. ASSUME NEW l \in Listeners, AcceptReports(l) PROVE ServerInv'
    <2>1. ServerTypeOK'
      BY <1>6 DEF AcceptReports, Put, ServerTypeOK, Errors
    <2>2. Failed' /\ errChan' = <<"other">>
      BY <1>6 DEF AcceptReports, Put, Failed, ServerTypeOK
    <2>3. run' # "listen"
      BY <1>6 DEF AcceptReports, Running
    <2> QED BY <2>1, <2>2, <2>3 DEF SurvivesEOF, ErrorsAreSeen
  <1>7. ASSUME NEW c \in Conns, Dial(c) PROVE ServerInv'
    BY <1>7 DEF Dial, ServerTypeOK, SurvivesEOF, ErrorsAreSeen, Failed
  <1>8. ASSUME NEW c \in Conns, Hangup(c) PROVE ServerInv'
    BY <1>8 DEF Hangup, ServerTypeOK, SurvivesEOF, ErrorsAreSeen, Failed
  <1>9. ASSUME NEW c \in Conns, Accept(c) PROVE ServerInv'
    <2>1. ServerTypeOK'
      BY <1>9 DEF Accept, ServerTypeOK
    <2>2. Failed' <=> Failed
      BY <1>9, SameFailed DEF Accept, ServerTypeOK
    <2> QED BY <1>9, <2>1, <2>2 DEF Accept, SurvivesEOF, ErrorsAreSeen
  <1>10. ASSUME NEW c \in Conns, HandlerFails(c) PROVE ServerInv'
    <2>1. ServerTypeOK'
      BY <1>10 DEF HandlerFails, ServerTypeOK
    <2>2. Failed' <=> Failed
      BY <1>10 DEF HandlerFails, Failed, ServerTypeOK
    <2> QED BY <1>10, <2>1, <2>2 DEF HandlerFails, SurvivesEOF, ErrorsAreSeen
  <1>11. ASSUME NEW c \in Conns, HandlerReports(c) PROVE ServerInv'
    <2>1. error[c] \in Errors /\ errChan = <<>> /\ errChan' = <<error[c]>>
      BY <1>11 DEF HandlerReports, Put, ServerTypeOK
    <2>2. ServerTypeOK'
      BY <1>11, <2>1 DEF HandlerReports, ServerTypeOK
    <2>3. Failed' <=> Failed \/ error[c] = "other"
      BY <1>11 DEF HandlerReports, Failed, ServerTypeOK
    <2>4. <<"EOF">> # <<"other">> /\ <<"other">> # <<>>
      OBVIOUS
    <2>5. run' = run /\ accept' = accept /\ run # "listen"
      BY <1>11 DEF HandlerReports, Running
    <2>6. SurvivesEOF'
      BY <2>3, <2>5 DEF SurvivesEOF
    <2>7. ErrorsAreSeen'
      <3>1. run = "loop" => ~ Failed
        BY <2>1, <2>4 DEF ErrorsAreSeen
      <3> QED BY <2>1, <2>3, <2>5, <3>1 DEF ErrorsAreSeen
    <2>8. errChan' = <<"other">> => Failed'
      BY <2>1, <2>3, <2>4 DEF Errors
    <2> QED BY <2>2, <2>5, <2>6, <2>7, <2>8
  <1> QED
    BY <1>1, <1>2, <1>3, <1>4, <1>5, <1>6, <1>7, <1>8, <1>9, <1>10, <1>11 DEF ServerNext

\* The main loop, the channel and those that report into it fit together: no error
\* is taken for the end of a client or the other way round (server.go:126-193).
THEOREM ServerInvariance == ServerSpec => []ServerInv
  BY InitServer, NextServer, PTL DEF ServerSpec

\* Run returns only for an error that is not the end of a client, however many
\* clients there are (asbench/raw/server/server.go:186-192).
THEOREM EndOfClientsSurvived == ServerSpec => []SurvivesEOF
  <1>1. ServerInv => SurvivesEOF
    BY DEF ServerInv
  <1> QED BY <1>1, ServerInvariance, PTL

\* The one place of errChan loses no error.
THEOREM NoErrorLost == ServerSpec => []ErrorsAreSeen
  <1>1. ServerInv => ErrorsAreSeen
    BY DEF ServerInv
  <1> QED BY <1>1, ServerInvariance, PTL
=============================================================================
