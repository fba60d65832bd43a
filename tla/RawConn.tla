------------------------------ MODULE RawConn ------------------------------
(***************************************************************************)
(* One connection of the raw benchmark: the client's loop write(req),      *)
(* read() (asbench/raw/client/client.go) and the server's loop read(),     *)
(* write(reply) (handleConn in asbench/raw/server/server.go) over          *)
(* MessageIO, in stream mode (a length before every message) or in packet  *)
(* mode (one Read is one message).  Both run over a stream socket.         *)
(*                                                                         *)
(* A message is cut into units, <<k, i>> being unit i of message k; in     *)
(* stream mode unit 0 is the length.  A socket direction holds at most     *)
(* Room units: a longer message is written while the other side reads it.  *)
(***************************************************************************)
EXTENDS Naturals, Sequences, SequencesExt, FiniteSetsExt

CONSTANTS
  Size,      \* units of a message from the client, and from the server
  BufSize,   \* units that fit the buffer of NewMessageIO
  Room,      \* units that fit one direction of the socket
  Requests   \* bound: requests the client makes

Ends == {"client", "server"}
Peer(e) == IF e = "client" THEN "server" ELSE "client"

ASSUME RawConnAssumption ==
  /\ Size \in [Ends -> Nat] /\ \A e \in Ends : Size[e] > 0
  /\ BufSize \in Nat \ {0} /\ Room \in Nat \ {0} /\ Requests \in Nat

VARIABLES
  packet, \* packet mode (the -p option)
  pc,    \* per end: "write", "read" or "closed"
  sent,  \* messages an end has begun to write
  todo,  \* units of the last one that are still to be written
  wire,  \* units on their way from an end to its peer
  cap,   \* capacity of bufMsg of an end
  part,  \* units of the message an end is reading
  got    \* messages an end has read, each as its units

vars == <<packet, pc, sent, todo, wire, cap, part, got>>

\* The units of message k of an end, as WriteStream and WritePacket lay it out.
Message(e, k) ==
  IF packet THEN [i \in 1..Size[e] |-> <<k, i>>]
            ELSE <<<<k, 0>>>> \o [i \in 1..Size[e] |-> <<k, i>>]

Init ==
  /\ packet \in BOOLEAN
  /\ pc = [e \in Ends |-> IF e = "client" THEN "write" ELSE "read"]
  /\ sent = [e \in Ends |-> IF e = "client" THEN 1 ELSE 0]
  /\ todo = [e \in Ends |-> IF e = "client" THEN Message(e, 1) ELSE <<>>]
  /\ wire = [e \in Ends |-> <<>>]
  /\ cap = [e \in Ends |-> BufSize]
  /\ part = [e \in Ends |-> <<>>]
  /\ got = [e \in Ends |-> <<>>]

-----------------------------------------------------------------------------
\* Mutant: write gives up when the socket has no room for the whole message.
WriteWhole(e) ==
  /\ pc[e] = "write"
  /\ Len(wire[e]) + Len(todo[e]) <= Room
  /\ wire' = [wire EXCEPT ![e] = @ \o todo[e]]
  /\ todo' = [todo EXCEPT ![e] = <<>>]
  /\ pc' = [pc EXCEPT ![e] = "read"]
  /\ UNCHANGED <<packet, sent, cap, part, got>>

\* Mutant: write returns after what went into the socket at once.
WriteOnce(e) ==
  /\ pc[e] = "write"
  /\ \E n \in 1..Len(todo[e]) :
       /\ Len(wire[e]) + n <= Room
       /\ wire' = [wire EXCEPT ![e] = @ \o SubSeq(todo[e], 1, n)]
  /\ todo' = [todo EXCEPT ![e] = <<>>]
  /\ pc' = [pc EXCEPT ![e] = "read"]
  /\ UNCHANGED <<packet, sent, cap, part, got>>

\* Some units of the message go into the socket; write returns with the last.
WriteSome(e) ==
  /\ pc[e] = "write"
  /\ \E n \in 1..Len(todo[e]) :
       /\ Len(wire[e]) + n <= Room
       /\ wire' = [wire EXCEPT ![e] = @ \o SubSeq(todo[e], 1, n)]
       /\ todo' = [todo EXCEPT ![e] = SubSeq(@, n + 1, Len(@))]
  /\ pc' = [pc EXCEPT ![e] = IF todo'[e] = <<>> THEN "read" ELSE "write"]
  /\ UNCHANGED <<packet, sent, cap, part, got>>

\* The next message of an end.
Write(e) ==
  /\ pc' = [pc EXCEPT ![e] = "write"]
  /\ sent' = [sent EXCEPT ![e] = @ + 1]
  /\ todo' = [todo EXCEPT ![e] = Message(e, sent[e] + 1)]

\* read returns with these units.  The client counts any reply, and closes when
\* its time is over.  The server answers a request; what the decoder makes of
\* anything but a whole one is open: a request, nothing to answer, or a panic.
Return(e, units) ==
  /\ got' = [got EXCEPT ![e] = Append(@, units)]
  /\ \/ ~ (e = "client" /\ sent[e] = Requests) /\ Write(e)
     \/ /\ e = "client" /\ sent[e] = Requests
        /\ pc' = [pc EXCEPT ![e] = "closed"]
        /\ UNCHANGED <<sent, todo>>
     \/ /\ e = "server" /\ units # Message("client", Len(got'["server"]))
        /\ pc' \in {pc, [pc EXCEPT ![e] = "closed"]}
        /\ UNCHANGED <<sent, todo>>

\* Units that io.ReadFull waits for: the length, then what it says.
Missing(e) == IF part[e] = <<>> THEN 1 ELSE Size[Peer(e)] + 1 - Len(part[e])

\* Mutant: one Read into the first buffer instead of io.ReadFull into a long one.
ReadStreamOnce(e) ==
  /\ ~ packet /\ pc[e] = "read" /\ wire[Peer(e)] # <<>>
  /\ \E n \in 1..Missing(e) :
       LET units == part[e] \o SubSeq(wire[Peer(e)], 1, n) IN
       /\ n <= Len(wire[Peer(e)])
       /\ wire' = [wire EXCEPT ![Peer(e)] = SubSeq(@, n + 1, Len(@))]
       /\ IF part[e] # <<>>
          THEN part' = [part EXCEPT ![e] = <<>>] /\ Return(e, units)
          ELSE part' = [part EXCEPT ![e] = units] /\ UNCHANGED <<pc, sent, todo, got>>
  /\ UNCHANGED <<packet, cap>>

\* A Read of io.ReadFull returns some of the missing units.  The buffer is made
\* longer when the length read is beyond it.
ReadStream(e) ==
  /\ ~ packet /\ pc[e] = "read" /\ wire[Peer(e)] # <<>>
  /\ \E n \in 1..Missing(e) :
       LET units == part[e] \o SubSeq(wire[Peer(e)], 1, n) IN
       /\ n <= Len(wire[Peer(e)])
       /\ wire' = [wire EXCEPT ![Peer(e)] = SubSeq(@, n + 1, Len(@))]
       /\ IF Len(units) = Size[Peer(e)] + 1
          THEN part' = [part EXCEPT ![e] = <<>>] /\ Return(e, units)
          ELSE part' = [part EXCEPT ![e] = units] /\ UNCHANGED <<pc, sent, todo, got>>
  /\ cap' = IF part[e] = <<>> /\ Size[Peer(e)] > cap[e]
            THEN [cap EXCEPT ![e] = Size[Peer(e)]] ELSE cap
  /\ UNCHANGED packet

\* One Read: what has arrived, as far as it fits the buffer, is the message.
ReadPacket(e) ==
  /\ packet /\ pc[e] = "read" /\ wire[Peer(e)] # <<>>
  /\ LET n == Min({Len(wire[Peer(e)]), cap[e]}) IN
       /\ wire' = [wire EXCEPT ![Peer(e)] = SubSeq(@, n + 1, Len(@))]
       /\ Return(e, SubSeq(wire[Peer(e)], 1, n))
  /\ UNCHANGED <<packet, cap, part>>

\* read returns an error when the peer has closed and all units are read.
EndOfStream(e) ==
  /\ pc[e] = "read" /\ pc[Peer(e)] = "closed" /\ wire[Peer(e)] = <<>>
  /\ pc' = [pc EXCEPT ![e] = "closed"]
  /\ UNCHANGED <<packet, sent, todo, wire, cap, part, got>>

Run(e) == WriteSome(e) \/ ReadStream(e) \/ ReadPacket(e) \/ EndOfStream(e)

Next == \E e \in Ends : Run(e)

Spec == Init /\ [][Next]_vars

\* Both processes are scheduled, and a socket with data or room is served.
FairSpec == Spec /\ \A e \in Ends : WF_vars(Run(e))

-----------------------------------------------------------------------------
(* Properties. *)

\* Types, and what the slices need: a message that is being read in stream mode
\* fits the buffer (server.go:79-85).
TypeOK ==
  /\ packet \in BOOLEAN
  /\ pc \in [Ends -> {"write", "read", "closed"}]
  /\ sent \in [Ends -> Nat] /\ cap \in [Ends -> Nat]
  /\ {todo, wire, part} \subseteq [Ends -> Seq(Nat \X Nat)]
  /\ \A e \in Ends :
       /\ ToSet(todo[e]) \union ToSet(wire[e]) \union ToSet(part[Peer(e)])
          \subseteq (1..sent[e]) \X (0..Size[e])
       /\ Len(wire[e]) <= Room
       /\ part[e] # <<>> => Len(part[e]) <= Size[Peer(e)] /\ Size[Peer(e)] <= cap[e]
  /\ got \in [Ends -> Seq(Seq(Nat \X Nat))]

\* The socket neither loses, repeats nor swaps anything, in either mode and for
\* any cut: what an end has read, is reading, has on its way and still has to
\* come is all its peer wrote, in order.
NothingLost ==
  \A e \in Ends :
    FlattenSeq(got[e]) \o part[e] \o wire[Peer(e)] \o todo[Peer(e)]
    = FlattenSeq([k \in 1..sent[Peer(e)] |-> Message(Peer(e), k)])

\* In stream mode requests and replies take turns: from either end one message at
\* most is under way, part of it read, part of it in the socket, the rest to be
\* written; the server has answered all it has read.
UnderWay(e) == part[Peer(e)] \o wire[e] \o todo[e]

Turns ==
  ~ packet =>
    /\ sent["client"] <= Len(got["client"]) + 1 /\ sent["server"] = Len(got["server"])
    /\ \A e \in Ends :
         \/ sent[e] = Len(got[Peer(e)]) /\ UnderWay(e) = <<>>
         \/ sent[e] = Len(got[Peer(e)]) + 1 /\ UnderWay(e) = Message(e, sent[e])

\* An end that reads has written its last message out, and packet mode keeps no
\* part of a message.
AtRest ==
  \A e \in Ends :
    /\ pc[e] # "write" => todo[e] = <<>>
    /\ packet => part[e] = <<>>

\* In stream mode the client waits for one reply until it has them all, and the
\* server, which an end of its stream alone stops, outlives it.
Waits ==
  ~ packet =>
    /\ \A e \in Ends : pc[e] = "write" => todo[e] # <<>>
    /\ sent["client"] = Len(got["client"]) + (IF pc["client"] = "closed" THEN 0 ELSE 1)
    /\ pc["client"] = "closed" => sent["client"] = Requests
    /\ pc["server"] = "closed" => pc["client"] = "closed"

\* What a step of an end in stream mode waits for: room to write, something to
\* read, the end of the stream.
CanGoOn(e) ==
  \/ /\ pc[e] = "write"
     /\ \E n \in 1..Len(todo[e]) : Len(wire[e]) + n <= Room
  \/ /\ pc[e] = "read"
     /\ \/ \E n \in 1..Missing(e) : n <= Len(wire[Peer(e)])
        \/ pc[Peer(e)] = "closed" /\ wire[Peer(e)] = <<>>

\* In stream mode the two ends never both wait: one can go on, or they have closed
\* and every request was read and answered, whatever fits the socket
\* (server.go:151-171, client.go:50-80).
NeverStuck ==
  ~ packet =>
    \/ \E e \in Ends : CanGoOn(e)
    \/ \A e \in Ends : pc[e] = "closed" /\ Len(got[e]) = Requests

\* The inductive invariant, and what follows from it.
IInv == TypeOK /\ NothingLost /\ Turns /\ AtRest /\ Waits /\ NeverStuck

\* In stream mode every message is read as it was written and in the order it
\* was written, however the socket cuts it and whether or not it fits the first
\* buffer (server.go:73-98).
MessagesIntact ==
  ~ packet =>
    \A e \in Ends : \A k \in 1..Len(got[e]) : got[e][k] = Message(Peer(e), k)

\* Client and server never wait for each other in stream mode: all requests are
\* answered and both close, messages larger than the socket's buffer included.
AllAnswered ==
  <>(packet \/ /\ \A e \in Ends : pc[e] = "closed"
               /\ Len(got["client"]) = Requests /\ Len(got["server"]) = Requests)
=============================================================================
