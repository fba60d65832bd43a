---------------------------- MODULE WhoElseFeed ----------------------------
(***************************************************************************)
(* What the echo service promises a client that sends SubWhoElseEvent:     *)
(* the stream it used carries the handler's reply and the addresses of     *)
(* connections that were made to the server, none of them twice, and       *)
(* nothing once the client has gone (echo/messages.go, SubWhoElseEvent).   *)
(* Which connections are reported, and when, is left open here.            *)
(***************************************************************************)
EXTENDS Naturals, Sequences

CONSTANTS
  Conns,   \* connections, each standing for the "new client" event it causes
  Subs,    \* subscriptions, one for every SubWhoElseEvent handled
  Zero     \* the reply of the handler

VARIABLES
  announced,  \* connections the server has accepted
  open,       \* subscriptions whose client is still there
  out         \* what each subscription's stream has carried, in order

vars == <<announced, open, out>>

Carried(s) == {out[s][i] : i \in 1..Len(out[s])}

Init ==
  /\ announced = {}
  /\ open = {}
  /\ out = [s \in Subs |-> <<>>]

Announce(c) ==
  /\ announced' = announced \union {c}
  /\ UNCHANGED <<open, out>>

Subscribe(s) ==
  /\ s \notin open
  /\ out[s] = <<>>
  /\ open' = open \union {s}
  /\ UNCHANGED <<announced, out>>

Deliver(s, m) ==
  /\ s \in open
  /\ m \in (announced \union {Zero}) \ Carried(s)
  /\ out' = [out EXCEPT ![s] = Append(@, m)]
  /\ UNCHANGED <<announced, open>>

\* A client leaves with every subscription it made.
Leave(gone) ==
  /\ open' = open \ gone
  /\ UNCHANGED <<announced, out>>

Next ==
  \/ \E c \in Conns : Announce(c)
  \/ \E s \in Subs : Subscribe(s)
  \/ \E s \in Subs, m \in Conns \union {Zero} : Deliver(s, m)
  \/ \E gone \in SUBSET Subs : Leave(gone)

Spec == Init /\ [][Next]_vars
=============================================================================
