----------------------------- MODULE RawServer -----------------------------
(***************************************************************************)
(* The raw benchmark server: Run of asbench/raw/server/server.go.  Two     *)
(* listeners with an accept loop each, a handler goroutine per connection, *)
(* and a main loop, tied together by errChan, a channel with one place.    *)
(* What a handler does with messages is in RawConn; here it serves until   *)
(* read or write returns an error.  A name that RawConn has too begins     *)
(* with Server here: RawProofs is about both.                              *)
(***************************************************************************)
EXTENDS Naturals, Sequences

CONSTANTS
  Listeners,  \* the unix and the tcp listener
  Conns,      \* connections clients make
  Via         \* the listener each connection is made to

ASSUME RawServerAssumption == Via \in [Conns -> Listeners]

VARIABLES
  run,      \* main loop: "listen", "loop", "returned" or "exited"
  accept,   \* accept loops: "off", "accept", "report" or "gone"
  peer,     \* client ends: "none", "open", "closed" or "reset"
  handler,  \* handlers: "none", "serve", "report" or "closed"
  error,    \* what a handler's read or write returned
  errChan   \* its one place

serverVars == <<run, accept, peer, handler, error, errChan>>

Errors == {"EOF", "other"}
Running == run \in {"loop", "returned"}

ServerInit ==
  /\ run = "listen"
  /\ accept = [l \in Listeners |-> "off"]
  /\ peer = [c \in Conns |-> "none"]
  /\ handler = [c \in Conns |-> "none"]
  /\ error = [c \in Conns |-> "EOF"]
  /\ errChan = <<>>

\* errChan <- err blocks while its place is taken.
Put(err) == errChan = <<>> /\ errChan' = <<err>>

-----------------------------------------------------------------------------
\* Both listeners open and the accept loops start, or Run returns an error.
Listen ==
  /\ run = "listen"
  /\ \/ run' = "loop" /\ accept' = [l \in Listeners |-> "accept"]
     \/ run' = "exited" /\ UNCHANGED accept
  /\ UNCHANGED <<peer, handler, error, errChan>>

\* External: clients connect, and end in order or abruptly.
Dial(c) ==
  /\ accept[Via[c]] # "off" /\ run # "exited"
  /\ peer[c] = "none"
  /\ peer' = [peer EXCEPT ![c] = "open"]
  /\ UNCHANGED <<run, accept, handler, error, errChan>>

Hangup(c) ==
  /\ peer[c] = "open"
  /\ \E how \in {"closed", "reset"} : peer' = [peer EXCEPT ![c] = how]
  /\ UNCHANGED <<run, accept, handler, error, errChan>>

\* The accept loop takes a connection and starts its handler.
Accept(c) ==
  /\ Running
  /\ accept[Via[c]] = "accept"
  /\ peer[c] # "none" /\ handler[c] = "none"
  /\ handler' = [handler EXCEPT ![c] = "serve"]
  /\ UNCHANGED <<run, accept, peer, error, errChan>>

AcceptFails(l) ==
  /\ Running
  /\ accept[l] = "accept"
  /\ accept' = [accept EXCEPT ![l] = "report"]
  /\ UNCHANGED <<run, peer, handler, error, errChan>>

AcceptReports(l) ==
  /\ Running
  /\ accept[l] = "report"
  /\ Put("other")
  /\ accept' = [accept EXCEPT ![l] = "gone"]
  /\ UNCHANGED <<run, peer, handler, error>>

\* read or write fails: io.EOF between messages after an orderly end, another
\* error in the middle of a message or after a reset.
HandlerFails(c) ==
  /\ Running
  /\ handler[c] = "serve"
  /\ peer[c] # "open"
  /\ \E err \in Errors :
       /\ peer[c] = "reset" => err = "other"
       /\ error' = [error EXCEPT ![c] = err]
  /\ handler' = [handler EXCEPT ![c] = "report"]
  /\ UNCHANGED <<run, accept, peer, errChan>>

\* Mutant: the error is dropped when the channel is full.
HandlerReportsOrDrops(c) ==
  /\ Running
  /\ handler[c] = "report"
  /\ errChan' = IF errChan = <<>> THEN <<error[c]>> ELSE errChan
  /\ handler' = [handler EXCEPT ![c] = "closed"]
  /\ UNCHANGED <<run, accept, peer, error>>

\* Mutant: io.EOF is reported without returning; the next read gives it again.
HandlerReadsOn(c) ==
  /\ Running
  /\ handler[c] = "report"
  /\ Put(error[c])
  /\ handler' = [handler EXCEPT ![c] = IF error[c] = "EOF" THEN @ ELSE "closed"]
  /\ UNCHANGED <<run, accept, peer, error>>

\* errChan <- err, then the deferred netconn.Close.
HandlerReports(c) ==
  /\ Running
  /\ handler[c] = "report"
  /\ Put(error[c])
  /\ handler' = [handler EXCEPT ![c] = "closed"]
  /\ UNCHANGED <<run, accept, peer, error>>

\* Mutant: any error ends the main loop.
TakeAny ==
  /\ run = "loop"
  /\ errChan # <<>>
  /\ errChan' = <<>>
  /\ run' = "returned"
  /\ UNCHANGED <<accept, peer, handler, error>>

\* err := <-errChan; anything but io.EOF breaks the loop.
Take ==
  /\ run = "loop"
  /\ errChan # <<>>
  /\ errChan' = <<>>
  /\ run' = IF Head(errChan) = "EOF" THEN "loop" ELSE "returned"
  /\ UNCHANGED <<accept, peer, handler, error>>

\* main returns and takes every goroutine with it.
Exit ==
  /\ run = "returned"
  /\ run' = "exited"
  /\ UNCHANGED <<accept, peer, handler, error, errChan>>

ServerNext ==
  \/ Listen \/ Take \/ Exit
  \/ \E l \in Listeners : AcceptFails(l) \/ AcceptReports(l)
  \/ \E c \in Conns :
       Dial(c) \/ Hangup(c) \/ Accept(c) \/ HandlerFails(c) \/ HandlerReports(c)

ServerSpec == ServerInit /\ [][ServerNext]_serverVars

\* Goroutines are scheduled; senders blocked on errChan queue in order, so each
\* gets its turn when the place becomes free again and again.
FairServerSpec ==
  /\ ServerSpec
  /\ WF_serverVars(Take)
  /\ \A c \in Conns : WF_serverVars(Accept(c)) /\ WF_serverVars(HandlerFails(c)) /\ SF_serverVars(HandlerReports(c))
  /\ \A l \in Listeners : SF_serverVars(AcceptReports(l))

-----------------------------------------------------------------------------
(* Properties. *)

ServerTypeOK ==
  /\ run \in {"listen", "loop", "returned", "exited"}
  /\ accept \in [Listeners -> {"off", "accept", "report", "gone"}]
  /\ peer \in [Conns -> {"none", "open", "closed", "reset"}]
  /\ handler \in [Conns -> {"none", "serve", "report", "closed"}]
  /\ error \in [Conns -> Errors]
  /\ errChan \in {<<>>} \union {<<err>> : err \in Errors}

\* Errors other than the end of a client: reported by an accept loop that is
\* gone or by a handler that has closed.
Failed ==
  \/ \E l \in Listeners : accept[l] = "gone"
  \/ \E c \in Conns : handler[c] = "closed" /\ error[c] = "other"

\* The server outlives clients that end in order, however many end at once
\* (server.go:186-192).
SurvivesEOF == run = "returned" => Failed

\* No error is lost in the channel's one place: the main loop has returned or
\* still has it to take, so a listener that gave up is noticed.
ErrorsAreSeen == run = "loop" /\ Failed => errChan = <<"other">>

\* The inductive invariant.  Its last parts: what stands in the channel is true,
\* and nothing runs before both listeners are open.
ServerInv ==
  /\ ServerTypeOK
  /\ SurvivesEOF
  /\ ErrorsAreSeen
  /\ errChan = <<"other">> => Failed
  /\ run = "listen" => ~ Failed /\ \A l \in Listeners : accept[l] = "off"

\* A connection that has failed is closed as long as the main loop runs: the
\* report in front of the deferred Close blocks for a while only.
FailedIsClosed ==
  \A c \in Conns : handler[c] = "report" ~> (handler[c] = "closed" \/ run # "loop")
=============================================================================
