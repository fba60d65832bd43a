----------------------------- MODULE Lifecycle -----------------------------
(***************************************************************************)
(* Start, Run and Stop of the two server programs that must run only once: *)
(* the topid chart server (topidchart/cmd, topidchart/server.go) and the   *)
(* recorder (recorder/server).  Each looks for a service of its kind, makes*)
(* its HTTP servers, starts them in goroutines, publishes and serves; the  *)
(* chart server asks docit for its readme page in between.                 *)
(*                                                                         *)
(* The process is a host (a shell that calls Start and Stop), so what is   *)
(* left running or listening when Start has returned stays.                *)
(***************************************************************************)
EXTENDS Naturals, FiniteSets

CONSTANTS
  Programs,  \* calls of Start, each in a process of its own
  Setups     \* what may be started: the kind of each program and its -port

Kinds == {"topidchart", "recorder"}
Any == 0     \* port "0": net.Listen allocates one that is free

\* The two kinds are not given one port, and the chart server has no "0" (its
\* links would lead to no page).
ASSUME SetupsAssumption ==
  /\ IsFiniteSet(Programs)
  /\ Setups \subseteq [Programs -> [kind : Kinds, port : Nat]]
  /\ \A s \in Setups : \A p, q \in Programs :
       /\ s[p].kind = "topidchart" => s[p].port # Any
       /\ s[p].port = s[q].port => s[p].kind = s[q].kind

VARIABLES
  setup,    \* which of Setups this is
  pc,       \* what Start does next; "over" when it has returned, "crashed" when
            \* Stop has panicked
  stop,     \* Serve has been told to return
  files,    \* the file server's listener: "none", "bound" (nobody accepts),
            \* "serving", "closed"
  charts,   \* cs.start: "none", "spawned", "binding", "bound", "serving", "closed",
            \* "taken" (the port was, by a program of these) or "failed" (to listen for
            \* any other reason); both are only logged
  busy,     \* the HTTP server a browser has a request at: "none", "charts", "files"
  request,  \* the request to docit: "none", "sent", "html", "error", or
            \* "silence" when its handler has returned without a reply
  met,      \* pairs of programs that were starting or stopping at the same time
  missed    \* pairs of which one looked for the other, which was there, in vain

vars == <<setup, pc, stop, files, charts, busy, request, met, missed>>

Kind(p) == setup[p].kind
Port(p) == setup[p].port
Published(p) == pc[p] = "serve"

Starting == {"files", "docit", "wait", "run", "publish"}
Stopping == {"stopCharts", "drainCharts", "stopFiles", "drainFiles"}

\* Between the look for a running service and Serve, between Serve and the end,
\* or with a goroutine that has not come to serving its port.
Changing(p) == pc[p] \in Starting \cup Stopping \/ charts[p] \in {"spawned", "binding", "bound"}

Holders(n) ==
  {p \in Programs : /\ Port(p) = n
                    /\ CASE Kind(p) = "topidchart" -> charts[p] \in {"bound", "serving"}
                         [] Kind(p) = "recorder" -> files[p] \in {"bound", "serving"}}

\* Shutdown has been called on the server.
ChartsShut(p) == pc[p] \in {"drainCharts", "stopFiles", "drainFiles", "over"}
FilesShut(p) == pc[p] \in {"drainFiles", "over"}

Init ==
  /\ setup \in Setups
  /\ pc = [p \in Programs |-> "idle"]
  /\ stop = [p \in Programs |-> FALSE]
  /\ files = [p \in Programs |-> "none"]
  /\ charts = [p \in Programs |-> "none"]
  /\ busy = [p \in Programs |-> "none"]
  /\ request = [p \in Programs |-> "none"]
  /\ met = {}
  /\ missed = {}

Goto(p, l) == pc' = [pc EXCEPT ![p] = l]

-----------------------------------------------------------------------------
(* Start and NewServer                                                       *)

Start(p) ==
  /\ pc[p] = "idle" /\ Goto(p, "check")
  /\ UNCHANGED <<stop, files, charts, busy, request>>

\* Discover: a service of this kind is found, or three seconds are over, although
\* there may be one.
Look(p) ==
  /\ pc[p] = "check"
  /\ \/ Goto(p, "found") /\ \E q \in Programs : Kind(q) = Kind(p) /\ Published(q)
     \/ Goto(p, "files")
  /\ UNCHANGED <<stop, files, charts, busy, request>>

WarnAndGoOn(p) ==     \* mutant: the warning is printed, and nothing returned
  /\ pc[p] = "found" /\ Goto(p, "files")
  /\ UNCHANGED <<stop, files, charts, busy, request>>

\* conn != nil: already running.
AlreadyRunning(p) ==
  /\ pc[p] = "found" /\ Goto(p, "over")
  /\ UNCHANGED <<stop, files, charts, busy, request>>

\* The chart server's file server is given "0", a recorder's its -port.
FilesPortTaken(p) == Kind(p) = "recorder" /\ Port(p) # Any /\ Holders(Port(p)) # {}

NewFileServerLogs(p) ==  \* mutant: an error is only logged, as ChartsListen does
  /\ pc[p] = "files"
  /\ Goto(p, IF Kind(p) = "topidchart" THEN "docit" ELSE "run")
  /\ \/ UNCHANGED files
     \/ ~ FilesPortTaken(p) /\ files' = [files EXCEPT ![p] = "bound"]
  /\ UNCHANGED <<stop, charts, busy, request>>

\* net.Listen for the file server fails if the port is taken, and may fail for any
\* other reason: NewServer returns nil, and Start with an error.
NewFileServer(p) ==
  /\ pc[p] = "files"
  /\ \/ Goto(p, "over") /\ UNCHANGED files
     \/ /\ ~ FilesPortTaken(p) /\ files' = [files EXCEPT ![p] = "bound"]
        /\ Goto(p, IF Kind(p) = "topidchart" THEN "docit" ELSE "run")
  /\ UNCHANGED <<stop, charts, busy, request>>

\* newChartServer: a docit service, if one is found, is sent the readme.
AskDocit(p) ==
  /\ pc[p] = "docit"
  /\ \/ Goto(p, "wait") /\ request' = [request EXCEPT ![p] = "sent"]
     \/ Goto(p, "run") /\ UNCHANGED request
  /\ UNCHANGED <<stop, files, charts, busy>>

DocitAskAgain(p) ==   \* mutant: an error is answered by another try
  /\ pc[p] = "wait" /\ request[p] \in {"html", "error"}
  /\ Goto(p, IF request[p] = "html" THEN "run" ELSE "docit")
  /\ request' = [request EXCEPT ![p] = "none"]
  /\ UNCHANGED <<stop, files, charts, busy>>

\* Whatever comes back, the connection is closed and the chart server made.
DocitAnswered(p) ==
  /\ pc[p] = "wait" /\ request[p] \in {"html", "error"}
  /\ Goto(p, "run")
  /\ request' = [request EXCEPT ![p] = "none"]
  /\ UNCHANGED <<stop, files, charts, busy>>

-----------------------------------------------------------------------------
(* docit                                                                     *)

\* Handle: the page, the error of http.NewRequest, Do or ReadAll, or, for any
\* status other than 200, the err that is nil there: no reply.  Do and ReadAll have no
\* time limit, and may never return.
DocitHandle(p) ==
  /\ request[p] = "sent"
  /\ \E r \in {"html", "error", "silence"} : request' = [request EXCEPT ![p] = r]
  /\ UNCHANGED <<pc, stop, files, charts, busy>>

\* External: docit goes down; the connection that breaks ends the SendRecv.
DocitGone(p) ==
  /\ request[p] \in {"sent", "silence"}
  /\ request' = [request EXCEPT ![p] = "error"]
  /\ UNCHANGED <<pc, stop, files, charts, busy>>

-----------------------------------------------------------------------------
(* Run                                                                       *)

\* The goroutines of the HTTP servers are started.
Run(p) ==
  /\ pc[p] = "run" /\ Goto(p, "publish")
  /\ charts' = [charts EXCEPT ![p] = IF Kind(p) = "topidchart" THEN "spawned" ELSE @]
  /\ UNCHANGED <<stop, files, busy, request>>

Deferred(p) == IF Kind(p) = "topidchart" THEN "stopCharts" ELSE "stopFiles"

PublishReturns(p) ==  \* mutant: the defer comes after the check of Publish
  /\ pc[p] = "publish"
  /\ \/ Goto(p, "serve")
     \/ Goto(p, "over")
  /\ UNCHANGED <<stop, files, charts, busy, request>>

\* ds.Publish; its error is returned through the deferred function.
Publish(p) ==
  /\ pc[p] = "publish"
  /\ \/ Goto(p, "serve")
     \/ Goto(p, Deferred(p))
  /\ UNCHANGED <<stop, files, charts, busy, request>>

\* ds.Serve returns: it was told to, or with an error.
ServeReturns(p) ==
  /\ pc[p] = "serve" /\ Goto(p, Deferred(p))
  /\ UNCHANGED <<stop, files, charts, busy, request>>

StopChartsForgets(p) ==  \* mutant: the deferred function only stops the file server
  /\ pc[p] = "stopCharts" /\ Goto(p, "stopFiles")
  /\ UNCHANGED <<stop, files, charts, busy, request>>

\* cs.stop: Shutdown closes the listener it knows of, ...
StopCharts(p) ==
  /\ pc[p] = "stopCharts" /\ Goto(p, "drainCharts")
  /\ charts' = [charts EXCEPT ![p] = IF @ = "serving" THEN "closed" ELSE @]
  /\ UNCHANGED <<stop, files, busy, request>>

\* ... then waits, without a time limit, for the requests under way.
DrainCharts(p) ==
  /\ pc[p] = "drainCharts" /\ busy[p] # "charts" /\ Goto(p, "stopFiles")
  /\ UNCHANGED <<stop, files, charts, busy, request>>

\* fs.Stop, alike.
StopFiles(p) ==
  /\ pc[p] = "stopFiles" /\ Goto(p, "drainFiles")
  /\ files' = [files EXCEPT ![p] = IF @ = "serving" THEN "closed" ELSE @]
  /\ UNCHANGED <<stop, charts, busy, request>>

DrainFiles(p) ==
  /\ pc[p] = "drainFiles" /\ busy[p] # "files" /\ Goto(p, "over")
  /\ UNCHANGED <<stop, files, charts, busy, request>>

-----------------------------------------------------------------------------
(* The goroutines of the HTTP servers                                        *)

\* fs.Start: a Serve that comes after Shutdown closes the listener it is given.
FilesServe(p) ==
  /\ files[p] = "bound" /\ pc[p] \in {"publish", "serve", "over"} \cup Stopping
  /\ files' = [files EXCEPT ![p] = IF FilesShut(p) THEN "closed" ELSE "serving"]
  /\ UNCHANGED <<pc, stop, charts, busy, request>>

\* cs.start, ListenAndServe: does nothing after Shutdown, ...
ChartsStart(p) ==
  /\ charts[p] = "spawned"
  /\ charts' = [charts EXCEPT ![p] = IF ChartsShut(p) THEN "closed" ELSE "binding"]
  /\ UNCHANGED <<pc, stop, files, busy, request>>

\* ... else binds the port, if it can, ...
ChartsListen(p) ==
  /\ charts[p] = "binding"
  /\ \E c \in IF Holders(Port(p)) = {} THEN {"bound", "failed"} ELSE {"taken"} :
       charts' = [charts EXCEPT ![p] = c]
  /\ UNCHANGED <<pc, stop, files, busy, request>>

\* ... and accepts, unless Shutdown has come in between.
ChartsServe(p) ==
  /\ charts[p] = "bound"
  /\ charts' = [charts EXCEPT ![p] = IF ChartsShut(p) THEN "closed" ELSE "serving"]
  /\ UNCHANGED <<pc, stop, files, busy, request>>

\* External: a browser sends a request, and is done with it.  Bound: one request
\* at a program.
Browse(p) ==
  /\ \/ busy[p] = "none" /\ charts[p] = "serving" /\ busy' = [busy EXCEPT ![p] = "charts"]
     \/ busy[p] = "none" /\ files[p] = "serving" /\ busy' = [busy EXCEPT ![p] = "files"]
     \/ busy[p] # "none" /\ busy' = [busy EXCEPT ![p] = "none"]
  /\ UNCHANGED <<pc, stop, files, charts, request>>

-----------------------------------------------------------------------------
(* Stop                                                                      *)

\* Before NewServer has returned, server is nil: the process panics, and its
\* listeners go with it.  What Close does to a server that does not serve yet
\* is not known.
Stop(p) ==
  /\ ~ stop[p]
  /\ \/ /\ pc[p] \in {"check", "found", "files", "docit", "wait"} /\ Goto(p, "crashed")
        /\ files' = [files EXCEPT ![p] = IF @ = "none" THEN @ ELSE "closed"]
        /\ UNCHANGED stop
     \/ /\ pc[p] \in {"run", "publish", "serve"}
        /\ \/ stop' = [stop EXCEPT ![p] = TRUE]
           \/ pc[p] # "serve" /\ UNCHANGED stop
        /\ UNCHANGED <<pc, files>>
  /\ UNCHANGED <<charts, busy, request>>

Main(p) ==
  \/ Look(p) \/ AlreadyRunning(p) \/ NewFileServer(p)
  \/ AskDocit(p) \/ DocitAnswered(p) \/ Run(p) \/ Publish(p)
  \/ StopCharts(p) \/ DrainCharts(p) \/ StopFiles(p) \/ DrainFiles(p)

Servers(p) == FilesServe(p) \/ ChartsStart(p) \/ ChartsListen(p) \/ ChartsServe(p)

Step ==
  \E p \in Programs :
    \/ Start(p) \/ Main(p) \/ ServeReturns(p) \/ Servers(p)
    \/ DocitHandle(p) \/ DocitGone(p) \/ Browse(p) \/ Stop(p)

\* History: who was starting or stopping with whom, and whose look for a running
\* service ended without the one that was published.
History ==
  /\ met' = met \cup {{p, q} : p, q \in {r \in Programs : Changing(r)'}}
  /\ missed' = missed \cup
       {{p, q} : p \in {r \in Programs : pc[r] = "check" /\ pc'[r] = "files"},
                q \in {r \in Programs : Published(r)}}

Next == Step /\ History /\ UNCHANGED setup

Spec == Init /\ [][Next]_vars

\* The scheduler runs the goroutines of a program, and Serve returns once told to.
\* docit need not come to an end with its request, nobody has to call Start or
\* Stop, and no browser has to finish.
FairSpec ==
  /\ Spec
  /\ \A p \in Programs :
       /\ WF_vars(Main(p) /\ History /\ UNCHANGED setup)
       /\ WF_vars(Servers(p) /\ History /\ UNCHANGED setup)
       /\ WF_vars(stop[p] /\ ServeReturns(p) /\ History /\ UNCHANGED setup)

-----------------------------------------------------------------------------
(* Properties                                                                *)

States == {"idle", "check", "found", "over", "crashed", "serve"} \cup Starting \cup Stopping

TypeOK ==
  /\ setup \in Setups
  /\ pc \in [Programs -> States]
  /\ stop \in [Programs -> BOOLEAN]
  /\ files \in [Programs -> {"none", "bound", "serving", "closed"}]
  /\ charts \in [Programs -> {"none", "spawned", "binding", "bound", "serving", "closed", "taken", "failed"}]
  /\ busy \in [Programs -> {"none", "charts", "files"}]
  /\ request \in [Programs -> {"none", "sent", "html", "error", "silence"}]
  /\ met \subseteq SUBSET Programs /\ missed \subseteq SUBSET Programs

Live(p) == Published(p) \/ Changing(p)

\* Files of a service that can be found are served: its file server has its port
\* from before it is published (the replies to its clients name that port) until
\* Serve has returned.
FilesReachable ==
  \A p \in Programs :
    /\ pc[p] \in {"docit", "wait", "run", "publish", "serve"} => files[p] \in {"bound", "serving"}
    /\ pc[p] \in {"stopCharts", "drainCharts", "stopFiles"} => files[p] \in {"bound", "serving"}

ChartsWhere ==
  \A p \in Programs :
    /\ charts[p] # "none" =>
         Kind(p) = "topidchart" /\ pc[p] \in {"publish", "serve", "over"} \cup Stopping
    /\ charts[p] = "serving" => pc[p] \in {"publish", "serve", "stopCharts"}

\* They were starting or stopping at the same time, or the look of one has missed
\* the other.
Raced(p, q) == {p, q} \in met \cup missed

\* What is proved to be inductive: two programs of a kind are at work at once only if
\* they raced, and a chart server without its port has raced with the one that had it.
IInv ==
  /\ TypeOK /\ FilesReachable /\ ChartsWhere
  /\ \A p, q \in Programs :
       p # q /\ Kind(p) = Kind(q) /\ Live(p) /\ Live(q) => Raced(p, q)
  /\ \A p \in Programs :
       charts[p] = "taken" => \E q \in Programs \ {p} : Port(q) = Port(p) /\ Raced(p, q)

\* The look for a running service before anything is started keeps a second server
\* of a kind away, except from one that was starting or stopping at that moment, or
\* one that it did not find within its three seconds (topidchart/cmd/topidchart.go:
\* 41-47, recorder/server/recorder.go:37-43).
OneServerUnlessRaced ==
  \A p, q \in Programs :
    p # q /\ Kind(p) = Kind(q) /\ Published(p) /\ Published(q) => Raced(p, q)

\* A chart server runs on without its charts because of another one on its port only
\* if that one was starting or stopping when it was, or was missed by the look of one
\* of the two: a server that was found, or that has ended, never costs a later one its
\* port.  Holders of the port that are no such programs are "failed" and not meant.
ChartsUnlessRaced ==
  \A p \in Programs :
    charts[p] = "taken" => \E q \in Programs \ {p} : Port(q) = Port(p) /\ Raced(p, q)

Released(p) ==
  /\ pc[p] \in {"over", "crashed"}
  /\ files[p] \in {"none", "closed"} /\ charts[p] \in {"none", "closed", "taken", "failed"}

Draining(p) ==
  \/ pc[p] = "drainCharts" /\ busy[p] = "charts"
  \/ pc[p] = "drainFiles" /\ busy[p] = "files"

\* A server that is stopped, or fails, ends and gives back every port it had, even
\* one its goroutine binds late; only a browser that never finishes holds it up.
StopReleases ==
  \A p \in Programs :
    \/ [](stop[p] \/ pc[p] \in {"over"} \cup Stopping => <>Released(p))
    \/ <>[]Draining(p)

\* A program that is started comes to serve or ends, except when docit keeps the
\* readme and never answers: its request to GitHub has no time limit, and some of its
\* errors are not sent back (docit/messages.go:69-84).  An error that is sent back, or
\* a docit that breaks off, does not hold up the start.
StartEnds ==
  \A p \in Programs :
    \/ [](pc[p] = "check" => <>(pc[p] \notin {"check", "found"} \cup Starting))
    \/ <>[](pc[p] = "wait" /\ request[p] \in {"sent", "silence"})
=============================================================================
