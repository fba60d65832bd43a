------------------------------ MODULE Recorder ------------------------------
(***************************************************************************)
(* The recorder: its client, which runs tail -F on a file and copies what  *)
(* tail writes into a stream (recorder/client/recorder.go), and the        *)
(* service, which appends what comes off the stream to a log file          *)
(* (recorder/handlers.go).                                                 *)
(*                                                                         *)
(* What tail writes is cut into pieces 1, 2, ...  os/exec copies them from *)
(* a pipe to cmd.Stdout in a goroutine of its own, the copier; Run waits   *)
(* for tail and for the copier.  A file nobody can reach any more is       *)
(* closed by the garbage collector.                                        *)
(***************************************************************************)
EXTENDS Naturals, Sequences, FiniteSets

CONSTANTS
  Clients,    \* runs of the client, each with a session of its own
  MaxPieces,  \* bound: pieces the tail of each writes
  Room,       \* pieces the pipe, and a stream nobody receives from, holds
  MaxOpen,    \* limit of open log files
  Torn        \* what a write that failed half-way leaves

ASSUME RecorderAssumption ==
  MaxPieces \in [Clients -> Nat] /\ Room \in Nat \ {0} /\ MaxOpen \in Nat /\ Torn \notin Nat

VARIABLES
  pc,       \* what Start does next, or how it ended: "failed" and "nil" are the
            \* results it returned, "crashed" is a panic
  stopped,  \* Stop was called
  tail,     \* the command: "none", "running", "exited"
  copier,   \* the goroutine behind cmd.Stdout: "none", "copying", "ended"
  wrote,    \* pieces tail has written
  pipe,     \* those the copier has not taken
  link,     \* the connection: "none", "up", "closed" by the client, "broken"
  stream,   \* pieces on their way to the service
  handler,  \* what Handle does next, or what it has returned: "url", "error"
  copy,     \* the service's io.Copy: "none", "copying", "ended", "failed"
  open,     \* its log file is open
  log,      \* what is in it
  full      \* the disk is full

vars == <<pc, stopped, tail, copier, wrote, pipe, link, stream, handler, copy, open, log, full>>

Init ==
  /\ pc = [c \in Clients |-> "discover"]
  /\ stopped = [c \in Clients |-> FALSE]
  /\ tail = [c \in Clients |-> "none"]
  /\ copier = [c \in Clients |-> "none"]
  /\ wrote = [c \in Clients |-> 0]
  /\ pipe = [c \in Clients |-> <<>>]
  /\ link = [c \in Clients |-> "none"]
  /\ stream = [c \in Clients |-> <<>>]
  /\ handler = [c \in Clients |-> "idle"]
  /\ copy = [c \in Clients |-> "none"]
  /\ open = [c \in Clients |-> FALSE]
  /\ log = [c \in Clients |-> <<>>]
  /\ full = FALSE

server == <<handler, copy, open, log, full>>
Over(c) == pc[c] \in {"failed", "nil", "crashed"}

-----------------------------------------------------------------------------
(* External: tail, the copier of os/exec, the connection, the disk, the      *)
(* garbage collector.                                                        *)

\* Tail writes a piece into the pipe, or is ended by SIGPIPE when the copier has
\* closed the other end.
TailWrites(c) ==
  /\ tail[c] = "running" /\ wrote[c] < MaxPieces[c]
  /\ IF copier[c] = "ended"
     THEN tail' = [tail EXCEPT ![c] = "exited"] /\ UNCHANGED <<wrote, pipe>>
     ELSE /\ Len(pipe[c]) < Room
          /\ wrote' = [wrote EXCEPT ![c] = @ + 1]
          /\ pipe' = [pipe EXCEPT ![c] = Append(@, wrote[c] + 1)]
          /\ UNCHANGED tail
  /\ UNCHANGED <<pc, stopped, copier, link, stream, server>>

\* The copier sends a piece on, gives up at an error of the stream, or comes to
\* the end of what a tail that has exited has left in the pipe.
Copies(c) ==
  /\ copier[c] = "copying"
  /\ \/ /\ pipe[c] # <<>> /\ link[c] = "up" /\ Len(stream[c]) < Room
        /\ stream' = [stream EXCEPT ![c] = Append(@, Head(pipe[c]))]
        /\ pipe' = [pipe EXCEPT ![c] = Tail(@)]
        /\ UNCHANGED copier
     \/ /\ \/ pipe[c] # <<>> /\ link[c] # "up"
           \/ pipe[c] = <<>> /\ tail[c] = "exited"
        /\ copier' = [copier EXCEPT ![c] = "ended"]
        /\ UNCHANGED <<pipe, stream>>
  /\ UNCHANGED <<pc, stopped, tail, wrote, link, server>>

\* The connection breaks and some of what was on its way does not arrive.
Break(c) ==
  /\ link[c] = "up"
  /\ link' = [link EXCEPT ![c] = "broken"]
  /\ \E n \in 0..Len(stream[c]) : stream' = [stream EXCEPT ![c] = SubSeq(@, 1, n)]
  /\ UNCHANGED <<pc, stopped, tail, copier, wrote, pipe, server>>

Disk ==
  /\ full' = ~ full
  /\ UNCHANGED <<pc, stopped, tail, copier, wrote, pipe, link, stream, handler, copy, open, log>>

Collect(c) ==
  /\ open[c] /\ copy[c] \in {"ended", "failed"}
  /\ open' = [open EXCEPT ![c] = FALSE]
  /\ UNCHANGED <<pc, stopped, tail, copier, wrote, pipe, link, stream, handler, copy, log, full>>

-----------------------------------------------------------------------------
(* The service: SessionRequest.Handle and the goroutine it starts.           *)

client == <<pc, stopped, tail, copier, wrote, pipe, link>>

\* os.MkdirAll and os.OpenFile; the goroutine is started before the reply is
\* returned.
OpenFile(c) ==
  /\ handler[c] = "open" /\ Cardinality({d \in Clients : open[d]}) < MaxOpen
  /\ handler' = [handler EXCEPT ![c] = "reply"]
  /\ open' = [open EXCEPT ![c] = TRUE]
  /\ copy' = [copy EXCEPT ![c] = "copying"]
  /\ UNCHANGED <<client, stream, log, full>>

\* The error of either is returned, as the reply.
Fails(c) ==
  /\ handler[c] = "open"
  /\ handler' = [handler EXCEPT ![c] = "error"]
  /\ UNCHANGED <<client, stream, copy, open, log, full>>

Reply(c) ==
  /\ handler[c] = "reply"
  /\ handler' = [handler EXCEPT ![c] = "url"]
  /\ UNCHANGED <<client, stream, copy, open, log, full>>

Handle(c) == OpenFile(c) \/ Fails(c) \/ Reply(c)

\* Mutant: an error of the write is ignored.
CopyGoesOn(c) ==
  /\ copy[c] = "copying"
  /\ IF stream[c] = <<>>
     THEN /\ link[c] \in {"closed", "broken"}
          /\ copy' = [copy EXCEPT ![c] = "ended"]
          /\ UNCHANGED <<stream, log>>
     ELSE /\ stream' = [stream EXCEPT ![c] = Tail(@)]
          /\ IF full THEN UNCHANGED log
             ELSE log' = [log EXCEPT ![c] = Append(@, Head(stream[c]))]
          /\ UNCHANGED copy
  /\ UNCHANGED <<client, handler, open, full>>

\* Mutant: the goroutine waits for more on a stream that has ended.
CopyNeverEnds(c) ==
  /\ copy[c] = "copying" /\ stream[c] # <<>>
  /\ stream' = [stream EXCEPT ![c] = Tail(@)]
  /\ IF full
     THEN copy' = [copy EXCEPT ![c] = "failed"] /\ UNCHANGED log
     ELSE log' = [log EXCEPT ![c] = Append(@, Head(stream[c]))] /\ UNCHANGED copy
  /\ UNCHANGED <<client, handler, open, full>>

\* io.Copy takes a piece and appends it, ends with the stream, or fails with the
\* disk and ends too; nobody tells the client.  The file is never closed.
Copy(c) ==
  /\ copy[c] = "copying"
  /\ IF stream[c] = <<>>
     THEN /\ link[c] \in {"closed", "broken"}
          /\ copy' = [copy EXCEPT ![c] = "ended"]
          /\ UNCHANGED <<stream, log>>
     ELSE /\ stream' = [stream EXCEPT ![c] = Tail(@)]
          /\ IF full
             THEN /\ copy' = [copy EXCEPT ![c] = "failed"]
                  /\ UNCHANGED log \/ log' = [log EXCEPT ![c] = Append(@, Torn)]
             ELSE log' = [log EXCEPT ![c] = Append(@, Head(stream[c]))] /\ UNCHANGED copy
  /\ UNCHANGED <<client, handler, open, full>>

-----------------------------------------------------------------------------
(* The client: Start and Stop.                                               *)

\* Start returns, and the deferred call closes the connection.
Return(c, result) ==
  /\ pc' = [pc EXCEPT ![c] = result]
  /\ link' = [link EXCEPT ![c] = IF @ = "up" THEN "closed" ELSE @]

\* The service is found and sent the request, or it is not found.
Discover(c) ==
  /\ pc[c] = "discover"
  /\ \/ /\ pc' = [pc EXCEPT ![c] = "answer"]
        /\ link' = [link EXCEPT ![c] = "up"]
        /\ handler' = [handler EXCEPT ![c] = "open"]
     \/ Return(c, "failed") /\ UNCHANGED handler
  /\ UNCHANGED <<stopped, tail, copier, wrote, pipe, stream, copy, open, log, full>>

\* SendRecv returns the address of the log, or an error.
Answer(c) ==
  /\ pc[c] = "answer"
  /\ \/ /\ handler[c] = "url" /\ link[c] = "up"
        /\ pc' = [pc EXCEPT ![c] = "run"]
        /\ UNCHANGED link
     \/ (handler[c] = "error" \/ link[c] # "up") /\ Return(c, "failed")
  /\ UNCHANGED <<stopped, tail, copier, wrote, pipe, stream, server>>

Started(c) ==
  /\ tail' = [tail EXCEPT ![c] = "running"]
  /\ copier' = [copier EXCEPT ![c] = "copying"]

\* The first half of cmd.Run: tail is started, or cannot be.
Run(c) ==
  /\ pc[c] = "run"
  /\ \/ Started(c) /\ pc' = [pc EXCEPT ![c] = "wait"]
     \/ pc' = [pc EXCEPT ![c] = "start"] /\ UNCHANGED <<tail, copier>>
  /\ UNCHANGED <<stopped, wrote, pipe, link, stream, server>>

\* Mutant: Run does not wait for the copier (StdoutPipe and Process.Wait do not).
WaitForTail(c) ==
  /\ pc[c] = "wait" /\ tail[c] = "exited"
  /\ pc' = [pc EXCEPT ![c] = "start"]
  /\ UNCHANGED <<stopped, tail, copier, wrote, pipe, link, stream, server>>

\* The second half: tail has exited and the copier has ended.
Wait(c) ==
  /\ pc[c] = "wait" /\ tail[c] = "exited" /\ copier[c] = "ended"
  /\ pc' = [pc EXCEPT ![c] = "start"]
  /\ UNCHANGED <<stopped, tail, copier, wrote, pipe, link, stream, server>>

\* cmd.Start after cmd.Run: an error where Run had started the command, another
\* try where it had not, and then nobody waits for it.
Start(c) ==
  /\ pc[c] = "start"
  /\ \/ Return(c, "failed") /\ UNCHANGED <<tail, copier>>
     \/ tail[c] = "none" /\ Started(c) /\ Return(c, "nil")
  /\ UNCHANGED <<stopped, wrote, pipe, stream, server>>

\* Mutant: Stop does nothing while there is no process.
StopIfRunning(c) ==
  /\ ~ stopped[c] /\ ~ Over(c)
  /\ stopped' = [stopped EXCEPT ![c] = TRUE]
  /\ tail' = [tail EXCEPT ![c] = IF @ = "none" THEN @ ELSE "exited"]
  /\ UNCHANGED <<pc, copier, wrote, pipe, link, stream, server>>

\* Stop kills the process.  Before there is one it goes through a nil pointer and
\* the program ends; when it has exited, Kill only reports that.
Stop(c) ==
  /\ ~ stopped[c]
  /\ stopped' = [stopped EXCEPT ![c] = TRUE]
  /\ IF tail[c] = "none"
     THEN ~ Over(c) /\ Return(c, "crashed") /\ UNCHANGED tail
     ELSE tail' = [tail EXCEPT ![c] = "exited"] /\ UNCHANGED <<pc, link>>
  /\ UNCHANGED <<copier, wrote, pipe, stream, server>>

Client(c) == Discover(c) \/ Answer(c) \/ Run(c) \/ Wait(c) \/ Start(c)

Next ==
  \/ Disk
  \/ \E c \in Clients :
       \/ Client(c) \/ Stop(c) \/ Handle(c) \/ Copy(c)
       \/ TailWrites(c) \/ Copies(c) \/ Break(c) \/ Collect(c)

Spec == Init /\ [][Next]_vars

\* Both programs, the copier and the garbage collector run.  The file need not
\* grow, nobody need call Stop, and connection and disk owe nothing.
FairSpec ==
  Spec /\ \A c \in Clients :
    WF_vars(Client(c)) /\ WF_vars(Handle(c)) /\ WF_vars(Copy(c)) /\ WF_vars(Copies(c)) /\ WF_vars(Collect(c))

-----------------------------------------------------------------------------
(* Properties. *)

TypeOK ==
  /\ pc \in [Clients -> {"discover", "answer", "run", "wait", "start", "failed", "nil", "crashed"}]
  /\ stopped \in [Clients -> BOOLEAN]
  /\ tail \in [Clients -> {"none", "running", "exited"}]
  /\ copier \in [Clients -> {"none", "copying", "ended"}]
  /\ wrote \in [Clients -> Nat]
  /\ pipe \in [Clients -> Seq(Nat)]
  /\ link \in [Clients -> {"none", "up", "closed", "broken"}]
  /\ stream \in [Clients -> Seq(Nat)]
  /\ handler \in [Clients -> {"idle", "open", "reply", "url", "error"}]
  /\ copy \in [Clients -> {"none", "copying", "ended", "failed"}]
  /\ open \in [Clients -> BOOLEAN]
  /\ log \in [Clients -> Seq(Nat \union {Torn})]
  /\ full \in BOOLEAN

\* The log is what tail wrote, from its beginning, without a gap and in order; a
\* full disk, a broken connection or a killed tail can only cut it short, and at
\* most its last piece is torn (recorder/handlers.go:28-31).
LogIsPrefix ==
  \A c \in Clients : \A i \in 1..Len(log[c]) :
    \/ log[c][i] = i /\ i <= wrote[c]
    \/ log[c][i] = Torn /\ i = Len(log[c]) /\ copy[c] = "failed"

\* A client that was stopped while tail ran has recorded all that tail wrote,
\* the rest in the pipe and on the stream included, unless the connection broke
\* or the disk filled up (recorder/client/recorder.go:55, 40).
StoppedLogIsWhole ==
  \A c \in Clients :
    pc[c] = "failed" /\ tail[c] = "exited" /\ link[c] = "closed" /\ copy[c] = "ended"
    => Len(log[c]) = wrote[c]

\* Stop ends the client, whatever it is doing, by a crash or by tail's death;
\* unless the service has given up on the log and reads no more
\* (recorder/client/recorder.go:64-69).
StopEndsClient ==
  \A c \in Clients : stopped[c] ~> Over(c) \/ copy[c] = "failed"

\* The log file of a session that is over is closed, though no line of the
\* service closes it, and so the limit is not used up (recorder/handlers.go:23).
LogsGivenBack == \A c \in Clients : Over(c) ~> [](~ open[c])

-----------------------------------------------------------------------------
(* The inductive invariant behind LogIsPrefix and StoppedLogIsWhole.         *)

\* What is running and open at each stage of client, handler and copy.  Start
\* leaves no tail running, except where Run could not start it and the Start
\* behind it could (recorder/client/recorder.go:55-60).
StageOf(c) ==
  /\ pc[c] = "discover" => link[c] = "none" /\ handler[c] = "idle"
  /\ pc[c] \in {"answer", "run", "wait", "start"} => link[c] \in {"up", "broken"}
  /\ Over(c) => link[c] # "up"
  /\ pc[c] \in {"discover", "answer", "run", "crashed"} => tail[c] = "none"
  /\ pc[c] = "wait" => tail[c] # "none"
  /\ pc[c] \in {"start", "failed"} =>
       tail[c] # "running" /\ (tail[c] = "exited" => copier[c] = "ended")
  /\ tail[c] = "none" <=> copier[c] = "none"
  /\ tail[c] = "none" => wrote[c] = 0 /\ pipe[c] = <<>>
  /\ copier[c] = "ended" /\ link[c] = "up" => tail[c] = "exited"
  /\ handler[c] \in {"reply", "url"} <=> copy[c] # "none"
  /\ copy[c] = "ended" => link[c] \notin {"none", "up"} /\ stream[c] = <<>>

Stages == \A c \in Clients : StageOf(c)

\* The pieces of a queue are numbered on from n.
From(q, n) == \A i \in 1..Len(q) : q[i] = n + i

\* Pieces are in the order they were written: on the stream behind those in the
\* log, in the pipe behind those on the stream as long as these can get there.
QueueOf(c) ==
  LET received == Len(log[c])
      sent == received + Len(stream[c])
  IN  /\ From(log[c], 0) /\ From(stream[c], received) /\ sent <= wrote[c]
      /\ link[c] = "up" =>
           /\ From(pipe[c], sent) /\ wrote[c] = sent + Len(pipe[c])
           /\ copier[c] = "ended" => pipe[c] = <<>>
      /\ link[c] = "closed" /\ pc[c] = "failed" => wrote[c] = sent

Queued == \A c \in Clients : copy[c] # "failed" => QueueOf(c)

IInv == TypeOK /\ Stages /\ Queued /\ LogIsPrefix
=============================================================================
