# grepo: specifications, model checking and proofs

TLA+ models of the services in this repository, written from the Go source. TLC checks them on small
instances; TLAPS proves the theorems for every value of the constants. `PROJECT.json` lists the runs, which lines
of the source every definition stands for, the mutants that show each property can fail, the hazards and the
theorems. Line numbers below are of `src/`.

    tlasany M.tla                            parse a module
    tlc -workers 2 -config X.cfg M           one run (module and cfg as in PROJECT.json)
    tlapm EchoServerProofs.tla               proofs of one component

## 1. The system

grepo is a set of small programs on top of the `adaptiveservice` library (external): a *service* registers message
types with a `Handle(stream)` method; a *client* discovers it, opens *streams* on a connection and sends or receives
messages. The library runs a handler on a worker for each incoming message and sends what it returns, unless that is
nil, as the reply on the same stream. Everything else, goroutines, maps, files and HTTP, is the programs' own.

### Inventory

**Echo service** (`echo/server.go`, `echo/handlers.go`, `echo/messages.go`).
State: `statMgr.clients` (set of addresses), `statMgr.subscribers` (set of channels with one place), both under one
RWMutex; an atomic `counter`; `sessionNum` in a stream's context. Operations: `onConnect` and `onDisconnect` (library
callbacks), a broadcast goroutine for each connection, `SubWhoElseEvent` (adds a channel and starts a delivery
goroutine), `WhoElse`, `Request` (echoes and counts), `onNewStream`, `Stop`.
Hard: the broadcast ranges over the map and drops the lock around every blocking send, while subscriptions come, die
and delete themselves. Correct when: nobody hears of a connection twice; everyone who is subscribed and stays hears
of each; nobody is kept waiting by somebody else who has left; `WhoElse` is the list of those who are connected.

**Echo client** (`echo/client`, `echo/cmd`). `doEcho`: nine requests, then ten workers with a stream each, a `WaitGroup` and
a panic at a wrong number; `doWhoelse`: an event goroutine and a polling loop; a `running` flag that `Stop` clears and all
read without synchronisation. Correct when: replies match requests; `Stop`, or the end of the loops, leaves no goroutine
and no connection behind, and the connection is closed under no worker.

**Topid chart server, recording** (`topidchart/handlers.go`, `messages.go`). A `SessionRequest` makes a
directory and an info file, opens a process file and a snapshot file, starts a goroutine that takes records off
the stream and appends them, and answers with the page's address. Hard: every step can fail, the files stay open from
one goroutine to another, encoding errors are ignored, and pages read the files at any time. Correct when: the
records are in the file in order, each snapshot has its record, and files are closed however a session ends.

**Topid chart server, HTTP** (`topidchart/chartserver.go`). `lineHandler` and `pieHandler` share `cs.filter`, `cs.ip` and
the chart library's page template and lock none of them; net/http runs each request in a goroutine. `infoHandler`,
`snapshotHandler` and `readmeHandler` read a file or a string. Correct when: a page is made with the
thresholds of its own URL (it is not), or at least never with left-overs of an earlier request.

**Topid chart server, analysis** (`analysis`, `maxAndAvg`, `lineCPU`, `lineMEM`, `pieCPU`, `pieMEM`). Turns a record file into
a time axis and a series per process; pads, computes maximum and average, drops what the filter hides. Hard: all
alignment is by the length of slices, records may be empty or not decode, and the file grows while it is read.
Correct when: every line is as long as the axis and shows each value at its time; what is hidden is what the filter
says.

**Topid chart server, start and stop** (`topidchart/server.go`, `NewServer`, `cmd`). Already-running check,
a request to docit for the readme page, two HTTP servers in goroutines, a publish, deferred stops. Hard: the goroutines
bind and serve their ports behind the back of `Run`; shutdown waits without a limit. Correct when: one server
of a kind runs at a time, a stopped one gives back what it had, a start does not hang. `ParseFile` dumps a record file.

**Recorder** (`recorder/`, `recorder/client`). A session copies a stream to a log file that no line closes; the client runs
`tail -F` with its output copied into the stream, by `Run` and then `Start` of the same command; `Stop` kills it. Its server
starts and stops as the chart server does. Correct when: the log holds what was sent; `Stop` ends the command.

**File server** (`fileserver/`), **docit** (`docit/`), **template** (`template/`). Directory listings over HTTP; one request
to api.github.com and its answer; a skeleton.

**asbench** (`asbench/`): download and upload handlers without state, a client with parallel workers.
**asbench/raw**: the same benchmark without the library: `MessageIO` (a connection, a growing buffer, a stream mode
with a length before every message and a packet mode without), a client loop, and a server of two listeners, accept
loops, handlers and a main loop joined by an error channel with one place. Correct when: messages arrive whole
and in order, nobody waits for ever, the end of a client does not end the server, an error does.

**Generated message copies**: `messages.go` files that `go generate` copies next to clients.

**External**: `adaptiveservice` (connections, streams, callbacks), `go-echarts` (rendering, the
global template), `gorilla/mux` and `net/http` (a goroutine per request), `gob` and `gotiny` (encoding).

### Interactions

    clients ==streams==> echo: handlers -> statMgr maps <- onConnect/onDisconnect (library callbacks)
                               broadcast goroutines ==channels==> delivery goroutines ==streams==> clients
    topid   ==stream===> SessionRequest handler -> files <- recorder goroutine (appends)
    browser ==HTTP=====> line/pie handlers -> analysis (reads the same files) -> charts
                               shared without a lock: cs.filter, cs.ip, templates.PageTpl
    topidchart, recorder: Start -> (running already?) -> NewServer [-> docit] -> Run -> file server, chart server
                                                  goroutines ; deferred stops ; browsers may hold a request open
    recorder client: tail ==pipe==> copier ==stream==> io.Copy -> log file
    raw client ==socket=> handleConn (MessageIO) ==errChan==> main loop of Run <==errChan== accept loops

## 2. Modules

| Module | Models | Composed with |
|---|---|---|
| `WhoElseFeed` | what `SubWhoElseEvent` promises, abstractly | refined by `EchoServer` |
| `EchoServer` | statMgr, callbacks, broadcast and delivery goroutines, `WhoElse` | `INSTANCE WhoElseFeed WITH` a refinement mapping |
| `ChartServer` | line and pie handlers over what they share | `Compare` stands for the filter's use in `ChartAnalysis` |
| `ChartAnalysis` | `analysis` and the four charts, on a growing file | its file is `data[s]["process"]` of `TopidSession` |
| `TopidSession` | session handler, recorder goroutine, files | |
| `RawConn` | client and server loop over `MessageIO` on one connection | `handler = "serve"` in `RawServer` |
| `RawServer` | listeners, accept loops, handlers, `errChan`, `Run` | |
| `Recorder` | recorder sessions and log files, the client with `tail` and its copier | |
| `Lifecycle` | start, run and stop of chart server and recorder, file server, chart HTTP server, docit's answer | its `serve` is where `ChartServer`, `TopidSession` and `Recorder` begin |
| `EchoClient` | the echo client's threads, `Request.Handle`, stream numbers, counter | which events come to a subscriber is `EchoServer`'s |
| `*MC` | the constants of the runs | |
| `*Proofs` | theorems of the component; `RawProofs` has those of `RawConn` and of `RawServer` | |

### EchoServer

*State.* `conn[c]` is the phase of a connection: `idle`, `up` (between the two callbacks), `closing` (the client has
gone and the library has not noticed), `down`. `clients`, `subscribers` are the two maps. `bpc[c]`, `target[c]`, `visited[c]` are the
goroutine of `onConnect` (server.go:40-48): what it does next, the channel in hand, the entries its `range` has
produced. `dpc[s]`, `slot[s]`, `hold[s]` are the goroutine of `SubWhoElseEvent` (handlers.go:27-37), its channel's one
place, and the address in its hand. `out[s]` is what the stream carried while the client was there. `atStart[c]` is
history: who was in the map when the `range` began.

*Atomicity.* Each section under the mutex is straight-line code that does not block, so it is a step. The
`range` in the broadcast holds the read lock only while it produces an entry: `BroadcastNext` is that section,
`BroadcastSend` is the send without the lock. Go's `range` over a changing map yields each entry once at most,
leaves out entries deleted before they are reached, and may or may not yield those added; so may the model.

*Sends.* A send to a client that is there works; to a connection that is down, fails; in between either. A reply or
event in between is lost and not in `out`.

*Addresses.* `RemoteAddr` is a constant and need not be injective: unbound clients of a Unix-domain socket all read
as the same address.

### ChartServer

A threshold is named by the request that set it and an address by the request whose `Host` it was in, so a model state
says whose value is used. Every access to what the requests share is a step: each field written (chartserver.go:484-492, 650-658), each
comparison (214, 226), each word of `cs.ip` written (477) or read as an argument of `Sprintf` (760-786), of `templates.PageTpl`
stored, and of it rendered (515, 524). `pc[r]` is the stage of the handler and `left[r]` the accesses it has still to make there, in any order, as
nothing orders the racing accesses of one goroutine for another. A string has two `Words`, its data and its length, so a racing read may mix two
addresses or two templates; `held[r]` and `tpl` are therefore sets of addresses. A threshold is one word. `over[r]` is
history: the requests that were handled while `r` was.

`updatePageTpl` reads the address, formats, and stores the template with no lock. A request `q` may read an address, be
overtaken, and store its template late, when the request the address came from is over; a request `r` that comes in then renders it. So links are
not always those of a request handled at the same time as `r`, and `LinksFromOverlapping` goes one request further (`Recent`), which is exact.

### ChartAnalysis

One step per record decoded, one per process in it, one for each of the two final loops; `WriteRecord` (the recorder) may come
between any two. `pos < Len(file)` is a successful decode, `Damaged` one that fails with another error than `io.EOF` and is
skipped by `continue`. `DiskFails` is a disk that reads no more: every further `Decode` fails without getting on, `io.EOF` never comes,
and the loop goes round for ever (182-187). Data: percentages and KB are small numbers, the conversion of KB to MB is the
division of the code, an average is a sum and a length, so that `avg <= threshold` is exact.

*Not covered by the alignment properties*: a name that stops and starts again (a series is appended to wherever it
ends, chartserver.go:203) and a name listed twice in a record (kernel threads share the bracketed name). The
former is drawn too early and the line of the latter may be longer than the axis; nothing in the repository says what else should
happen. The runs contain both, and `Gapless` and `ListedOnce` delimit the claims.

### TopidSession

`handler[s]` runs through the early returns of `SessionRequest.Handle` in their order; `Fails` takes any of them. `open[s]` are the handles not yet
closed: those of the process and the snapshot file outlive the handler and are closed by the goroutine's defers.
`Recv` gets a record or, behind the last one, an error. `Encode` appends, ignoring errors; on a full disk a write leaves nothing or a torn
record. gob writes the definitions of a file's types before the first value, each in a write of its own: `Define` is one of these in the process file,
`pRecord`'s first and then those of `[]Process` and `Process` together. A refused `pRecord` is tried again with the next record. Behind a refused one of the others the encoder
counts `pRecord` as sent with its parts and never sends them: the file then holds records nobody can decode (`defs[s] = "broken"`), with no torn record in it.
The one definition of the snapshot file is like any other write. `Collect` is the finalizer Go's `os.File` has: a file nobody can reach is closed by the garbage collector. Only
`Leave` and `Send` belong to the client; a broken connection keeps a prefix of what was under way.

*What a page reads*. `LinePage` is the records decoded (`Decoded`) but for those that list no process (`Empty`), which get no place on the axis (chartserver.go:189).
What is decoded (`Page`) is the records before the first torn one: a record file has a length in front of every record, so
behind a torn one the reader is out of step and nothing is certain; it might find records again, so the
properties count what stands behind as spoilt and claim nothing of it.

### RawConn

A message is cut into units; unit 0 is the length in stream mode. A direction of the socket holds `Room` units. `WriteSome` is one
write of the kernel into what room there is; `ReadStream` one `Read` inside `io.ReadFull`; `ReadPacket` the one `Read` of
packet mode. `cap` is `cap(bufMsg)`, which grows with longer messages. In packet mode what is read need not be a
message; what the decoder makes of it is left open (`Return`). `packet` is the `-p` option, chosen at the start of both programs.

### RawServer

`accept[l]`, `handler[c]`, `run`, `errChan` are the goroutines and the channel of `Run` and `handleConn`. `HandlerFails` is
the end of `handleConn`'s loop with the error `read` or `write` returned: `io.EOF` for a client that ended between
messages, another error in the middle of one or after a reset. The deferred `Close` comes behind the send on `errChan`
(server.go:137-141), and so does `"closed"` here.

### Recorder

What tail writes is cut into pieces 1, 2, ... and the log is a sequence of them, with `Torn` for one the disk took in part. `pc[c]` is
`Start` of the client: `run` and `wait` are the halves of `cmd.Run`, `start` the `cmd.Start` behind it. `copier[c]` is the goroutine os/exec starts
because `cmd.Stdout` is not a file: it takes pieces from `pipe[c]` and sends them into `stream[c]`; either holds `Room` of them. `copy[c]` is the service's
`io.Copy`. The files of the clients share the limit `MaxOpen`; `Collect` is the finalizer of a file nobody can reach. Log names of two
sessions differ (they hold a random part). What is on the stream when the client closes is still received; when the connection breaks, a
prefix of it. A `Stop` before there is a process goes through `cmd.Process`, which is nil then: the program crashes.
`Start` behind a `Run` that could not start tail may start it with nobody to wait for it; the model has that.

### Lifecycle

`pc[p]` is `Start` of a program down through `NewServer`, `newChartServer`, `Run` and the deferred stops. `files[p]` is the listener of the
file server, bound in `NewFileServer` and served in a goroutine; `charts[p]` is the goroutine of `cs.start`, which binds its port itself. `Shutdown`
closes a listener that is served already, and one that comes to be served afterwards closes itself; a port bound by `ListenAndServe` before
`Shutdown`, served behind it, likewise. `DrainCharts` and `DrainFiles` are the waiting of
`Shutdown(context.Background())`. `request[p]` is the readme at docit: `silence` is the reply `nil` for a status other than 200, which the library does not send; a request that stays `sent` is one whose call to
GitHub does not return. `Look` may find a published service or give up on it, as `SetDiscoverTimeout(3)` does with one that is slow to answer. `NewFileServer` and `ChartsListen` may fail for
any reason and must if one of these programs has the port; the first ends `Start`, the second is only logged (`taken`, or `failed` if the cause is something else).

*Assumed of the surroundings.* The process is a shell that hosts the program, so that nothing is closed by `Start`'s return. `Stop` is called only
while the program runs. What `Close` does to a server that has not come to `Serve` is the library's; the model has both, that it ends `Serve` later and that it is lost.
`-port` of the two kinds differ, and a chart server has a port of its own (with `0` its links would lead nowhere). A browser has one request at a
program at a time. The lookup of the host's address for the links is left out: the library's IPObserver is taken to answer. So are errors of `Serve` on a listener that is bound.

`met` and `missed` are history: pairs that were starting or stopping at the same time, and pairs of which one looked in vain while the other was published. They are what the
two properties about two programs are stated with (`Raced`): a program that was over before the other began, or was serving with its goroutines settled and was found, is in neither.

### EchoClient

Threads of a client are `Main` (0, which runs `Start`, `doEcho` or `doWhoelse`), the workers 1, 2, ... and `Event` (-1). The number in a request, 100 times
the worker's plus 10 times the round's (at most nine), is the pair of both. `Ask` and `Receive` are the halves of `SendRecv`. `msgs` are the
requests and replies under way, each on the stream of a thread; a request whose connection is gone may be handled or not,
and nobody sees the reply. `Handle` is `Request.Handle` up to `time.Sleep`, `Reply` what follows. `running` is one variable: a racing
read of a `bool` returns one of its two values, and `Stop` may come before or after any step.

## 3. Runs

Passing runs: their properties hold in every reachable state or behaviour of the instance.

| Run | Instance | Shows |
|---|---|---|
| `echo_crowd` | 3 connections, two with one address, one of those stays; 1 subscription on a connection that may leave | the inductive invariant; `WhoElse` lists no ghosts and everyone who has an address of his own; `EchoServer` implements `WhoElseFeed`; only an exited reader blocks a broadcast for ever; a dead subscription that is sent an event is deleted |
| `echo_stay` | 2 broadcasts, 2 subscribers that stay | a finished broadcast reached everyone it owed; all of them hear of the connections |
| `chart_pages` | 2 line pages, a third request that sets the address, has a malformed filter and gets the record file; 1 threshold, strings of 2 words | thresholds are those of an overlapping request, links of a recent one; the inductive invariant |
| `analysis_charts` | all files of up to 4 records of up to 2 samples, 3 processes with 2 names | length and alignment of lines; what is above and what is below the thresholds; the loop ends unless the disk fails |
| `session_files` | 2 sessions of 2 records, the second without processes; snapshots in one session; 3 handles, a disk that fills up in any write | order and completeness of the files, at every moment a page may read them; handles are given back; everything sent is recorded |
| `raw_messages` | both modes; 3 requests of 2 units, replies of 9, buffer 3, socket 5 | no byte is lost, whatever the cuts; in stream mode messages take turns, are whole, the ends never wait for each other, and all are answered |
| `raw_server` | 2 listeners, 3 clients | `Run` ends for the first real error and for no other; a failed connection is closed |
| `recorder_logs` | 2 clients, one whose file grows by 3 pieces, one log file at a time, pipe and stream of 1 piece | logs are prefixes, whole where nothing failed; `Stop` ends a client; log files are given back |
| `lifecycle` | 2 programs of one kind: chart servers for one port, recorders for one port, recorders of which one has port 0 | a second server, or one without charts, has raced with the first or missed it in its look; a stop releases the ports unless a browser holds on; a start ends unless docit never answers |
| `echo_client` | an echo client with 2 workers and a round, a whoelse client | no wrong number; each request counted once; connections closed under no worker; clients end |

`CHECK_DEADLOCK FALSE` is set where the actors of the instance do a bounded amount of work and then stop: connections and requests are used once,
the client makes `Requests` requests, the analysis ends, programs are over. In `TopidSession` and `Recorder` the disk never stops, so nothing is set.

*Bounds and why they are enough.* Three broadcasts are one more than fills an exited reader's channel and its queue:
the first is in the reader's hand, the second in the one place, the third waits. Two subscriptions are needed
for one to wait behind the other (`echo_stay`, `echo_stranded`); with three connections as well as two subscriptions a run with
fairness is out of reach, and the safety properties are proved for any number of both. In `echo_crowd` an address is shared and another is not.
In `chart_pages` two requests race on every access, and the third is the one whose address can come back late. Its other work is cut to the record file, and one threshold stands for
the four, which are handled alike and claimed one by one; with a threshold for each chart the run takes ten times as long and shows the same. Four records hold a name that is late, early, interrupted and doubled. Three handles for
two sessions run out while either file of either session is opened. In `RawConn` a message is longer than the buffer,
than the socket, and not a multiple of either. In `RawServer` three clients are one in the channel, one waiting and one still
serving. In `Recorder` three pieces are one in the log, one on the stream and one in the pipe, and the client whose file does not grow is the one that only `Stop` or
a break can end; one handle is what the other then waits for. Every pair of programs in `Lifecycle` is a pair, and the safety properties, which are about pairs, are proved for any number. In
`EchoClient` the code's 9 requests, 200 rounds and 10 workers are 1, 0 or 1 and 2: two workers are enough to mix up their replies, or for one to end
while another is not started; a client that polls in a round would only do what the echo client's main loop does. So a reply late by a round is not in the run; the theorems hold
for the code's numbers. `chart_pages` exchanges the two words of a string; no other run uses symmetry.

### Disagreements

Runs that are expected to find a violation; each checks one sentence of the repository against the code.

| Run | The repository says | The run shows |
|---|---|---|
| `echo_stranded` | SubWhoElseEvent "reports new incoming connection to the server" (echo/messages.go:28-29) | a broadcast blocks for ever on the channel of a subscriber that left (server.go:44); connected ones behind it are not told |
| `chart_own` | the URL's filter "determines which processes you want to show" (topidchart/README.md:7-8) | a chart filtered with somebody else's thresholds |

Smaller differences have no run. `echo/messages.go:30` says of subscribing "Return 0.", but the goroutine started before may send its
first event before the reply, on the same stream (handlers.go:26-38), and the client takes it for the 0; `EchoServer` allows either order. `echo/messages.go:33` says "WhoElse reports all client addresses the server has so far.":
of two connections with one address the first to go takes both off the list (server.go:57). `ListIsRight` claims what is left: nobody who has gone is listed, whoever has an address of his own is.
`README.md:11-14` of topidchart says that processes with both values "less than" the thresholds do not
show; one that equals them is hidden too (chartserver.go:214, 226, `<=`). `ShownByThresholds` claims what both say: above is shown, less is not; `Finished` in `IInv` has the code's rule. "ReadPacket reads a message"
(asbench/raw/server/server.go:103), but it reads what has arrived on a stream socket, as far as it fits the buffer: part of a message or more
than one. `MessagesIntact` claims stream mode only; `NothingLost`, a part of `IInv`, both.

## 4. Fairness

Weak fairness: goroutines that can run are scheduled by the Go runtime. Strong fairness on blocked channel sends
(`BroadcastSend`, `HandlerReports`, `AcceptReports`) only: senders blocked on a Go channel wait in a FIFO queue, so
each gets its turn when the place becomes free again and again. `Collect`: the runtime forces a garbage collection at least
every two minutes. In `RawConn` both processes run, and a socket with data or room is served. Clients owe nothing: connecting,
subscribing, leaving, sending and damaging the disk have no fairness; the bounds `MaxRecords` and `Requests` limit
how long a client goes on.

`Recorder`: both programs, the copier and the collector run. A file need not grow, nobody need call `Stop`, and what ends a client
whose tail waits for ever is `Stop`. `StopEndsClient` excepts a service that has given up on the log: nobody reads the stream then, and the
copier may wait in it for ever.

`Lifecycle`: the goroutines of a program run, and `Serve` returns once it is told to. Nothing is asked of docit: its `http.DefaultClient` has no time limit. Nobody has to call `Start` or
`Stop`, and no browser has to finish. What then may go on for ever is in the properties: `StopReleases` excepts a `Shutdown`
that waits for a browser, `StartEnds` a docit that has the readme and never answers. `ChartAnalysis`: the request's goroutine runs; `AnalysisEnds` excepts a disk that reads no more.

`EchoClient`: one weak fairness for all (`Progress`): as long as any goroutine can go on, something goes on. Every thread has a bounded
number of steps of this kind, so none can keep the others from theirs, and no fairness between them is needed. Events, breaks
and `Stop` are not in it. The reply of a request on a connection that is up comes (the handler sleeps half a second and returns).

## 5. Proofs

All theorems are of the form `Spec => []P` or a refinement, for any finite or infinite set of connections,
subscriptions, requests, sessions and clients, and rest only on the named assumptions of the constants, which say what types they have.

**EchoServerProofs.** `CompletedBroadcastReachesAll` is not inductive (and neither is `AtMostOnce`, a part of `IInv`). It needs to know what has happened to an event
since the broadcast visited a channel: `NothingLost` says it is in the buffer, in the goroutine's hand, on the stream
or about to be sent, if the client is there; for the end of the loop it says all of `atStart` was visited. `AtMostOnce` needs
`InOnePlace`: an event is in one of those places only, and only in channels that broadcast has left behind. Both need `Phases`, which
ties the program counters of callbacks, broadcasts and handlers together. `IInv` is their conjunction with the types. `FeedRefinement` uses it
twice: the guard of `Deliver` (announced, not carried yet) follows from `InOnePlace` and `Phases`. `ListIsRight` (`WhoElseIsRight`) needs nothing
of this: its halves, `NoGhostClients` and `OwnAddressIsListed`, are each inductive with the types.

**ChartServerProofs.** The claim is about what a comparison uses, so the invariant has to say what is in the shared
variables at any time a handler may look: `FilterRecent` (a field it has set holds its own value or an
overlapping request's), `AddressRecent` (the same for each word of `ip`, and for the addresses it has read), and `TplRecent` (a word of the template it has stored
holds addresses that their storer had read, hence those of requests that overlapped the storer). That a request which overwrites the value is in
`over` is `OverlapKnown`; `OwnStages` and `LeftFits` tie accesses to stages; `Untouched` starts it all.

**TopidSessionProofs.** `Stages` lists which handles are open and which files exist at each stage of handler and
recorder; `HandlesAreOwned` follows. The one exception it allows, an error with the process file open, is in the
code (handlers.go:49-52) and goes away only with garbage collection. What the files hold is `Kept`: every record the recorder is done with is
in the file or lost, in order, and no snapshot is ahead of its record, whatever became of the definitions; that the next record off the stream is the next number is `Numbered`.
`RecordsInOrder` and `SnapshotsHaveRecords` are about a page, which ends before the first torn record. That there is a first one comes from the well-founded
order of the naturals (`MinIsLeast`), and the rest is arithmetic on positions (`PageFacts`).

**ChartAnalysisProofs.** A line is as long as the axis because a series never gets ahead of it, is padded up to the record in hand when its process is read, and to
the end by the last loops. The invariant says this at every step (`IInv`): `Reading` ties the axis and the samples still to be added to the records read so far
(`Shown`); `InStep` is what lets the code look at `prs.cpu` only; `Growing` says how far each series reaches while records come, and `Finished` what the
last loop has made of it. The heart of the proof is what one more record does to the
definitions the properties are made of (`OneMoreShown`), and that the usage of a process up to its last record, padded with zeros,
is its usage over the axis (`PaddedUsage`); a gapless one reaches just before the record in hand, so what is appended stands at its own time. The totals and maxima are recursive functions, and the library's induction
theorems take an operator as a parameter, which the provers cannot instantiate. So the proof goes through sets: a set of numbers that has 0
and with n also n + 1 is all of them (`NumbersInSet`); the lemmas on sums, maxima and `Plotted` each apply it to the set
of lengths for which they hold.

**RawProofs.** Stream mode: requests and replies take turns (`Turns`): the flow from either end is empty, or exactly one message, part of it read,
part in the socket, part to be written. A read moves units along the flow (`Moved`); when the length says the message is whole, the
rest is empty (`AllOfIt`), and the counts of messages sent and read leave nothing under way in the other direction, so that the answer starts on
an empty one. `Fits` is what the slice `bufMsg[:size]` needs. `NeverStuck` rests on the same: with one message under way at most, an end that waits for
the socket has a peer that reads, and one that waits for units a peer that has some to write. `Waits` adds that a client which is not closed is owed just one
reply and that a server closes behind its client only. Both modes: `NothingLost` is kept as flow from the writer's side (`Delivered`,
`FlowInv`): what was read, then what is under way, is all that was written. Writes and reads regroup it and a new
message is added at both ends, for which a flattened sequence must grow with the last of its parts (`FlattenAppend`, again by `NumbersInSet`). `AtRest`
is needed for that: who writes the next message has none to finish, and packet mode keeps no part of one.
The server: `SurvivesEOF` and `ErrorsAreSeen` are inductive together with: an error standing in the channel has a
cause, and nothing runs before both listeners are open (`ServerInv`). One module extends both components, whose names differ for that.

**RecorderProofs.** `LogIsPrefix` needs that pieces are numbered on from the log through the stream into the pipe (`Queued`), as long as the copy goes on and,
for the pipe, the connection is up; `StoppedLogIsWhole` needs besides that a client does not return before tail has exited and the copier has drained the pipe, which
is in `Stages`. The proof has a lemma for each thing that happens to a queue.

**LifecycleProofs.** For any set of programs and ports. A pair of live programs of a kind has raced: when the later one's look ended without a service, the earlier one was
published, and is `missed`, or was `Changing`, and they have met. A port that was taken when it was to be bound had a holder, and a holder that is not serving as a published program is
`Changing`; a published one is a live one of the same kind. `FilesReachable` and `ChartsWhere` tie listeners to program counters.

**EchoClientProofs.** For any number of clients, workers and rounds. `Phases`: the `WaitGroup` is the number of workers at work (a finite cardinality), none is
at work outside the middle of `doEcho`. `OnePerStream`: a stream carries one message at most, and while the connection is up it is the last one of the thread that waits
there; so a reply that arrives is the thread's own. `CountedOnce` follows a message through `sent`, `counted` and `reply`; the counter is the
answered ones and those under way behind the handler's first line.

*Only model-checked.* Every invariant that a run checks is proved, and so is the refinement. What is left to TLC is liveness under fairness and what depends on
`ENABLED`: `BlockedOnlyByExited`, `DeadSubscriberUnregisters` and `SubscribersAreNotified` of the echo service; `AnalysisEnds`; `HandlesReleased` and
`AllRecorded`; `AllAnswered` (its safety half is `NeverStuck`) and `FailedIsClosed`; `StopEndsClient` and `LogsGivenBack`; `StopReleases` and
`StartEnds`; `ClientsEnd`.

## 6. Plan

Done, in this order: WhoElseFeed and EchoServer; ChartServer; ChartAnalysis; RawConn and RawServer; TopidSession; then Recorder, Lifecycle with file server and
docit, and EchoClient; proofs of all of them.

The number of runs is kept at a dozen, one to a question: properties of one instance share a run, with fairness where one of them needs it.
Smaller disagreements are described above and have no run.

What would come next: a composition of `TopidSession` with `ChartAnalysis`, pages made of a file while it is written, end to end (today the interface is `Page`, the
records before the first torn one, on one side and a growing file with damaged records on the other); the `asbench` client, whose
workers differ from those of `EchoClient` in the sum they leave behind; the safety halves of the liveness properties, as `NeverStuck` is that of `AllAnswered`.

## 7. Not modelled, and why

Layout, colours, legend order, button scripts, logs and option parsing: no property is about them. gob and gotiny: external; a record
is a value and a torn one a special value. `ParseFile`, the file server's listings, `infoHandler` and `readmeHandler`: pure
I/O. Sizes beyond 256K or below 0 in `content[:msg.Size]` panic; the clients here do not send them. A filter of
another shape than four parts leaves `cs.filter` as it was: it is in the model, and the properties except it because no text says what
it should do. The link of raw files is opened as `cs.dir + tag` without a separator (chartserver.go:497); the model lets that open fail. A second `Start` of the echo client in one process finds `running`
cleared and sends nothing; nothing says that it may be called twice, and the model calls it once. The template of a pie page is what the last line page left; nothing says
where its links should lead. `fileIndex` lists or copies files; the programs around docit and the file server only publish and serve. The asbench service has
handlers without state, and what its client adds up is read only when its workers have ended. The template service is a skeleton. Errors that only end in a
log line (the echo client's `onStreamClose`, `Stop`'s count) are left out but for the counter itself.
