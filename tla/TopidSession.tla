---------------------------- MODULE TopidSession ----------------------------
(***************************************************************************)
(* Recording sessions of the topid chart server: the handler of            *)
(* SessionRequest and the recorder goroutine it starts                     *)
(* (topidchart/handlers.go), the client at the other end of the stream,    *)
(* and what the chart server's pages find in the files.                    *)
(*                                                                         *)
(* Record k of session s is its k-th; it carries a snapshot if k is in     *)
(* Snapped[s], and lists no process if it is in Empty.  The disk may fill  *)
(* up and be freed: a write to a full disk leaves nothing or a torn        *)
(* record.  Handles are limited, and a handle nobody can reach any more is *)
(* closed by the garbage collector.                                        *)
(*                                                                         *)
(* A file begins with the definitions of its types: that of pRecord, then  *)
(* those of the types in it.  gob writes each on its own with the first    *)
(* record, and again with the next if the first of them was refused.  Of   *)
(* the snapshot file, whose sRecord holds basic types only, that is no     *)
(* more than a write that may be refused like any other.                   *)
(***************************************************************************)
EXTENDS Naturals, Sequences, SequencesExt, FiniteSets

CONSTANTS
  Sessions,
  MaxRecords,  \* bound: records a client sends in a session
  Snapped,     \* the records of each session that carry a snapshot
  Empty,       \* the records that list no process
  MaxOpen,     \* limit of open files
  Torn         \* what a write that failed half-way leaves

ASSUME SessionAssumption ==
  /\ MaxRecords \in Nat /\ MaxOpen \in Nat
  /\ Snapped \in [Sessions -> SUBSET (1..MaxRecords)]
  /\ Empty \subseteq 1..MaxRecords /\ Torn \notin Nat

Kinds == {"info", "process", "snapshot"}

VARIABLES
  handler,  \* what Handle does next, or what it has returned: "url" or "error"
  files,    \* files that exist
  open,     \* handles of them
  sent,     \* records the client has sent
  stream,   \* those on their way
  client,   \* "up", "closed" after its last record, or "broken"
  rec,      \* what the recorder goroutine does next: "off" before, "done" after
  hand,     \* the record it has received
  data,     \* what is in the process and the snapshot file
  defs,     \* type definitions in the process file: "none", the "outer" one,
            \* "all", or "broken": the outer is, but no other ever will be
  lost,     \* records whose write failed
  full      \* the disk is full

vars == <<handler, files, open, sent, stream, client, rec, hand, data, defs, lost, full>>

Init ==
  /\ handler = [s \in Sessions |-> "idle"]
  /\ files = [s \in Sessions |-> {}]
  /\ open = [s \in Sessions |-> {}]
  /\ sent = [s \in Sessions |-> 0]
  /\ stream = [s \in Sessions |-> <<>>]
  /\ client = [s \in Sessions |-> "up"]
  /\ rec = [s \in Sessions |-> "off"]
  /\ hand = [s \in Sessions |-> 0]
  /\ data = [s \in Sessions |-> [kind \in {"process", "snapshot"} |-> <<>>]]
  /\ defs = [s \in Sessions |-> "none"]
  /\ lost = [s \in Sessions |-> {}]
  /\ full = FALSE

-----------------------------------------------------------------------------
(* External: the client, the disk and the garbage collector.                *)

\* "Client should send one or more Record after SessionResponse is received."
Send(s) ==
  /\ handler[s] = "url" /\ client[s] = "up" /\ sent[s] < MaxRecords
  /\ sent' = [sent EXCEPT ![s] = @ + 1]
  /\ stream' = [stream EXCEPT ![s] = Append(@, sent'[s])]
  /\ UNCHANGED <<handler, files, open, client, rec, hand, data, defs, lost, full>>

\* The client closes the connection behind its records, or it breaks and some
\* of them do not arrive.
Leave(s) ==
  /\ handler[s] # "idle" /\ client[s] = "up"
  /\ \/ client' = [client EXCEPT ![s] = "closed"] /\ UNCHANGED stream
     \/ /\ client' = [client EXCEPT ![s] = "broken"]
        /\ \E n \in 0..Len(stream[s]) : stream' = [stream EXCEPT ![s] = SubSeq(@, 1, n)]
  /\ UNCHANGED <<handler, files, open, sent, rec, hand, data, defs, lost, full>>

Disk ==
  /\ full' = ~ full
  /\ UNCHANGED <<handler, files, open, sent, stream, client, rec, hand, data, defs, lost>>

Collect(s) ==
  /\ handler[s] = "error" /\ open[s] # {}
  /\ open' = [open EXCEPT ![s] = {}]
  /\ UNCHANGED <<handler, files, sent, stream, client, rec, hand, data, defs, lost, full>>

-----------------------------------------------------------------------------
(* SessionRequest.Handle.                                                   *)

Handles == UNION {{s} \X open[s] : s \in Sessions}

Request(s) ==
  /\ handler[s] = "idle"
  /\ handler' = [handler EXCEPT ![s] = "mkdir"]
  /\ UNCHANGED <<files, open, sent, stream, client, rec, hand, data, defs, lost, full>>

\* os.MkdirAll or os.OpenFile returns an error, and Handle with it: there is no
\* permission, no space or no handle left.  Handles it has stay open.
Fails(s) ==
  /\ handler[s] \in {"mkdir"} \union Kinds
  /\ handler' = [handler EXCEPT ![s] = "error"]
  /\ UNCHANGED <<files, open, sent, stream, client, rec, hand, data, defs, lost, full>>

MkdirAll(s) ==
  /\ handler[s] = "mkdir"
  /\ handler' = [handler EXCEPT ![s] = "info"]
  /\ UNCHANGED <<files, open, sent, stream, client, rec, hand, data, defs, lost, full>>

\* The info file is created, written and closed.
OpenInfo(s) ==
  /\ handler[s] = "info" /\ Cardinality(Handles) < MaxOpen
  /\ files' = [files EXCEPT ![s] = @ \union {"info"}]
  /\ handler' = [handler EXCEPT ![s] = "process"]
  /\ UNCHANGED <<open, sent, stream, client, rec, hand, data, defs, lost, full>>

OpenProcess(s) ==
  /\ handler[s] = "process" /\ Cardinality(Handles) < MaxOpen
  /\ files' = [files EXCEPT ![s] = @ \union {"process"}]
  /\ open' = [open EXCEPT ![s] = @ \union {"process"}]
  /\ handler' = [handler EXCEPT ![s] = "snapshot"]
  /\ UNCHANGED <<sent, stream, client, rec, hand, data, defs, lost, full>>

\* The last file is opened and the recorder goroutine started.
OpenSnapshot(s) ==
  /\ handler[s] = "snapshot" /\ Cardinality(Handles) < MaxOpen
  /\ files' = [files EXCEPT ![s] = @ \union {"snapshot"}]
  /\ open' = [open EXCEPT ![s] = @ \union {"snapshot"}]
  /\ rec' = [rec EXCEPT ![s] = "recv"]
  /\ handler' = [handler EXCEPT ![s] = "reply"]
  /\ UNCHANGED <<sent, stream, client, hand, data, defs, lost, full>>

Reply(s) ==
  /\ handler[s] = "reply"
  /\ handler' = [handler EXCEPT ![s] = "url"]
  /\ UNCHANGED <<files, open, sent, stream, client, rec, hand, data, defs, lost, full>>

-----------------------------------------------------------------------------
(* The recorder goroutine.                                                  *)

\* Mutant: the handles are not closed with the goroutine.
RecvKeepsOpen(s) ==
  /\ rec[s] = "recv"
  /\ \/ /\ stream[s] # <<>>
        /\ hand' = [hand EXCEPT ![s] = Head(stream[s])]
        /\ stream' = [stream EXCEPT ![s] = Tail(@)]
        /\ rec' = [rec EXCEPT ![s] = "process"]
     \/ /\ stream[s] = <<>> /\ client[s] # "up"
        /\ rec' = [rec EXCEPT ![s] = "done"]
        /\ UNCHANGED <<stream, hand>>
  /\ UNCHANGED <<handler, files, open, sent, client, data, defs, lost, full>>

\* Mutant: the goroutine ends as soon as the client has left.
RecvDropsRest(s) ==
  /\ rec[s] = "recv"
  /\ \/ /\ stream[s] # <<>> /\ client[s] = "up"
        /\ hand' = [hand EXCEPT ![s] = Head(stream[s])]
        /\ stream' = [stream EXCEPT ![s] = Tail(@)]
        /\ rec' = [rec EXCEPT ![s] = "process"]
        /\ UNCHANGED open
     \/ /\ client[s] # "up"
        /\ rec' = [rec EXCEPT ![s] = "done"]
        /\ open' = [open EXCEPT ![s] = {}]
        /\ UNCHANGED <<stream, hand>>
  /\ UNCHANGED <<handler, files, sent, client, data, defs, lost, full>>

\* stream.Recv returns the next record, or an error after the last: the loop
\* ends and the deferred function closes both files.
Recv(s) ==
  /\ rec[s] = "recv"
  /\ \/ /\ stream[s] # <<>>
        /\ hand' = [hand EXCEPT ![s] = Head(stream[s])]
        /\ stream' = [stream EXCEPT ![s] = Tail(@)]
        /\ rec' = [rec EXCEPT ![s] = "process"]
        /\ UNCHANGED open
     \/ /\ stream[s] = <<>> /\ client[s] # "up"
        /\ rec' = [rec EXCEPT ![s] = "done"]
        /\ open' = [open EXCEPT ![s] = {}]
        /\ UNCHANGED <<stream, hand>>
  /\ UNCHANGED <<handler, files, sent, client, data, defs, lost, full>>

\* A full disk takes nothing of a write, or its first part.
Refuse(s, kind) ==
  \/ UNCHANGED data
  \/ data' = [data EXCEPT ![s][kind] = Append(@, Torn)]

\* Encode appends to a file; its error is not looked at.
Write(s, kind) ==
  IF full THEN Refuse(s, kind) ELSE data' = [data EXCEPT ![s][kind] = Append(@, hand[s])]

Lose(s) == lost' = [lost EXCEPT ![s] = @ \union {hand[s]}]

\* Behind the process file comes the snapshot file, if the record has a snapshot.
GoOn(s, kind) ==
  rec' = [rec EXCEPT ![s] = IF kind = "process" /\ hand[s] \in Snapped[s] THEN "snapshot" ELSE "recv"]

\* Encode writes the definition of pRecord, then those of []Process and Process.
\* Where one is refused it returns, and tries the first again with the next
\* record, but not the others: pRecord counts as sent with its own.
Define(s) ==
  /\ rec[s] = "process" /\ defs[s] \in {"none", "outer"}
  /\ \/ /\ ~ full
        /\ defs' = [defs EXCEPT ![s] = IF @ = "none" THEN "outer" ELSE "all"]
        /\ UNCHANGED <<rec, data, lost>>
     \/ /\ full /\ Refuse(s, "process") /\ Lose(s) /\ GoOn(s, "process")
        /\ defs' = [defs EXCEPT ![s] = IF @ = "none" THEN "none" ELSE "broken"]
  /\ UNCHANGED <<handler, files, open, sent, stream, client, hand, full>>

Encodes(s, kind) == rec[s] = kind /\ (kind = "process" => defs[s] \in {"all", "broken"})

\* Mutant: the snapshot is written first.
EncodeSwapped(s, kind) ==
  /\ Encodes(s, kind)
  /\ LET other == IF kind = "process" THEN "snapshot" ELSE "process" IN
       IF other = "snapshot" /\ hand[s] \notin Snapped[s] THEN UNCHANGED data ELSE Write(s, other)
  /\ IF full /\ kind = "snapshot" THEN Lose(s) ELSE UNCHANGED lost
  /\ rec' = [rec EXCEPT ![s] = IF kind = "process" THEN "snapshot" ELSE "recv"]
  /\ UNCHANGED <<handler, files, open, sent, stream, client, hand, defs, full>>

\* Mutant: a record with a snapshot is written to the snapshot file only.
EncodeEither(s, kind) ==
  /\ Encodes(s, kind)
  /\ IF kind = "process" /\ hand[s] \in Snapped[s] THEN UNCHANGED data ELSE Write(s, kind)
  /\ IF full /\ kind = "process" THEN Lose(s) ELSE UNCHANGED lost
  /\ GoOn(s, kind)
  /\ UNCHANGED <<handler, files, open, sent, stream, client, hand, defs, full>>

\* The record goes to the process file, then its snapshot, if it has one, to
\* the other.
Encode(s, kind) ==
  /\ Encodes(s, kind)
  /\ Write(s, kind)
  /\ IF full /\ kind = "process" THEN Lose(s) ELSE UNCHANGED lost
  /\ GoOn(s, kind)
  /\ UNCHANGED <<handler, files, open, sent, stream, client, hand, defs, full>>

Handle(s) == Fails(s) \/ MkdirAll(s) \/ OpenInfo(s) \/ OpenProcess(s) \/ OpenSnapshot(s) \/ Reply(s)
Recorder(s) == Recv(s) \/ Define(s) \/ \E kind \in {"process", "snapshot"} : Encode(s, kind)

Next ==
  \/ Disk
  \/ \E s \in Sessions :
       Request(s) \/ Send(s) \/ Leave(s) \/ Handle(s) \/ Recorder(s) \/ Collect(s)

Spec == Init /\ [][Next]_vars

\* Goroutines are scheduled, and the Go runtime collects garbage at least every
\* two minutes.  No client need send, leave or ask.
FairSpec ==
  Spec /\ \A s \in Sessions : WF_vars(Handle(s)) /\ WF_vars(Recorder(s)) /\ WF_vars(Collect(s))

-----------------------------------------------------------------------------
(* The pages.  analysis and snapshotHandler decode a file up to its end, but *)
(* what follows a torn record is out of step with the lengths in the file,   *)
(* and nothing of it is certain to be read; nor can anything be decoded that *)
(* is of a type without its definition.                                      *)

Whole(seq) == Torn \notin ToSet(seq)

\* What is surely read of a file, if its types are known.
Page(seq) ==
  IF Whole(seq) THEN seq ELSE SubSeq(seq, 1, SelectInSeq(seq, LAMBDA k : k = Torn) - 1)

Decoded(s) == IF defs[s] = "broken" THEN <<>> ELSE Page(data[s]["process"])

\* The records on the axis of the line page: a record that lists no process gets
\* no place there.
LinePage(s) == ToSet(Decoded(s)) \ Empty
SnapshotPage(s) == Page(data[s]["snapshot"])

-----------------------------------------------------------------------------
(* Properties. *)

TypeOK ==
  /\ handler \in [Sessions -> {"idle", "mkdir", "reply", "url", "error"} \union Kinds]
  /\ files \in [Sessions -> SUBSET Kinds]
  /\ open \in [Sessions -> SUBSET Kinds]
  /\ sent \in [Sessions -> 0..MaxRecords]
  /\ stream \in [Sessions -> Seq(1..MaxRecords)]
  /\ client \in [Sessions -> {"up", "closed", "broken"}]
  /\ rec \in [Sessions -> {"off", "recv", "process", "snapshot", "done"}]
  /\ hand \in [Sessions -> 0..MaxRecords]
  /\ data \in [Sessions -> [{"process", "snapshot"} -> Seq(1..MaxRecords \union {Torn})]]
  /\ defs \in [Sessions -> {"none", "outer", "all", "broken"}]
  /\ lost \in [Sessions -> SUBSET (1..MaxRecords)]
  /\ full \in BOOLEAN

\* The recorder is done with these.
Received(s) == 1..(IF rec[s] = "process" THEN hand[s] - 1 ELSE hand[s])

\* Records the disk refused, wholly or in part, or that are in the file but stand
\* behind a torn one, or without a definition that the disk refused.
Spoilt(s) == lost[s] \union (ToSet(data[s]["process"]) \ (ToSet(Decoded(s)) \union {Torn}))

\* Whoever opens the snapshot page and then the line page of a session finds the
\* time of every snapshot on the axis, unless the disk spoilt that record or no
\* process was running: the recorder writes the record first
\* (handlers.go:69-73, chartserver.go:189-190).
SnapshotsHaveRecords ==
  \A s \in Sessions :
    ToSet(SnapshotPage(s)) \subseteq LinePage(s) \union Spoilt(s) \union Empty

\* The line page takes the records in the order they were sent, none twice, and
\* leaves none out but those without processes and those the disk spoilt.
RecordsInOrder ==
  \A s \in Sessions :
    LET read == Decoded(s)
    IN  /\ \A i, j \in 1..Len(read) : i < j => read[i] < read[j]
        /\ LinePage(s) \union (Spoilt(s) \ Empty) = Received(s) \ Empty

\* A handle belongs to a handler at work or to a recorder that has not ended,
\* except where the snapshot file did not open (handlers.go:49-52): two at most
\* for each session, however it ends.
HandlesAreOwned ==
  \A s \in Sessions : open[s] # {} =>
    \/ handler[s] \in {"snapshot", "reply", "url"} /\ rec[s] # "done"
    \/ handler[s] = "error" /\ files[s] = {"info", "process"}

\* When the client has left, its handles are given back, however it left and
\* whatever failed; so the limit is not used up by sessions that are over.
HandlesReleased ==
  \A s \in Sessions : client[s] # "up" ~> open[s] = {}

\* What a client that closed in order has sent, of records with processes, is on
\* the line page in the end, however far the recorder was behind, but for what
\* the disk spoilt.
AllRecorded ==
  \A s \in Sessions : client[s] = "closed" ~>
    1..sent[s] \subseteq LinePage(s) \union Spoilt(s) \union Empty

-----------------------------------------------------------------------------
(* The inductive invariant.                                                  *)

\* What is open at each stage of the handler and of the recorder.
Stages ==
  \A s \in Sessions :
    /\ handler[s] \in {"reply", "url"} <=> rec[s] # "off"
    /\ rec[s] \in {"process", "snapshot"} => hand[s] # 0
    /\ handler[s] \in {"idle", "mkdir", "info"} => open[s] = {} /\ files[s] = {}
    /\ handler[s] = "process" => open[s] = {} /\ files[s] = {"info"}
    /\ handler[s] = "snapshot" => open[s] = {"process"} /\ files[s] = {"info", "process"}
    /\ handler[s] \in {"reply", "url"} =>
         open[s] = IF rec[s] = "done" THEN {} ELSE {"process", "snapshot"}
    /\ handler[s] = "error" /\ open[s] # {} =>
         open[s] = {"process"} /\ files[s] = {"info", "process"}

\* On the stream are the records behind the one in hand, up to the last one sent
\* unless the connection broke.
Numbered ==
  \A s \in Sessions :
    /\ \A i \in 1..Len(stream[s]) : stream[s][i] = hand[s] + i
    /\ client[s] = "up" => hand[s] + Len(stream[s]) = sent[s]

\* Every record the recorder is done with is in the process file or was lost, the
\* file has them in order, behind the definitions of their types, and the snapshot
\* file none but those.
Kept ==
  \A s \in Sessions :
    LET records == data[s]["process"]
    IN  /\ \A i, j \in 1..Len(records) :
             i < j /\ Torn \notin {records[i], records[j]} => records[i] < records[j]
        /\ (ToSet(records) \ {Torn}) \union lost[s] = Received(s)
        /\ defs[s] \in {"none", "outer"} => ToSet(records) \subseteq {Torn}
        /\ ToSet(data[s]["snapshot"]) \ {Torn} \subseteq Received(s)

IInv == TypeOK /\ Stages /\ Numbered /\ Kept
=============================================================================
