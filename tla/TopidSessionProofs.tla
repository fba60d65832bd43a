------------------------- MODULE TopidSessionProofs -------------------------
(***************************************************************************)
(* Recording sessions keep their records, in order, and own their handles, *)
(* for any number of sessions, records and handles.                        *)
(***************************************************************************)
EXTENDS TopidSession, WellFoundedInduction, TLAPS

-----------------------------------------------------------------------------
(* Types and stages                                                          *)

Staged == TypeOK /\ Stages

LEMMA InitStaged == Init => Staged
  <1> SUFFICES ASSUME Init PROVE Staged
    OBVIOUS
  <1>1. TypeOK
    <2>1. data \in [Sessions -> [{"process", "snapshot"} -> Seq(1..MaxRecords \union {Torn})]]
      <3>1. <<>> \in Seq(1..MaxRecords \union {Torn})
        OBVIOUS
      <3>2. [kind \in {"process", "snapshot"} |-> <<>>]
              \in [{"process", "snapshot"} -> Seq(1..MaxRecords \union {Torn})]
        BY <3>1
      <3> QED BY <3>2 DEF Init
    <2>2. stream \in [Sessions -> Seq(1..MaxRecords)]
      <3>1. <<>> \in Seq(1..MaxRecords)
        OBVIOUS
      <3> QED BY <3>1 DEF Init
    <2>3. /\ sent \in [Sessions -> 0..MaxRecords]
          /\ hand \in [Sessions -> 0..MaxRecords]
          /\ lost \in [Sessions -> SUBSET (1..MaxRecords)]
      BY SessionAssumption DEF Init
    <2>4. /\ handler \in [Sessions -> {"idle", "mkdir", "reply", "url", "error"} \union Kinds]
          /\ files \in [Sessions -> SUBSET Kinds]
          /\ open \in [Sessions -> SUBSET Kinds]
          /\ client \in [Sessions -> {"up", "closed", "broken"}]
          /\ rec \in [Sessions -> {"off", "recv", "process", "snapshot", "done"}]
          /\ defs \in [Sessions -> {"none", "outer", "all", "broken"}]
          /\ full \in BOOLEAN
      BY DEF Init
    <2> QED BY <2>1, <2>2, <2>3, <2>4 DEF TypeOK
  <1>2. Stages
    BY DEF Init, Stages
  <1> QED BY <1>1, <1>2 DEF Staged

LEMMA TailStays ==
  ASSUME NEW S, NEW q \in Seq(S), q # <<>>
  PROVE  Head(q) \in S /\ Tail(q) \in Seq(S)
  OBVIOUS

LEMMA PrefixStays ==
  ASSUME NEW S, NEW q \in Seq(S), NEW n \in 0..Len(q)
  PROVE  SubSeq(q, 1, n) \in Seq(S)
  OBVIOUS

LEMMA DataStays ==
  ASSUME TypeOK, NEW s \in Sessions, NEW kind \in {"process", "snapshot"},
         NEW e \in 1..MaxRecords \union {Torn},
         UNCHANGED data \/ data' = [data EXCEPT ![s][kind] = Append(@, e)]
  PROVE  data' \in [Sessions -> [{"process", "snapshot"} -> Seq(1..MaxRecords \union {Torn})]]
  <1>0. data \in [Sessions -> [{"process", "snapshot"} -> Seq(1..MaxRecords \union {Torn})]]
    BY DEF TypeOK
  <1>1. data[s][kind] \in Seq(1..MaxRecords \union {Torn})
    BY <1>0
  <1>2. Append(data[s][kind], e) \in Seq(1..MaxRecords \union {Torn})
    BY <1>1
  <1>3. [data[s] EXCEPT ![kind] = Append(@, e)]
          \in [{"process", "snapshot"} -> Seq(1..MaxRecords \union {Torn})]
    BY <1>0, <1>2
  <1>4. CASE UNCHANGED data
    BY <1>0, <1>4
  <1>5. CASE data' = [data EXCEPT ![s][kind] = Append(@, e)]
    BY <1>0, <1>3, <1>5
  <1> QED BY <1>4, <1>5

LEMMA LostStays ==
  ASSUME TypeOK, NEW s \in Sessions, hand[s] \in 1..MaxRecords, Lose(s) \/ UNCHANGED lost
  PROVE  lost' \in [Sessions -> SUBSET (1..MaxRecords)]
  <1>1. lost \in [Sessions -> SUBSET (1..MaxRecords)] /\ lost[s] \union {hand[s]} \in SUBSET (1..MaxRecords)
    BY DEF TypeOK
  <1>2. lost' = [lost EXCEPT ![s] = lost[s] \union {hand[s]}] \/ lost' = lost
    BY DEF Lose
  <1> QED BY <1>1, <1>2

LEMMA NextStaged == Staged /\ [Next]_vars => Staged'
  <1> SUFFICES ASSUME Staged, [Next]_vars PROVE Staged'
    OBVIOUS
  <1> USE SessionAssumption DEF Staged
  <1>1. CASE UNCHANGED vars
    BY <1>1 DEF vars, TypeOK, Stages
  <1>2. CASE Disk
    BY <1>2 DEF Disk, TypeOK, Stages
  <1>3. ASSUME NEW s \in Sessions, Request(s) PROVE Staged'
    BY <1>3 DEF Request, TypeOK, Stages
  <1>4. ASSUME NEW s \in Sessions, Send(s) PROVE Staged'
    <2>1. sent[s] + 1 \in 1..MaxRecords
      BY <1>4 DEF Send, TypeOK
    <2>2. Append(stream[s], sent[s] + 1) \in Seq(1..MaxRecords)
      BY <2>1 DEF TypeOK
    <2>3. TypeOK'
      BY <1>4, <2>1, <2>2, SMTT(30) DEF Send, TypeOK
    <2>4. Stages'
      BY <1>4 DEF Send, Stages
    <2> QED BY <2>3, <2>4
  <1>5. ASSUME NEW s \in Sessions, Leave(s) PROVE Staged'
    <2>1. stream' \in [Sessions -> Seq(1..MaxRecords)]
      <3>1. \A n \in 0..Len(stream[s]) : SubSeq(stream[s], 1, n) \in Seq(1..MaxRecords)
        BY PrefixStays DEF TypeOK
      <3>2. UNCHANGED stream \/ \E n \in 0..Len(stream[s]) :
              stream' = [stream EXCEPT ![s] = SubSeq(stream[s], 1, n)]
        BY <1>5 DEF Leave
      <3>3. CASE UNCHANGED stream
        BY <3>3 DEF TypeOK
      <3>4. ASSUME NEW n \in 0..Len(stream[s]),
                   stream' = [stream EXCEPT ![s] = SubSeq(stream[s], 1, n)]
            PROVE  stream' \in [Sessions -> Seq(1..MaxRecords)]
        <4>1. SubSeq(stream[s], 1, n) \in Seq(1..MaxRecords)
          BY <3>1
        <4>2. stream \in [Sessions -> Seq(1..MaxRecords)]
          BY DEF TypeOK
        <4> QED BY <3>4, <4>1, <4>2
      <3> QED BY <3>2, <3>3, <3>4
    <2>2. TypeOK'
      BY <1>5, <2>1 DEF Leave, TypeOK
    <2>3. Stages'
      BY <1>5 DEF Leave, Stages
    <2> QED BY <2>2, <2>3
  <1>6. ASSUME NEW s \in Sessions, Collect(s) PROVE Staged'
    BY <1>6 DEF Collect, TypeOK, Stages
  <1>7. ASSUME NEW s \in Sessions, Fails(s) PROVE Staged'
    BY <1>7, ZenonT(60) DEF Fails, TypeOK, Stages, Kinds
  <1>8. ASSUME NEW s \in Sessions, MkdirAll(s) PROVE Staged'
    BY <1>8 DEF MkdirAll, TypeOK, Stages, Kinds
  <1>9. ASSUME NEW s \in Sessions, OpenInfo(s) PROVE Staged'
    BY <1>9 DEF OpenInfo, TypeOK, Stages, Kinds
  <1>10. ASSUME NEW s \in Sessions, OpenProcess(s) PROVE Staged'
    BY <1>10, ZenonT(60) DEF OpenProcess, TypeOK, Stages, Kinds
  <1>11. ASSUME NEW s \in Sessions, OpenSnapshot(s) PROVE Staged'
    <2>1. TypeOK'
      BY <1>11 DEF OpenSnapshot, TypeOK, Kinds
    <2>2. Stages'
      <3>1. open'[s] = {"process", "snapshot"} /\ files'[s] = Kinds
        BY <1>11 DEF OpenSnapshot, TypeOK, Stages, Kinds
      <3> QED BY <1>11, <3>1, ZenonT(60) DEF OpenSnapshot, TypeOK, Stages
    <2> QED BY <2>1, <2>2
  <1>12. ASSUME NEW s \in Sessions, Reply(s) PROVE Staged'
    BY <1>12 DEF Reply, TypeOK, Stages, Kinds
  <1>13. ASSUME NEW s \in Sessions, Recv(s) PROVE Staged'
    <2>1. CASE stream[s] # <<>> /\ rec' = [rec EXCEPT ![s] = "process"]
      <3>1. Head(stream[s]) \in 1..MaxRecords /\ Tail(stream[s]) \in Seq(1..MaxRecords)
        BY <2>1, TailStays DEF TypeOK
      <3>2. /\ hand' = [hand EXCEPT ![s] = Head(stream[s])]
            /\ stream' = [stream EXCEPT ![s] = Tail(@)]
            /\ UNCHANGED <<handler, files, open, sent, client, data, defs, lost, full>>
            /\ rec[s] = "recv"
        BY <1>13, <2>1 DEF Recv, TypeOK
      <3>3. stream' \in [Sessions -> Seq(1..MaxRecords)]
        BY <3>1, <3>2 DEF TypeOK
      <3>4. hand' \in [Sessions -> 0..MaxRecords]
        BY <3>1, <3>2 DEF TypeOK
      <3>5. TypeOK'
        BY <2>1, <3>2, <3>3, <3>4 DEF TypeOK
      <3>6. Stages'
        <4>1. hand'[s] # 0 /\ rec'[s] = "process"
          BY <2>1, <3>1, <3>2 DEF TypeOK
        <4>2. \A t \in Sessions \ {s} : hand'[t] = hand[t] /\ rec'[t] = rec[t]
          BY <2>1, <3>2 DEF TypeOK
        <4> QED BY <3>2, <4>1, <4>2 DEF Stages
      <3> QED BY <3>5, <3>6
    <2>2. CASE rec' = [rec EXCEPT ![s] = "done"] /\ open' = [open EXCEPT ![s] = {}]
               /\ UNCHANGED <<stream, hand>>
      <3>1. UNCHANGED <<handler, files, sent, client, data, defs, lost, full>> /\ rec[s] = "recv"
        BY <1>13 DEF Recv
      <3>2. TypeOK'
        BY <2>2, <3>1 DEF TypeOK
      <3>3. Stages'
        BY <2>2, <3>1 DEF TypeOK, Stages
      <3> QED BY <3>2, <3>3
    <2> QED BY <1>13, <2>1, <2>2 DEF Recv
  <1>14. ASSUME NEW s \in Sessions, Define(s) PROVE Staged'
    <2>1. rec[s] = "process" /\ \E l \in {"process", "snapshot", "recv"} : rec' = [rec EXCEPT ![s] = l]
      <3>1. rec[s] = "process" /\ (UNCHANGED rec \/ GoOn(s, "process"))
        BY <1>14 DEF Define
      <3>2. UNCHANGED rec => rec' = [rec EXCEPT ![s] = "process"]
        BY <3>1 DEF TypeOK
      <3>3. GoOn(s, "process") => \E l \in {"snapshot", "recv"} : rec' = [rec EXCEPT ![s] = l]
        BY DEF GoOn
      <3> QED BY <3>1, <3>2, <3>3
    <2>2. UNCHANGED <<handler, files, open, sent, stream, client, hand, full>> /\ hand[s] # 0
      BY <1>14, <2>1 DEF Define, Stages
    <2>3. rec' \in [Sessions -> {"off", "recv", "process", "snapshot", "done"}]
      BY <2>1 DEF TypeOK
    <2>4. Stages'
      BY <2>1, <2>2, ZenonT(60) DEF TypeOK, Stages
    <2>5. hand[s] \in 1..MaxRecords
      BY <2>2 DEF TypeOK
    <2>6. UNCHANGED data \/ data' = [data EXCEPT ![s]["process"] = Append(@, Torn)]
      BY <1>14 DEF Define, Refuse
    <2>7. data' \in [Sessions -> [{"process", "snapshot"} -> Seq(1..MaxRecords \union {Torn})]]
      BY <2>6, DataStays
    <2>8. lost' \in [Sessions -> SUBSET (1..MaxRecords)]
      BY <1>14, <2>5, LostStays DEF Define
    <2>9. defs' \in [Sessions -> {"none", "outer", "all", "broken"}]
      BY <1>14 DEF Define, TypeOK
    <2> QED BY <2>2, <2>3, <2>4, <2>7, <2>8, <2>9 DEF TypeOK
  <1>15. ASSUME NEW s \in Sessions, NEW kind \in {"process", "snapshot"}, Encode(s, kind)
         PROVE Staged'
    <2>1. rec[s] = kind /\ \E l \in {"snapshot", "recv"} : rec' = [rec EXCEPT ![s] = l]
      BY <1>15 DEF Encode, Encodes, GoOn
    <2>2. UNCHANGED <<handler, files, open, sent, stream, client, hand, defs, full>> /\ hand[s] # 0
      BY <1>15, <2>1 DEF Encode, Stages
    <2>3. rec' \in [Sessions -> {"off", "recv", "process", "snapshot", "done"}]
      BY <2>1 DEF TypeOK
    <2>4. Stages'
      BY <2>1, <2>2, ZenonT(60) DEF TypeOK, Stages
    <2>5. hand[s] \in 1..MaxRecords
      BY <2>2 DEF TypeOK
    <2>6. PICK e \in 1..MaxRecords \union {Torn} :
            UNCHANGED data \/ data' = [data EXCEPT ![s][kind] = Append(@, e)]
      BY <1>15, <2>5 DEF Encode, Write, Refuse
    <2>7. data' \in [Sessions -> [{"process", "snapshot"} -> Seq(1..MaxRecords \union {Torn})]]
      BY <2>6, DataStays
    <2>8. lost' \in [Sessions -> SUBSET (1..MaxRecords)]
      BY <1>15, <2>5, LostStays DEF Encode
    <2> QED BY <2>2, <2>3, <2>4, <2>7, <2>8 DEF TypeOK
  <1> QED
    BY <1>1, <1>2, <1>3, <1>4, <1>5, <1>6, <1>7, <1>8, <1>9, <1>10, <1>11, <1>12,
       <1>13, <1>14, <1>15 DEF Next, Handle, Recorder

-----------------------------------------------------------------------------
(* The stream and the files                                                  *)

LEMMA Steps ==
  ASSUME Next
  PROVE  \/ UNCHANGED <<sent, stream, client, rec, hand, data, defs, lost>>
         \/ \E s \in Sessions :
              \/ Send(s) \/ Leave(s) \/ OpenSnapshot(s) \/ Recv(s) \/ Define(s)
              \/ \E kind \in {"process", "snapshot"} : Encode(s, kind)
BY DEF Next, Handle, Recorder, Disk, Request, Collect, Fails, MkdirAll, OpenInfo, OpenProcess, Reply

\* The record received is the one behind the last.
LEMMA HeadIsNext ==
  ASSUME Staged, Numbered, NEW s \in Sessions, stream[s] # <<>>
  PROVE  /\ Head(stream[s]) = hand[s] + 1
         /\ Len(Tail(stream[s])) = Len(stream[s]) - 1
         /\ \A i \in 1..Len(Tail(stream[s])) : Tail(stream[s])[i] = hand[s] + 1 + i
<1> DEFINE q == stream[s]
<1>1. q \in Seq(1..MaxRecords) /\ q # <<>> /\ hand[s] \in 0..MaxRecords
  BY DEF Staged, TypeOK
<1>2. \A i \in 1..Len(q) : q[i] = hand[s] + i
  BY DEF Numbered
<1> HIDE DEF q
<1>3. Len(q) \in Nat \ {0} /\ Head(q) = q[1] /\ Len(Tail(q)) = Len(q) - 1
  BY <1>1
<1>4. \A i \in 1..Len(Tail(q)) : Tail(q)[i] = q[i + 1]
  BY <1>1
<1>5. \A i \in 1..Len(Tail(q)) : i + 1 \in 1..Len(q) /\ hand[s] + (i + 1) = hand[s] + 1 + i
  <2>1. hand[s] \in Nat /\ Len(q) \in Nat /\ Len(Tail(q)) = Len(q) - 1
    BY <1>1, <1>3
  <2> QED
    BY <2>1
<1>6. \A i \in 1..Len(Tail(q)) : Tail(q)[i] = hand[s] + 1 + i
  BY <1>2, <1>4, <1>5
<1>7. Head(q) = hand[s] + 1
  BY <1>2, <1>3
<1> QED
  BY <1>3, <1>6, <1>7 DEF q

LEMMA NumberedStep ==
  ASSUME Staged, Numbered, Next
  PROVE  Numbered'
<1>0. /\ stream \in [Sessions -> Seq(1..MaxRecords)] /\ sent \in [Sessions -> 0..MaxRecords]
      /\ hand \in [Sessions -> 0..MaxRecords] /\ client \in [Sessions -> {"up", "closed", "broken"}]
      /\ MaxRecords \in Nat
  BY SessionAssumption DEF Staged, TypeOK
<1>1. CASE UNCHANGED <<sent, stream, client, hand>>
  BY <1>1 DEF Numbered
<1>2. ASSUME NEW s \in Sessions, NEW q \in Seq(1..MaxRecords), stream' = [stream EXCEPT ![s] = q],
             \A i \in 1..Len(q) : q[i] = hand'[s] + i,
             client'[s] = "up" => hand'[s] + Len(q) = sent'[s],
             \A t \in Sessions \ {s} :
               client'[t] = client[t] /\ hand'[t] = hand[t] /\ sent'[t] = sent[t]
      PROVE  Numbered'
  <2>1. stream'[s] = q /\ \A t \in Sessions \ {s} : stream'[t] = stream[t]
    BY <1>0, <1>2
  <2> QED
    BY <1>2, <2>1 DEF Numbered
<1>3. ASSUME NEW s \in Sessions, Send(s) PROVE Numbered'
  <2> DEFINE q == Append(stream[s], sent[s] + 1)
  <2>1. sent' = [sent EXCEPT ![s] = sent[s] + 1] /\ sent[s] + 1 \in 1..MaxRecords
    BY <1>0, <1>3 DEF Send
  <2>2. stream' = [stream EXCEPT ![s] = q] /\ UNCHANGED <<client, hand>> /\ client[s] = "up"
    BY <1>0, <1>3, <2>1 DEF Send
  <2>3. hand[s] + Len(stream[s]) = sent[s]
    BY <2>2 DEF Numbered
  <2>4. q \in Seq(1..MaxRecords) /\ Len(q) = Len(stream[s]) + 1 /\ q[Len(q)] = sent[s] + 1
        /\ \A i \in 1..Len(stream[s]) : q[i] = stream[s][i]
    BY <1>0, <2>1
  <2> HIDE DEF q
  <2>5. hand'[s] = hand[s] /\ sent'[s] = sent[s] + 1 /\ Len(stream[s]) \in Nat
        /\ sent[s] \in Nat /\ hand[s] \in Nat
        /\ \A t \in Sessions \ {s} : sent'[t] = sent[t]
    BY <1>0, <2>1, <2>2
  <2>6. ASSUME NEW i \in 1..Len(q) PROVE q[i] = hand'[s] + i
    <3>1. CASE i \in 1..Len(stream[s])
      <4>1. stream[s][i] = hand[s] + i
        BY <3>1 DEF Numbered
      <4>2. q[i] = stream[s][i]
        BY <2>4, <3>1
      <4> QED
        BY <2>5, <4>1, <4>2
    <3>2. CASE i = Len(stream[s]) + 1
      <4>1. i = Len(q)
        BY <2>4, <3>2
      <4>2. q[i] = sent[s] + 1
        BY <2>4, <4>1
      <4>3. hand'[s] + i = sent[s] + 1
        BY <2>3, <2>5, <3>2
      <4> QED
        BY <4>2, <4>3
    <3> QED
      BY <2>4, <2>5, <3>1, <3>2
  <2>7. hand'[s] + Len(q) = sent'[s]
    BY <2>3, <2>4, <2>5
  <2> QED
    BY <1>2, <2>2, <2>4, <2>5, <2>6, <2>7
<1>4. ASSUME NEW s \in Sessions, Leave(s) PROVE Numbered'
  <2>1. UNCHANGED <<sent, hand>> /\ client'[s] # "up"
        /\ \A t \in Sessions \ {s} : client'[t] = client[t]
    BY <1>0, <1>4 DEF Leave
  <2>2. CASE UNCHANGED stream
    BY <2>1, <2>2 DEF Numbered
  <2>3. ASSUME NEW n \in 0..Len(stream[s]), stream' = [stream EXCEPT ![s] = SubSeq(stream[s], 1, n)]
        PROVE  Numbered'
    <3> DEFINE q == SubSeq(stream[s], 1, n)
    <3>1. q \in Seq(1..MaxRecords) /\ Len(q) = n /\ \A i \in 1..n : q[i] = stream[s][i]
      BY <1>0, PrefixStays
    <3>2. stream' = [stream EXCEPT ![s] = q]
      BY <2>3
    <3>3. \A i \in 1..n : i \in 1..Len(stream[s])
      BY <1>0
    <3> HIDE DEF q
    <3>4. \A i \in 1..Len(q) : q[i] = hand'[s] + i
      BY <2>1, <3>1, <3>3 DEF Numbered
    <3> QED
      BY <1>2, <2>1, <3>1, <3>2, <3>4
  <2> QED
    BY <1>4, <2>2, <2>3 DEF Leave
<1>5. ASSUME NEW s \in Sessions, Recv(s) PROVE Numbered'
  <2>1. CASE UNCHANGED <<stream, hand>>
    BY <1>1, <1>5, <2>1 DEF Recv
  <2>2. CASE stream[s] # <<>> /\ hand' = [hand EXCEPT ![s] = Head(stream[s])]
             /\ stream' = [stream EXCEPT ![s] = Tail(@)]
    <3> DEFINE q == Tail(stream[s])
    <3>1. /\ Head(stream[s]) = hand[s] + 1 /\ Len(q) = Len(stream[s]) - 1
          /\ \A i \in 1..Len(q) : q[i] = hand[s] + 1 + i
      BY <2>2, HeadIsNext
    <3>2. q \in Seq(1..MaxRecords) /\ Len(stream[s]) \in Nat
      BY <1>0, <2>2, TailStays
    <3>3. stream' = [stream EXCEPT ![s] = q]
      BY <2>2
    <3> HIDE DEF q
    <3>4. hand'[s] = hand[s] + 1 /\ \A t \in Sessions \ {s} : hand'[t] = hand[t]
      BY <1>0, <2>2, <3>1
    <3>5. UNCHANGED <<sent, client>>
      BY <1>5 DEF Recv
    <3>6. client'[s] = "up" => hand'[s] + Len(q) = sent'[s]
      BY <1>0, <3>1, <3>2, <3>4, <3>5 DEF Numbered
    <3> QED
      BY <1>2, <3>1, <3>2, <3>3, <3>4, <3>5, <3>6
  <2> QED
    BY <1>5, <2>1, <2>2 DEF Recv
<1> QED
  BY <1>1, <1>3, <1>4, <1>5, Steps DEF OpenSnapshot, Define, Encode

\* Kept, of one session: what is in its files, what was lost, which types are
\* defined, and what the recorder is done with.
KeptOf(records, snaps, gone, known, received) ==
  /\ \A i, j \in 1..Len(records) :
       i < j /\ Torn \notin {records[i], records[j]} => records[i] < records[j]
  /\ (ToSet(records) \ {Torn}) \union gone = received
  /\ known \in {"none", "outer"} => ToSet(records) \subseteq {Torn}
  /\ ToSet(snaps) \ {Torn} \subseteq received

LEMMA KeptIs ==
  /\ Kept <=> \A s \in Sessions :
       KeptOf(data[s]["process"], data[s]["snapshot"], lost[s], defs[s], Received(s))
  /\ Kept' <=> \A s \in Sessions :
       KeptOf(data'[s]["process"], data'[s]["snapshot"], lost'[s], defs'[s], Received(s)')
BY DEF Kept, KeptOf

LEMMA AppendSet ==
  ASSUME NEW S, NEW q \in Seq(S), NEW e \in S
  PROVE  /\ ToSet(Append(q, e)) = ToSet(q) \union {e}
         /\ Len(Append(q, e)) = Len(q) + 1 /\ Append(q, e)[Len(q) + 1] = e
         /\ \A i \in 1..Len(q) : Append(q, e)[i] = q[i] /\ q[i] \in ToSet(q)
BY DEF ToSet

\* In a file in order, a torn record or one that is behind all others keeps it so.
LEMMA OrderedAppend ==
  ASSUME NEW q \in Seq(1..MaxRecords \union {Torn}), NEW e \in 1..MaxRecords \union {Torn},
         \A i, j \in 1..Len(q) : i < j /\ Torn \notin {q[i], q[j]} => q[i] < q[j],
         \A k \in ToSet(q) \ {Torn} : e # Torn => k < e
  PROVE  LET r == Append(q, e)
         IN  \A i, j \in 1..Len(r) : i < j /\ Torn \notin {r[i], r[j]} => r[i] < r[j]
<1> DEFINE r == Append(q, e)
<1>1. /\ Len(r) = Len(q) + 1 /\ r[Len(q) + 1] = e
      /\ \A i \in 1..Len(q) : r[i] = q[i] /\ q[i] \in ToSet(q)
  BY AppendSet
<1>2. Len(q) \in Nat
  OBVIOUS
<1> HIDE DEF r
<1>3. ASSUME NEW i \in 1..Len(r), NEW j \in 1..Len(r), i < j, Torn \notin {r[i], r[j]}
      PROVE  r[i] < r[j]
  <2>1. i \in 1..Len(q) /\ r[i] = q[i] /\ q[i] \in ToSet(q) \ {Torn}
    BY <1>1, <1>2, <1>3
  <2>2. CASE j \in 1..Len(q)
    BY <1>1, <1>3, <2>1, <2>2
  <2>3. CASE j = Len(q) + 1
    BY <1>1, <1>3, <2>1, <2>3
  <2> QED
    BY <1>1, <1>2, <2>2, <2>3
<1> QED
  BY <1>3 DEF r

\* A record behind all those in the file keeps it in order; a torn one does.
LEMMA KeptAppend ==
  ASSUME NEW records \in Seq(1..MaxRecords \union {Torn}), NEW h \in 1..MaxRecords,
         NEW snaps, NEW gone, NEW known, MaxRecords \in Nat, Torn \notin Nat,
         KeptOf(records, snaps, gone, known, 1..(h - 1))
  PROVE  /\ known \notin {"none", "outer"} => KeptOf(Append(records, h), snaps, gone, known, 1..h)
         /\ \A other \in {known, "broken"} :
              /\ KeptOf(records, snaps, gone \union {h}, other, 1..h)
              /\ KeptOf(Append(records, Torn), snaps, gone \union {h}, other, 1..h)
<1>1. \A k \in ToSet(records) \ {Torn} : h # Torn => k < h
  BY DEF KeptOf
<1>2. /\ ToSet(Append(records, h)) = ToSet(records) \union {h} /\ h # Torn
      /\ ToSet(Append(records, Torn)) = ToSet(records) \union {Torn}
  <2>1. h \in 1..MaxRecords \union {Torn} /\ h # Torn /\ Torn \in 1..MaxRecords \union {Torn}
    OBVIOUS
  <2> QED
    BY <2>1, AppendSet
<1>3. 1..h = 1..(h - 1) \union {h}
  OBVIOUS
<1>4. known \notin {"none", "outer"} => KeptOf(Append(records, h), snaps, gone, known, 1..h)
  BY <1>1, <1>2, <1>3, OrderedAppend DEF KeptOf
<1>5. ASSUME NEW other \in {known, "broken"}
      PROVE  /\ KeptOf(records, snaps, gone \union {h}, other, 1..h)
             /\ KeptOf(Append(records, Torn), snaps, gone \union {h}, other, 1..h)
  <2>1. other \in {"none", "outer"} => ToSet(records) \subseteq {Torn}
    BY <1>5 DEF KeptOf
  <2>2. KeptOf(records, snaps, gone \union {h}, other, 1..h)
    BY <1>3, <2>1 DEF KeptOf
  <2>3. KeptOf(Append(records, Torn), snaps, gone \union {h}, other, 1..h)
    BY <1>2, <2>2, OrderedAppend DEF KeptOf
  <2> QED
    BY <2>2, <2>3
<1> QED
  BY <1>4, <1>5

LEMMA KeptStep ==
  ASSUME Staged, Numbered, Kept, Next
  PROVE  Kept'
<1> DEFINE Files == [{"process", "snapshot"} -> Seq(1..MaxRecords \union {Torn})]
<1>0. /\ hand \in [Sessions -> 0..MaxRecords]
      /\ rec \in [Sessions -> {"off", "recv", "process", "snapshot", "done"}]
      /\ defs \in [Sessions -> {"none", "outer", "all", "broken"}]
      /\ data \in [Sessions -> Files] /\ lost \in [Sessions -> SUBSET (1..MaxRecords)]
      /\ MaxRecords \in Nat /\ Torn \notin Nat
  BY SessionAssumption DEF Staged, TypeOK
<1>1. CASE UNCHANGED <<data, defs, lost>> /\ \A s \in Sessions : Received(s)' = Received(s)
  BY <1>1, KeptIs
<1>2. CASE UNCHANGED <<rec, hand, data, defs, lost>>
  BY <1>1, <1>2 DEF Received
<1>3. ASSUME NEW s \in Sessions, OpenSnapshot(s) PROVE Kept'
  <2>1. rec[s] = "off" /\ rec' = [rec EXCEPT ![s] = "recv"] /\ UNCHANGED <<hand, data, defs, lost>>
    BY <1>3 DEF OpenSnapshot, Staged, Stages
  <2> QED
    BY <1>0, <1>1, <2>1 DEF Received
<1>4. ASSUME NEW s \in Sessions, Recv(s) PROVE Kept'
  <2>1. rec[s] = "recv" /\ UNCHANGED <<data, defs, lost>>
    BY <1>4 DEF Recv
  <2>2. CASE stream[s] # <<>> /\ hand' = [hand EXCEPT ![s] = Head(stream[s])]
             /\ rec' = [rec EXCEPT ![s] = "process"]
    <3>1. hand'[s] = hand[s] + 1 /\ rec'[s] = "process"
      BY <1>0, <2>2, HeadIsNext
    <3>2. \A t \in Sessions \ {s} : hand'[t] = hand[t] /\ rec'[t] = rec[t]
      BY <1>0, <2>2
    <3>3. Received(s)' = Received(s)
      BY <1>0, <2>1, <3>1 DEF Received
    <3> QED
      BY <1>1, <2>1, <3>2, <3>3 DEF Received
  <2>3. CASE rec' = [rec EXCEPT ![s] = "done"] /\ UNCHANGED hand
    BY <1>0, <1>1, <2>1, <2>3 DEF Received
  <2> QED
    BY <1>4, <2>2, <2>3 DEF Recv
<1>5. ASSUME NEW s \in Sessions, NEW kind \in {"process", "snapshot"}, rec[s] = kind, UNCHANGED hand,
             \A t \in Sessions \ {s} : /\ data'[t] = data[t] /\ lost'[t] = lost[t]
                                       /\ defs'[t] = defs[t] /\ rec'[t] = rec[t],
             rec'[s] \in {"snapshot", "recv"},
             KeptOf(data'[s]["process"], data'[s]["snapshot"], lost'[s], defs'[s], 1..hand[s])
      PROVE  Kept'
  <2>1. Received(s)' = 1..hand[s] /\ \A t \in Sessions \ {s} : Received(t)' = Received(t)
    BY <1>5 DEF Received
  <2> QED
    BY <1>5, <2>1, KeptIs
<1>6. ASSUME NEW s \in Sessions, rec[s] = "process"
      PROVE  /\ data[s]["process"] \in Seq(1..MaxRecords \union {Torn}) /\ hand[s] \in 1..MaxRecords
             /\ KeptOf(data[s]["process"], data[s]["snapshot"], lost[s], defs[s], 1..(hand[s] - 1))
  <2>1. hand[s] # 0
    BY <1>6 DEF Staged, Stages
  <2>2. Received(s) = 1..(hand[s] - 1)
    BY <1>6 DEF Received
  <2> QED
    BY <1>0, <2>1, <2>2, KeptIs
<1>7. ASSUME NEW s \in Sessions, Define(s) PROVE Kept'
  <2>1. /\ rec[s] = "process" /\ defs[s] \in {"none", "outer"} /\ UNCHANGED hand
        /\ \A t \in Sessions \ {s} : data'[t] = data[t] /\ lost'[t] = lost[t]
                                       /\ defs'[t] = defs[t] /\ rec'[t] = rec[t]
        /\ data'[s]["snapshot"] = data[s]["snapshot"]
    BY <1>0, <1>7 DEF Define, Refuse, Lose, GoOn
  <2>2. CASE ~ full
    <3>1. /\ UNCHANGED <<rec, hand, data, lost>>
          /\ \A t \in Sessions : defs'[t] \in {"none", "outer"} => defs[t] \in {"none", "outer"}
      BY <1>7, <2>1, <2>2 DEF Define
    <3>2. \A t \in Sessions : Received(t)' = Received(t)
      BY <3>1 DEF Received
    <3> QED
      BY <3>1, <3>2, KeptIs DEF KeptOf
  <2>3. CASE full
    <3>1. /\ data'[s]["process"] \in {data[s]["process"], Append(data[s]["process"], Torn)}
          /\ lost'[s] = lost[s] \union {hand[s]}
          /\ defs'[s] \in {defs[s], "broken"} /\ rec'[s] \in {"snapshot", "recv"}
      BY <1>0, <1>7, <2>3 DEF Define, Refuse, Lose, GoOn
    <3>2. /\ KeptOf(data[s]["process"], data[s]["snapshot"], lost[s] \union {hand[s]}, defs'[s], 1..hand[s])
          /\ KeptOf(Append(data[s]["process"], Torn), data[s]["snapshot"], lost[s] \union {hand[s]},
                    defs'[s], 1..hand[s])
      <4>1. /\ data[s]["process"] \in Seq(1..MaxRecords \union {Torn}) /\ hand[s] \in 1..MaxRecords
            /\ KeptOf(data[s]["process"], data[s]["snapshot"], lost[s], defs[s], 1..(hand[s] - 1))
        BY <1>6, <2>1
      <4>2. defs'[s] \in {defs[s], "broken"}
        BY <3>1
      <4> QED
        BY <1>0, <4>1, <4>2, KeptAppend
    <3>3. KeptOf(data'[s]["process"], data'[s]["snapshot"], lost'[s], defs'[s], 1..hand[s])
      BY <2>1, <3>1, <3>2
    <3> QED
      BY <1>5, <2>1, <3>1, <3>3
  <2> QED
    BY <2>2, <2>3
<1>8. ASSUME NEW s \in Sessions, NEW kind \in {"process", "snapshot"}, Encode(s, kind)
      PROVE  Kept'
  <2>1. /\ rec[s] = kind /\ UNCHANGED <<hand, defs>> /\ rec'[s] \in {"snapshot", "recv"}
        /\ \A t \in Sessions \ {s} : data'[t] = data[t] /\ lost'[t] = lost[t] /\ rec'[t] = rec[t]
    BY <1>0, <1>8 DEF Encode, Encodes, Write, Refuse, Lose, GoOn
  <2>2. CASE kind = "process"
    <3>1. data'[s]["snapshot"] = data[s]["snapshot"] /\ defs[s] \in {"all", "broken"}
      BY <1>0, <1>8, <2>2 DEF Encode, Encodes, Write, Refuse
    <3>2. \/ data'[s]["process"] = Append(data[s]["process"], hand[s]) /\ lost'[s] = lost[s]
          \/ /\ data'[s]["process"] \in {data[s]["process"], Append(data[s]["process"], Torn)}
             /\ lost'[s] = lost[s] \union {hand[s]}
      BY <1>0, <1>8, <2>2 DEF Encode, Write, Refuse, Lose
    <3>3. /\ KeptOf(Append(data[s]["process"], hand[s]), data[s]["snapshot"], lost[s], defs[s], 1..hand[s])
          /\ KeptOf(data[s]["process"], data[s]["snapshot"], lost[s] \union {hand[s]}, defs[s], 1..hand[s])
          /\ KeptOf(Append(data[s]["process"], Torn), data[s]["snapshot"], lost[s] \union {hand[s]},
                    defs[s], 1..hand[s])
      <4>1. /\ data[s]["process"] \in Seq(1..MaxRecords \union {Torn}) /\ hand[s] \in 1..MaxRecords
            /\ KeptOf(data[s]["process"], data[s]["snapshot"], lost[s], defs[s], 1..(hand[s] - 1))
        BY <1>6, <2>1, <2>2
      <4>2. defs[s] \in {defs[s], "broken"} /\ defs[s] \notin {"none", "outer"}
        BY <3>1
      <4> QED
        BY <1>0, <4>1, <4>2, KeptAppend
    <3>4. KeptOf(data'[s]["process"], data'[s]["snapshot"], lost'[s], defs'[s], 1..hand[s])
      BY <2>1, <3>1, <3>2, <3>3
    <3> QED
      BY <1>5, <2>1, <3>4
  <2>3. CASE kind = "snapshot"
    <3> DEFINE records == data[s]["process"]
               snaps == data[s]["snapshot"]
               h == hand[s]
    <3>1. Received(s) = 1..h
      BY <2>1, <2>3 DEF Received
    <3>2. data'[s]["process"] = records /\ lost'[s] = lost[s]
      BY <1>0, <1>8, <2>3 DEF Encode, Write, Refuse
    <3>3. data'[s]["snapshot"] \in {snaps, Append(snaps, h), Append(snaps, Torn)}
      BY <1>0, <1>8, <2>3 DEF Encode, Write, Refuse
    <3>4. snaps \in Seq(1..MaxRecords \union {Torn}) /\ h \in 1..MaxRecords /\ h \in 1..h
      BY <1>0, <2>1, <2>3 DEF Staged, Stages
    <3>5. KeptOf(records, snaps, lost[s], defs[s], 1..h)
      BY <3>1, KeptIs
    <3> HIDE DEF records, snaps, h
    <3>6. /\ KeptOf(records, Append(snaps, h), lost[s], defs[s], 1..h)
          /\ KeptOf(records, Append(snaps, Torn), lost[s], defs[s], 1..h)
      BY <3>4, <3>5, AppendSet DEF KeptOf
    <3>7. KeptOf(data'[s]["process"], data'[s]["snapshot"], lost'[s], defs[s], 1..h)
      BY <3>2, <3>3, <3>5, <3>6
    <3> QED
      BY <1>5, <2>1, <3>7 DEF h
  <2> QED
    BY <2>2, <2>3
<1> QED
  BY <1>2, <1>3, <1>4, <1>7, <1>8, Steps DEF Send, Leave

LEMMA InitIInv == Init => IInv
  <1>1. ASSUME Init PROVE Numbered /\ Kept
    <2>1. \A s \in Sessions : stream[s] = <<>> /\ hand[s] = 0 /\ sent[s] = 0 /\ rec[s] = "off"
      BY <1>1 DEF Init
    <2>2. \A s \in Sessions :
            data[s]["process"] = <<>> /\ data[s]["snapshot"] = <<>> /\ lost[s] = {}
      BY <1>1 DEF Init
    <2>3. ToSet(<<>>) = {} /\ Len(<<>>) = 0
      BY DEF ToSet
    <2> QED
      BY <2>1, <2>2, <2>3 DEF Numbered, Kept, Received
  <1> QED
    BY <1>1, InitStaged DEF IInv, Staged

LEMMA NextIInv == IInv /\ [Next]_vars => IInv'
  <1>1. IInv /\ Next => IInv'
    BY NextStaged, NumberedStep, KeptStep DEF IInv, Staged
  <1>2. IInv /\ UNCHANGED vars => IInv'
    <2> SUFFICES ASSUME IInv, UNCHANGED vars PROVE IInv'
      OBVIOUS
    <2>1. Staged'
      BY NextStaged DEF IInv, Staged
    <2>2. Numbered' /\ Kept'
      BY DEF IInv, Numbered, Kept, Received, vars
    <2> QED
      BY <2>1, <2>2 DEF IInv, Staged
  <1> QED
    BY <1>1, <1>2
-----------------------------------------------------------------------------
(* The pages                                                                 *)

\* A nonempty set of numbers has a minimum.
LEMMA MinIsLeast ==
  ASSUME NEW I \in SUBSET Nat, I # {}
  PROVE  Min(I) \in I /\ \A k \in I : Min(I) <= k
<1>1. IsWellFoundedOn({ss \in Nat \X Nat : ss[1] < ss[2]}, Nat)
  BY NatLessThanWellFounded DEF OpToRel
<1>2. PICK x \in I : \A y \in I : ~ (<<y, x>> \in {ss \in Nat \X Nat : ss[1] < ss[2]})
  BY <1>1, WFMin
<1>3. ASSUME NEW y \in I PROVE x <= y
  <2>1. x \in Nat /\ y \in Nat /\ <<y, x>> \in Nat \X Nat
    OBVIOUS
  <2>2. ~ (<<y, x>>[1] < <<y, x>>[2])
    BY <1>2, <2>1
  <2> QED
    BY <2>1, <2>2
<1> QED
  BY <1>3 DEF Min

\* A page is what stands before the first torn record.
LEMMA PageFacts ==
  ASSUME NEW S, NEW q \in Seq(S \cup {Torn})
  PROVE  \E n \in 0..Len(q) :
           /\ Len(Page(q)) = n /\ \A i \in 1..n : Page(q)[i] = q[i] /\ q[i] # Torn
           /\ ToSet(Page(q)) = {q[i] : i \in 1..n}
<1> DEFINE I == {i \in 1..Len(q) : q[i] = Torn}
<1>1. CASE Whole(q)
  BY <1>1 DEF Page, Whole, ToSet
<1>2. CASE ~ Whole(q)
  <2>1. I # {} /\ I \in SUBSET Nat
    BY <1>2 DEF Whole, ToSet
  <2>2. Min(I) \in I /\ \A k \in I : Min(I) <= k
    BY <2>1, MinIsLeast
  <2>3. SelectInSeq(q, LAMBDA k : k = Torn) = Min(I)
    BY <2>1 DEF SelectInSeq
  <2> DEFINE n == Min(I) - 1
  <2>31. Page(q) = SubSeq(q, 1, SelectInSeq(q, LAMBDA k : k = Torn) - 1)
    BY <1>2, Zenon DEF Page
  <2>4. n \in 0..Len(q) /\ Page(q) = SubSeq(q, 1, n)
    <3>1. Page(q) = SubSeq(q, 1, n)
      BY <2>3, <2>31, Zenon
    <3> QED BY <2>2, <3>1
  <2>5. \A i \in 1..n : q[i] # Torn
    BY <2>2
  <2> HIDE DEF n
  <2>6. Len(Page(q)) = n /\ \A i \in 1..n : Page(q)[i] = q[i]
    BY <2>4
  <2>7. ToSet(Page(q)) = {q[i] : i \in 1..n}
    <3>1. DOMAIN Page(q) = 1..n
      BY <2>4
    <3> QED BY <2>6, <3>1 DEF ToSet
  <2> QED
    BY <2>4, <2>5, <2>6, <2>7
<1> QED
  BY <1>1, <1>2

\* Nothing is decoded, or what stands before the first torn record.
LEMMA DecodedFacts ==
  ASSUME TypeOK, NEW s \in Sessions
  PROVE  \E n \in 0..Len(data[s]["process"]) :
           /\ Len(Decoded(s)) = n
           /\ \A i \in 1..n : Decoded(s)[i] = data[s]["process"][i] /\ data[s]["process"][i] # Torn
           /\ ToSet(Decoded(s)) = {data[s]["process"][i] : i \in 1..n}
<1> DEFINE records == data[s]["process"]
<1>1. records \in Seq(1..MaxRecords \union {Torn})
  BY DEF TypeOK
<1>2. CASE defs[s] = "broken"
  <2>1. Decoded(s) = <<>> /\ Len(<<>>) = 0 /\ ToSet(<<>>) = {} /\ 0 \in 0..Len(records)
    BY <1>1, <1>2 DEF Decoded, ToSet
  <2> QED
    BY <2>1
<1>3. CASE defs[s] # "broken"
  <2>1. Decoded(s) = Page(records)
    BY <1>3 DEF Decoded
  <2> QED
    BY <1>1, <2>1, PageFacts
<1> QED
  BY <1>2, <1>3

LEMMA PagesFromKept ==
  ASSUME TypeOK, Kept
  PROVE  RecordsInOrder /\ SnapshotsHaveRecords
<1> SUFFICES ASSUME NEW s \in Sessions
             PROVE  /\ \A i, j \in 1..Len(Decoded(s)) : i < j => Decoded(s)[i] < Decoded(s)[j]
                    /\ ToSet(Decoded(s)) \union Spoilt(s) = Received(s)
                    /\ ToSet(SnapshotPage(s)) \subseteq Received(s)
  BY DEF RecordsInOrder, SnapshotsHaveRecords, LinePage
<1> DEFINE records == data[s]["process"]
           snaps == data[s]["snapshot"]
<1>1. /\ records \in Seq(1..MaxRecords \union {Torn}) /\ snaps \in Seq(1..MaxRecords \union {Torn})
  BY DEF TypeOK
<1>2. KeptOf(records, snaps, lost[s], defs[s], Received(s))
  BY KeptIs
<1>3. PICK n \in 0..Len(records) :
        /\ Len(Decoded(s)) = n
        /\ \A i \in 1..n : Decoded(s)[i] = records[i] /\ records[i] # Torn
        /\ ToSet(Decoded(s)) = {records[i] : i \in 1..n}
  BY DecodedFacts
<1>4. PICK m \in 0..Len(snaps) :
        /\ \A i \in 1..m : snaps[i] # Torn
        /\ ToSet(SnapshotPage(s)) = {snaps[i] : i \in 1..m}
  BY <1>1, PageFacts DEF SnapshotPage
<1>5. Spoilt(s) = lost[s] \union (ToSet(records) \ (ToSet(Decoded(s)) \union {Torn}))
  BY DEF Spoilt
<1> HIDE DEF records, snaps
<1>6. \A i, j \in 1..Len(Decoded(s)) : i < j => Decoded(s)[i] < Decoded(s)[j]
  <2> SUFFICES ASSUME NEW i \in 1..Len(Decoded(s)), NEW j \in 1..Len(Decoded(s)), i < j
               PROVE  Decoded(s)[i] < Decoded(s)[j]
    OBVIOUS
  <2>1. i \in 1..Len(records) /\ j \in 1..Len(records) /\ i \in 1..n /\ j \in 1..n
    BY <1>1, <1>3
  <2>2. Decoded(s)[i] = records[i] /\ Decoded(s)[j] = records[j]
        /\ Torn \notin {records[i], records[j]}
    BY <1>3, <2>1
  <2> QED
    BY <1>2, <2>1, <2>2 DEF KeptOf
<1>7. ToSet(Decoded(s)) \subseteq ToSet(records) \ {Torn}
  BY <1>1, <1>3 DEF ToSet
<1>8. ToSet(SnapshotPage(s)) \subseteq ToSet(snaps) \ {Torn}
  BY <1>1, <1>4, SMTT(30) DEF ToSet
<1> QED
  BY <1>2, <1>5, <1>6, <1>7, <1>8 DEF KeptOf

-----------------------------------------------------------------------------
\* Handler and recorder keep to their stages, and what the recorder has received is
\* in the files or was lost to the disk.
THEOREM SessionInvariance == Spec => []IInv
  BY InitIInv, NextIInv, PTL DEF Spec

\* No handle outlives its handler and its recorder but the process file's where
\* the snapshot file did not open (topidchart/handlers.go:49-55).
THEOREM HandlesOwned == Spec => []HandlesAreOwned
  <1>1. IInv => HandlesAreOwned
    BY DEF IInv, TypeOK, Stages, HandlesAreOwned, Kinds
  <1> QED BY <1>1, SessionInvariance, PTL

\* The line page takes the records in the order they were sent and leaves out none
\* but those without processes and those the disk spoilt, the first definitions of
\* the file included (topidchart/handlers.go:57-74, chartserver.go:181-190).
THEOREM PagesInOrder == Spec => []RecordsInOrder
  <1>1. IInv => RecordsInOrder
    BY PagesFromKept DEF IInv
  <1> QED BY <1>1, SessionInvariance, PTL

\* Every snapshot shown has its time on the line page, but for records without
\* processes and those the disk spoilt (topidchart/handlers.go:69-73,
\* chartserver.go:189-190).
THEOREM SnapshotsAreOnTheAxis == Spec => []SnapshotsHaveRecords
  <1>1. IInv => SnapshotsHaveRecords
    BY PagesFromKept DEF IInv
  <1> QED BY <1>1, SessionInvariance, PTL
=============================================================================
