--------------------------- MODULE RecorderProofs ---------------------------
(***************************************************************************)
(* The recorder's log is a prefix of what tail wrote, and all of it where  *)
(* nothing failed: Stages and Queued are inductive for every number of     *)
(* clients and pieces, and any room in pipe and stream.                    *)
(***************************************************************************)
EXTENDS Recorder, TLAPS

\* What the steps of a queue do to a run of numbers in it.
LEMMA Appended ==
  ASSUME NEW S, NEW q \in Seq(S), NEW e \in S
  PROVE  Append(q, e) \in Seq(S) /\ Len(Append(q, e)) = Len(q) + 1
  OBVIOUS

LEMMA AppendedRun ==
  ASSUME NEW S, NEW q \in Seq(S), NEW e \in S, NEW n \in Nat, From(q, n), e = n + Len(q) + 1
  PROVE  From(Append(q, e), n)
  BY DEF From

LEMMA Taken ==
  ASSUME NEW S, NEW q \in Seq(S), q # <<>>
  PROVE  /\ Head(q) \in S /\ Tail(q) \in Seq(S)
         /\ Len(q) \in Nat \ {0} /\ Len(Tail(q)) = Len(q) - 1
  OBVIOUS

LEMMA TakenRun ==
  ASSUME NEW S, NEW q \in Seq(S), q # <<>>, NEW n \in Nat, From(q, n)
  PROVE  Head(q) = n + 1 /\ From(Tail(q), n + 1)
  <1>1. Head(q) = q[1] /\ 1 \in 1..Len(q)
    OBVIOUS
  <1>2. \A i \in 1..Len(Tail(q)) : Tail(q)[i] = q[i + 1] /\ i + 1 \in 1..Len(q)
    OBVIOUS
  <1> QED BY <1>1, <1>2 DEF From

LEMMA CutRun ==
  ASSUME NEW S, NEW q \in Seq(S), NEW n \in Nat, NEW k \in 0..Len(q)
  PROVE  /\ SubSeq(q, 1, k) \in Seq(S) /\ Len(SubSeq(q, 1, k)) = k
         /\ From(q, n) => From(SubSeq(q, 1, k), n)
  BY DEF From

LEMMA EmptyRun == ASSUME NEW n \in Nat PROVE From(<<>>, n) /\ Len(<<>>) = 0
  BY DEF From

LEMMA InitIInv == Init => IInv
  <1> SUFFICES ASSUME Init PROVE IInv
    OBVIOUS
  <1>1. TypeOK
    <2>1. <<>> \in Seq(Nat) /\ <<>> \in Seq(Nat \union {Torn})
      OBVIOUS
    <2> QED BY <2>1 DEF Init, TypeOK
  <1>2. Stages
    BY DEF Init, Stages, StageOf, Over
  <1>3. Queued
    <2>1. From(<<>>, 0) /\ From(<<>>, 0 + 0) /\ Len(<<>>) = 0
      BY EmptyRun
    <2> QED BY <2>1 DEF Init, Queued, QueueOf
  <1>4. LogIsPrefix
    BY DEF Init, LogIsPrefix
  <1> QED BY <1>1, <1>2, <1>3, <1>4 DEF IInv

LEMMA NextIInv == IInv /\ [Next]_vars => IInv'
  <1> SUFFICES ASSUME IInv, [Next]_vars PROVE IInv'
    OBVIOUS
  <1> USE RecorderAssumption DEF IInv
  <1>1. CASE UNCHANGED vars
    BY <1>1 DEF vars, TypeOK, Stages, StageOf, Over, Queued, QueueOf, LogIsPrefix
  <1>2. CASE Disk
    BY <1>2 DEF Disk, TypeOK, Stages, StageOf, Over, Queued, QueueOf, LogIsPrefix
  <1>3. ASSUME NEW c \in Clients, Collect(c) PROVE IInv'
    <2> USE <1>3 DEF Collect
    <2>1. TypeOK'
      BY DEF TypeOK
    <2>2. Stages'
      BY DEF TypeOK, Stages, StageOf, Over
    <2>3. Queued'
      BY DEF TypeOK, Stages, StageOf, Over, Queued, QueueOf
    <2>4. LogIsPrefix'
      BY DEF TypeOK, LogIsPrefix
    <2> QED BY <2>1, <2>2, <2>3, <2>4
  <1>4. ASSUME NEW c \in Clients, OpenFile(c) PROVE IInv'
    <2>1. /\ handler[c] = "open"
          /\ handler' = [handler EXCEPT ![c] = "reply"]
          /\ open' = [open EXCEPT ![c] = TRUE]
          /\ copy' = [copy EXCEPT ![c] = "copying"]
          /\ UNCHANGED <<pc, stopped, tail, copier, wrote, pipe, link, stream, log, full>>
      BY <1>4 DEF OpenFile, client
    <2>2. copy[c] = "none"
      BY <2>1 DEF TypeOK, Stages, StageOf
    <2>3. TypeOK'
      BY <2>1 DEF TypeOK
    <2>4. Stages'
      BY <2>1 DEF TypeOK, Stages, StageOf, Over
    <2>5. Queued'
      BY <2>1, <2>2 DEF TypeOK, Queued, QueueOf
    <2>6. LogIsPrefix'
      BY <2>1, <2>2 DEF TypeOK, LogIsPrefix
    <2> QED BY <2>3, <2>4, <2>5, <2>6
  <1>5. ASSUME NEW c \in Clients, Fails(c) PROVE IInv'
    <2> USE <1>5 DEF Fails, client
    <2>1. TypeOK'
      BY DEF TypeOK
    <2>2. Stages'
      BY SMTT(90) DEF TypeOK, Stages, StageOf, Over
    <2>3. Queued'
      BY DEF TypeOK, Stages, StageOf, Over, Queued, QueueOf
    <2>4. LogIsPrefix'
      BY DEF TypeOK, LogIsPrefix
    <2> QED BY <2>1, <2>2, <2>3, <2>4
  <1>6. ASSUME NEW c \in Clients, Reply(c) PROVE IInv'
    <2> USE <1>6 DEF Reply, client
    <2>1. TypeOK'
      BY DEF TypeOK
    <2>2. Stages'
      BY DEF TypeOK, Stages, StageOf, Over
    <2>3. Queued'
      BY DEF TypeOK, Stages, StageOf, Over, Queued, QueueOf
    <2>4. LogIsPrefix'
      BY DEF TypeOK, LogIsPrefix
    <2> QED BY <2>1, <2>2, <2>3, <2>4
  <1>7. ASSUME NEW c \in Clients, Discover(c) PROVE IInv'
    <2> USE <1>7 DEF Discover, Return
    <2>1. TypeOK'
      BY ZenonT(60) DEF TypeOK
    <2>2. Stages'
      <3>1. \A d \in Clients \ {c} :
              pc'[d] = pc[d] /\ link'[d] = link[d] /\ handler'[d] = handler[d]
        BY DEF TypeOK
      <3>2. /\ UNCHANGED <<tail, copier, wrote, pipe, stream, copy>>
            /\ pc'[c] \in {"answer", "failed"} /\ handler'[c] \in {"idle", "open"}
            /\ link'[c] = IF pc'[c] = "answer" THEN "up" ELSE "none"
        BY DEF TypeOK, Stages, StageOf
      <3>3. /\ tail[c] = "none" /\ copier[c] = "none" /\ wrote[c] = 0 /\ pipe[c] = <<>>
            /\ copy[c] = "none"
        BY DEF TypeOK, Stages, StageOf
      <3>4. StageOf(c)'
        BY <3>2, <3>3 DEF StageOf, Over
      <3>5. \A d \in Clients \ {c} : StageOf(d)'
        BY <3>1, <3>2 DEF Stages, StageOf, Over
      <3> QED BY <3>4, <3>5 DEF Stages
    <2>3. Queued'
      <3>1. wrote[c] = 0 /\ pipe[c] = <<>> /\ link[c] = "none"
        BY DEF Stages, StageOf
      <3>2. /\ UNCHANGED <<wrote, pipe, stream, copy, log, copier>>
            /\ \A d \in Clients \ {c} : pc'[d] = pc[d] /\ link'[d] = link[d]
        BY DEF TypeOK
      <3>3. \A d \in Clients \ {c} : QueueOf(d) => QueueOf(d)'
        BY <3>2 DEF QueueOf
      <3>4. QueueOf(c) => QueueOf(c)'
        <4>1. Len(log[c]) \in Nat /\ Len(stream[c]) \in Nat
          BY DEF TypeOK
        <4>2. Len(log[c]) + Len(stream[c]) \in Nat
          BY DEF TypeOK
        <4>3. From(pipe[c], Len(log[c]) + Len(stream[c])) /\ Len(pipe[c]) = 0
          BY <3>1, <4>2, EmptyRun
        <4>4. ~ (link'[c] = "closed")
          BY DEF TypeOK, Stages, StageOf
        <4> QED BY <3>1, <3>2, <4>3, <4>4 DEF QueueOf, TypeOK
      <3> QED BY <3>2, <3>3, <3>4 DEF Queued
    <2>4. LogIsPrefix'
      BY DEF TypeOK, LogIsPrefix
    <2> QED BY <2>1, <2>2, <2>3, <2>4
  <1>8. ASSUME NEW c \in Clients, Answer(c) PROVE IInv'
    <2> USE <1>8 DEF Answer, Return, server
    <2>1. TypeOK'
      BY ZenonT(60) DEF TypeOK
    <2>2. Stages'
      BY DEF TypeOK, Stages, StageOf, Over
    <2>3. Queued'
      BY DEF TypeOK, Stages, StageOf, Over, Queued, QueueOf
    <2>4. LogIsPrefix'
      BY DEF TypeOK, LogIsPrefix
    <2> QED BY <2>1, <2>2, <2>3, <2>4
  <1>9. ASSUME NEW c \in Clients, Run(c) PROVE IInv'
    <2> USE <1>9 DEF Run, Started, server
    <2>1. TypeOK'
      BY ZenonT(60) DEF TypeOK
    <2>2. Stages'
      BY DEF TypeOK, Stages, StageOf, Over
    <2>3. Queued'
      BY SMTT(90) DEF TypeOK, Stages, StageOf, Over, Queued, QueueOf
    <2>4. LogIsPrefix'
      BY DEF TypeOK, LogIsPrefix
    <2> QED BY <2>1, <2>2, <2>3, <2>4
  <1>10. ASSUME NEW c \in Clients, Wait(c) PROVE IInv'
    <2> USE <1>10 DEF Wait, server
    <2>1. TypeOK'
      BY DEF TypeOK
    <2>2. Stages'
      BY DEF TypeOK, Stages, StageOf, Over
    <2>3. Queued'
      BY DEF TypeOK, Stages, StageOf, Over, Queued, QueueOf
    <2>4. LogIsPrefix'
      BY DEF TypeOK, LogIsPrefix
    <2> QED BY <2>1, <2>2, <2>3, <2>4
  <1>11. ASSUME NEW c \in Clients, Start(c) PROVE IInv'
    <2> USE <1>11 DEF Start, Started, Return, server
    <2>1. TypeOK'
      BY ZenonT(60) DEF TypeOK
    <2>2. Stages'
      BY DEF TypeOK, Stages, StageOf, Over
    <2>3. Queued'
      <3>1. link[c] \in {"up", "broken"} /\ link'[c] # "up" /\ pipe[c] \in Seq(Nat)
        BY DEF TypeOK, Stages, StageOf
      <3>2. /\ UNCHANGED <<wrote, pipe, stream, copy, log>>
            /\ \A d \in Clients \ {c} :
                 pc'[d] = pc[d] /\ link'[d] = link[d] /\ copier'[d] = copier[d]
        BY DEF TypeOK
      <3>3. \A d \in Clients \ {c} : QueueOf(d) => QueueOf(d)'
        BY <3>2 DEF QueueOf
      <3>4. QueueOf(c) => QueueOf(c)'
        <4>1. tail[c] = "none" => pipe[c] = <<>>
          BY DEF Stages, StageOf
        <4>2. tail[c] # "none" => copier[c] = "ended"
          BY DEF Stages, StageOf, TypeOK
        <4>3. QueueOf(c) /\ link[c] = "up" => pipe[c] = <<>>
          BY <4>1, <4>2 DEF QueueOf
        <4>4. Len(log[c]) \in Nat /\ Len(stream[c]) \in Nat /\ Len(<<>>) = 0
          BY EmptyRun DEF TypeOK
        <4>5. QueueOf(c) /\ link[c] = "up" => wrote[c] = Len(log[c]) + Len(stream[c])
          <5>1. ASSUME QueueOf(c), link[c] = "up" PROVE wrote[c] = Len(log[c]) + Len(stream[c]) + 0
            BY <4>3, <4>4, <5>1 DEF QueueOf
          <5> QED BY <5>1 DEF TypeOK
        <4>6. link'[c] = "closed" => link[c] = "up"
          BY <3>1 DEF TypeOK
        <4> QED BY <3>1, <3>2, <4>5, <4>6 DEF QueueOf
      <3> QED BY <3>2, <3>3, <3>4 DEF Queued
    <2>4. LogIsPrefix'
      BY DEF TypeOK, LogIsPrefix
    <2> QED BY <2>1, <2>2, <2>3, <2>4
  <1>12. ASSUME NEW c \in Clients, Stop(c) PROVE IInv'
    <2> USE <1>12 DEF Stop, Return, server, Over
    <2>1. TypeOK'
      BY ZenonT(60) DEF TypeOK
    <2>2. Stages'
      BY DEF TypeOK, Stages, StageOf, Over
    <2>3. Queued'
      <3>1. /\ UNCHANGED <<wrote, pipe, stream, copy, log, copier>>
            /\ \A d \in Clients \ {c} : pc'[d] = pc[d] /\ link'[d] = link[d]
        BY DEF TypeOK
      <3>2. /\ link'[c] = "up" => link[c] = "up"
            /\ link'[c] = "closed" /\ pc'[c] = "failed" => link[c] = "closed" /\ pc[c] = "failed"
        BY DEF TypeOK
      <3>3. \A d \in Clients : QueueOf(d) => QueueOf(d)'
        BY <3>1, <3>2 DEF QueueOf
      <3> QED BY <3>1, <3>3 DEF Queued
    <2>4. LogIsPrefix'
      BY DEF TypeOK, LogIsPrefix
    <2> QED BY <2>1, <2>2, <2>3, <2>4
  <1>13. ASSUME NEW c \in Clients, TailWrites(c) PROVE IInv'
    <2>1. CASE copier[c] = "ended"
      <3>1. /\ UNCHANGED <<wrote, pipe, pc, stopped, copier, link, stream, handler, copy, open, log, full>>
            /\ tail[c] = "running" /\ tail' = [tail EXCEPT ![c] = "exited"]
        BY <1>13, <2>1 DEF TailWrites, server
      <3>2. TypeOK' /\ Stages'
        BY <2>1, <3>1 DEF TypeOK, Stages, StageOf, Over
      <3>3. Queued' /\ LogIsPrefix'
        BY <3>1 DEF Queued, QueueOf, LogIsPrefix
      <3> QED BY <3>2, <3>3
    <2>2. CASE copier[c] # "ended"
      <3>1. /\ UNCHANGED <<tail, pc, stopped, copier, link, stream, handler, copy, open, log, full>>
            /\ tail[c] = "running"
            /\ wrote' = [wrote EXCEPT ![c] = @ + 1]
            /\ pipe' = [pipe EXCEPT ![c] = Append(@, wrote[c] + 1)]
        BY <1>13, <2>2 DEF TailWrites, server
      <3>2. /\ wrote[c] \in Nat /\ wrote[c] + 1 \in Nat /\ pipe[c] \in Seq(Nat)
            /\ Len(log[c]) \in Nat /\ Len(stream[c]) \in Nat /\ Len(pipe[c]) \in Nat
        BY DEF TypeOK
      <3>3. /\ Append(pipe[c], wrote[c] + 1) \in Seq(Nat)
            /\ Len(Append(pipe[c], wrote[c] + 1)) = Len(pipe[c]) + 1
        BY <3>2, Appended
      <3>4. TypeOK'
        BY <3>1, <3>2, <3>3 DEF TypeOK
      <3>5. Stages'
        <4>1. \A d \in Clients \ {c} : wrote'[d] = wrote[d] /\ pipe'[d] = pipe[d]
          BY <3>1 DEF TypeOK
        <4> QED BY <3>1, <4>1 DEF Stages, StageOf, Over
      <3>6. LogIsPrefix'
        <4>1. \A d \in Clients : \A i \in 1..Len(log[d]) : i <= wrote[d] => i <= wrote'[d]
          BY <3>1 DEF TypeOK
        <4> QED BY <3>1, <4>1 DEF LogIsPrefix
      <3>7. \A d \in Clients \ {c} : QueueOf(d) => QueueOf(d)'
        BY <3>1 DEF TypeOK, QueueOf
      <3>8. QueueOf(c) => QueueOf(c)'
        <4>1. wrote'[c] = wrote[c] + 1 /\ pipe'[c] = Append(pipe[c], wrote[c] + 1)
          BY <3>1 DEF TypeOK
        <4>2. ~ (link[c] = "closed" /\ pc[c] = "failed")
          BY <3>1 DEF Stages, StageOf
        <4>3. ASSUME QueueOf(c), link[c] = "up"
              PROVE  /\ From(pipe'[c], Len(log[c]) + Len(stream[c]))
                     /\ wrote'[c] = Len(log[c]) + Len(stream[c]) + Len(pipe'[c])
          <5> DEFINE sent == Len(log[c]) + Len(stream[c])
          <5>1. sent \in Nat
            BY DEF TypeOK
          <5>2. From(pipe[c], sent) /\ wrote[c] = sent + Len(pipe[c])
            BY <4>3 DEF QueueOf
          <5>3. wrote[c] + 1 = sent + Len(pipe[c]) + 1
            BY <5>2
          <5> HIDE DEF sent
          <5>4. From(Append(pipe[c], wrote[c] + 1), sent)
            BY <3>2, <5>1, <5>2, <5>3, AppendedRun
          <5>5. wrote'[c] = sent + Len(pipe'[c])
            BY <3>2, <3>3, <4>1, <5>1, <5>2
          <5> QED BY <4>1, <5>4, <5>5 DEF sent
        <4>4. QueueOf(c) => Len(log[c]) + Len(stream[c]) <= wrote'[c]
          BY <4>1 DEF QueueOf, TypeOK
        <4> QED BY <2>2, <3>1, <4>2, <4>3, <4>4 DEF QueueOf
      <3> QED BY <3>1, <3>4, <3>5, <3>6, <3>7, <3>8 DEF Queued
    <2> QED BY <2>1, <2>2
  <1>14. ASSUME NEW c \in Clients, Copies(c) PROVE IInv'
    <2>1. CASE /\ pipe[c] # <<>> /\ link[c] = "up"
               /\ stream' = [stream EXCEPT ![c] = Append(@, Head(pipe[c]))]
               /\ pipe' = [pipe EXCEPT ![c] = Tail(@)]
               /\ UNCHANGED copier
      <3>1. /\ UNCHANGED <<pc, stopped, tail, wrote, link, handler, copy, open, log, full>>
            /\ copier[c] = "copying"
        BY <1>14 DEF Copies, server
      <3>2. /\ wrote[c] \in Nat /\ stream[c] \in Seq(Nat) /\ pipe[c] \in Seq(Nat)
            /\ Len(log[c]) \in Nat /\ Len(stream[c]) \in Nat
        BY DEF TypeOK
      <3>3. /\ Head(pipe[c]) \in Nat /\ Tail(pipe[c]) \in Seq(Nat)
            /\ Len(pipe[c]) \in Nat \ {0} /\ Len(Tail(pipe[c])) = Len(pipe[c]) - 1
        BY <2>1, <3>2, Taken
      <3>4. /\ Append(stream[c], Head(pipe[c])) \in Seq(Nat)
            /\ Len(Append(stream[c], Head(pipe[c]))) = Len(stream[c]) + 1
        BY <3>2, <3>3, Appended
      <3>5. TypeOK'
        BY <2>1, <3>1, <3>3, <3>4 DEF TypeOK
      <3>6. Stages'
        <4>1. copy[c] # "ended"
          BY <2>1 DEF Stages, StageOf
        <4>2. tail[c] # "none"
          BY <3>1 DEF Stages, StageOf
        <4>3. \A d \in Clients \ {c} : stream'[d] = stream[d] /\ pipe'[d] = pipe[d]
          BY <2>1 DEF TypeOK
        <4> QED BY <2>1, <3>1, <4>1, <4>2, <4>3 DEF Stages, StageOf, Over
      <3>7. LogIsPrefix'
        BY <3>1 DEF LogIsPrefix
      <3>8. \A d \in Clients \ {c} : QueueOf(d) => QueueOf(d)'
        BY <2>1, <3>1 DEF TypeOK, QueueOf
      <3>9. QueueOf(c) => QueueOf(c)'
        <4> SUFFICES ASSUME QueueOf(c) PROVE QueueOf(c)'
          OBVIOUS
        <4> DEFINE n == Len(log[c])
                   sent == Len(log[c]) + Len(stream[c])
        <4>1. /\ stream'[c] = Append(stream[c], Head(pipe[c]))
              /\ pipe'[c] = Tail(pipe[c]) /\ UNCHANGED <<log, wrote, link, pc, copier>>
          BY <2>1, <3>1 DEF TypeOK
        <4>2. n \in Nat /\ sent \in Nat /\ sent = n + Len(stream[c])
          BY DEF TypeOK
        <4>3. From(log[c], 0) /\ From(stream[c], n) /\ From(pipe[c], sent) /\ wrote[c] = sent + Len(pipe[c])
          BY <2>1 DEF QueueOf
        <4> HIDE DEF n, sent
        <4>4. Head(pipe[c]) = sent + 1 /\ From(Tail(pipe[c]), sent + 1)
          BY <2>1, <3>2, <4>2, <4>3, TakenRun
        <4>5. From(Append(stream[c], Head(pipe[c])), n)
          BY <3>2, <3>3, <4>2, <4>3, <4>4, AppendedRun
        <4>6. n + Len(stream'[c]) = sent + 1
          BY <3>2, <3>4, <4>1, <4>2
        <4>7. wrote[c] = sent + 1 + Len(pipe'[c]) /\ sent + 1 <= wrote[c]
          BY <3>3, <4>1, <4>2, <4>3 DEF TypeOK
        <4>8. copier[c] # "ended" /\ link[c] = "up"
          BY <2>1, <3>1
        <4> QED BY <4>1, <4>3, <4>4, <4>5, <4>6, <4>7, <4>8 DEF QueueOf, n
      <3> QED BY <3>1, <3>5, <3>6, <3>7, <3>8, <3>9 DEF Queued
    <2>2. CASE /\ copier' = [copier EXCEPT ![c] = "ended"]
               /\ UNCHANGED <<pipe, stream>>
               /\ \/ pipe[c] # <<>> /\ link[c] # "up"
                  \/ pipe[c] = <<>> /\ tail[c] = "exited"
      <3>1. /\ UNCHANGED <<pc, stopped, tail, wrote, link, handler, copy, open, log, full>>
            /\ copier[c] = "copying"
        BY <1>14 DEF Copies, server
      <3>2. TypeOK' /\ Stages'
        BY <2>2, <3>1, SMTT(30) DEF TypeOK, Stages, StageOf, Over
      <3>3. Queued' /\ LogIsPrefix'
        BY <2>2, <3>1, SMTT(30) DEF TypeOK, Queued, QueueOf, LogIsPrefix
      <3> QED BY <3>2, <3>3
    <2> QED BY <1>14, <2>1, <2>2 DEF Copies
  <1>15. ASSUME NEW c \in Clients, Break(c) PROVE IInv'
    <2>1. PICK k \in 0..Len(stream[c]) : stream' = [stream EXCEPT ![c] = SubSeq(@, 1, k)]
      BY <1>15 DEF Break
    <2>2. /\ UNCHANGED <<pc, stopped, tail, copier, wrote, pipe, handler, copy, open, log, full>>
          /\ link[c] = "up" /\ link' = [link EXCEPT ![c] = "broken"]
      BY <1>15 DEF Break, server
    <2>3. /\ SubSeq(stream[c], 1, k) \in Seq(Nat) /\ Len(SubSeq(stream[c], 1, k)) = k
          /\ From(stream[c], Len(log[c])) => From(SubSeq(stream[c], 1, k), Len(log[c]))
      <3>1. stream[c] \in Seq(Nat) /\ Len(log[c]) \in Nat
        BY DEF TypeOK
      <3> QED BY <3>1, CutRun
    <2>4. /\ stream'[c] = SubSeq(stream[c], 1, k) /\ link'[c] = "broken"
          /\ \A d \in Clients \ {c} : stream'[d] = stream[d] /\ link'[d] = link[d]
      BY <2>1, <2>2 DEF TypeOK
    <2>5. TypeOK'
      BY <2>1, <2>2, <2>3 DEF TypeOK
    <2>6. Stages'
      <3>1. copy[c] # "ended"
        BY <2>2 DEF Stages, StageOf
      <3> QED BY <2>2, <2>4, <3>1 DEF Stages, StageOf, Over
    <2>7. LogIsPrefix'
      BY <2>2 DEF LogIsPrefix
    <2>8. Queued'
      <3>1. \A d \in Clients \ {c} : QueueOf(d) => QueueOf(d)'
        BY <2>2, <2>4 DEF QueueOf
      <3>2. QueueOf(c) => QueueOf(c)'
        <4>1. QueueOf(c) => Len(log[c]) + Len(stream'[c]) <= wrote[c]
          <5>1. k <= Len(stream[c])
            BY DEF TypeOK
          <5> QED BY <2>3, <2>4, <5>1 DEF QueueOf, TypeOK
        <4> QED BY <2>2, <2>3, <2>4, <4>1 DEF QueueOf
      <3> QED BY <2>2, <3>1, <3>2 DEF Queued
    <2> QED BY <2>5, <2>6, <2>7, <2>8
  <1>16. ASSUME NEW c \in Clients, Copy(c) PROVE IInv'
    <2>1. CASE /\ stream[c] = <<>> /\ link[c] \in {"closed", "broken"}
               /\ copy' = [copy EXCEPT ![c] = "ended"] /\ UNCHANGED <<stream, log>>
      <3>1. /\ UNCHANGED <<pc, stopped, tail, copier, wrote, pipe, link, handler, open, full>>
            /\ copy[c] = "copying"
        BY <1>16 DEF Copy, client
      <3>2. TypeOK' /\ Stages'
        BY <2>1, <3>1 DEF TypeOK, Stages, StageOf, Over
      <3>3. Queued' /\ LogIsPrefix'
        BY <2>1, <3>1, SMTT(30) DEF TypeOK, Queued, QueueOf, LogIsPrefix
      <3> QED BY <3>2, <3>3
    <2>2. CASE /\ stream[c] # <<>> /\ stream' = [stream EXCEPT ![c] = Tail(@)]
      <3>1. /\ UNCHANGED <<pc, stopped, tail, copier, wrote, pipe, link, handler, open, full>>
            /\ copy[c] = "copying"
        BY <1>16 DEF Copy, client
      <3>2. PICK e \in {Head(stream[c]), Torn} :
              \/ /\ copy' = [copy EXCEPT ![c] = "failed"]
                 /\ e = Torn
                 /\ UNCHANGED log \/ log' = [log EXCEPT ![c] = Append(@, e)]
              \/ /\ UNCHANGED copy /\ e = Head(stream[c])
                 /\ log' = [log EXCEPT ![c] = Append(@, e)]
        <4>1. CASE full
          <5>1. /\ copy' = [copy EXCEPT ![c] = "failed"]
                /\ UNCHANGED log \/ log' = [log EXCEPT ![c] = Append(@, Torn)]
            BY <1>16, <2>2, <4>1 DEF Copy
          <5> QED BY <5>1
        <4>2. CASE ~ full
          BY <1>16, <2>2, <4>2 DEF Copy
        <4> QED BY <4>1, <4>2
      <3>3. /\ stream[c] \in Seq(Nat) /\ log[c] \in Seq(Nat \union {Torn})
            /\ wrote[c] \in Nat
        BY DEF TypeOK
      <3>4. /\ Head(stream[c]) \in Nat /\ Tail(stream[c]) \in Seq(Nat)
            /\ Len(stream[c]) \in Nat \ {0} /\ Len(Tail(stream[c])) = Len(stream[c]) - 1
        BY <2>2, <3>3, Taken
      <3>5. /\ Append(log[c], e) \in Seq(Nat \union {Torn})
            /\ Len(Append(log[c], e)) = Len(log[c]) + 1
        BY <3>3, <3>4, Appended
      <3>6. TypeOK'
        BY <2>2, <3>1, <3>2, <3>4, <3>5, ZenonT(60) DEF TypeOK
      <3>7. Stages'
        <4>1. \A d \in Clients \ {c} : stream'[d] = stream[d] /\ copy'[d] = copy[d]
          BY <2>2, <3>2 DEF TypeOK
        <4>2. copy'[c] \in {"copying", "failed"}
          BY <3>1, <3>2 DEF TypeOK
        <4> QED BY <3>1, <4>1, <4>2 DEF Stages, StageOf, Over
      <3> DEFINE n == Len(log[c])
      <3>8. /\ n \in Nat /\ n + Len(stream[c]) <= wrote[c] /\ n + 1 <= wrote[c]
            /\ From(log[c], 0) /\ From(stream[c], n)
        <4>1. QueueOf(c)
          BY <3>1 DEF Queued
        <4>2. From(log[c], 0) /\ From(stream[c], n) /\ n + Len(stream[c]) <= wrote[c]
          BY <4>1 DEF QueueOf
        <4> QED BY <3>4, <4>2 DEF TypeOK
      <3>9. \A i \in 1..n : log[c][i] = i /\ i <= wrote[c]
        BY <3>8 DEF From, TypeOK
      <3>10. Head(stream[c]) = n + 1 /\ From(Tail(stream[c]), n + 1)
        <4> HIDE DEF n
        <4> QED BY <2>2, <3>3, <3>8, TakenRun
      <3>11. \A d \in Clients \ {c} : log'[d] = log[d] /\ copy'[d] = copy[d] /\ stream'[d] = stream[d]
        BY <2>2, <3>2 DEF TypeOK
      <3>12. LogIsPrefix'
        <4>1. ASSUME NEW i \in 1..Len(log'[c])
              PROVE  \/ log'[c][i] = i /\ i <= wrote[c]
                     \/ log'[c][i] = Torn /\ i = Len(log'[c]) /\ copy'[c] = "failed"
          <5>1. CASE log'[c] = log[c]
            BY <3>9, <5>1
          <5>2. CASE log'[c] = Append(log[c], e)
            <6>1. i \in 1..n \/ i = n + 1
              BY <3>5, <3>8, <5>2
            <6>2. i \in 1..n => log'[c][i] = log[c][i]
              BY <3>3, <3>5, <5>2
            <6>3. Append(log[c], e)[n + 1] = e
              BY <3>3
            <6>4. (e = Torn /\ copy'[c] = "failed") \/ e = n + 1
              BY <3>2, <3>10 DEF TypeOK
            <6> QED BY <3>5, <3>8, <3>9, <5>2, <6>1, <6>2, <6>3, <6>4
          <5> QED BY <3>2, <5>1, <5>2 DEF TypeOK
        <4> QED BY <3>1, <3>11, <4>1 DEF LogIsPrefix
      <3>13. Queued'
        <4>1. \A d \in Clients \ {c} : QueueOf(d) => QueueOf(d)'
          BY <3>1, <3>11 DEF QueueOf
        <4>2. ASSUME copy'[c] # "failed" PROVE QueueOf(c)'
          <5>1. /\ log'[c] = Append(log[c], Head(stream[c])) /\ stream'[c] = Tail(stream[c])
                /\ e = Head(stream[c])
            BY <2>2, <3>2, <4>2 DEF TypeOK
          <5>2. From(log'[c], 0)
            <6>1. Len(log[c]) = n
              OBVIOUS
            <6> HIDE DEF n
            <6>2. Head(stream[c]) = 0 + n + 1 /\ Head(stream[c]) \in Nat \union {Torn}
              BY <3>4, <3>8, <3>10
            <6>3. Head(stream[c]) = 0 + Len(log[c]) + 1
              BY <6>1, <6>2
            <6>4. From(Append(log[c], Head(stream[c])), 0)
              BY <3>3, <3>8, <6>2, <6>3, AppendedRun
            <6> QED BY <5>1, <6>4
          <5>3. Len(log'[c]) = n + 1 /\ From(stream'[c], n + 1)
            BY <3>5, <3>10, <5>1
          <5>4. n + 1 + Len(stream'[c]) = n + Len(stream[c])
            <6> DEFINE m == Len(stream[c])
            <6>1. Len(stream'[c]) = m - 1 /\ m \in Nat \ {0}
              BY <3>4, <5>1
            <6> HIDE DEF n, m
            <6>2. n + 1 + (m - 1) = n + m
              BY <3>8, <6>1
            <6> QED BY <6>1, <6>2 DEF m
          <5>5. QueueOf(c)
            BY <3>1 DEF Queued
          <5> QED BY <3>1, <5>2, <5>3, <5>4, <5>5 DEF QueueOf
        <4> QED BY <3>11, <4>1, <4>2 DEF Queued
      <3> QED BY <3>6, <3>7, <3>12, <3>13
    <2> QED BY <1>16, <2>1, <2>2 DEF Copy
  <1> QED
    BY <1>1, <1>2, <1>3, <1>4, <1>5, <1>6, <1>7, <1>8, <1>9, <1>10, <1>11, <1>12,
       <1>13, <1>14, <1>15, <1>16 DEF Next, Client, Handle

\* Stages and queues of the recorder keep in step.
THEOREM RecorderInvariance == Spec => []IInv
  BY InitIInv, NextIInv, PTL DEF Spec

\* No log has a gap, and none has anything behind a torn piece
\* (recorder/handlers.go:28-31).
THEOREM LogsArePrefixes == Spec => []LogIsPrefix
  <1>1. IInv => LogIsPrefix
    BY DEF IInv
  <1> QED BY <1>1, RecorderInvariance, PTL

\* What tail wrote before Stop is in the log, however much of it was still in the
\* pipe or on the stream (recorder/client/recorder.go:55).
THEOREM WholeLogs == Spec => []StoppedLogIsWhole
  <1>1. IInv => StoppedLogIsWhole
    <2> SUFFICES ASSUME IInv, NEW c \in Clients,
                        pc[c] = "failed", link[c] = "closed", copy[c] = "ended"
                 PROVE  Len(log[c]) = wrote[c]
      BY DEF StoppedLogIsWhole
    <2>1. wrote[c] = Len(log[c]) + Len(stream[c])
      BY DEF IInv, Queued, QueueOf
    <2>2. stream[c] = <<>>
      BY DEF IInv, Stages, StageOf
    <2>3. wrote[c] = Len(log[c]) + 0
      BY <2>1, <2>2, EmptyRun
    <2> QED BY <2>3 DEF IInv, TypeOK
  <1> QED BY <1>1, RecorderInvariance, PTL
=============================================================================
