--------------------------- MODULE ChartAnalysis ---------------------------
(***************************************************************************)
(* From a session's record file to the charts: analysis, lineCPU, lineMEM, *)
(* pieCPU and pieMEM of topidchart/chartserver.go, while the session's     *)
(* recorder (topidchart/handlers.go) may still append to the file.         *)
(*                                                                         *)
(* CPU shares are whole percents, memory is in KB.  A map entry that is    *)
(* absent in the code is an empty series here, and an average is kept as   *)
(* the pair of a sum and a count.                                          *)
(***************************************************************************)
EXTENDS Naturals, Sequences, SequencesExt, FiniteSetsExt

CONSTANTS
  Procs,       \* processes of the observed system
  Names,       \* what they are listed under
  Name,        \* the name of each: "name-pid", or "[...]" without the pid
  System,      \* the names with a bracket
  Loads,       \* samples: records of cpu in percent and mem in KB
  Records,     \* the records a client may send
  MaxRecords,  \* bound: records in the file
  Damaged,     \* a record whose Decode fails once, with an error other than io.EOF
  Filter       \* thresholds: avg and max for "cpu" and for "mem"

Metrics == {"cpu", "mem"}
Samples == [proc : Procs, load : Loads]

ASSUME AnalysisAssumption ==
  /\ Name \in [Procs -> Names]
  /\ System \subseteq Names
  /\ Loads \subseteq [cpu : Nat, mem : Nat]
  /\ Records \subseteq Seq(Samples) /\ Damaged \notin Records
  /\ MaxRecords \in Nat
  /\ Filter \in [Metrics -> [avg : Nat, max : Nat]]

VARIABLES
  file,    \* records in the file
  pos,     \* records the decoder has read
  broken,  \* the disk no longer reads: every Decode fails, and not with io.EOF
  time,    \* length of the time axis
  todo,    \* samples of the record in hand that are still to be added
  series,  \* prs.cpu and prs.mem
  stats,   \* prs.cpuavg, cpumax, memavg and memmax; NoStats where there is no entry
  pc       \* what the analysis does next

vars == <<file, pos, broken, time, todo, series, stats, pc>>

NoStats == [max |-> 0, sum |-> 0, len |-> 0]

Zeros(n) == [i \in 1..n |-> 0]

\* What a sample adds to each chart: memory in whole MB.
Usage(m, load) == IF m = "cpu" THEN load.cpu ELSE load.mem \div 1024

SumOf(seq) == FoldSeq(+, 0, seq)
MaxOf(seq) == Max({0} \union ToSet(seq))

MaxAndAvg(seq) == [max |-> MaxOf(seq), sum |-> SumOf(seq), len |-> Len(seq)]

\* avg <= filter.avg && max <= filter.max
Hidden(m, stat) == stat.sum <= Filter[m].avg * stat.len /\ stat.max <= Filter[m].max

\* Both less than the threshold.
Below(m, stat) == stat.sum < Filter[m].avg * stat.len /\ stat.max < Filter[m].max

Init ==
  /\ file = <<>>
  /\ pos = 0
  /\ broken = FALSE
  /\ time = 0
  /\ todo = <<>>
  /\ series = [m \in Metrics |-> [n \in Names |-> <<>>]]
  /\ stats = [m \in Metrics |-> [n \in Names |-> NoStats]]
  /\ pc = "decode"

-----------------------------------------------------------------------------
\* The session's recorder appends a record; storage may have damaged it.
WriteRecord ==
  /\ Len(file) < MaxRecords
  /\ \E r \in Records \union {Damaged} : file' = Append(file, r)
  /\ UNCHANGED <<pos, broken, time, todo, series, stats, pc>>

\* The disk under the file stops reading, at whatever record the analysis is.
DiskFails ==
  /\ pc = "decode"
  /\ ~ broken /\ broken' = TRUE
  /\ UNCHANGED <<file, pos, time, todo, series, stats, pc>>

\* Mutant: a damaged record is tried again for ever.
DecodeNoSkip ==
  /\ pc = "decode"
  /\ ~ broken
  /\ pos < Len(file)
  /\ file[pos + 1] # Damaged
  /\ pos' = pos + 1
  /\ IF file[pos + 1] = <<>>
     THEN UNCHANGED <<time, todo, pc>>
     ELSE time' = time + 1 /\ todo' = file[pos + 1] /\ pc' = "add"
  /\ UNCHANGED <<file, broken, series, stats>>

\* A record is read.  Damaged ones are skipped, and so are empty ones: they
\* get no place on the time axis.  A Decode that fails in reading the file gets
\* no further, whether or not there are records left, and is only repeated: the
\* loop ends at io.EOF alone.
Decode ==
  /\ pc = "decode"
  /\ ~ broken
  /\ pos < Len(file)
  /\ pos' = pos + 1
  /\ IF file[pos + 1] \in {Damaged, <<>>}
     THEN UNCHANGED <<time, todo, pc>>
     ELSE time' = time + 1 /\ todo' = file[pos + 1] /\ pc' = "add"
  /\ UNCHANGED <<file, broken, series, stats>>

\* Mutant: zeros for this record too.
AddSampleLate ==
  /\ pc = "add"
  /\ LET n == Name[Head(todo).proc]
         before(m) == IF series["cpu"][n] = <<>> THEN Zeros(time) ELSE series[m][n]
     IN  series' = [m \in Metrics |->
           [series[m] EXCEPT ![n] = Append(before(m), Usage(m, Head(todo).load))]]
  /\ todo' = Tail(todo)
  /\ pc' = IF todo' = <<>> THEN "decode" ELSE "add"
  /\ UNCHANGED <<file, pos, broken, time, stats>>

\* Mutant: only the CPU series of a new name starts with zeros.
AddSampleMemShort ==
  /\ pc = "add"
  /\ LET n == Name[Head(todo).proc]
         before(m) == IF m = "cpu" /\ series[m][n] = <<>> THEN Zeros(time - 1) ELSE series[m][n]
     IN  series' = [m \in Metrics |->
           [series[m] EXCEPT ![n] = Append(before(m), Usage(m, Head(todo).load))]]
  /\ todo' = Tail(todo)
  /\ pc' = IF todo' = <<>> THEN "decode" ELSE "add"
  /\ UNCHANGED <<file, pos, broken, time, stats>>

\* One process of the record: a new name starts with zeros for the records
\* before this one, a known name is appended to wherever its series ends.
AddSample ==
  /\ pc = "add"
  /\ LET n == Name[Head(todo).proc]
         before(m) == IF series["cpu"][n] = <<>> THEN Zeros(time - 1) ELSE series[m][n]
     IN  series' = [m \in Metrics |->
           [series[m] EXCEPT ![n] = Append(before(m), Usage(m, Head(todo).load))]]
  /\ todo' = Tail(todo)
  /\ pc' = IF todo' = <<>> THEN "decode" ELSE "add"
  /\ UNCHANGED <<file, pos, broken, time, stats>>

EndOfFile ==
  /\ pc = "decode"
  /\ ~ broken
  /\ pos = Len(file)
  /\ pc' = "cpu"
  /\ UNCHANGED <<file, pos, broken, time, todo, series, stats>>

\* Mutant: maxAndAvg sees the padded series.
FinishPadded(m) ==
  /\ pc = m
  /\ LET padded(n) == series[m][n] \o Zeros(IF Len(series[m][n]) < time
                                            THEN time - Len(series[m][n]) ELSE 0)
         seen == {n \in Names : series[m][n] # <<>>}
         kept == {n \in seen : ~ Hidden(m, MaxAndAvg(padded(n)))}
     IN  /\ series' = [series EXCEPT ![m] =
              [n \in Names |-> IF n \in kept THEN padded(n) ELSE <<>>]]
         /\ stats' = [stats EXCEPT ![m] =
              [n \in Names |-> IF n \in kept THEN MaxAndAvg(padded(n)) ELSE NoStats]]
  /\ pc' = IF m = "cpu" THEN "mem" ELSE "done"
  /\ UNCHANGED <<file, pos, broken, time, todo>>

\* The loop over prs.cpu, or prs.mem: every series is padded with zeros up to
\* the axis; maximum and average are those of the series before; an entry with
\* both within the thresholds is deleted.
Finish(m) ==
  /\ pc = m
  /\ LET padded(n) == series[m][n] \o Zeros(IF Len(series[m][n]) < time
                                            THEN time - Len(series[m][n]) ELSE 0)
         seen == {n \in Names : series[m][n] # <<>>}
         kept == {n \in seen : ~ Hidden(m, MaxAndAvg(series[m][n]))}
     IN  /\ series' = [series EXCEPT ![m] =
              [n \in Names |-> IF n \in kept THEN padded(n) ELSE <<>>]]
         /\ stats' = [stats EXCEPT ![m] =
              [n \in Names |-> IF n \in kept THEN MaxAndAvg(series[m][n]) ELSE NoStats]]
  /\ pc' = IF m = "cpu" THEN "mem" ELSE "done"
  /\ UNCHANGED <<file, pos, broken, time, todo>>

Analysis == Decode \/ AddSample \/ EndOfFile \/ \E m \in Metrics : Finish(m)

Next == WriteRecord \/ DiskFails \/ Analysis

Spec == Init /\ [][Next]_vars

\* The request's goroutine is scheduled; the client need not send anything.
FairSpec == Spec /\ WF_vars(Analysis)

-----------------------------------------------------------------------------
(* The charts.  Legend order, colours and the buttons' scripts are layout;  *)
(* names with a bracket start deselected.                                   *)

Kept(m) == {n \in Names : stats[m][n] # NoStats}

Line(m, n) == [name |-> n, data |-> series[m][n], selected |-> n \notin System]
Slice(m, n) == [name |-> n, sum |-> stats[m][n].sum, len |-> stats[m][n].len]

LineCPU == {Line("cpu", n) : n \in Kept("cpu")}
LineMEM == {Line("mem", n) : n \in Kept("mem")}
PieCPU  == {Slice("cpu", n) : n \in Kept("cpu")}
PieMEM  == {Slice("mem", n) : n \in Kept("mem")}

-----------------------------------------------------------------------------
(* What the charts should say, computed from the file alone.                *)

\* The records with a place on the axis: not damaged and not empty.
Plotted(records) ==
  LET plot[i \in 0..Len(records)] ==
        IF i = 0 THEN <<>>
        ELSE IF records[i] \in {Damaged, <<>>} THEN plot[i - 1]
        ELSE Append(plot[i - 1], records[i])
  IN  plot[Len(records)]

\* Those the analysis has read.
Shown == Plotted(SubSeq(file, 1, pos))

\* Where name n is in record t of the records shown.
Places(shown, n, t)  == {i \in 1..Len(shown[t]) : Name[shown[t][i].proc] = n}
Appears(shown, n)    == {t \in 1..Len(shown) : Places(shown, n, t) # {}}
ListedOnce(shown, n) == \A t \in Appears(shown, n) : Cardinality(Places(shown, n, t)) = 1

\* No record between the first and the last with n misses it.
Gapless(shown, n) ==
  /\ ListedOnce(shown, n)
  /\ LET appears == Appears(shown, n) IN \A t, u \in appears : t..u \subseteq appears

\* The usage of n over the axis, zero where it is not running.
UsageAt(shown, m, n, t) ==
  IF Places(shown, n, t) = {} THEN 0
  ELSE Usage(m, shown[t][CHOOSE i \in Places(shown, n, t) : TRUE].load)
Expected(shown, m, n) == [t \in 1..Len(shown) |-> UsageAt(shown, m, n, t)]

\* What average and maximum are of: the same from the first record on the axis, with the
\* zeros of the records before n starts, to the last record with n.
Counted(shown, m, n) == SubSeq(Expected(shown, m, n), 1, Max(Appears(shown, n)))

-----------------------------------------------------------------------------
(* Properties. *)

TypeOK ==
  /\ file \in Seq(Records \union {Damaged})
  /\ pos \in 0..Len(file) /\ time \in 0..pos
  /\ broken \in BOOLEAN
  /\ todo \in Seq(Samples)
  /\ series \in [Metrics -> [Names -> Seq(Nat)]]
  /\ stats \in [Metrics -> [Names -> [max : Nat, sum : Nat, len : Nat]]]
  /\ pc \in {"decode", "add", "done"} \union Metrics

\* The axis has a place for every record shown; what is still to be added is the rest of
\* the last one.
Reading ==
  LET shown == Shown IN
  /\ time = Len(shown)
  /\ pc # "add" => todo = <<>>
  /\ pc = "add" => /\ time > 0
                   /\ \E k \in 0..(Len(shown[time]) - 1) :
                        todo = SubSeq(shown[time], k + 1, Len(shown[time]))

\* A name has a CPU series and a memory series or neither, and they grow in
\* step, although only prs.cpu is looked at (chartserver.go:198-204).
InStep ==
  pc \in {"decode", "add"} =>
    \A n \in Names : Len(series["cpu"][n]) = Len(series["mem"][n])

\* Names of which the record in hand still has samples to add, and the last record with n
\* that has been added; 0 if none has.
Left(n) == \E i \in 1..Len(todo) : Name[todo[i].proc] = n
LastDrawn(shown, n) ==
  LET drawn == IF Left(n) THEN Appears(shown, n) \ {time} ELSE Appears(shown, n)
  IN  IF drawn = {} THEN 0 ELSE Max(drawn)

\* Before the loop over m: the axis never falls behind a series of a name that is
\* listed once in a record, and one without a gap is the usage up to its last record.
Growing(m) ==
  LET shown == Shown IN \A n \in Names :
    /\ ListedOnce(shown, n) =>
         Len(series[m][n]) <= time /\ (Left(n) => Len(series[m][n]) < time)
    /\ Gapless(shown, n) =>
         series[m][n] = SubSeq(Expected(shown, m, n), 1, LastDrawn(shown, n))

\* After it: what LinesFitTheAxis says of m, and which names are left to show, those
\* with both values just at the threshold decided as the code does.
Finished(m) ==
  LET shown == Shown IN \A n \in Names :
    /\ n \in Kept(m) /\ ListedOnce(shown, n) => Len(series[m][n]) = time
    /\ n \in Kept(m) /\ Gapless(shown, n) => series[m][n] = Expected(shown, m, n)
    /\ Appears(shown, n) # {} /\ Gapless(shown, n) =>
         (n \in Kept(m) <=> ~ Hidden(m, MaxAndAvg(Counted(shown, m, n))))

Before(m) == pc \in {"decode", "add", "cpu", m}

\* The inductive invariant.
IInv ==
  /\ TypeOK /\ Reading /\ InStep
  /\ \A m \in Metrics : IF Before(m) THEN Growing(m) ELSE Finished(m)

Done == pc = "done"

\* Every line has a point for every record on the axis and no more, however
\* often its process comes and goes, unless a record lists its name twice
\* (chartserver.go:198-204, 209-212); and one that starts and ends once is drawn where it
\* ran: every point of its lines is its usage at the time the axis shows below it.
LinesFitTheAxis ==
  LET shown == Shown IN
  Done => /\ \A line \in LineCPU \union LineMEM :
               ListedOnce(shown, line.name) => Len(line.data) = Len(shown)
          /\ \A line \in LineCPU :
               Gapless(shown, line.name) => line.data = Expected(shown, "cpu", line.name)
          /\ \A line \in LineMEM :
               Gapless(shown, line.name) => line.data = Expected(shown, "mem", line.name)

\* A pie shows a process whose average or maximum is above the threshold, and does
\* not show one with both "less than" it (topidchart/README.md:11-14), although the
\* series has been padded with zeros by then (chartserver.go:210-214, 222-226).  What is
\* just at the threshold is left open: the README shows it, the code does not.
ShownByThresholds ==
  LET shown == Shown
      Shows(pie, n) == \E slice \in pie : slice.name = n
      Follows(pie, m, n) ==
        LET stat == MaxAndAvg(Counted(shown, m, n))
        IN  /\ ~ Hidden(m, stat) => Shows(pie, n)
            /\ Below(m, stat) => ~ Shows(pie, n)
  IN  Done => \A n \in Names : Appears(shown, n) # {} /\ Gapless(shown, n) =>
                Follows(PieCPU, "cpu", n) /\ Follows(PieMEM, "mem", n)

\* A page gets done although some records fail to decode, as long as the disk reads;
\* once it does not, the loop of chartserver.go:182-187 never sees io.EOF and goes
\* round for ever.  The client sends no more than MaxRecords meanwhile.
AnalysisEnds == <>(Done \/ broken)
=============================================================================
