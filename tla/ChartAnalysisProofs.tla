------------------------ MODULE ChartAnalysisProofs ------------------------
(***************************************************************************)
(* From the record file to the charts, for files of any length, any        *)
(* samples and any thresholds: the inductive invariant of ChartAnalysis,   *)
(* and from it what the line and pie charts show.                          *)
(***************************************************************************)
EXTENDS ChartAnalysis, SequenceTheorems, FiniteSetTheorems, WellFoundedInduction, TLAPS

-----------------------------------------------------------------------------
(* Numbers and finite sets of them. *)

\* A set with 0 and the successor of each of its numbers has them all.
LEMMA NumbersInSet ==
  ASSUME NEW S, 0 \in S, \A n \in Nat : n \in S => n + 1 \in S
  PROVE  Nat \subseteq S
  <1> DEFINE R == {ss \in Nat \X Nat : ss[1] < ss[2]}
             T == Nat \ S
  <1>1. IsWellFoundedOn(R, Nat)
    BY NatLessThanWellFounded DEF OpToRel
  <1>2. SUFFICES ASSUME T # {} PROVE FALSE
    OBVIOUS
  <1>3. PICK x \in T : \A y \in T : ~ (<<y, x>> \in R)
    <2> HIDE DEF R
    <2> QED BY <1>1, <1>2, WFMin
  <1>4. x # 0 /\ x - 1 \in Nat /\ x = (x - 1) + 1
    OBVIOUS
  <1>5. x - 1 \notin T
    <2>1. <<x - 1, x>> \in R
      <3>1. <<x - 1, x>> \in Nat \X Nat /\ <<x - 1, x>>[1] < <<x - 1, x>>[2]
        BY <1>4
      <3> QED BY <3>1
    <2> QED BY <2>1, <1>3
  <1> QED BY <1>4, <1>5

\* A set of numbers with a bound has a greatest one, and Max is it.
LEMMA MaxIsGreatest ==
  ASSUME NEW S \in SUBSET Nat, S # {}, NEW b \in Nat, \A x \in S : x <= b
  PROVE  Max(S) \in S /\ \A x \in S : x <= Max(S)
  <1> DEFINE Above == {n \in Nat : \E x \in S : b <= x + n}
             Q == {n \in Nat : n \in Above => \E x \in S : \A y \in S : y <= x}
  <1>1. 0 \in Q
    OBVIOUS
  <1>2. ASSUME NEW n \in Nat, n \in Q PROVE n + 1 \in Q
    <2>1. SUFFICES ASSUME NEW x \in S, b <= x + (n + 1), n \notin Above
                   PROVE  \A y \in S : y <= x
      BY <1>2
    <2>2. \A y \in S : y + n < b
      BY <2>1
    <2> QED BY <2>1, <2>2
  <1>3. Nat \subseteq Q
    <2> HIDE DEF Q
    <2> QED BY <1>1, <1>2, NumbersInSet
  <1>4. b \in Above
    <2>1. PICK x \in S : TRUE
      OBVIOUS
    <2>2. b <= x + b
      BY <2>1
    <2> QED BY <2>2
  <1>5. \E x \in S : \A y \in S : y <= x
    BY <1>3, <1>4
  <1>6. \E x \in S : \A y \in S : x >= y
    BY <1>5
  <1>7. Max(S) \in S /\ \A y \in S : Max(S) >= y
    BY <1>6 DEF Max
  <1> QED BY <1>7

-----------------------------------------------------------------------------
(* The sum and the maximum of a series. *)

\* A sequence of numbers has a bound.
LEMMA SeqBounded ==
  ASSUME NEW q \in Seq(Nat) PROVE \E b \in Nat : \A i \in 1..Len(q) : q[i] <= b
  <1> DEFINE S == {n \in Nat : n <= Len(q) => \E b \in Nat : \A i \in 1..n : q[i] <= b}
  <1>1. 0 \in S
    OBVIOUS
  <1>2. ASSUME NEW n \in Nat, n \in S PROVE n + 1 \in S
    <2>1. SUFFICES ASSUME n + 1 <= Len(q)
                   PROVE  \E b \in Nat : \A i \in 1..(n + 1) : q[i] <= b
      OBVIOUS
    <2>2. PICK b \in Nat : \A i \in 1..n : q[i] <= b
      BY <1>2, <2>1
    <2>3. q[n + 1] \in Nat
      BY <2>1
    <2>4. PICK c \in Nat : b <= c /\ q[n + 1] <= c
      BY <2>3
    <2>5. \A i \in 1..(n + 1) : q[i] <= c
      <3> TAKE i \in 1..(n + 1)
      <3>1. CASE i = n + 1
        BY <3>1, <2>4
      <3>2. CASE i # n + 1
        <4>1. i \in 1..n /\ q[i] \in Nat
          BY <3>2, <2>1
        <4> QED BY <4>1, <2>2, <2>4
      <3> QED BY <3>1, <3>2
    <2> QED BY <2>5
  <1>3. Nat \subseteq S
    <2> HIDE DEF S
    <2> QED BY <1>1, <1>2, NumbersInSet
  <1>4. Len(q) \in S
    <2> HIDE DEF S
    <2> QED BY <1>3, LenProperties
  <1> QED BY <1>4

LEMMA MaxOfType ==
  ASSUME NEW q \in Seq(Nat) PROVE MaxOf(q) \in Nat
  <1>1. PICK b \in Nat : \A i \in 1..Len(q) : q[i] <= b
    BY SeqBounded
  <1>2. {0} \union ToSet(q) \in SUBSET Nat /\ \A x \in {0} \union ToSet(q) : x <= b
    BY <1>1 DEF ToSet
  <1>3. Max({0} \union ToSet(q)) \in {0} \union ToSet(q)
    BY <1>2, MaxIsGreatest
  <1> QED BY <1>2, <1>3 DEF MaxOf

\* What SumOf counts on: iter[S] is the sum over the places in S, which are taken one
\* after another.
SomeOf(S) == CHOOSE x \in S : TRUE

SumsTo(iter, q, Dom) ==
  \A S \in Dom : iter[S] = IF S = {} THEN 0 ELSE q[SomeOf(S)] + iter[S \ {SomeOf(S)}]

LEMMA SumsExist ==
  ASSUME NEW q \in Seq(Nat)
  PROVE  \E f \in [SUBSET (DOMAIN q) -> Nat] : SumsTo(f, q, SUBSET (DOMAIN q))
  <1> DEFINE D == DOMAIN q
             Small(k) == {S \in SUBSET D : Cardinality(S) <= k}
             Q == {k \in Nat : \E f \in [Small(k) -> Nat] : SumsTo(f, q, Small(k))}
  <1>1. IsFiniteSet(D) /\ \A i \in D : q[i] \in Nat
    <2>1. D = 1..Len(q) /\ Len(q) \in Nat /\ \A i \in 1..Len(q) : q[i] \in Nat
      OBVIOUS
    <2>2. IsFiniteSet(1..Len(q))
      BY <2>1, FS_Interval
    <2> QED BY <2>1, <2>2
  <1>2. \A S \in SUBSET D : IsFiniteSet(S) /\ Cardinality(S) \in Nat
    BY <1>1, FS_Subset, FS_CardinalityType
  <1>3. \A S \in SUBSET D : S # {} =>
          /\ SomeOf(S) \in S /\ q[SomeOf(S)] \in Nat
          /\ S \ {SomeOf(S)} \in SUBSET D
          /\ Cardinality(S) # 0
          /\ Cardinality(S \ {SomeOf(S)}) = Cardinality(S) - 1
    <2> TAKE S \in SUBSET D
    <2> HAVE S # {}
    <2>1. SomeOf(S) \in S
      BY DEF SomeOf
    <2> HIDE DEF D
    <2>2. Cardinality(S \ {SomeOf(S)}) = Cardinality(S) - 1
      BY <2>1, <1>2, FS_RemoveElement
    <2>3. Cardinality(S) # 0
      BY <1>2, FS_EmptySet
    <2> QED BY <2>1, <2>2, <2>3, <1>1
  <1> HIDE DEF D
  <1>4. 0 \in Q
    <2> DEFINE f == [S \in Small(0) |-> 0]
    <2>1. \A S \in Small(0) : S = {}
      BY <1>2, FS_EmptySet
    <2>2. f \in [Small(0) -> Nat] /\ SumsTo(f, q, Small(0))
      BY <2>1 DEF SumsTo
    <2> QED BY <2>2
  <1>5. ASSUME NEW k \in Nat, k \in Q PROVE k + 1 \in Q
    <2>1. PICK f \in [Small(k) -> Nat] : SumsTo(f, q, Small(k))
      BY <1>5
    <2> DEFINE g == [S \in Small(k + 1) |->
                      IF S = {} THEN 0 ELSE q[SomeOf(S)] + f[S \ {SomeOf(S)}]]
    <2>2. \A S \in Small(k + 1) : S # {} =>
            S \ {SomeOf(S)} \in Small(k) /\ f[S \ {SomeOf(S)}] \in Nat /\ q[SomeOf(S)] \in Nat
      BY <1>2, <1>3
    <2>3. g \in [Small(k + 1) -> Nat]
      <3>1. \A S \in Small(k + 1) :
              (IF S = {} THEN 0 ELSE q[SomeOf(S)] + f[S \ {SomeOf(S)}]) \in Nat
        BY <2>2
      <3> HIDE DEF Small
      <3> QED BY <3>1
    <2>4. \A S \in Small(k) : S \in Small(k + 1) /\ g[S] = f[S]
      <3> TAKE S \in Small(k)
      <3>1. S \in Small(k + 1)
        BY <1>2
      <3>2. f[S] = IF S = {} THEN 0 ELSE q[SomeOf(S)] + f[S \ {SomeOf(S)}]
        BY <2>1 DEF SumsTo
      <3> QED BY <3>1, <3>2
    <2>5. SumsTo(g, q, Small(k + 1))
      <3> SUFFICES ASSUME NEW S \in Small(k + 1)
                   PROVE  g[S] = IF S = {} THEN 0 ELSE q[SomeOf(S)] + g[S \ {SomeOf(S)}]
        BY DEF SumsTo
      <3>1. S # {} => g[S \ {SomeOf(S)}] = f[S \ {SomeOf(S)}]
        <4> HIDE DEF g
        <4> QED BY <2>2, <2>4
      <3> QED BY <3>1
    <2>6. \E h \in [Small(k + 1) -> Nat] : SumsTo(h, q, Small(k + 1))
      <3> HIDE DEF g, Small
      <3> QED BY <2>3, <2>5
    <2> HIDE DEF Small
    <2> QED BY <2>6
  <1>6. Nat \subseteq Q
    <2> HIDE DEF Q
    <2> QED BY <1>4, <1>5, NumbersInSet
  <1>7. Small(Cardinality(D)) = SUBSET D /\ Cardinality(D) \in Nat
    BY <1>1, <1>2, FS_Subset
  <1>8. \E f \in [Small(Cardinality(D)) -> Nat] : SumsTo(f, q, Small(Cardinality(D)))
    BY <1>6, <1>7
  <1> QED BY <1>7, <1>8 DEF D

LEMMA SumOfType ==
  ASSUME NEW q \in Seq(Nat) PROVE SumOf(q) \in Nat
  <1> DEFINE D == DOMAIN q
             Rule(iter) == iter = [S \in SUBSET D |->
                             IF S = {} THEN 0 ELSE q[SomeOf(S)] + iter[S \ {SomeOf(S)}]]
             sums == CHOOSE iter : Rule(iter)
             Numbers(k) == \A S \in SUBSET D : Cardinality(S) <= k => sums[S] \in Nat
             Q == {k \in Nat : Numbers(k)}
  <1>1. SumOf(q) = sums[D]
    BY Zenon DEF SumOf, FoldSeq, FoldFunction, FoldFunctionOnSet, MapThenFoldSet, SomeOf
  <1>2. PICK f \in [SUBSET D -> Nat] : SumsTo(f, q, SUBSET D)
    BY SumsExist
  <1>3. Rule(f)
    BY <1>2 DEF SumsTo
  <1>4. Rule(sums)
    <2> HIDE DEF Rule
    <2> QED BY <1>3
  <1>5. IsFiniteSet(D) /\ \A i \in D : q[i] \in Nat
    <2>1. D = 1..Len(q) /\ Len(q) \in Nat /\ \A i \in 1..Len(q) : q[i] \in Nat
      OBVIOUS
    <2>2. IsFiniteSet(1..Len(q))
      BY <2>1, FS_Interval
    <2> QED BY <2>1, <2>2
  <1> HIDE DEF D, sums
  <1>6. \A S \in SUBSET D : IsFiniteSet(S) /\ Cardinality(S) \in Nat
    BY <1>5, FS_Subset, FS_CardinalityType
  <1>7. 0 \in Q
    <2>1. \A S \in SUBSET D : Cardinality(S) <= 0 => S = {}
      BY <1>6, FS_EmptySet
    <2>2. sums[{}] = 0
      BY <1>4
    <2>3. ASSUME NEW S \in SUBSET D, Cardinality(S) <= 0 PROVE sums[S] \in Nat
      <3>1. S = {}
        BY <2>1, <2>3
      <3>2. sums[S] = 0
        BY <3>1, <2>2, Zenon
      <3> QED BY <3>2
    <2> QED BY <2>3
  <1>8. ASSUME NEW k \in Nat, k \in Q PROVE k + 1 \in Q
    <2> SUFFICES ASSUME NEW S \in SUBSET D, Cardinality(S) <= k + 1
                 PROVE  sums[S] \in Nat
      OBVIOUS
    <2>0. CASE S = {}
      <3>1. sums[{}] = 0
        BY <1>4
      <3> QED BY <3>1, <2>0
    <2> SUFFICES ASSUME S # {} PROVE sums[S] \in Nat
      BY <2>0
    <2>1. SomeOf(S) \in S
      BY DEF SomeOf
    <2>2. S \ {SomeOf(S)} \in SUBSET D /\ Cardinality(S \ {SomeOf(S)}) = Cardinality(S) - 1
      BY <2>1, <1>6, FS_RemoveElement
    <2>3. sums[S \ {SomeOf(S)}] \in Nat
      BY <2>2, <1>6, <1>8
    <2>4. sums[S] = q[SomeOf(S)] + sums[S \ {SomeOf(S)}]
      BY <1>4
    <2> QED BY <2>1, <2>3, <2>4, <1>5
  <1>9. Nat \subseteq Q
    <2> HIDE DEF Q
    <2> QED BY <1>7, <1>8, NumbersInSet
  <1>10. sums[D] \in Nat
    BY <1>5, <1>6, <1>9
  <1> QED BY <1>1, <1>10

-----------------------------------------------------------------------------
(* The records with a place on the axis. *)

File == Seq(Records \union {Damaged})

Skipped == {Damaged, <<>>}

\* What Plotted counts on: f[i] is what is plotted of the first i records.
Plots(f, q, n) ==
  /\ f \in [0..n -> Seq(Records)]
  /\ \A i \in 0..n : f[i] = IF i = 0 THEN <<>>
                            ELSE IF q[i] \in Skipped THEN f[i - 1]
                            ELSE Append(f[i - 1], q[i])

LEMMA PlotsOneMore ==
  ASSUME NEW q \in File, NEW n \in Nat, n < Len(q), NEW f, Plots(f, q, n)
  PROVE  Plots([i \in 0..(n + 1) |-> IF i <= n THEN f[i]
                                     ELSE IF q[n + 1] \in Skipped THEN f[n]
                                     ELSE Append(f[n], q[n + 1])],
               q, n + 1)
  <1> DEFINE last == IF q[n + 1] \in Skipped THEN f[n] ELSE Append(f[n], q[n + 1])
             g == [i \in 0..(n + 1) |-> IF i <= n THEN f[i] ELSE last]
  <1>1. q[n + 1] \in Records \union {Damaged} /\ f[n] \in Seq(Records)
    BY ElementOfSeq DEF Plots, File
  <1>2. last \in Seq(Records)
    <2>1. q[n + 1] \notin Skipped => q[n + 1] \in Records
      BY <1>1 DEF Skipped
    <2> QED BY <1>1, <2>1, AppendProperties
  <1>3. last = IF q[n + 1] \in Skipped THEN f[n] ELSE Append(f[n], q[n + 1])
    OBVIOUS
  <1> HIDE DEF last
  <1>4. g \in [0..(n + 1) -> Seq(Records)]
    BY <1>2 DEF Plots
  <1>5. ASSUME NEW i \in 0..(n + 1)
        PROVE  g[i] = IF i = 0 THEN <<>>
                      ELSE IF q[i] \in Skipped THEN g[i - 1] ELSE Append(g[i - 1], q[i])
    <2>1. CASE i = n + 1
      <3>1. g[n + 1] = last /\ g[n] = f[n] /\ (n + 1) - 1 = n /\ i # 0
        BY <2>1
      <3> HIDE DEF g
      <3> QED BY <3>1, <2>1, <1>3
    <2>2. CASE i # n + 1
      <3>1. i \in 0..n /\ (i # 0 => i - 1 \in 0..n /\ i - 1 \in 0..(n + 1))
        BY <2>2
      <3>2. g[i] = f[i] /\ (i # 0 => g[i - 1] = f[i - 1])
        BY <3>1
      <3>3. f[i] = IF i = 0 THEN <<>>
                   ELSE IF q[i] \in Skipped THEN f[i - 1] ELSE Append(f[i - 1], q[i])
        BY <3>1 DEF Plots
      <3> HIDE DEF g
      <3> QED BY <3>2, <3>3
    <2> QED BY <2>1, <2>2
  <1> HIDE DEF g
  <1>6. Plots(g, q, n + 1)
    BY <1>4, <1>5 DEF Plots
  <1> QED BY <1>6 DEF g, last

LEMMA PlotsExists ==
  ASSUME NEW q \in File PROVE \E f : Plots(f, q, Len(q))
  <1> DEFINE S == {n \in Nat : n <= Len(q) => \E f : Plots(f, q, n)}
  <1>0. Len(q) \in Nat
    BY LenProperties DEF File
  <1>1. 0 \in S
    <2>1. Plots([i \in 0..0 |-> <<>>], q, 0)
      BY DEF Plots
    <2> QED BY <2>1
  <1>2. ASSUME NEW n \in Nat, n \in S PROVE n + 1 \in S
    <2>1. CASE n + 1 <= Len(q)
      <3>1. PICK f : Plots(f, q, n)
        BY <1>2, <2>1, <1>0
      <3>2. n < Len(q)
        BY <2>1, <1>0
      <3>3. \E g : Plots(g, q, n + 1)
        BY <3>1, <3>2, PlotsOneMore, Zenon
      <3> QED BY <3>3
    <2> QED BY <2>1
  <1>3. Nat \subseteq S
    <2> HIDE DEF S
    <2> QED BY <1>1, <1>2, NumbersInSet
  <1> QED BY <1>0, <1>3

\* Whatever follows the rule of Plotted is what Plotted takes.
LEMMA PlottedIs ==
  ASSUME NEW q \in File, NEW f, Plots(f, q, Len(q))
  PROVE  Plotted(q) = f[Len(q)]
  <1> DEFINE Rule(g) == g = [i \in 0..Len(q) |->
                          IF i = 0 THEN <<>>
                          ELSE IF q[i] \in {Damaged, <<>>} THEN g[i - 1]
                          ELSE Append(g[i - 1], q[i])]
             c == CHOOSE g : Rule(g)
  <1>1. Len(q) \in Nat
    BY LenProperties DEF File
  <1>2. Rule(f)
    BY DEF Plots, Skipped
  <1>3. Rule(c)
    <2> HIDE DEF Rule
    <2> QED BY <1>2
  <1>4. Plotted(q) = c[Len(q)]
    BY Zenon DEF Plotted
  <1> HIDE DEF c
  <1> DEFINE S == {n \in Nat : n <= Len(q) => c[n] = f[n]}
  <1>5. 0 \in S
    <2>1. c[0] = <<>> /\ f[0] = <<>>
      BY <1>1, <1>2, <1>3
    <2> QED BY <2>1
  <1>6. ASSUME NEW n \in Nat, n \in S PROVE n + 1 \in S
    <2> SUFFICES ASSUME n + 1 <= Len(q) PROVE c[n + 1] = f[n + 1]
      OBVIOUS
    <2>1. n + 1 \in 0..Len(q) /\ n + 1 # 0 /\ (n + 1) - 1 = n
      BY <1>1
    <2>2. c[n + 1] = IF q[n + 1] \in {Damaged, <<>>} THEN c[n] ELSE Append(c[n], q[n + 1])
      BY <2>1, <1>3
    <2>3. f[n + 1] = IF q[n + 1] \in {Damaged, <<>>} THEN f[n] ELSE Append(f[n], q[n + 1])
      BY <2>1, <1>2
    <2>4. c[n] = f[n]
      BY <1>6, <1>1
    <2> QED BY <2>2, <2>3, <2>4
  <1>7. Nat \subseteq S
    <2> HIDE DEF S
    <2> QED BY <1>5, <1>6, NumbersInSet
  <1> QED BY <1>1, <1>4, <1>7

LEMMA PlottedEmpty == Plotted(<<>>) = <<>>
  <1> DEFINE f == [i \in 0..0 |-> <<>>]
  <1>1. <<>> \in File /\ Len(<<>>) = 0
    BY DEF File
  <1>2. Plots(f, <<>>, 0)
    BY DEF Plots
  <1>3. Plotted(<<>>) = f[0]
    <2> HIDE DEF f
    <2> QED BY <1>1, <1>2, PlottedIs
  <1> QED BY <1>3

\* A record that is neither damaged nor empty gets the next place.
LEMMA PlottedAppend ==
  \A q \in File : \A r \in Records \union {Damaged} :
    /\ Plotted(q) \in Seq(Records)
    /\ Plotted(Append(q, r)) = IF r \in Skipped THEN Plotted(q) ELSE Append(Plotted(q), r)
  <1> TAKE q \in File
  <1> TAKE r \in Records \union {Damaged}
  <1> DEFINE s == Append(q, r)
             n == Len(q)
  <1>1. /\ n \in Nat /\ s \in File /\ Len(s) = n + 1
        /\ s[n + 1] = r /\ \A i \in 1..n : s[i] = q[i]
    BY AppendProperties, LenProperties DEF File
  <1>2. PICK f : Plots(f, q, n)
    BY PlotsExists
  <1> HIDE DEF s, n
  <1>3. Plots(f, s, n)
    <2>1. ASSUME NEW i \in 0..n
          PROVE  f[i] = IF i = 0 THEN <<>>
                        ELSE IF s[i] \in Skipped THEN f[i - 1] ELSE Append(f[i - 1], s[i])
      <3>1. f[i] = IF i = 0 THEN <<>>
                   ELSE IF q[i] \in Skipped THEN f[i - 1] ELSE Append(f[i - 1], q[i])
        BY <1>2 DEF Plots
      <3>2. i # 0 => s[i] = q[i]
        BY <1>1
      <3> QED BY <3>1, <3>2
    <2>2. f \in [0..n -> Seq(Records)]
      BY <1>2 DEF Plots
    <2> QED BY <2>1, <2>2 DEF Plots
  <1> DEFINE last == IF s[n + 1] \in Skipped THEN f[n] ELSE Append(f[n], s[n + 1])
             g == [i \in 0..(n + 1) |-> IF i <= n THEN f[i] ELSE last]
  <1>4. Plots(g, s, n + 1)
    <2>1. n < Len(s)
      BY <1>1
    <2> QED BY <2>1, <1>1, <1>3, PlotsOneMore, Zenon
  <1>5. Plotted(s) = g[n + 1]
    <2> HIDE DEF g
    <2> QED BY <1>1, <1>4, PlottedIs
  <1>6. g[n + 1] = last
    <2> HIDE DEF last
    <2> QED BY <1>1
  <1>7. Plotted(q) = f[n] /\ f[n] \in Seq(Records)
    <2>1. Plotted(q) = f[n]
      BY <1>2, PlottedIs DEF n
    <2> QED BY <2>1, <1>1, <1>2 DEF Plots
  <1> HIDE DEF g
  <1> QED BY <1>1, <1>5, <1>6, <1>7 DEF s

-----------------------------------------------------------------------------
(* Where a name is on the axis. *)

LEMMA SampleFacts ==
  \A r \in Records : \A i \in 1..Len(r) :
    /\ r \in Seq(Samples) /\ Len(r) \in Nat
    /\ r[i] \in Samples /\ r[i].proc \in Procs /\ r[i].load \in Loads
    /\ Name[r[i].proc] \in Names
    /\ \A m \in Metrics : Usage(m, r[i].load) \in Nat
  <1> TAKE r \in Records
  <1> TAKE i \in 1..Len(r)
  <1>1. r \in Seq(Samples)
    BY AnalysisAssumption
  <1>2. Len(r) \in Nat /\ r[i] \in Samples
    BY <1>1
  <1>3. r[i].proc \in Procs /\ r[i].load \in Loads
    BY <1>2 DEF Samples
  <1>4. Name[r[i].proc] \in Names
    BY <1>3, AnalysisAssumption
  <1>5. r[i].load.cpu \in Nat /\ r[i].load.mem \in Nat
    BY <1>3, AnalysisAssumption
  <1>6. \A x \in Nat : x \div 1024 \in Nat
    OBVIOUS
  <1>7. \A m \in Metrics : Usage(m, r[i].load) \in Nat
    BY <1>5, <1>6 DEF Usage
  <1> QED BY <1>1, <1>2, <1>3, <1>4, <1>7

LEMMA PlacesFacts ==
  ASSUME NEW shown \in Seq(Records), NEW n, NEW t \in 1..Len(shown)
  PROVE  /\ shown[t] \in Records
         /\ Places(shown, n, t) \subseteq 1..Len(shown[t])
         /\ \A m \in Metrics : UsageAt(shown, m, n, t) \in Nat
  <1>1. shown[t] \in Records
    BY ElementOfSeq
  <1>2. Places(shown, n, t) \subseteq 1..Len(shown[t])
    BY DEF Places
  <1>3. ASSUME NEW m \in Metrics PROVE UsageAt(shown, m, n, t) \in Nat
    <2>1. CASE Places(shown, n, t) = {}
      BY <2>1 DEF UsageAt
    <2>2. CASE Places(shown, n, t) # {}
      <3> DEFINE i == CHOOSE i \in Places(shown, n, t) : TRUE
      <3>1. i \in 1..Len(shown[t])
        BY <2>2, <1>2
      <3>2. UsageAt(shown, m, n, t) = Usage(m, shown[t][i].load)
        BY <2>2 DEF UsageAt
      <3> HIDE DEF i
      <3>3. Usage(m, shown[t][i].load) \in Nat
        BY <3>1, <1>1, SampleFacts
      <3> QED BY <3>2, <3>3
    <2> QED BY <2>1, <2>2
  <1> QED BY <1>1, <1>2, <1>3

LEMMA ExpectedFacts ==
  ASSUME NEW shown \in Seq(Records), NEW m \in Metrics, NEW n
  PROVE  /\ Expected(shown, m, n) \in Seq(Nat)
         /\ Len(Expected(shown, m, n)) = Len(shown)
         /\ \A t \in 1..Len(shown) : Expected(shown, m, n)[t] = UsageAt(shown, m, n, t)
  <1>1. Len(shown) \in Nat
    BY LenProperties
  <1>2. \A t \in 1..Len(shown) : UsageAt(shown, m, n, t) \in Nat
    BY PlacesFacts
  <1> QED BY <1>1, <1>2 DEF Expected

LEMMA AppearsFacts ==
  ASSUME NEW shown \in Seq(Records), NEW n
  PROVE  /\ Len(shown) \in Nat
         /\ Appears(shown, n) \subseteq 1..Len(shown)
         /\ \A S \in SUBSET Appears(shown, n) : S # {} =>
              Max(S) \in S /\ \A t \in S : t <= Max(S)
  <1>1. Len(shown) \in Nat
    BY LenProperties
  <1>2. Appears(shown, n) \subseteq 1..Len(shown)
    BY DEF Appears
  <1>3. ASSUME NEW S \in SUBSET Appears(shown, n), S # {}
        PROVE  Max(S) \in S /\ \A t \in S : t <= Max(S)
    <2>1. S \in SUBSET Nat /\ \A x \in S : x <= Len(shown)
      BY <1>1, <1>2
    <2> QED BY <2>1, <1>1, <1>3, MaxIsGreatest
  <1> QED BY <1>1, <1>2, <1>3

LEMMA OnePlace ==
  ASSUME NEW shown \in Seq(Records), NEW n, ListedOnce(shown, n),
         NEW t \in 1..Len(shown), NEW i \in Places(shown, n, t)
  PROVE  Places(shown, n, t) = {i}
  <1>1. IsFiniteSet(Places(shown, n, t))
    <2>1. Len(shown[t]) \in Nat
      BY PlacesFacts, AnalysisAssumption, LenProperties
    <2>2. IsFiniteSet(1..Len(shown[t]))
      BY <2>1, FS_Interval
    <2> QED BY <2>2, PlacesFacts, FS_Subset
  <1>2. t \in Appears(shown, n)
    BY DEF Appears
  <1>3. Cardinality(Places(shown, n, t)) = 1
    BY <1>2 DEF ListedOnce
  <1>4. PICK j : Places(shown, n, t) = {j}
    BY <1>1, <1>3, FS_Singleton
  <1> QED BY <1>4

\* One more record on the axis leaves what was before it.
LEMMA OneMoreShown ==
  ASSUME NEW shown \in Seq(Records), NEW r \in Records, NEW n
  PROVE  LET longer == Append(shown, r)
         IN  /\ \A t \in 1..Len(shown) : Places(longer, n, t) = Places(shown, n, t)
             /\ \A m : \A t \in 1..Len(shown) : UsageAt(longer, m, n, t) = UsageAt(shown, m, n, t)
             /\ Appears(longer, n) \ {Len(shown) + 1} = Appears(shown, n)
             /\ Len(shown) + 1 \in Appears(longer, n) <=> \E i \in 1..Len(r) : Name[r[i].proc] = n
             /\ ListedOnce(longer, n) => ListedOnce(shown, n)
             /\ Gapless(longer, n) => Gapless(shown, n)
  <1> DEFINE longer == Append(shown, r)
  <1>1. /\ longer \in Seq(Records) /\ Len(longer) = Len(shown) + 1 /\ Len(shown) \in Nat
        /\ longer[Len(shown) + 1] = r /\ \A t \in 1..Len(shown) : longer[t] = shown[t]
    BY AppendProperties, LenProperties
  <1> HIDE DEF longer
  <1>2. \A t \in 1..Len(shown) : Places(longer, n, t) = Places(shown, n, t)
    BY <1>1 DEF Places
  <1>3. ASSUME NEW m, NEW t \in 1..Len(shown)
        PROVE  UsageAt(longer, m, n, t) = UsageAt(shown, m, n, t)
    <2>1. longer[t] = shown[t] /\ Places(longer, n, t) = Places(shown, n, t)
      BY <1>1, <1>2
    <2>2. UsageAt(longer, m, n, t) =
            IF Places(longer, n, t) = {} THEN 0
            ELSE Usage(m, longer[t][SomeOf(Places(longer, n, t))].load)
      BY DEF UsageAt, SomeOf
    <2>3. UsageAt(shown, m, n, t) =
            IF Places(shown, n, t) = {} THEN 0
            ELSE Usage(m, shown[t][SomeOf(Places(shown, n, t))].load)
      BY DEF UsageAt, SomeOf
    <2> QED BY <2>1, <2>2, <2>3
  <1>4. Appears(longer, n) \ {Len(shown) + 1} = Appears(shown, n)
    BY <1>1, <1>2 DEF Appears
  <1>5. Len(shown) + 1 \in Appears(longer, n) <=> \E i \in 1..Len(r) : Name[r[i].proc] = n
    BY <1>1 DEF Appears, Places
  <1>6. ASSUME ListedOnce(longer, n) PROVE ListedOnce(shown, n)
    <2> SUFFICES ASSUME NEW t \in Appears(shown, n) PROVE Cardinality(Places(shown, n, t)) = 1
      BY DEF ListedOnce
    <2>1. t \in Appears(longer, n) /\ t \in 1..Len(shown)
      BY <1>4 DEF Appears
    <2>2. Cardinality(Places(longer, n, t)) = 1
      BY <2>1, <1>6 DEF ListedOnce
    <2> QED BY <2>1, <2>2, <1>2
  <1>7. ASSUME Gapless(longer, n) PROVE Gapless(shown, n)
    <2>1. ListedOnce(shown, n)
      BY <1>6, <1>7 DEF Gapless
    <2>2. ASSUME NEW t \in Appears(shown, n), NEW u \in Appears(shown, n), NEW x \in t..u
          PROVE  x \in Appears(shown, n)
      <3>1. t \in Appears(longer, n) /\ u \in Appears(longer, n)
        BY <1>4
      <3>2. x \in Appears(longer, n)
        BY <3>1, <1>7 DEF Gapless
      <3>3. x # Len(shown) + 1
        BY <1>1 DEF Appears
      <3> QED BY <3>2, <3>3, <1>4
    <2> QED BY <2>1, <2>2 DEF Gapless
  <1> QED BY <1>2, <1>3, <1>4, <1>5, <1>6, <1>7 DEF longer

-----------------------------------------------------------------------------
(* What is shown after a step. *)

LEMMA ShownFacts ==
  ASSUME TypeOK
  PROVE  /\ SubSeq(file, 1, pos) \in File /\ file \in File
         /\ Shown \in Seq(Records)
         /\ Len(file) \in Nat /\ Len(Shown) \in Nat
  <1>1. file \in File /\ Len(file) \in Nat /\ pos \in Nat /\ pos <= Len(file)
    BY DEF TypeOK, File
  <1>2. SubSeq(file, 1, pos) \in File
    BY <1>1 DEF File
  <1>3. Shown \in Seq(Records)
    <2>1. Damaged \in Records \union {Damaged}
      OBVIOUS
    <2> QED BY <2>1, <1>2, PlottedAppend, Zenon DEF Shown
  <1> QED BY <1>1, <1>2, <1>3, LenProperties

LEMMA WriteShows ==
  ASSUME TypeOK, WriteRecord
  PROVE  Shown' = Shown /\ file' \in Seq(Records \union {Damaged}) /\ Len(file') = Len(file) + 1
  <1>1. PICK r \in Records \union {Damaged} : file' = Append(file, r) /\ pos' = pos
    BY DEF WriteRecord
  <1>2. pos \in Nat /\ pos <= Len(file) /\ file \in Seq(Records \union {Damaged})
    BY DEF TypeOK
  <1>3. SubSeq(file', 1, pos') = SubSeq(file, 1, pos)
    BY <1>1, <1>2
  <1>4. file' \in Seq(Records \union {Damaged}) /\ Len(file') = Len(file) + 1
    BY <1>1, <1>2
  <1> QED BY <1>3, <1>4 DEF Shown

LEMMA DecodeShows ==
  ASSUME TypeOK, Decode
  PROVE  /\ file[pos + 1] \in Records \union {Damaged}
         /\ Shown' = IF file[pos + 1] \in Skipped THEN Shown ELSE Append(Shown, file[pos + 1])
  <1>1. file' = file /\ pos' = pos + 1 /\ pos < Len(file)
    BY DEF Decode
  <1>2. pos \in Nat /\ file \in Seq(Records \union {Damaged})
    BY DEF TypeOK
  <1>3. file[pos + 1] \in Records \union {Damaged}
    BY <1>1, <1>2, ElementOfSeq
  <1>4. SubSeq(file, 1, pos + 1) = Append(SubSeq(file, 1, pos), file[pos + 1])
    BY <1>1, <1>2
  <1>5. SubSeq(file, 1, pos) \in File
    BY ShownFacts
  <1>6. Plotted(SubSeq(file, 1, pos + 1)) =
          IF file[pos + 1] \in Skipped THEN Plotted(SubSeq(file, 1, pos))
          ELSE Append(Plotted(SubSeq(file, 1, pos)), file[pos + 1])
    BY <1>3, <1>4, <1>5, PlottedAppend, Zenon
  <1> QED BY <1>1, <1>3, <1>6 DEF Shown

-----------------------------------------------------------------------------
(* The invariant. *)

\* What IInv says of each metric.
OfCharts == \A m \in Metrics : IF Before(m) THEN Growing(m) ELSE Finished(m)

LEMMA InitInv == Init => IInv
  <1> SUFFICES ASSUME Init PROVE IInv
    OBVIOUS
  <1>1. /\ file = <<>> /\ pos = 0 /\ time = 0 /\ todo = <<>> /\ pc = "decode"
        /\ \A m \in Metrics, n \in Names : series[m][n] = <<>>
    BY DEF Init
  <1>2. TypeOK
    <2>1. file \in Seq(Records \union {Damaged}) /\ pos \in 0..Len(file) /\ time \in 0..pos
      BY <1>1
    <2>2. todo \in Seq(Samples) /\ <<>> \in Seq(Nat)
      BY <1>1
    <2>3. NoStats \in [max : Nat, sum : Nat, len : Nat]
      BY DEF NoStats
    <2> HIDE DEF NoStats
    <2> QED BY <2>1, <2>2, <2>3, <1>1 DEF Init, TypeOK
  <1>3. Shown = <<>>
    <2>1. SubSeq(file, 1, pos) = <<>>
      BY <1>1
    <2> QED BY <2>1, PlottedEmpty DEF Shown
  <1>4. Reading
    BY <1>1, <1>3 DEF Reading
  <1>5. InStep
    BY <1>1 DEF InStep, Metrics
  <1>6. ASSUME NEW m \in Metrics PROVE Before(m) /\ Growing(m)
    <2>1. ASSUME NEW n \in Names
          PROVE  /\ Len(series[m][n]) = 0 /\ ~ Left(n)
                 /\ series[m][n] = SubSeq(Expected(<<>>, m, n), 1, LastDrawn(<<>>, n))
      <3>1. ~ Left(n)
        BY <1>1 DEF Left
      <3>2. LastDrawn(<<>>, n) = 0
        BY <3>1 DEF LastDrawn, Appears
      <3>3. SubSeq(Expected(<<>>, m, n), 1, 0) = <<>>
        BY DEF Expected
      <3>4. SubSeq(Expected(<<>>, m, n), 1, LastDrawn(<<>>, n)) = <<>>
        BY <3>2, <3>3, Zenon
      <3>5. series[m][n] = <<>> /\ Len(<<>>) = 0
        BY <1>1
      <3> QED BY <3>1, <3>4, <3>5, Zenon
    <2>2. Growing(m)
      BY <2>1, <1>1, <1>3 DEF Growing
    <2> QED BY <2>2, <1>1 DEF Before
  <1> QED BY <1>2, <1>4, <1>5, <1>6 DEF IInv

\* A step that shows no other records and does not touch the series.
LEMMA Unmoved ==
  ASSUME Reading, InStep, OfCharts,
         Shown' = Shown, UNCHANGED <<time, todo, series, stats, pc>>
  PROVE  Reading' /\ InStep' /\ OfCharts'
  <1>1. Reading'
    BY DEF Reading
  <1>2. InStep'
    BY DEF InStep
  <1>3. ASSUME NEW m \in Metrics
        PROVE  (Before(m)' <=> Before(m)) /\ (Growing(m)' <=> Growing(m)) /\ (Finished(m)' <=> Finished(m))
    <2>1. Before(m)' <=> Before(m)
      BY DEF Before
    <2>2. \A n \in Names : (Left(n)' <=> Left(n)) /\ LastDrawn(Shown, n)' = LastDrawn(Shown, n)
      BY DEF Left, LastDrawn
    <2>3. Growing(m)' <=> Growing(m)
      BY <2>2 DEF Growing
    <2>4. Finished(m)' <=> Finished(m)
      BY DEF Finished, Kept
    <2> QED BY <2>1, <2>3, <2>4
  <1>4. OfCharts'
    BY <1>3 DEF OfCharts
  <1> QED BY <1>1, <1>2, <1>4

LEMMA WriteRecordInv == IInv /\ WriteRecord => IInv'
  <1> SUFFICES ASSUME IInv, WriteRecord PROVE IInv'
    OBVIOUS
  <1>1. TypeOK /\ Reading /\ InStep /\ OfCharts
    BY DEF IInv, OfCharts
  <1>2. UNCHANGED <<pos, broken, time, todo, series, stats, pc>>
    BY DEF WriteRecord
  <1>3. Shown' = Shown /\ file' \in Seq(Records \union {Damaged}) /\ Len(file') = Len(file) + 1
    BY <1>1, WriteShows
  <1>4. TypeOK'
    <2>1. pos' \in 0..Len(file')
      BY <1>1, <1>2, <1>3, ShownFacts DEF TypeOK
    <2> QED BY <2>1, <1>1, <1>2, <1>3 DEF TypeOK
  <1>5. Reading' /\ InStep' /\ OfCharts'
    BY <1>1, <1>2, <1>3, Unmoved
  <1> QED BY <1>4, <1>5 DEF IInv, OfCharts

LEMMA DiskFailsInv == IInv /\ DiskFails => IInv'
  <1> SUFFICES ASSUME IInv, DiskFails PROVE IInv'
    OBVIOUS
  <1>1. TypeOK /\ Reading /\ InStep /\ OfCharts
    BY DEF IInv, OfCharts
  <1>2. broken' = TRUE /\ UNCHANGED <<file, pos, time, todo, series, stats, pc>>
    BY DEF DiskFails
  <1>3. TypeOK' /\ Shown' = Shown
    BY <1>1, <1>2 DEF TypeOK, Shown
  <1>4. Reading' /\ InStep' /\ OfCharts'
    BY <1>1, <1>2, <1>3, Unmoved
  <1> QED BY <1>3, <1>4 DEF IInv, OfCharts

LEMMA EndOfFileInv == IInv /\ EndOfFile => IInv'
  <1> SUFFICES ASSUME IInv, EndOfFile PROVE IInv'
    OBVIOUS
  <1>1. TypeOK /\ Reading /\ InStep /\ OfCharts
    BY DEF IInv, OfCharts
  <1>2. UNCHANGED <<file, pos, broken, time, todo, series, stats>> /\ pc = "decode" /\ pc' = "cpu"
    BY DEF EndOfFile
  <1>3. TypeOK'
    BY <1>1, <1>2 DEF TypeOK, Metrics
  <1>4. Shown' = Shown
    BY <1>2 DEF Shown
  <1>5. Reading' /\ InStep'
    BY <1>1, <1>2, <1>4 DEF Reading, InStep
  <1>6. ASSUME NEW m \in Metrics PROVE Before(m)' /\ Growing(m)'
    <2>1. Before(m) /\ Before(m)'
      BY <1>2 DEF Before
    <2>2. Growing(m)
      BY <2>1, <1>1 DEF OfCharts
    <2>3. \A n \in Names : (Left(n)' <=> Left(n)) /\ LastDrawn(Shown, n)' = LastDrawn(Shown, n)
      BY <1>2, <1>4 DEF Left, LastDrawn
    <2>4. Growing(m)'
      BY <2>2, <2>3, <1>2, <1>4 DEF Growing
    <2> QED BY <2>1, <2>4
  <1> QED BY <1>3, <1>5, <1>6 DEF IInv

\* A record is taken in hand: none of it is added yet, and it comes after all the
\* records with a name that are shown.
LEMMA DecodeInv == IInv /\ Decode => IInv'
  <1> SUFFICES ASSUME IInv, Decode PROVE IInv'
    OBVIOUS
  <1> DEFINE r == file[pos + 1]
  <1>1. TypeOK /\ Reading /\ InStep /\ OfCharts
    BY DEF IInv, OfCharts
  <1>2. /\ pc = "decode" /\ pos < Len(file) /\ pos' = pos + 1 /\ UNCHANGED <<file, broken, series, stats>>
        /\ IF r \in Skipped THEN UNCHANGED <<time, todo, pc>>
           ELSE time' = time + 1 /\ todo' = r /\ pc' = "add"
    BY DEF Decode, Skipped
  <1>3. r \in Records \union {Damaged}
    BY <1>1, DecodeShows
  <1>4. Shown' = IF r \in Skipped THEN Shown ELSE Append(Shown, r)
    BY <1>1, DecodeShows
  <1>5. /\ Shown \in Seq(Records) /\ Len(Shown) \in Nat /\ time = Len(Shown) /\ todo = <<>>
        /\ pos \in Nat /\ Len(file) \in Nat /\ time <= pos
    BY <1>1, <1>2, ShownFacts DEF Reading, TypeOK
  <1> HIDE DEF r
  <1>6. r \notin Skipped => r \in Records /\ r \in Seq(Samples) /\ r # <<>> /\ Len(r) \in Nat \ {0}
    <2> SUFFICES ASSUME r \notin Skipped
                 PROVE  r \in Records /\ r \in Seq(Samples) /\ r # <<>> /\ Len(r) \in Nat \ {0}
      OBVIOUS
    <2>1. r \in Records /\ r # <<>>
      BY <1>3 DEF Skipped
    <2>2. r \in Seq(Samples)
      BY <2>1, AnalysisAssumption
    <2> QED BY <2>1, <2>2
  <1>7. TypeOK'
    <2>1. pos' \in 0..Len(file') /\ time' \in 0..pos'
      BY <1>2, <1>5
    <2>2. todo' \in Seq(Samples)
      BY <1>1, <1>2, <1>6 DEF TypeOK
    <2>3. pc' \in {"decode", "add"}
      BY <1>2
    <2> QED BY <2>1, <2>2, <2>3, <1>1, <1>2 DEF TypeOK
  <1>8. CASE r \in Skipped
    <2>1. Reading' /\ InStep' /\ OfCharts'
      BY <1>1, <1>2, <1>4, <1>8, Unmoved
    <2> QED BY <2>1, <1>7 DEF IInv, OfCharts
  <1>9. CASE r \notin Skipped
    <2>1. /\ Shown' = Append(Shown, r) /\ Len(Shown') = time + 1 /\ Shown'[time + 1] = r
          /\ Shown' \in Seq(Records)
      <3>1. r \in Records
        BY <1>6, <1>9
      <3> QED BY <3>1, <1>4, <1>5, <1>9
    <2>2. time' = time + 1 /\ todo' = r /\ pc' = "add"
      BY <1>2, <1>9
    <2>3. Reading'
      <3>1. 0 \in 0..(Len(r) - 1) /\ r = SubSeq(r, 0 + 1, Len(r))
        BY <1>6, <1>9
      <3>2. /\ time' = Len(Shown') /\ time' > 0
            /\ \E k \in 0..(Len(Shown'[time']) - 1) :
                 todo' = SubSeq(Shown'[time'], k + 1, Len(Shown'[time']))
        <4>1. time' = Len(Shown') /\ time' > 0 /\ Shown'[time'] = r /\ todo' = r
          BY <2>1, <2>2, <1>5
        <4> QED BY <4>1, <3>1
      <3> QED BY <3>2, <2>2 DEF Reading
    <2>4. InStep'
      BY <1>1, <1>2 DEF InStep
    <2>5. ASSUME NEW m \in Metrics, NEW n \in Names
          PROVE  /\ ListedOnce(Shown', n) =>
                      /\ Len(series'[m][n]) <= time'
                      /\ Left(n)' => Len(series'[m][n]) < time'
                 /\ Gapless(Shown', n) =>
                      series'[m][n] = SubSeq(Expected(Shown', m, n), 1, LastDrawn(Shown, n)')
      <3>1. Before(m) /\ series'[m][n] = series[m][n]
        BY <1>2 DEF Before
      <3>2. /\ ListedOnce(Shown, n) => Len(series[m][n]) <= time
            /\ Gapless(Shown, n) =>
                 series[m][n] = SubSeq(Expected(Shown, m, n), 1, LastDrawn(Shown, n))
        BY <3>1, <1>1 DEF OfCharts, Growing
      <3>3. /\ ListedOnce(Shown', n) => ListedOnce(Shown, n)
            /\ Gapless(Shown', n) => Gapless(Shown, n)
            /\ Appears(Shown', n) \ {time + 1} = Appears(Shown, n)
            /\ time + 1 \in Appears(Shown', n) <=> \E i \in 1..Len(r) : Name[r[i].proc] = n
            /\ \A t \in 1..time : UsageAt(Shown', m, n, t) = UsageAt(Shown, m, n, t)
        <4>1. Shown' = Append(Shown, r) /\ r \in Records /\ Shown \in Seq(Records) /\ time = Len(Shown)
          BY <2>1, <1>5, <1>6, <1>9
        <4>2. LET longer == Append(Shown, r)
              IN  /\ \A t \in 1..Len(Shown) : Places(longer, n, t) = Places(Shown, n, t)
                  /\ \A c : \A t \in 1..Len(Shown) :
                       UsageAt(longer, c, n, t) = UsageAt(Shown, c, n, t)
                  /\ Appears(longer, n) \ {Len(Shown) + 1} = Appears(Shown, n)
                  /\ Len(Shown) + 1 \in Appears(longer, n) <=>
                       \E i \in 1..Len(r) : Name[r[i].proc] = n
                  /\ ListedOnce(longer, n) => ListedOnce(Shown, n)
                  /\ Gapless(longer, n) => Gapless(Shown, n)
          BY <4>1, OneMoreShown, Zenon
        <4> QED BY <4>1, <4>2, Zenon
      <3>4. /\ Left(n)' <=> time + 1 \in Appears(Shown', n)
            /\ ~ Left(n)
        BY <3>3, <2>2, <1>5 DEF Left
      <3>5. LastDrawn(Shown, n)' = LastDrawn(Shown, n)
        <4>1. (IF Left(n)' THEN Appears(Shown', n) \ {time'} ELSE Appears(Shown', n)) = Appears(Shown, n)
          BY <3>3, <3>4, <2>2
        <4>2. (IF Left(n) THEN Appears(Shown, n) \ {time} ELSE Appears(Shown, n)) = Appears(Shown, n)
          BY <3>4
        <4> QED BY <4>1, <4>2, Zenon DEF LastDrawn
      <3>6. LastDrawn(Shown, n) \in 0..time
        BY <3>4, <1>5, AppearsFacts DEF LastDrawn
      <3>7. SubSeq(Expected(Shown', m, n), 1, LastDrawn(Shown, n)) =
              SubSeq(Expected(Shown, m, n), 1, LastDrawn(Shown, n))
        <4> DEFINE e == Expected(Shown, m, n)
                   f == Expected(Shown', m, n)
                   l == LastDrawn(Shown, n)
        <4>1. /\ e \in Seq(Nat) /\ Len(e) = time /\ f \in Seq(Nat) /\ Len(f) = time + 1
              /\ \A t \in 1..time : e[t] = f[t]
          <5>1. /\ f \in Seq(Nat) /\ Len(f) = time + 1
                /\ \A t \in 1..(time + 1) : f[t] = UsageAt(Shown', m, n, t)
            <6>1. Shown' \in Seq(Records) /\ Len(Shown') = time + 1
              BY <2>1
            <6> QED BY <6>1, ExpectedFacts
          <5>2. /\ e \in Seq(Nat) /\ Len(e) = time
                /\ \A t \in 1..time : e[t] = UsageAt(Shown, m, n, t)
            <6>1. Shown \in Seq(Records) /\ Len(Shown) = time
              BY <1>5
            <6> QED BY <6>1, ExpectedFacts
          <5>3. time \in Nat /\ \A t \in 1..time : UsageAt(Shown', m, n, t) = UsageAt(Shown, m, n, t)
            BY <3>3, <1>5
          <5> HIDE DEF e, f
          <5> QED BY <5>1, <5>2, <5>3
        <4>2. l \in 0..time
          BY <3>6
        <4> HIDE DEF e, f, l
        <4>3. SubSeq(f, 1, l) = SubSeq(e, 1, l)
          BY <4>1, <4>2, <1>5
        <4> QED BY <4>3 DEF e, f, l
      <3>8. Len(series[m][n]) \in Nat
        BY <1>1 DEF TypeOK
      <3>9. ASSUME ListedOnce(Shown', n)
            PROVE  Len(series'[m][n]) <= time' /\ (Left(n)' => Len(series'[m][n]) < time')
        BY <3>1, <3>2, <3>3, <3>8, <3>9, <2>2, <1>5
      <3>10. ASSUME Gapless(Shown', n)
             PROVE  series'[m][n] = SubSeq(Expected(Shown', m, n), 1, LastDrawn(Shown, n)')
        BY <3>1, <3>2, <3>3, <3>5, <3>7, <3>10, Zenon
      <3> QED BY <3>9, <3>10
    <2>6. ASSUME NEW m \in Metrics PROVE Before(m)' /\ Growing(m)'
      <3>1. Growing(m)'
        BY <2>5 DEF Growing
      <3> QED BY <3>1, <2>2 DEF Before
    <2> QED BY <2>3, <2>4, <2>6, <1>7 DEF IInv
  <1> QED BY <1>8, <1>9

\* The usage of a name without a gap that is in the last record shown: what has been
\* drawn of it before that record reaches just up to it, or nothing has.
LEMMA UpToTheLast ==
  ASSUME NEW shown \in Seq(Records), NEW n, NEW m \in Metrics, Gapless(shown, n),
         Len(shown) \in Appears(shown, n)
  PROVE  LET before == Appears(shown, n) \ {Len(shown)}
             usage == Expected(shown, m, n)
         IN  /\ before # {} => Max(before) = Len(shown) - 1 /\ Max(before) \in Nat \ {0}
             /\ before = {} => SubSeq(usage, 1, Len(shown) - 1) = Zeros(Len(shown) - 1)
             /\ Append(SubSeq(usage, 1, Len(shown) - 1), usage[Len(shown)]) = usage
             /\ Max(Appears(shown, n)) = Len(shown)
             /\ SubSeq(usage, 1, Len(shown)) = usage
             /\ Len(SubSeq(usage, 1, Len(shown) - 1)) = Len(shown) - 1
  <1> DEFINE before == Appears(shown, n) \ {Len(shown)}
             usage == Expected(shown, m, n)
             len == Len(shown)
  <1>1. /\ len \in Nat \ {0} /\ Appears(shown, n) \subseteq 1..len
        /\ len \in Appears(shown, n) /\ before \subseteq 1..(len - 1)
    BY AppearsFacts
  <1>2. /\ usage \in Seq(Nat) /\ Len(usage) = len
        /\ \A t \in 1..len : usage[t] = UsageAt(shown, m, n, t)
    BY ExpectedFacts
  <1>3. before # {} => Max(before) = len - 1 /\ Max(before) \in Nat \ {0}
    <2> SUFFICES ASSUME before # {} PROVE Max(before) = len - 1 /\ Max(before) \in Nat \ {0}
      OBVIOUS
    <2>1. Max(before) \in before /\ \A t \in before : t <= Max(before)
      BY AppearsFacts
    <2>2. PICK t \in before : TRUE
      OBVIOUS
    <2>3. t \in Appears(shown, n) /\ t \in 1..(len - 1)
      BY <2>2, <1>1
    <2>4. t..len \subseteq Appears(shown, n)
      BY <2>3, <1>1 DEF Gapless
    <2>5. len - 1 \in before
      BY <2>3, <2>4, <1>1
    <2> HIDE DEF before, len
    <2>6. Max(before) \in 1..(len - 1) /\ len - 1 <= Max(before)
      BY <2>1, <2>5, <1>1
    <2> QED BY <2>6, <1>1
  <1>4. before = {} => SubSeq(usage, 1, len - 1) = Zeros(len - 1)
    <2> SUFFICES ASSUME before = {} PROVE SubSeq(usage, 1, len - 1) = Zeros(len - 1)
      OBVIOUS
    <2>1. \A t \in 1..(len - 1) : usage[t] = 0
      <3> TAKE t \in 1..(len - 1)
      <3>1. t \in 1..len /\ t \notin Appears(shown, n)
        BY <1>1
      <3>2. Places(shown, n, t) = {}
        BY <3>1 DEF Appears
      <3>3. usage[t] = UsageAt(shown, m, n, t)
        BY <3>1, <1>2
      <3> HIDE DEF usage
      <3> QED BY <3>2, <3>3 DEF UsageAt
    <2> HIDE DEF usage, len
    <2> QED BY <2>1, <1>1, <1>2 DEF Zeros
  <1>5. /\ Append(SubSeq(usage, 1, len - 1), usage[len]) = usage
        /\ SubSeq(usage, 1, len) = usage
        /\ Len(SubSeq(usage, 1, len - 1)) = len - 1
    <2> HIDE DEF usage, len
    <2> QED BY <1>1, <1>2
  <1>6. Max(Appears(shown, n)) = len
    <2>1. Max(Appears(shown, n)) \in 1..len /\ len <= Max(Appears(shown, n))
      BY <1>1, AppearsFacts
    <2> HIDE DEF len
    <2> QED BY <2>1, <1>1
  <1> QED BY <1>3, <1>4, <1>5, <1>6

\* A sample is added: its name has no other in the record if it is listed once, and
\* then its series is drawn up to this record.
LEMMA AddSampleInv == IInv /\ AddSample => IInv'
  <1> SUFFICES ASSUME IInv, AddSample PROVE IInv'
    OBVIOUS
  <1>1. TypeOK /\ Reading /\ InStep /\ OfCharts
    BY DEF IInv, OfCharts
  <1>2. /\ pc = "add" /\ todo' = Tail(todo) /\ UNCHANGED <<file, pos, broken, time, stats>>
        /\ pc' = IF todo' = <<>> THEN "decode" ELSE "add"
    BY DEF AddSample
  <1>3. Shown' = Shown /\ Shown \in Seq(Records) /\ time = Len(Shown) /\ time \in Nat \ {0}
    BY <1>1, <1>2, ShownFacts DEF Shown, Reading
  <1>0. PICK r \in Records : r = Shown[time]
    BY <1>3, ElementOfSeq
  <1>4. PICK k \in 0..(Len(r) - 1) : todo = SubSeq(r, k + 1, Len(r))
    BY <1>0, <1>1, <1>2 DEF Reading
  <1>5. r \in Seq(Samples) /\ Len(r) \in Nat /\ k + 1 \in 1..Len(r) /\ k \in Nat
    BY <1>4, AnalysisAssumption
  <1>6. /\ Head(todo) = r[k + 1] /\ Len(todo) = Len(r) - k
        /\ \A i \in 1..Len(todo) : todo[i] = r[k + i]
        /\ todo' \in Seq(Samples) /\ Len(todo') = Len(r) - (k + 1)
        /\ \A i \in 1..Len(todo') : todo'[i] = r[(k + 1) + i]
        /\ todo' = SubSeq(r, (k + 1) + 1, Len(r))
    <2>1. /\ todo \in Seq(Samples) /\ Len(todo) = Len(r) - k /\ todo # <<>>
          /\ \A i \in 1..Len(todo) : todo[i] = r[k + i]
      <3>1. todo \in Seq(Samples) /\ Len(todo) = Len(r) - k
        BY <1>4, <1>5
      <3>2. todo # <<>>
        BY <3>1, <1>5
      <3>3. \A i \in 1..(Len(r) - k) : todo[i] = r[k + i]
        <4> TAKE i \in 1..(Len(r) - k)
        <4>1. SubSeq(r, k + 1, Len(r))[i] = r[(k + 1) + i - 1] /\ (k + 1) + i - 1 = k + i
          BY <1>5, SubSeqProperties
        <4> QED BY <4>1, <1>4
      <3> QED BY <3>1, <3>2, <3>3
    <2>2. Head(todo) = r[k + 1]
      BY <2>1, <1>5
    <2>3. /\ todo' \in Seq(Samples) /\ Len(todo') = Len(todo) - 1
          /\ \A i \in 1..Len(todo') : todo'[i] = todo[i + 1]
      BY <2>1, <1>2, <1>5
    <2>4. Len(todo') = Len(r) - (k + 1)
      BY <2>1, <2>3, <1>5
    <2>5. \A i \in 1..Len(todo') : todo'[i] = r[(k + 1) + i]
      <3> TAKE i \in 1..Len(todo')
      <3>1. i + 1 \in 1..Len(todo) /\ k + (i + 1) = (k + 1) + i
        BY <2>1, <2>3, <1>5
      <3> QED BY <3>1, <2>1, <2>3
    <2>6. todo' = SubSeq(r, (k + 1) + 1, Len(r))
      BY <2>3, <2>4, <2>5, <1>5
    <2> QED BY <2>1, <2>2, <2>3, <2>4, <2>5, <2>6
  <1>a. PICK a \in Names : a = Name[r[k + 1].proc]
    BY <1>5, SampleFacts
  <1> DEFINE before(m) == IF series["cpu"][a] = <<>> THEN Zeros(time - 1) ELSE series[m][a]
             usage(m) == Usage(m, r[k + 1].load)
  <1>7. \A m \in Metrics : usage(m) \in Nat
    BY <1>5, SampleFacts
  <1>8. series' = [m \in Metrics |-> [series[m] EXCEPT ![a] = Append(before(m), usage(m))]]
    BY <1>a, <1>6, Zenon DEF AddSample
  <1> HIDE DEF usage
  <1>9. \A m \in Metrics : series[m] \in [Names -> Seq(Nat)]
    BY <1>1 DEF TypeOK
  <1>10. ASSUME NEW m \in Metrics
         PROVE  /\ series'[m][a] = Append(before(m), usage(m))
                /\ \A n \in Names : n # a => series'[m][n] = series[m][n]
    <2> HIDE DEF before
    <2> QED BY <1>7, <1>8, <1>9
  <1>11. "cpu" \in Metrics /\ "mem" \in Metrics
    BY DEF Metrics
  <1>12. ASSUME NEW m \in Metrics
         PROVE  /\ before(m) \in Seq(Nat) /\ series'[m] \in [Names -> Seq(Nat)]
                /\ Len(series'[m][a]) = Len(before(m)) + 1
                /\ Len(before(m)) = IF series["cpu"][a] = <<>> THEN time - 1 ELSE Len(series[m][a])
    <2>1. Zeros(time - 1) \in Seq(Nat) /\ Len(Zeros(time - 1)) = time - 1
      BY <1>3 DEF Zeros
    <2>2. series[m][a] \in Seq(Nat)
      BY <1>7, <1>9
    <2>3. /\ before(m) \in Seq(Nat)
          /\ Len(before(m)) = IF series["cpu"][a] = <<>> THEN time - 1 ELSE Len(series[m][a])
      BY <2>1, <2>2
    <2> HIDE DEF before
    <2>4. Append(before(m), usage(m)) \in Seq(Nat) /\ Len(Append(before(m), usage(m))) = Len(before(m)) + 1
      BY <2>3, <1>7
    <2>5. series'[m] = [series[m] EXCEPT ![a] = Append(before(m), usage(m))]
      BY <1>8
    <2>6. series'[m] \in [Names -> Seq(Nat)]
      BY <2>4, <2>5, <1>9
    <2> QED BY <2>3, <2>4, <2>6, <1>10
  <1>13. TypeOK'
    <2>1. series' \in [Metrics -> [Names -> Seq(Nat)]]
      <3> HIDE DEF before
      <3> QED BY <1>8, <1>12
    <2>2. pc' \in {"decode", "add"}
      BY <1>2
    <2> QED BY <2>1, <2>2, <1>1, <1>2, <1>6 DEF TypeOK
  <1>14. Reading'
    <2>1. pc' # "add" => todo' = <<>>
      BY <1>2
    <2>2. pc' = "add" => k + 1 \in 0..(Len(r) - 1)
      <3> SUFFICES ASSUME todo' # <<>> PROVE k + 1 \in 0..(Len(r) - 1)
        BY <1>2
      <3>1. Len(todo') # 0
        BY <1>6
      <3> QED BY <3>1, <1>5, <1>6
    <2>3. pc' = "add" => \E j \in 0..(Len(r) - 1) : todo' = SubSeq(r, j + 1, Len(r))
      BY <2>2, <1>6
    <2>4. time' = Len(Shown') /\ time' > 0 /\ Shown'[time'] = r
      BY <1>0, <1>2, <1>3
    <2> QED BY <2>1, <2>3, <2>4 DEF Reading
  <1>15. InStep'
    <2>1. ASSUME NEW n \in Names PROVE Len(series'["cpu"][n]) = Len(series'["mem"][n])
      <3>1. Len(series["cpu"][n]) = Len(series["mem"][n])
        BY <1>1, <1>2 DEF InStep
      <3>2. CASE n # a
        BY <3>1, <3>2, <1>10, <1>11
      <3>3. CASE n = a
        <4> HIDE DEF before
        <4> QED BY <3>1, <3>3, <1>11, <1>12
      <3> QED BY <3>2, <3>3
    <2> QED BY <2>1 DEF InStep
  <1>16. /\ Left(a) /\ \A n : n # a => (Left(n)' <=> Left(n))
         /\ k + 1 \in Places(Shown, a, time) /\ time \in Appears(Shown, a)
    <2>1. todo[1] = r[k + 1] /\ 1 \in 1..Len(todo)
      BY <1>5, <1>6
    <2>2. Left(a)
      BY <2>1, <1>a DEF Left
    <2>3. k + 1 \in Places(Shown, a, time)
      BY <1>0, <1>5, <1>a DEF Places
    <2>4. time \in Appears(Shown, a)
      BY <2>3, <1>3 DEF Appears
    <2>5. ASSUME NEW n, n # a PROVE Left(n)' <=> Left(n)
      <3>1. ASSUME Left(n) PROVE Left(n)'
        <4>1. PICK i \in 1..Len(todo) : Name[todo[i].proc] = n
          BY <3>1 DEF Left
        <4>2. i # 1
          BY <4>1, <2>1, <2>5, <1>a
        <4>3. i - 1 \in 1..Len(todo') /\ todo'[i - 1] = todo[i]
          BY <4>1, <4>2, <1>5, <1>6
        <4> QED BY <4>1, <4>3 DEF Left
      <3>2. ASSUME Left(n)' PROVE Left(n)
        <4>1. PICK i \in 1..Len(todo') : Name[todo'[i].proc] = n
          BY <3>2 DEF Left
        <4>2. i + 1 \in 1..Len(todo) /\ todo[i + 1] = todo'[i]
          <5>1. i \in Nat /\ i + 1 \in 1..Len(todo) /\ k + (i + 1) = (k + 1) + i
            <6>1. Len(todo') = Len(r) - (k + 1) /\ Len(todo) = Len(r) - k
              BY <1>6
            <6> QED BY <4>1, <6>1, <1>5
          <5>2. todo[i + 1] = r[k + (i + 1)] /\ todo'[i] = r[(k + 1) + i]
            BY <4>1, <5>1, <1>6
          <5> QED BY <5>1, <5>2
        <4> QED BY <4>1, <4>2 DEF Left
      <3> QED BY <3>1, <3>2
    <2> QED BY <2>2, <2>3, <2>4, <2>5
  <1>17. ASSUME ListedOnce(Shown, a)
         PROVE  ~ Left(a)' /\ Places(Shown, a, time) = {k + 1}
    <2>1. Places(Shown, a, time) = {k + 1}
      BY <1>3, <1>16, <1>17, OnePlace
    <2>2. ASSUME NEW i \in 1..Len(todo'), Name[todo'[i].proc] = a PROVE FALSE
      <3>1. (k + 1) + i \in 1..Len(r) /\ Name[r[(k + 1) + i].proc] = a
        <4>1. /\ Len(todo') = Len(r) - (k + 1)
              /\ \A j \in 1..Len(todo') : todo'[j] = r[(k + 1) + j]
          BY <1>6
        <4> QED BY <2>2, <4>1, <1>5
      <3>2. (k + 1) + i \in Places(Shown, a, time)
        BY <3>1, <1>0 DEF Places
      <3> QED BY <3>2, <2>1, <2>2, <1>4
    <2> QED BY <2>1, <2>2 DEF Left
  <1>18. ASSUME NEW m \in Metrics
         PROVE  Before(m) /\ Before(m)' /\ Growing(m)
    BY <1>1, <1>2 DEF OfCharts, Before
  <1>19. ASSUME NEW m \in Metrics, Gapless(Shown, a)
         PROVE  series'[m][a] = SubSeq(Expected(Shown, m, a), 1, LastDrawn(Shown, a)')
    <2> DEFINE drawn == Appears(Shown, a) \ {time}
    <2>1. \A c \in Metrics : /\ series[c][a] = SubSeq(Expected(Shown, c, a), 1, LastDrawn(Shown, a))
                             /\ series[c][a] \in Seq(Nat)
      BY <1>7, <1>9, <1>18, <1>19 DEF Growing
    <2>2. LastDrawn(Shown, a) = IF drawn = {} THEN 0 ELSE Max(drawn)
      BY <1>16 DEF LastDrawn
    <2>3. /\ drawn # {} => Max(drawn) = time - 1 /\ Max(drawn) \in Nat \ {0}
          /\ Max(Appears(Shown, a)) = time
          /\ \A c \in Metrics :
               /\ drawn = {} => SubSeq(Expected(Shown, c, a), 1, time - 1) = Zeros(time - 1)
               /\ Append(SubSeq(Expected(Shown, c, a), 1, time - 1), Expected(Shown, c, a)[time])
                    = Expected(Shown, c, a)
               /\ SubSeq(Expected(Shown, c, a), 1, time) = Expected(Shown, c, a)
               /\ Len(SubSeq(Expected(Shown, c, a), 1, time - 1)) = time - 1
      BY <1>3, <1>16, <1>19, UpToTheLast
    <2>4. ~ Left(a)' /\ Places(Shown, a, time) = {k + 1}
      BY <1>17, <1>19 DEF Gapless
    <2>5. LastDrawn(Shown, a)' = time
      <3>1. (IF Left(a)' THEN Appears(Shown', a) \ {time'} ELSE Appears(Shown', a)) = Appears(Shown, a)
        BY <2>4, <1>3
      <3>2. Appears(Shown, a) # {}
        BY <1>16
      <3> QED BY <3>1, <3>2, <2>3, Zenon DEF LastDrawn
    <2>6. Expected(Shown, m, a)[time] = usage(m)
      <3>1. UsageAt(Shown, m, a, time) = Usage(m, Shown[time][k + 1].load)
        <4>1. (CHOOSE i \in {k + 1} : TRUE) = k + 1
          OBVIOUS
        <4> QED BY <4>1, <2>4 DEF UsageAt
      <3>2. Expected(Shown, m, a)[time] = UsageAt(Shown, m, a, time)
        BY <1>3, ExpectedFacts
      <3> QED BY <3>1, <3>2, <1>0 DEF usage
    <2>7. before(m) = SubSeq(Expected(Shown, m, a), 1, time - 1)
      <3>1. CASE drawn = {}
        <4>1. series["cpu"][a] = <<>>
          <5>1. series["cpu"][a] = SubSeq(Expected(Shown, "cpu", a), 1, 0)
            BY <3>1, <2>1, <2>2, <1>11
          <5>2. Expected(Shown, "cpu", a) \in Seq(Nat)
            BY <1>3, <1>11, ExpectedFacts
          <5> QED BY <5>1, <5>2
        <4> QED BY <4>1, <3>1, <2>3
      <3>2. CASE drawn # {}
        <4>1. \A c \in Metrics : series[c][a] = SubSeq(Expected(Shown, c, a), 1, time - 1)
          BY <3>2, <2>1, <2>2, <2>3
        <4>2. Len(series["cpu"][a]) # 0
          BY <4>1, <3>2, <2>3, <1>11
        <4> QED BY <4>1, <4>2
      <3> QED BY <3>1, <3>2
    <2> HIDE DEF before
    <2>8. series'[m][a] = Expected(Shown, m, a)
      BY <2>3, <2>6, <2>7, <1>10, Zenon
    <2> QED BY <2>3, <2>5, <2>8, Zenon
  <1>20. ASSUME NEW m \in Metrics, NEW n \in Names
         PROVE  /\ ListedOnce(Shown, n) =>
                     Len(series'[m][n]) <= time /\ (Left(n)' => Len(series'[m][n]) < time)
                /\ Gapless(Shown, n) =>
                     series'[m][n] = SubSeq(Expected(Shown, m, n), 1, LastDrawn(Shown, n)')
    <2>1. /\ ListedOnce(Shown, n) =>
               Len(series[m][n]) <= time /\ (Left(n) => Len(series[m][n]) < time)
          /\ Gapless(Shown, n) =>
               series[m][n] = SubSeq(Expected(Shown, m, n), 1, LastDrawn(Shown, n))
      BY <1>18 DEF Growing
    <2>2. CASE n # a
      <3>1. series'[m][n] = series[m][n] /\ (Left(n)' <=> Left(n))
        BY <2>2, <1>10, <1>16
      <3>2. LastDrawn(Shown, n)' = LastDrawn(Shown, n)
        BY <3>1, <1>2, <1>3, Zenon DEF LastDrawn
      <3> QED BY <2>1, <3>1, <3>2
    <2>3. CASE n = a
      <3>1. ASSUME ListedOnce(Shown, n)
            PROVE  Len(series'[m][n]) <= time /\ ~ Left(n)'
        <4>1. Len(series[m][a]) < time /\ Len(series[m][a]) \in Nat
          BY <3>1, <2>1, <2>3, <1>9, <1>16
        <4>2. Len(series'[m][a]) = Len(before(m)) + 1
          BY <1>12
        <4>3. Len(before(m)) = IF series["cpu"][a] = <<>> THEN time - 1 ELSE Len(series[m][a])
          BY <1>12
        <4> HIDE DEF before
        <4>4. Len(series'[m][a]) <= time
          BY <4>1, <4>2, <4>3, <1>3
        <4> QED BY <4>4, <3>1, <2>3, <1>17
      <3>2. Gapless(Shown, n) =>
              series'[m][n] = SubSeq(Expected(Shown, m, n), 1, LastDrawn(Shown, n)')
        BY <2>3, <1>19
      <3> QED BY <3>1, <3>2
    <2> QED BY <2>2, <2>3
  <1>21. ASSUME NEW m \in Metrics PROVE Growing(m)'
    BY <1>20, <1>2, <1>3 DEF Growing
  <1> QED BY <1>13, <1>14, <1>15, <1>18, <1>21 DEF IInv

\* A series that is the usage of its name up to the last record with it is the whole
\* usage once it is padded.
LEMMA PaddedUsage ==
  ASSUME NEW shown \in Seq(Records), NEW n, NEW m \in Metrics,
         NEW l \in 0..Len(shown), \A t \in Appears(shown, n) : t <= l
  PROVE  SubSeq(Expected(shown, m, n), 1, l) \o Zeros(Len(shown) - l) = Expected(shown, m, n)
  <1> DEFINE usage == Expected(shown, m, n)
             len == Len(shown)
  <1>1. len \in Nat /\ l \in 0..len
    BY AppearsFacts
  <1>2. /\ usage \in Seq(Nat) /\ Len(usage) = len
        /\ \A t \in 1..len : usage[t] = UsageAt(shown, m, n, t)
    BY ExpectedFacts
  <1>3. \A t \in 1..len : t > l => usage[t] = 0
    <2> SUFFICES ASSUME NEW t \in 1..len, t > l PROVE usage[t] = 0
      OBVIOUS
    <2>1. t \notin Appears(shown, n)
      BY <1>1
    <2>2. Places(shown, n, t) = {}
      BY <2>1 DEF Appears
    <2>3. usage[t] = UsageAt(shown, m, n, t)
      BY <1>2
    <2> HIDE DEF usage
    <2> QED BY <2>2, <2>3 DEF UsageAt
  <1> HIDE DEF usage, len
  <1>4. Zeros(len - l) \in Seq(Nat) /\ Len(Zeros(len - l)) = len - l
        /\ \A i \in 1..(len - l) : Zeros(len - l)[i] = 0
    BY <1>1 DEF Zeros
  <1>5. /\ SubSeq(usage, 1, l) \in Seq(Nat) /\ Len(SubSeq(usage, 1, l)) = l
        /\ \A i \in 1..l : SubSeq(usage, 1, l)[i] = usage[i]
    BY <1>1, <1>2
  <1> DEFINE head == SubSeq(usage, 1, l)
             rest == Zeros(len - l)
             whole == head \o rest
  <1>6. /\ whole \in Seq(Nat) /\ Len(whole) = len
        /\ \A i \in 1..len : whole[i] = IF i <= l THEN head[i] ELSE rest[i - l]
    <2> HIDE DEF head, rest
    <2>1. /\ head \in Seq(Nat) /\ Len(head) = l /\ rest \in Seq(Nat) /\ Len(rest) = len - l
      BY <1>4, <1>5 DEF head, rest
    <2> QED BY <2>1, <1>1
  <1>7. \A i \in 1..len : whole[i] = usage[i]
    <2> TAKE i \in 1..len
    <2>1. CASE i <= l
      <3>1. i \in 1..l
        BY <2>1, <1>1
      <3>2. head[i] = usage[i]
        BY <3>1, <1>5
      <3>3. whole[i] = head[i]
        BY <2>1, <1>6
      <3> HIDE DEF whole, head
      <3> QED BY <3>2, <3>3
    <2>2. CASE i > l
      <3>1. i - l \in 1..(len - l)
        BY <2>2, <1>1
      <3>2. rest[i - l] = 0 /\ usage[i] = 0
        BY <2>2, <3>1, <1>3, <1>4
      <3>3. whole[i] = rest[i - l]
        BY <2>2, <1>1, <1>6
      <3> HIDE DEF whole, rest
      <3> QED BY <3>2, <3>3
    <2>3. i \in Nat /\ l \in Nat
      BY <1>1
    <2>4. i <= l \/ i > l
      BY <2>3
    <2> HIDE DEF whole
    <2> QED BY <2>1, <2>2, <2>4
  <1>8. whole = usage
    <2> HIDE DEF whole
    <2> QED BY <1>2, <1>6, <1>7
  <1> QED BY <1>8 DEF usage, len

\* The end of the records for one metric: what is drawn is padded, what is within the
\* thresholds goes.
LEMMA FinishInv == \A m \in Metrics : IInv /\ Finish(m) => IInv'
  <1> SUFFICES ASSUME NEW m \in Metrics, IInv, Finish(m) PROVE IInv'
    OBVIOUS
  <1>1. TypeOK /\ Reading /\ InStep /\ OfCharts
    BY DEF IInv, OfCharts
  <1> DEFINE padded(n) == series[m][n] \o Zeros(IF Len(series[m][n]) < time
                                                THEN time - Len(series[m][n]) ELSE 0)
             seen == {n \in Names : series[m][n] # <<>>}
             kept == {n \in seen : ~ Hidden(m, MaxAndAvg(series[m][n]))}
  <1>2. /\ pc = m /\ pc' = (IF m = "cpu" THEN "mem" ELSE "done")
        /\ UNCHANGED <<file, pos, broken, time, todo>>
        /\ series' = [series EXCEPT ![m] =
             [n \in Names |-> IF n \in kept THEN padded(n) ELSE <<>>]]
        /\ stats' = [stats EXCEPT ![m] =
             [n \in Names |-> IF n \in kept THEN MaxAndAvg(series[m][n]) ELSE NoStats]]
    BY DEF Finish
  <1>3. /\ Shown' = Shown /\ Shown \in Seq(Records) /\ time = Len(Shown) /\ time \in Nat
        /\ todo = <<>>
    <2>1. pc # "add"
      BY <1>2 DEF Metrics
    <2> QED BY <2>1, <1>1, <1>2, ShownFacts DEF Shown, Reading
  <1>4. \A c \in Metrics : series[c] \in [Names -> Seq(Nat)]
    BY <1>1 DEF TypeOK
  <1>5. ASSUME NEW n \in Names
        PROVE  /\ padded(n) \in Seq(Nat) /\ series[m][n] \in Seq(Nat)
               /\ Len(series[m][n]) <= time =>
                    padded(n) = series[m][n] \o Zeros(time - Len(series[m][n])) /\ Len(padded(n)) = time
    <2> DEFINE s == series[m][n]
    <2>1. s \in Seq(Nat)
      BY <1>4
    <2> HIDE DEF s
    <2>2. ASSUME NEW i \in Nat
          PROVE  s \o Zeros(i) \in Seq(Nat) /\ Len(s \o Zeros(i)) = Len(s) + i
      <3>1. Zeros(i) \in Seq(Nat) /\ Len(Zeros(i)) = i
        BY DEF Zeros
      <3> QED BY <2>1, <3>1, ConcatProperties
    <2>3. s \o Zeros(IF Len(s) < time THEN time - Len(s) ELSE 0) \in Seq(Nat)
      <3>1. (IF Len(s) < time THEN time - Len(s) ELSE 0) \in Nat
        BY <2>1, <1>3
      <3> QED BY <3>1, <2>2
    <2>4. ASSUME Len(s) <= time
          PROVE  /\ (IF Len(s) < time THEN time - Len(s) ELSE 0) = time - Len(s)
                 /\ Len(s \o Zeros(time - Len(s))) = time
      <3>1. Len(s) \in Nat
        BY <2>1
      <3>2. time - Len(s) \in Nat /\ Len(s) + (time - Len(s)) = time
        BY <3>1, <2>4, <1>3
      <3>3. Len(s \o Zeros(time - Len(s))) = Len(s) + (time - Len(s))
        BY <3>2, <2>2
      <3>4. (IF Len(s) < time THEN time - Len(s) ELSE 0) = time - Len(s)
        BY <3>1, <2>4, <1>3
      <3> QED BY <3>2, <3>3, <3>4
    <2>5. Len(s) <= time =>
            /\ s \o Zeros(IF Len(s) < time THEN time - Len(s) ELSE 0) = s \o Zeros(time - Len(s))
            /\ Len(s \o Zeros(time - Len(s))) = time
      BY <2>4, Zenon
    <2>6. Len(s) <= time =>
            Len(s \o Zeros(IF Len(s) < time THEN time - Len(s) ELSE 0)) = time
      BY <2>5
    <2> QED BY <2>1, <2>3, <2>5, <2>6 DEF s
  <1>6. ASSUME NEW n \in Names
        PROVE  /\ MaxAndAvg(series[m][n]) \in [max : Nat, sum : Nat, len : Nat]
               /\ n \in seen => MaxAndAvg(series[m][n]) # NoStats
    <2>1. series[m][n] \in Seq(Nat) /\ Len(series[m][n]) \in Nat
      BY <1>4
    <2>2. MaxAndAvg(series[m][n]) \in [max : Nat, sum : Nat, len : Nat]
      BY <2>1, MaxOfType, SumOfType DEF MaxAndAvg
    <2>3. n \in seen => Len(series[m][n]) # 0
      BY <2>1
    <2>4. n \in seen => MaxAndAvg(series[m][n]).len # NoStats.len
      BY <2>3 DEF MaxAndAvg, NoStats
    <2> QED BY <2>2, <2>4
  <1> HIDE DEF padded
  <1>7. /\ \A n \in Names : series'[m][n] = IF n \in kept THEN padded(n) ELSE <<>>
        /\ \A n \in Names : stats'[m][n] = IF n \in kept THEN MaxAndAvg(series[m][n]) ELSE NoStats
        /\ \A c \in Metrics : c # m => series'[c] = series[c] /\ stats'[c] = stats[c]
    <2> HIDE DEF kept
    <2> QED BY <1>1, <1>2 DEF TypeOK
  <1>8. TypeOK'
    <2> DEFINE drawn == [n \in Names |-> IF n \in kept THEN padded(n) ELSE <<>>]
               found == [n \in Names |-> IF n \in kept THEN MaxAndAvg(series[m][n]) ELSE NoStats]
    <2>1. drawn \in [Names -> Seq(Nat)]
      <3>1. \A n \in Names : padded(n) \in Seq(Nat)
        BY <1>5
      <3>2. <<>> \in Seq(Nat)
        OBVIOUS
      <3> HIDE DEF kept
      <3> QED BY <3>1, <3>2
    <2>2. found \in [Names -> [max : Nat, sum : Nat, len : Nat]]
      <3>1. NoStats \in [max : Nat, sum : Nat, len : Nat]
        BY DEF NoStats
      <3> HIDE DEF kept
      <3> QED BY <3>1, <1>6
    <2>3. series' = [series EXCEPT ![m] = drawn] /\ stats' = [stats EXCEPT ![m] = found]
      BY <1>2
    <2> HIDE DEF drawn, found
    <2>4. /\ series' \in [Metrics -> [Names -> Seq(Nat)]]
          /\ stats' \in [Metrics -> [Names -> [max : Nat, sum : Nat, len : Nat]]]
      BY <2>1, <2>2, <2>3, <1>1 DEF TypeOK
    <2>5. pc' \in {"done"} \union Metrics
      BY <1>2 DEF Metrics
    <2> QED BY <2>4, <2>5, <1>1, <1>2 DEF TypeOK
  <1>9. pc' \notin {"decode", "add", "cpu"}
    BY <1>2 DEF Metrics
  <1>10. Reading' /\ InStep'
    BY <1>1, <1>2, <1>3, <1>9 DEF Reading, InStep
  <1>11. ASSUME NEW n \in Names
         PROVE  n \in Kept(m)' <=> n \in kept
    BY <1>6, <1>7 DEF Kept
  <1>12. Growing(m)
    BY <1>1, <1>2 DEF OfCharts, Before
  <1>13. ASSUME NEW n \in Names
         PROVE  /\ n \in kept /\ ListedOnce(Shown, n) => Len(series'[m][n]) = time
                /\ n \in kept /\ Gapless(Shown, n) => series'[m][n] = Expected(Shown, m, n)
                /\ Appears(Shown, n) # {} /\ Gapless(Shown, n) =>
                     (n \in kept <=> ~ Hidden(m, MaxAndAvg(Counted(Shown, m, n))))
    <2>1. /\ ListedOnce(Shown, n) => Len(series[m][n]) <= time
          /\ Gapless(Shown, n) =>
               series[m][n] = SubSeq(Expected(Shown, m, n), 1, LastDrawn(Shown, n))
      BY <1>12 DEF Growing
    <2>2. ListedOnce(Shown, n) => Len(padded(n)) = time
      BY <2>1, <1>5
    <2> DEFINE l == LastDrawn(Shown, n)
    <2>3. /\ l = IF Appears(Shown, n) = {} THEN 0 ELSE Max(Appears(Shown, n))
          /\ l \in 0..Len(Shown) /\ \A t \in Appears(Shown, n) : t <= l
          /\ Appears(Shown, n) # {} => l # 0
      <3>1. ~ Left(n)
        BY <1>3 DEF Left
      <3>2. l = IF Appears(Shown, n) = {} THEN 0 ELSE Max(Appears(Shown, n))
        BY <3>1 DEF LastDrawn
      <3> HIDE DEF l
      <3> QED BY <3>2, <1>3, AppearsFacts
    <2>4. Expected(Shown, m, n) \in Seq(Nat) /\ Len(Expected(Shown, m, n)) = time
      BY <1>3, ExpectedFacts
    <2>5. ASSUME Gapless(Shown, n)
          PROVE  padded(n) = Expected(Shown, m, n)
      <3>1. series[m][n] = SubSeq(Expected(Shown, m, n), 1, l)
        BY <2>1, <2>5
      <3>2. Len(series[m][n]) = l /\ l <= time
        <4> HIDE DEF l
        <4> QED BY <3>1, <2>3, <2>4, <1>3
      <3>3. padded(n) = SubSeq(Expected(Shown, m, n), 1, l) \o Zeros(Len(Shown) - l)
        <4>1. padded(n) = series[m][n] \o Zeros(time - Len(series[m][n]))
          BY <3>2, <1>5
        <4> QED BY <4>1, <3>1, <3>2, <1>3, Zenon
      <3>4. SubSeq(Expected(Shown, m, n), 1, l) \o Zeros(Len(Shown) - l) = Expected(Shown, m, n)
        <4> HIDE DEF l
        <4> QED BY <2>3, <1>3, PaddedUsage
      <3> QED BY <3>3, <3>4
    <2>6. ASSUME Appears(Shown, n) # {}, Gapless(Shown, n)
          PROVE  series[m][n] = Counted(Shown, m, n) /\ n \in seen
      <3>1. series[m][n] = SubSeq(Expected(Shown, m, n), 1, l) /\ l = Max(Appears(Shown, n))
        BY <2>1, <2>3, <2>6
      <3>2. Len(series[m][n]) # 0
        <4> HIDE DEF l
        <4> QED BY <3>1, <2>3, <2>4, <2>6, <1>3
      <3>3. series[m][n] # <<>>
        BY <3>2
      <3> QED BY <3>1, <3>3 DEF Counted
    <2>7. n \in kept => series'[m][n] = padded(n)
      BY <1>7
    <2>8. ASSUME n \in kept, ListedOnce(Shown, n) PROVE Len(series'[m][n]) = time
      BY <2>2, <2>7, <2>8
    <2>9. ASSUME n \in kept, Gapless(Shown, n) PROVE series'[m][n] = Expected(Shown, m, n)
      BY <2>5, <2>7, <2>9
    <2>10. ASSUME Appears(Shown, n) # {}, Gapless(Shown, n)
           PROVE  n \in kept <=> ~ Hidden(m, MaxAndAvg(Counted(Shown, m, n)))
      BY <2>6, <2>10
    <2> QED BY <2>8, <2>9, <2>10
  <1>14. Finished(m)'
    BY <1>2, <1>3, <1>11, <1>13 DEF Finished
  <1>15. ASSUME NEW c \in Metrics
         PROVE  IF Before(c)' THEN Growing(c)' ELSE Finished(c)'
    <2>1. CASE c = m
      <3>1. ~ Before(c)'
        BY <2>1, <1>2 DEF Before, Metrics
      <3> QED BY <3>1, <2>1, <1>14
    <2>2. CASE c # m
      <3>1. Before(c)' <=> Before(c)
        BY <2>2, <1>2 DEF Before, Metrics
      <3>2. series'[c] = series[c] /\ stats'[c] = stats[c]
        BY <2>2, <1>7
      <3>3. \A n \in Names : (Left(n)' <=> Left(n)) /\ LastDrawn(Shown, n)' = LastDrawn(Shown, n)
        BY <1>2, <1>3 DEF Left, LastDrawn
      <3>4. Growing(c) => Growing(c)'
        BY <3>2, <3>3, <1>2, <1>3 DEF Growing
      <3>5. Finished(c) => Finished(c)'
        BY <3>2, <1>2, <1>3 DEF Finished, Kept
      <3> QED BY <3>1, <3>4, <3>5, <1>1 DEF OfCharts
    <2> QED BY <2>1, <2>2
  <1> QED BY <1>8, <1>10, <1>15 DEF IInv

-----------------------------------------------------------------------------
(* The theorems. *)

\* A series never gets ahead of the time axis, both of a name grow in step, and one
\* without a gap is the usage of its process as far as it is drawn; after the loop over a
\* metric its charts are as LinesFitTheAxis and ShownByThresholds say (chartserver.go:178-237).
THEOREM AnalysisInvariance == Spec => []IInv
  <1>1. IInv /\ [Next]_vars => IInv'
    <2> SUFFICES ASSUME IInv, [Next]_vars PROVE IInv'
      OBVIOUS
    <2>1. CASE WriteRecord
      BY <2>1, WriteRecordInv
    <2>2. CASE Decode
      BY <2>2, DecodeInv
    <2>3. CASE AddSample
      BY <2>3, AddSampleInv
    <2>4. CASE EndOfFile
      BY <2>4, EndOfFileInv
    <2>5. ASSUME NEW m \in Metrics, Finish(m) PROVE IInv'
      BY <2>5, FinishInv
    <2>6. CASE DiskFails
      BY <2>6, DiskFailsInv
    <2>7. CASE UNCHANGED vars
      <3>1. TypeOK /\ Reading /\ InStep /\ OfCharts
        BY DEF IInv, OfCharts
      <3>2. UNCHANGED <<file, pos, broken, time, todo, series, stats, pc>>
        BY <2>7 DEF vars
      <3>3. TypeOK' /\ Shown' = Shown
        BY <3>1, <3>2 DEF TypeOK, Shown
      <3>4. Reading' /\ InStep' /\ OfCharts'
        BY <3>1, <3>2, <3>3, Unmoved
      <3> QED BY <3>3, <3>4 DEF IInv, OfCharts
    <2> QED BY <2>1, <2>2, <2>3, <2>4, <2>5, <2>6, <2>7 DEF Next, Analysis
  <1> QED BY <1>1, InitInv, PTL DEF Spec

\* A line has a point for every record on the axis and no more; the one of a process
\* that starts and ends once has its usage at each (chartserver.go:198-212).
THEOREM LinesFit == Spec => []LinesFitTheAxis
  <1>1. IInv => LinesFitTheAxis
    <2> SUFFICES ASSUME IInv, Done PROVE LinesFitTheAxis
      BY DEF LinesFitTheAxis
    <2>1. \A m \in Metrics : Finished(m)
      BY DEF IInv, Before, Done, Metrics
    <2>2. time = Len(Shown) /\ "cpu" \in Metrics /\ "mem" \in Metrics
      BY DEF IInv, Reading, Metrics
    <2>3. ASSUME NEW m \in Metrics, NEW n \in Kept(m)
          PROVE  /\ Line(m, n).name = n /\ Line(m, n).data = series[m][n]
                 /\ ListedOnce(Shown, n) => Len(series[m][n]) = Len(Shown)
                 /\ Gapless(Shown, n) => series[m][n] = Expected(Shown, m, n)
      <3>1. n \in Names
        BY DEF Kept
      <3> QED BY <2>1, <2>2, <2>3, <3>1 DEF Finished, Line
    <2> QED BY <2>2, <2>3 DEF LinesFitTheAxis, LineCPU, LineMEM
  <1> QED BY <1>1, AnalysisInvariance, PTL

\* A pie has a slice for a process whose average or maximum is above the threshold and
\* none for one with both less than it, although the series has been padded by then
\* (chartserver.go:210-214, 222-226).
THEOREM ChartsShowWhatCounts == Spec => []ShownByThresholds
  <1>1. IInv => ShownByThresholds
    <2> DEFINE stat(m, n) == MaxAndAvg(Counted(Shown, m, n))
    <2> SUFFICES ASSUME IInv, Done, NEW n \in Names, Appears(Shown, n) # {}, Gapless(Shown, n)
                 PROVE  /\ ~ Hidden("cpu", stat("cpu", n)) => \E slice \in PieCPU : slice.name = n
                        /\ Below("cpu", stat("cpu", n)) => ~ \E slice \in PieCPU : slice.name = n
                        /\ ~ Hidden("mem", stat("mem", n)) => \E slice \in PieMEM : slice.name = n
                        /\ Below("mem", stat("mem", n)) => ~ \E slice \in PieMEM : slice.name = n
      BY Zenon DEF ShownByThresholds
    <2>1. \A m \in Metrics : Finished(m)
      BY DEF IInv, Before, Done, Metrics
    <2>2. \A m \in Metrics : n \in Kept(m) <=> ~ Hidden(m, stat(m, n))
      BY <2>1 DEF Finished
    <2>3. /\ (\E slice \in PieCPU : slice.name = n) <=> n \in Kept("cpu")
          /\ (\E slice \in PieMEM : slice.name = n) <=> n \in Kept("mem")
      <3>1. \A m : \A k \in Kept(m) : Slice(m, k).name = k
        BY DEF Slice
      <3>2. (\E slice \in PieCPU : slice.name = n) <=> n \in Kept("cpu")
        BY <3>1, Zenon DEF PieCPU
      <3>3. (\E slice \in PieMEM : slice.name = n) <=> n \in Kept("mem")
        BY <3>1, Zenon DEF PieMEM
      <3> QED BY <3>2, <3>3
    <2>4. \A m \in Metrics : Below(m, stat(m, n)) => Hidden(m, stat(m, n))
      <3> TAKE m \in Metrics
      <3>1. TypeOK
        BY DEF IInv
      <3>2. stat(m, n).sum \in Nat /\ stat(m, n).max \in Nat /\ stat(m, n).len \in Nat
        <4>1. Expected(Shown, m, n) \in Seq(Nat) /\ Len(Expected(Shown, m, n)) = Len(Shown)
          BY <3>1, ShownFacts, ExpectedFacts
        <4>2. Max(Appears(Shown, n)) \in 1..Len(Shown)
          BY <3>1, ShownFacts, AppearsFacts
        <4>3. Counted(Shown, m, n) \in Seq(Nat)
          <5> HIDE DEF stat
          <5>1. \A q \in Seq(Nat) : \A k \in 1..Len(q) : SubSeq(q, 1, k) \in Seq(Nat)
            OBVIOUS
          <5> QED BY <5>1, <4>1, <4>2 DEF Counted
        <4>4. Len(Counted(Shown, m, n)) \in Nat
          BY <4>3, LenProperties
        <4> QED BY <4>3, <4>4, MaxOfType, SumOfType DEF MaxAndAvg
      <3>3. /\ Filter[m].avg * stat(m, n).len \in Nat
            /\ Filter[m].max \in Nat
        <4>1. Filter[m].avg \in Nat /\ Filter[m].max \in Nat
          BY AnalysisAssumption
        <4>2. \A a, b \in Nat : a * b \in Nat
          OBVIOUS
        <4> HIDE DEF stat
        <4> QED BY <4>1, <4>2, <3>2
      <3> HIDE DEF stat
      <3> QED BY <3>2, <3>3 DEF Below, Hidden
    <2> QED BY <2>2, <2>3, <2>4 DEF Metrics
  <1> QED BY <1>1, AnalysisInvariance, PTL
=============================================================================
