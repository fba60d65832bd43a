------------------------- MODULE ChartServerProofs -------------------------
(***************************************************************************)
(* Proofs about ChartServer for any requests, thresholds and words of a    *)
(* string.                                                                 *)
(***************************************************************************)
EXTENDS ChartServer, TLAPS

Stages == {"idle", "host", "set", "open", "cpu", "mem", "template", "store", "render", "done"}

LEMMA InitIInv == Init => IInv
<1> SUFFICES ASSUME Init PROVE IInv
  OBVIOUS
<1> USE ChartAssumption DEF Init
<1>1. InFlight = {}
  BY DEF InFlight
<1>2. TypeOK
  BY DEF TypeOK
<1>3. Untouched /\ LeftFits /\ OwnStages /\ OverlapKnown /\ FilterRecent
  BY <1>1 DEF Untouched, LeftFits, OwnStages, OverlapKnown, FilterRecent
<1>4. AddressRecent /\ TplRecent
  BY <1>1 DEF AddressRecent, TplRecent
<1>5. ThresholdsFromOverlapping /\ LinksFromOverlapping
  BY DEF ThresholdsFromOverlapping, LinksFromOverlapping
<1> QED
  BY <1>2, <1>3, <1>4, <1>5 DEF IInv

\* What going to a stage does to the control state of the handlers.
LEMMA GoToKeeps ==
  ASSUME TypeOK, LeftFits, NEW r \in Reqs, NEW stage \in Stages, GoTo(r, stage)
  PROVE  /\ pc' \in [Reqs -> Stages]
         /\ left' \in [Reqs -> SUBSET (Fields \union Words)]
         /\ LeftFits'
         /\ pc'[r] = stage /\ left'[r] = Accesses(stage)
         /\ \A q \in Reqs \ {r} : pc'[q] = pc[q] /\ left'[q] = left[q]
<1> USE DEF GoTo
<1>1. Accesses(stage) \subseteq Fields \union Words
  BY DEF Accesses, Stages
<1>2. pc' \in [Reqs -> Stages] /\ left' \in [Reqs -> SUBSET (Fields \union Words)]
  BY <1>1 DEF TypeOK, Stages
<1>3. /\ pc'[r] = stage /\ left'[r] = Accesses(stage)
      /\ \A q \in Reqs \ {r} : pc'[q] = pc[q] /\ left'[q] = left[q]
  BY DEF TypeOK
<1>4. LeftFits'
  BY <1>3 DEF LeftFits
<1> QED
  BY <1>2, <1>3, <1>4

\* What an access does to it: the handler is still in its stage, with the
\* access behind it, or it was the stage's last one.
LEMMA AccessKeeps ==
  ASSUME TypeOK, LeftFits, NEW r \in Reqs, NEW x, NEW stage \in Stages, NEW next \in Stages,
         Access(r, x, stage, next)
  PROVE  /\ pc' \in [Reqs -> Stages]
         /\ left' \in [Reqs -> SUBSET (Fields \union Words)]
         /\ LeftFits'
         /\ \A q \in Reqs \ {r} : pc'[q] = pc[q] /\ left'[q] = left[q]
         /\ pc[r] = stage /\ x \in left[r]
         /\ \/ pc'[r] = stage /\ left'[r] = left[r] \ {x}
            \/ pc'[r] = next /\ left'[r] = Accesses(next) /\ left[r] = {x}
<1> USE DEF Access
<1>1. CASE left[r] = {x} /\ GoTo(r, next)
  BY <1>1, GoToKeeps
<1>2. CASE left' = [left EXCEPT ![r] = @ \ {x}] /\ UNCHANGED pc
  BY <1>2 DEF TypeOK, LeftFits, Stages
<1> QED
  BY <1>1, <1>2

\* A step of a handler in flight in which only it moves, and nobody comes in.
Moves(r) ==
  /\ pc' \in [Reqs -> Stages]
  /\ r \in InFlight /\ pc'[r] # "idle"
  /\ \A q \in Reqs \ {r} : pc'[q] = pc[q] /\ left'[q] = left[q]
  /\ over' = over

\* It leaves who knows of whom as it is.
LEMMA MovesKeep ==
  ASSUME IInv, NEW r \in Reqs, Moves(r)
  PROVE  /\ InFlight' \subseteq InFlight
         /\ OverlapKnown'
         /\ \A q \in Reqs : pc'[q] = "idle" => pc[q] = "idle"
         /\ \A q \in Reqs : Near(q)' = Near(q) /\ Recent(q)' = Recent(q) /\ Alike(q)' = Alike(q)
<1> USE DEF Moves
<1>1. InFlight' \subseteq InFlight
  BY DEF InFlight
<1>2. OverlapKnown'
  BY <1>1 DEF OverlapKnown, IInv
<1>3. \A q \in Reqs : pc'[q] = "idle" => pc[q] = "idle"
  BY DEF InFlight
<1>4. \A q \in Reqs : Near(q)' = Near(q) /\ Recent(q)' = Recent(q) /\ Alike(q)' = Alike(q)
  BY DEF Near, Recent, Alike
<1> QED
  BY <1>1, <1>2, <1>3, <1>4

\* Handlers in flight together are near each other.
LEMMA NearEachOther ==
  ASSUME IInv, NEW q \in InFlight, NEW r \in InFlight
  PROVE  q \in Near(r) /\ Near(q) \subseteq Recent(r)
<1>1. q \in Near(r)
  BY DEF IInv, OverlapKnown, Near
<1> QED
  BY <1>1 DEF Recent

\* A request that comes in is added to the overlaps of those in flight, and
\* these are its own.
LEMMA ArriveStep ==
  ASSUME IInv, NEW r \in Reqs, Arrive(r)
  PROVE  IInv'
<1> USE ChartAssumption DEF IInv, Arrive
<1> DEFINE first == IF r \in Lines \intersect Ported THEN "host" ELSE AfterHost(r)
<1>1. InFlight \subseteq Reqs /\ r \notin InFlight
  BY DEF InFlight
<1>2. first \in {"host", "set", "open"} /\ first \in Stages
  BY DEF AfterHost, Stages
<1>3. /\ pc' \in [Reqs -> Stages]
      /\ left' \in [Reqs -> SUBSET (Fields \union Words)]
      /\ LeftFits'
      /\ pc'[r] = first /\ left'[r] = Accesses(first)
      /\ \A q \in Reqs \ {r} : pc'[q] = pc[q] /\ left'[q] = left[q]
  BY <1>2, GoToKeeps
<1>4. InFlight' = InFlight \union {r}
  BY <1>2, <1>3 DEF InFlight
<1>5. /\ over'[r] = InFlight
      /\ \A q \in InFlight : over'[q] = over[q] \union {r}
      /\ \A q \in Reqs \ {r} : over[q] \subseteq over'[q]
      /\ over' \in [Reqs -> SUBSET Reqs]
  BY <1>1 DEF TypeOK
<1>6. TypeOK' /\ OwnStages'
  BY <1>2, <1>3, <1>5 DEF TypeOK, Stages, OwnStages, AfterHost
<1>7. Untouched'
  <2>1. \A q \in Reqs : pc'[q] = "idle" => pc[q] = "idle" /\ over'[q] = over[q]
    BY <1>2, <1>3 DEF InFlight, TypeOK
  <2> QED
    BY <2>1 DEF Untouched
<1>8. OverlapKnown'
  BY <1>4, <1>5 DEF OverlapKnown
<1>9. \A q \in Reqs \ {r} :
        Near(q) \subseteq Near(q)' /\ Recent(q) \subseteq Recent(q)' /\ (Alike(q)' => Alike(q))
  <2>1. \A q \in Reqs \ {r} : Near(q) \subseteq Near(q)'
    BY <1>5 DEF Near
  <2>2. ASSUME NEW q \in Reqs \ {r}, NEW p \in Near(q) PROVE Near(p) \subseteq Recent(q)'
    <3>1. CASE p # r
      <4>1. p \in Reqs
        BY <2>2 DEF Near, TypeOK
      <4>2. Near(p) \subseteq Near(p)'
        BY <2>1, <3>1, <4>1
      <4>3. p \in Near(q)'
        BY <2>1, <2>2
      <4> QED
        BY <4>2, <4>3 DEF Recent
    <3>2. CASE p = r
      <4>1. r \in Near(q)'
        BY <2>1, <2>2, <3>2
      <4>2. Near(r) = {r}
        BY DEF Untouched, Near
      <4>3. r \in Near(r)'
        BY DEF Near
      <4> QED
        BY <3>2, <4>1, <4>2, <4>3 DEF Recent
    <3> QED
      BY <3>1, <3>2
  <2>3. \A q \in Reqs \ {r} : Recent(q) \subseteq Recent(q)'
    BY <2>2 DEF Recent
  <2> QED
    BY <2>1, <2>3 DEF Alike
<1>10. FilterRecent'
  <2> SUFFICES ASSUME NEW q \in Reqs \ Malformed, NEW f \in Fields,
                      pc'[q] \in {"open", "cpu", "mem"} \/ (pc'[q] = "set" /\ f \notin left'[q])
               PROVE  filter[f] \in {Value(x) : x \in Near(q)' \ Malformed}
    BY DEF FilterRecent, Value
  <2>1. CASE q = r
    BY <2>1, <1>2, <1>3 DEF AfterHost, Accesses
  <2>2. CASE q # r
    <3>1. filter[f] \in {Value(x) : x \in Near(q) \ Malformed}
      BY <2>2, <1>3 DEF FilterRecent
    <3> QED
      BY <2>2, <3>1, <1>9
  <2> QED
    BY <2>1, <2>2
<1>11. AddressRecent'
  BY <1>1, <1>2, <1>3, <1>4, <1>9 DEF AddressRecent, Accesses, Untouched
<1>12. TplRecent'
  BY <1>2, <1>3, <1>9 DEF TplRecent
<1>13. ThresholdsFromOverlapping'
  <2> SUFFICES ASSUME NEW q \in Reqs \ Malformed, NEW f \in Fields
               PROVE  used[q][f] \subseteq {Value(x) : x \in Near(q)' \ Malformed}
    BY DEF ThresholdsFromOverlapping, Value
  <2>1. CASE q = r
    BY <2>1 DEF Untouched
  <2>2. CASE q # r
    BY <2>2, <1>9 DEF ThresholdsFromOverlapping
  <2> QED
    BY <2>1, <2>2
<1>14. LinksFromOverlapping'
  BY <1>9 DEF LinksFromOverlapping, Untouched
<1> QED
  BY <1>3, <1>6, <1>7, <1>8, <1>10, <1>11, <1>12, <1>13, <1>14

\* A handler that sets a word of the address overlaps with everyone else in
\* flight.
LEMMA SetAddressStep ==
  ASSUME IInv, NEW r \in Reqs, NEW w \in Words, SetAddress(r, w)
  PROVE  IInv'
<1> USE ChartAssumption DEF IInv, SetAddress
<1>1. AfterHost(r) \in {"set", "open"} /\ AfterHost(r) \in Stages /\ "host" \in Stages
      /\ (r \notin Malformed => AfterHost(r) = "set")
  BY DEF AfterHost, Stages
<1>2. /\ pc' \in [Reqs -> Stages]
      /\ left' \in [Reqs -> SUBSET (Fields \union Words)]
      /\ LeftFits'
      /\ \A q \in Reqs \ {r} : pc'[q] = pc[q] /\ left'[q] = left[q]
      /\ pc[r] = "host" /\ w \in left[r]
      /\ \/ pc'[r] = "host" /\ left'[r] = left[r] \ {w}
         \/ pc'[r] = AfterHost(r) /\ left'[r] = Accesses(AfterHost(r)) /\ left[r] = {w}
  BY <1>1, AccessKeeps
<1>3. r \in InFlight /\ Moves(r)
  BY <1>1, <1>2 DEF Moves, InFlight
<1>4. /\ InFlight' \subseteq InFlight /\ OverlapKnown'
      /\ \A q \in Reqs : pc'[q] = "idle" => pc[q] = "idle"
      /\ \A q \in Reqs : Near(q)' = Near(q) /\ Recent(q)' = Recent(q) /\ Alike(q)' = Alike(q)
  BY <1>3, MovesKeep
<1>5. TypeOK' /\ OwnStages'
  BY <1>1, <1>2 DEF TypeOK, Stages, OwnStages, AfterHost
<1>6. Untouched'
  BY <1>4 DEF Untouched
<1>7. FilterRecent'
  BY <1>1, <1>2, <1>4 DEF FilterRecent, Accesses, Value
<1>8. AddressRecent'
  <2>1. \A q \in Reqs : held'[q] = held[q]
    OBVIOUS
  <2> SUFFICES ASSUME NEW q \in Lines \intersect Ported, q \in InFlight', NEW v \in Words
               PROVE  (pc'[q] = "host" /\ v \in left'[q]) \/ ip'[v] \in Near(q)
    BY <1>4, <2>1 DEF AddressRecent
  <2>2. q \in InFlight
    BY <1>4
  <2>3. CASE v = w
    <3>1. ip'[v] = r
      BY <2>3 DEF TypeOK
    <3> QED
      BY <3>1, <2>2, <1>3, NearEachOther
  <2>4. CASE v # w
    <3>1. ip'[v] = ip[v]
      BY <2>4 DEF TypeOK
    <3>2. pc[q] = "host" /\ v \in left[q] => pc'[q] = "host" /\ v \in left'[q]
      BY <2>4, <1>2
    <3> QED
      BY <3>1, <3>2, <2>2 DEF AddressRecent
  <2> QED
    BY <2>3, <2>4
<1>9. TplRecent'
  BY <1>1, <1>2, <1>4 DEF TplRecent
<1>10. ThresholdsFromOverlapping' /\ LinksFromOverlapping'
  BY <1>4 DEF ThresholdsFromOverlapping, LinksFromOverlapping, Value
<1> QED
  BY <1>2, <1>4, <1>5, <1>6, <1>7, <1>8, <1>9, <1>10

\* The same of a threshold.
LEMMA SetFieldStep ==
  ASSUME IInv, NEW r \in Reqs, NEW g \in Fields, SetField(r, g)
  PROVE  IInv'
<1> USE ChartAssumption DEF IInv, SetField
<1>1. /\ pc' \in [Reqs -> Stages]
      /\ left' \in [Reqs -> SUBSET (Fields \union Words)]
      /\ LeftFits'
      /\ \A q \in Reqs \ {r} : pc'[q] = pc[q] /\ left'[q] = left[q]
      /\ pc[r] = "set" /\ g \in left[r]
      /\ \/ pc'[r] = "set" /\ left'[r] = left[r] \ {g}
         \/ pc'[r] = "open" /\ left'[r] = Accesses("open") /\ left[r] = {g}
  <2>1. "set" \in Stages /\ "open" \in Stages
    BY DEF Stages
  <2> QED
    BY <2>1, AccessKeeps
<1>2. r \in InFlight /\ Moves(r)
  BY <1>1 DEF Moves, InFlight
<1>3. /\ InFlight' \subseteq InFlight /\ OverlapKnown'
      /\ \A q \in Reqs : pc'[q] = "idle" => pc[q] = "idle"
      /\ \A q \in Reqs : Near(q)' = Near(q) /\ Recent(q)' = Recent(q) /\ Alike(q)' = Alike(q)
  BY <1>2, MovesKeep
<1>4. TypeOK' /\ OwnStages'
  BY <1>1 DEF TypeOK, Stages, Value, OwnStages
<1>5. Untouched'
  BY <1>3 DEF Untouched
<1>6. r \notin Malformed
  BY <1>1 DEF OwnStages
<1>7. FilterRecent'
  <2> SUFFICES ASSUME NEW q \in Reqs \ Malformed, NEW f \in Fields,
                      pc'[q] \in {"open", "cpu", "mem"} \/ (pc'[q] = "set" /\ f \notin left'[q])
               PROVE  filter'[f] \in {Value(x) : x \in Near(q) \ Malformed}
    BY <1>3 DEF FilterRecent, Value
  <2>1. CASE f = g
    <3>1. filter'[f] = Value(r)
      BY <2>1 DEF TypeOK
    <3>2. q \in InFlight
      BY <1>1, <1>2 DEF InFlight
    <3>3. r \in Near(q) \ Malformed
      BY <3>2, <1>2, <1>6, NearEachOther
    <3> QED
      BY <3>1, <3>3
  <2>2. CASE f # g
    <3>1. filter'[f] = filter[f]
      BY <2>2 DEF TypeOK
    <3>2. pc[q] \in {"open", "cpu", "mem"} \/ (pc[q] = "set" /\ f \notin left[q])
      BY <2>2, <1>1 DEF Accesses
    <3> QED
      BY <3>1, <3>2 DEF FilterRecent
  <2> QED
    BY <2>1, <2>2
<1>8. AddressRecent' /\ TplRecent'
  <2>1. \A q \in Reqs : /\ pc[q] = "host" => (pc'[q] = "host" /\ left'[q] = left[q])
                        /\ pc'[q] \in {"store", "render"} => (pc'[q] = pc[q] /\ left'[q] = left[q])
    BY <1>1
  <2>2. ASSUME NEW q \in Lines \intersect Ported, q \in InFlight', NEW w \in Words
        PROVE  (pc'[q] = "host" /\ w \in left'[q]) \/ ip[w] \in Near(q)
    <3>1. q \in InFlight
      BY <1>3, <2>2
    <3>2. (pc[q] = "host" /\ w \in left[q]) \/ ip[w] \in Near(q)
      BY <2>2, <3>1 DEF AddressRecent
    <3>3. q \in Reqs
      BY <3>1 DEF InFlight
    <3> QED
      BY <2>1, <3>2, <3>3
  <2>3. AddressRecent'
    BY <2>2, <1>3 DEF AddressRecent
  <2>4. ASSUME NEW q \in Lines, NEW w \in Words, Alike(q),
               pc'[q] = "render" \/ (pc'[q] = "store" /\ w \notin left'[q])
        PROVE  tpl[w] \subseteq Recent(q)
    <3>1. q \in Reqs
      OBVIOUS
    <3>2. pc[q] = "render" \/ (pc[q] = "store" /\ w \notin left[q])
      BY <2>1, <2>4, <3>1
    <3> QED
      BY <2>4, <3>2 DEF TplRecent
  <2>5. TplRecent'
    BY <2>4, <1>3 DEF TplRecent
  <2> QED
    BY <2>3, <2>5
<1>9. ThresholdsFromOverlapping' /\ LinksFromOverlapping'
  BY <1>3 DEF ThresholdsFromOverlapping, LinksFromOverlapping, Value
<1> QED
  BY <1>1, <1>3, <1>4, <1>5, <1>7, <1>8, <1>9

\* Steps that touch nothing shared: the page's file, the loops.
LEMMA QuietStep ==
  ASSUME IInv, NEW r \in Reqs, Open(r) \/ LoopDone(r)
  PROVE  IInv'
<1> USE ChartAssumption DEF IInv
<1>1. PICK stage \in {"done", "cpu", "mem", "template", "render"} :
        /\ GoTo(r, stage)
        /\ stage = "render" => r \notin Lines
        /\ stage = "template" => r \in Lines
        /\ UNCHANGED <<filter, ip, tpl, held, used, page, over>>
        /\ pc[r] \in {"open", "cpu", "mem"}
  BY DEF Open, LoopDone
<1>2. stage \in Stages
  BY DEF Stages
<1>3. /\ pc' \in [Reqs -> Stages]
      /\ left' \in [Reqs -> SUBSET (Fields \union Words)]
      /\ LeftFits'
      /\ pc'[r] = stage /\ left'[r] = Accesses(stage)
      /\ \A q \in Reqs \ {r} : pc'[q] = pc[q] /\ left'[q] = left[q]
  BY <1>1, <1>2, GoToKeeps
<1>4. r \in InFlight /\ Moves(r)
  BY <1>1, <1>3 DEF Moves, InFlight
<1>5. /\ InFlight' \subseteq InFlight /\ OverlapKnown'
      /\ \A q \in Reqs : pc'[q] = "idle" => pc[q] = "idle"
      /\ \A q \in Reqs : Near(q)' = Near(q) /\ Recent(q)' = Recent(q) /\ Alike(q)' = Alike(q)
  BY <1>4, MovesKeep
<1>6. TypeOK' /\ OwnStages'
  BY <1>1, <1>3 DEF TypeOK, Stages, OwnStages
<1>7. Untouched'
  BY <1>1, <1>5 DEF Untouched
<1>8. FilterRecent' /\ AddressRecent' /\ TplRecent'
  BY <1>1, <1>3, <1>5 DEF FilterRecent, AddressRecent, TplRecent, Value
<1>9. ThresholdsFromOverlapping' /\ LinksFromOverlapping'
  BY <1>1, <1>5 DEF ThresholdsFromOverlapping, LinksFromOverlapping, Value
<1> QED
  BY <1>3, <1>5, <1>6, <1>7, <1>8, <1>9

LEMMA CompareStep ==
  ASSUME IInv, NEW r \in Reqs, NEW g \in Fields, Compare(r, g)
  PROVE  IInv'
<1> USE ChartAssumption DEF IInv, Compare
<1>1. InFlight' = InFlight /\ pc[r] \in {"cpu", "mem"}
  BY DEF InFlight, Compared
<1>2. \A q \in Reqs : Near(q)' = Near(q) /\ Recent(q)' = Recent(q) /\ Alike(q)' = Alike(q)
  BY DEF Near, Recent, Alike
<1>3. TypeOK' /\ Untouched' /\ LeftFits' /\ OwnStages' /\ OverlapKnown'
  BY <1>1 DEF TypeOK, Untouched, LeftFits, OwnStages, OverlapKnown
<1>4. FilterRecent' /\ AddressRecent' /\ TplRecent' /\ LinksFromOverlapping'
  BY <1>1, <1>2 DEF FilterRecent, AddressRecent, TplRecent, LinksFromOverlapping, Value
<1>5. ThresholdsFromOverlapping'
  <2> SUFFICES ASSUME NEW q \in Reqs \ Malformed, NEW f \in Fields
               PROVE  used'[q][f] \subseteq {Value(x) : x \in Near(q) \ Malformed}
    BY <1>2 DEF ThresholdsFromOverlapping, Value
  <2>1. CASE q = r /\ f = g
    <3>1. used'[q][f] = used[q][f] \union {filter[f]}
      BY <2>1 DEF TypeOK
    <3>2. filter[f] \in {Value(x) : x \in Near(q) \ Malformed}
      BY <2>1, <1>1 DEF FilterRecent
    <3> QED
      BY <3>1, <3>2 DEF ThresholdsFromOverlapping
  <2>2. CASE ~ (q = r /\ f = g)
    <3>1. used'[q][f] = used[q][f]
      BY <2>2 DEF TypeOK
    <3> QED
      BY <3>1 DEF ThresholdsFromOverlapping
  <2> QED
    BY <2>1, <2>2
<1> QED
  BY <1>3, <1>4, <1>5

\* What a handler reads of cs.ip, if it set it, is set by one near it.
LEMMA ReadAddressStep ==
  ASSUME IInv, NEW r \in Reqs, NEW w \in Words, ReadAddress(r, w)
  PROVE  IInv'
<1> USE ChartAssumption DEF IInv, ReadAddress
<1>1. /\ pc' \in [Reqs -> Stages]
      /\ left' \in [Reqs -> SUBSET (Fields \union Words)]
      /\ LeftFits'
      /\ \A q \in Reqs \ {r} : pc'[q] = pc[q] /\ left'[q] = left[q]
      /\ pc[r] = "template" /\ w \in left[r]
      /\ \/ pc'[r] = "template" /\ left'[r] = left[r] \ {w}
         \/ pc'[r] = "store" /\ left'[r] = Words /\ left[r] = {w}
  <2>1. "template" \in Stages /\ "store" \in Stages
    BY DEF Stages
  <2>2. Accesses("store") = Words
    BY DEF Accesses
  <2>3. /\ pc' \in [Reqs -> Stages]
        /\ left' \in [Reqs -> SUBSET (Fields \union Words)]
        /\ LeftFits'
        /\ \A q \in Reqs \ {r} : pc'[q] = pc[q] /\ left'[q] = left[q]
        /\ pc[r] = "template" /\ w \in left[r]
        /\ \/ pc'[r] = "template" /\ left'[r] = left[r] \ {w}
           \/ pc'[r] = "store" /\ left'[r] = Accesses("store") /\ left[r] = {w}
    BY <2>1, AccessKeeps
  <2> QED
    BY <2>2, <2>3
<1>2. r \in InFlight /\ Moves(r)
  BY <1>1 DEF Moves, InFlight
<1>3. /\ InFlight' \subseteq InFlight /\ OverlapKnown'
      /\ \A q \in Reqs : pc'[q] = "idle" => pc[q] = "idle"
      /\ \A q \in Reqs : Near(q)' = Near(q) /\ Recent(q)' = Recent(q) /\ Alike(q)' = Alike(q)
  BY <1>2, MovesKeep
<1>4. TypeOK' /\ OwnStages'
  <2>1. held' \in [Reqs -> SUBSET (Reqs \union {Boot})]
    BY DEF TypeOK
  <2> QED
    BY <1>1, <2>1 DEF TypeOK, Stages, OwnStages
<1>5. held'[r] = held[r] \union {ip[w]} /\ \A q \in Reqs \ {r} : held'[q] = held[q]
  BY DEF TypeOK
<1>6. Untouched'
  BY <1>1, <1>3, <1>5 DEF Untouched
<1>7. FilterRecent' /\ TplRecent'
  BY <1>1, <1>3 DEF FilterRecent, TplRecent, Value
<1>8. AddressRecent'
  <2>1. r \in Lines \intersect Ported => ip[w] \in Near(r)
    BY <1>1, <1>2 DEF AddressRecent
  <2>2. \A q \in Reqs : pc[q] = "host" => pc'[q] = "host" /\ left'[q] = left[q]
    BY <1>1
  <2> QED
    BY <2>1, <2>2, <1>3, <1>5 DEF AddressRecent
<1>9. ThresholdsFromOverlapping' /\ LinksFromOverlapping'
  BY <1>3 DEF ThresholdsFromOverlapping, LinksFromOverlapping, Value
<1> QED
  BY <1>1, <1>3, <1>4, <1>6, <1>7, <1>8, <1>9

\* A template is made of addresses near its maker, who is near everyone that
\* finds it stored over its own.
LEMMA StoreTplStep ==
  ASSUME IInv, NEW r \in Reqs, NEW w \in Words, StoreTpl(r, w)
  PROVE  IInv'
<1> USE ChartAssumption DEF IInv, StoreTpl
<1>1. /\ pc' \in [Reqs -> Stages]
      /\ left' \in [Reqs -> SUBSET (Fields \union Words)]
      /\ LeftFits'
      /\ \A q \in Reqs \ {r} : pc'[q] = pc[q] /\ left'[q] = left[q]
      /\ pc[r] = "store" /\ w \in left[r]
      /\ \/ pc'[r] = "store" /\ left'[r] = left[r] \ {w}
         \/ pc'[r] = "render" /\ left'[r] = Words /\ left[r] = {w}
  <2>1. "store" \in Stages /\ "render" \in Stages
    BY DEF Stages
  <2>2. Accesses("render") = Words
    BY DEF Accesses
  <2>3. /\ pc' \in [Reqs -> Stages]
        /\ left' \in [Reqs -> SUBSET (Fields \union Words)]
        /\ LeftFits'
        /\ \A q \in Reqs \ {r} : pc'[q] = pc[q] /\ left'[q] = left[q]
        /\ pc[r] = "store" /\ w \in left[r]
        /\ \/ pc'[r] = "store" /\ left'[r] = left[r] \ {w}
           \/ pc'[r] = "render" /\ left'[r] = Accesses("render") /\ left[r] = {w}
    BY <2>1, AccessKeeps
  <2> QED
    BY <2>2, <2>3
<1>2. r \in InFlight /\ Moves(r)
  BY <1>1 DEF Moves, InFlight
<1>3. /\ InFlight' \subseteq InFlight /\ OverlapKnown'
      /\ \A q \in Reqs : pc'[q] = "idle" => pc[q] = "idle"
      /\ \A q \in Reqs : Near(q)' = Near(q) /\ Recent(q)' = Recent(q) /\ Alike(q)' = Alike(q)
  BY <1>2, MovesKeep
<1>4. TypeOK' /\ OwnStages'
  BY <1>1 DEF TypeOK, Stages, OwnStages
<1>5. Untouched'
  BY <1>3 DEF Untouched
<1>6. FilterRecent'
  BY <1>1, <1>3 DEF FilterRecent, Value
<1>7. AddressRecent'
  <2>1. \A q \in Reqs : pc[q] = "host" => pc'[q] = "host" /\ left'[q] = left[q]
    BY <1>1
  <2> QED
    BY <2>1, <1>3 DEF AddressRecent
<1>8. TplRecent'
  <2> SUFFICES ASSUME NEW q \in Lines, NEW v \in Words, Alike(q),
                      pc'[q] = "render" \/ (pc'[q] = "store" /\ v \notin left'[q])
               PROVE  tpl'[v] \subseteq Recent(q)
    BY <1>3 DEF TplRecent
  <2>1. q \in InFlight /\ r \in Lines
    BY <1>1, <1>2 DEF InFlight, OwnStages
  <2>2. CASE v = w
    <3>1. tpl'[v] = held[r]
      BY <2>2 DEF TypeOK
    <3>2. r \in Near(q) /\ Near(r) \subseteq Recent(q)
      BY <2>1, <1>2, NearEachOther
    <3>3. r \in Ported
      BY <3>2, <2>1 DEF Alike
    <3> QED
      BY <3>1, <3>2, <3>3, <2>1 DEF AddressRecent
  <2>3. CASE v # w
    <3>1. tpl'[v] = tpl[v]
      BY <2>3 DEF TypeOK
    <3>2. pc[q] = "render" \/ (pc[q] = "store" /\ v \notin left[q])
      BY <2>3, <1>1
    <3> QED
      BY <3>1, <3>2 DEF TplRecent
  <2> QED
    BY <2>2, <2>3
<1>9. ThresholdsFromOverlapping' /\ LinksFromOverlapping'
  BY <1>3 DEF ThresholdsFromOverlapping, LinksFromOverlapping, Value
<1> QED
  BY <1>1, <1>3, <1>4, <1>5, <1>6, <1>7, <1>8, <1>9

LEMMA RenderStep ==
  ASSUME IInv, NEW r \in Reqs, NEW w \in Words, Render(r, w)
  PROVE  IInv'
<1> USE ChartAssumption DEF IInv, Render
<1>1. /\ pc' \in [Reqs -> Stages]
      /\ left' \in [Reqs -> SUBSET (Fields \union Words)]
      /\ LeftFits'
      /\ \A q \in Reqs \ {r} : pc'[q] = pc[q] /\ left'[q] = left[q]
      /\ pc[r] = "render" /\ w \in left[r]
      /\ \/ pc'[r] = "render" /\ left'[r] = left[r] \ {w}
         \/ pc'[r] = "done" /\ left'[r] = {} /\ left[r] = {w}
  <2>1. "render" \in Stages /\ "done" \in Stages
    BY DEF Stages
  <2>2. Accesses("done") = {}
    BY DEF Accesses
  <2>3. /\ pc' \in [Reqs -> Stages]
        /\ left' \in [Reqs -> SUBSET (Fields \union Words)]
        /\ LeftFits'
        /\ \A q \in Reqs \ {r} : pc'[q] = pc[q] /\ left'[q] = left[q]
        /\ pc[r] = "render" /\ w \in left[r]
        /\ \/ pc'[r] = "render" /\ left'[r] = left[r] \ {w}
           \/ pc'[r] = "done" /\ left'[r] = Accesses("done") /\ left[r] = {w}
    BY <2>1, AccessKeeps
  <2> QED
    BY <2>2, <2>3
<1>2. r \in InFlight /\ Moves(r)
  BY <1>1 DEF Moves, InFlight
<1>3. /\ InFlight' \subseteq InFlight /\ OverlapKnown'
      /\ \A q \in Reqs : pc'[q] = "idle" => pc[q] = "idle"
      /\ \A q \in Reqs : Near(q)' = Near(q) /\ Recent(q)' = Recent(q) /\ Alike(q)' = Alike(q)
  BY <1>2, MovesKeep
<1>4. TypeOK' /\ OwnStages'
  BY <1>1 DEF TypeOK, Stages, OwnStages
<1>5. page'[r] = page[r] \union tpl[w] /\ \A q \in Reqs \ {r} : page'[q] = page[q]
  BY DEF TypeOK
<1>6. Untouched'
  BY <1>1, <1>3, <1>5 DEF Untouched
<1>7. FilterRecent' /\ TplRecent'
  BY <1>1, <1>3 DEF FilterRecent, TplRecent, Value
<1>8. AddressRecent'
  <2>1. \A q \in Reqs : pc[q] = "host" => pc'[q] = "host" /\ left'[q] = left[q]
    BY <1>1
  <2> QED
    BY <2>1, <1>3 DEF AddressRecent
<1>9. ThresholdsFromOverlapping'
  BY <1>3 DEF ThresholdsFromOverlapping, Value
<1>10. LinksFromOverlapping'
  <2>1. r \in Lines /\ Alike(r) => tpl[w] \subseteq Recent(r)
    BY <1>1 DEF TplRecent
  <2> QED
    BY <2>1, <1>3, <1>5 DEF LinksFromOverlapping
<1> QED
  BY <1>1, <1>3, <1>4, <1>6, <1>7, <1>8, <1>9, <1>10

LEMMA IInvStep == IInv /\ [Next]_vars => IInv'
<1> SUFFICES ASSUME IInv, [Next]_vars PROVE IInv'
  OBVIOUS
<1>1. CASE UNCHANGED vars
  <2> USE <1>1 DEF vars, IInv, InFlight
  <2>1. TypeOK' /\ Untouched' /\ LeftFits' /\ OwnStages' /\ OverlapKnown'
    BY DEF TypeOK, Untouched, LeftFits, OwnStages, OverlapKnown
  <2>2. \A r : Near(r)' = Near(r) /\ Recent(r)' = Recent(r) /\ Alike(r)' = Alike(r)
    BY DEF Near, Recent, Alike
  <2>3. FilterRecent' /\ ThresholdsFromOverlapping'
    BY <2>2 DEF FilterRecent, ThresholdsFromOverlapping, Value
  <2>4. AddressRecent' /\ TplRecent' /\ LinksFromOverlapping'
    BY <2>2 DEF AddressRecent, TplRecent, LinksFromOverlapping
  <2> QED
    BY <2>1, <2>3, <2>4
<1>2. ASSUME NEW r \in Reqs, Handle(r) PROVE IInv'
  <2>1. CASE Arrive(r)
    BY <2>1, ArriveStep
  <2>2. CASE \E w \in Words : SetAddress(r, w)
    BY <2>2, SetAddressStep
  <2>3. CASE \E f \in Fields : SetField(r, f)
    BY <2>3, SetFieldStep
  <2>4. CASE Open(r) \/ LoopDone(r)
    BY <2>4, QuietStep
  <2>5. CASE \E f \in Fields : Compare(r, f)
    BY <2>5, CompareStep
  <2>6. CASE \E w \in Words : ReadAddress(r, w)
    BY <2>6, ReadAddressStep
  <2>7. CASE \E w \in Words : StoreTpl(r, w)
    BY <2>7, StoreTplStep
  <2>8. CASE \E w \in Words : Render(r, w)
    BY <2>8, RenderStep
  <2> QED
    BY <1>2, <2>1, <2>2, <2>3, <2>4, <2>5, <2>6, <2>7, <2>8 DEF Handle
<1>3. CASE Next
  BY <1>2, <1>3 DEF Next
<1> QED
  BY <1>1, <1>3

\* The inductive invariant: what a handler finds in the filter, the address and the
\* template that all share stems from its own request or from recent ones, whatever
\* the order of the accesses (chartserver.go:470-525, 741-787).
THEOREM Invariance == Spec => []IInv
<1>1. Init => IInv
  BY InitIInv
<1>2. IInv /\ [Next]_vars => IInv'
  BY IInvStep
<1> QED
  BY <1>1, <1>2, PTL DEF Spec

\* A chart is never filtered with what an earlier request left behind, however
\* many requests are handled at once.
THEOREM ThresholdsAreRecent == Spec => []ThresholdsFromOverlapping
<1>1. IInv => ThresholdsFromOverlapping
  BY DEF IInv
<1> QED
  BY <1>1, Invariance, PTL

\* The links of a line page lead to an address in use while it was made or
\* while a page made at the same time was, though every request reads and
\* stores what they share when it pleases.
THEOREM LinksAreRecent == Spec => []LinksFromOverlapping
<1>1. IInv => LinksFromOverlapping
  BY DEF IInv
<1> QED
  BY <1>1, Invariance, PTL
=============================================================================
