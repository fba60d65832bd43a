---------------------------- MODULE ChartServer ----------------------------
(***************************************************************************)
(* The HTTP side of the topid chart server: lineHandler and pieHandler of  *)
(* topidchart/chartserver.go as net/http runs them, one goroutine per      *)
(* request, with what they share and do not lock: the filter, the address  *)
(* put into the page's links, and the page template of the chart library.  *)
(*                                                                         *)
(* A threshold is named by the request it was taken from, an address by    *)
(* the request whose Host it was in, so that the model tells whose value   *)
(* a page was made with.  The accesses race, and nothing orders the writes *)
(* of one request for the others: they take effect in any order, a         *)
(* threshold in one, an address or a template, which are strings, in two:  *)
(* its data and its length.                                                *)
(***************************************************************************)
EXTENDS Naturals

CONSTANTS
  Reqs,       \* requests for /{tag}/{session} and /{tag}/{session}/pie
  Lines,      \* those for line charts; the others ask for pie charts
  Ported,     \* requests whose Host header has a port
  Filtered,   \* requests whose query has a filter of four parts
  Malformed,  \* requests whose query has a filter of another shape
  Raw,        \* requests whose session has a dot: they get the record file
  CpuFields,  \* the thresholds of the CPU chart: cpuavg, cpumax
  MemFields,  \* the thresholds of the memory chart: memavg, memmax
  Words,      \* the words of a string: its data and its length
  Default,    \* the thresholds 2, 10, 10, 20
  Boot,       \* the address the server was started with
  Library     \* the library's own template

Fields == CpuFields \union MemFields

ASSUME ChartAssumption ==
  /\ Lines \union Ported \union Filtered \union Malformed \union Raw \subseteq Reqs
  /\ Filtered \intersect Malformed = {}
  /\ {Default, Boot, Library} \intersect Reqs = {}
  /\ Boot # Library

VARIABLES
  filter,   \* cs.filter
  ip,       \* cs.ip, word by word
  tpl,      \* templates.PageTpl, word by word: the addresses it was made with
  pc,       \* program counter of each request's handler
  left,     \* accesses it has left to make before it goes on
  held,     \* addresses in the template it is making
  used,     \* thresholds its analysis has compared with
  page,     \* addresses in the template its page was rendered with
  over      \* requests that were being handled while it was

vars == <<filter, ip, tpl, pc, left, held, used, page, over>>

\* The thresholds a request puts into the filter.
Value(r) == IF r \in Filtered THEN r ELSE Default

InFlight == {r \in Reqs : pc[r] \notin {"idle", "done"}}

Init ==
  /\ filter = [f \in Fields |-> Default]
  /\ ip = [w \in Words |-> Boot]
  /\ tpl = [w \in Words |-> {Library}]
  /\ pc = [r \in Reqs |-> "idle"]
  /\ left = [r \in Reqs |-> {}]
  /\ held = [r \in Reqs |-> {}]
  /\ used = [r \in Reqs |-> [f \in Fields |-> {}]]
  /\ page = [r \in Reqs |-> {}]
  /\ over = [r \in Reqs |-> {}]

-----------------------------------------------------------------------------
\* The accesses of a stage of the handler to what the requests share.
Accesses(stage) ==
  CASE stage = "set" -> Fields
    [] stage \in {"host", "template", "store", "render"} -> Words
    [] OTHER -> {}

GoTo(r, stage) ==
  /\ pc' = [pc EXCEPT ![r] = stage]
  /\ left' = [left EXCEPT ![r] = Accesses(stage)]

\* The handler of r makes access x of a stage, and after the last goes on.
Access(r, x, stage, next) ==
  /\ pc[r] = stage
  /\ x \in left[r]
  /\ \/ left[r] = {x} /\ GoTo(r, next)
     \/ left[r] # {x} /\ left' = [left EXCEPT ![r] = @ \ {x}] /\ UNCHANGED pc

\* A query with a filter of another shape leaves cs.filter alone.
AfterHost(r) == IF r \in Malformed THEN "open" ELSE "set"

\* A request comes in; lineHandler takes the address out of its Host header.
Arrive(r) ==
  /\ pc[r] = "idle"
  /\ over' = [q \in Reqs |-> IF q = r THEN InFlight
                             ELSE IF q \in InFlight THEN over[q] \union {r}
                             ELSE over[q]]
  /\ GoTo(r, IF r \in Lines \intersect Ported THEN "host" ELSE AfterHost(r))
  /\ UNCHANGED <<filter, ip, tpl, held, used, page>>

\* cs.ip = ip
SetAddress(r, w) ==
  /\ Access(r, w, "host", AfterHost(r))
  /\ ip' = [ip EXCEPT ![w] = r]
  /\ UNCHANGED <<filter, tpl, held, used, page, over>>

\* Mutant: a query without a filter leaves the filter as it is.
SetFieldNoDefault(r, f) ==
  /\ Access(r, f, "set", "open")
  /\ filter' = IF r \in Filtered THEN [filter EXCEPT ![f] = Value(r)] ELSE filter
  /\ UNCHANGED <<ip, tpl, held, used, page, over>>

\* One of cs.filter's fields is set, to the query's value or the default.
SetField(r, f) ==
  /\ Access(r, f, "set", "open")
  /\ filter' = [filter EXCEPT ![f] = Value(r)]
  /\ UNCHANGED <<ip, tpl, held, used, page, over>>

\* The record file is sent as it is or does not open, and the handler returns;
\* or the analysis reads it and comes to its first loop.
Open(r) ==
  /\ pc[r] = "open"
  /\ \/ GoTo(r, "done")
     \/ r \notin Raw /\ GoTo(r, "cpu")
  /\ UNCHANGED <<filter, ip, tpl, held, used, page, over>>

\* The thresholds that the loop of a stage compares with.
Compared(stage) ==
  CASE stage = "cpu" -> CpuFields
    [] stage = "mem" -> MemFields
    [] OTHER -> {}

\* The analysis compares one process with a threshold, read from cs.filter
\* through the pointer it was given.
Compare(r, f) ==
  /\ f \in Compared(pc[r])
  /\ used' = [used EXCEPT ![r][f] = @ \union {filter[f]}]
  /\ UNCHANGED <<filter, ip, tpl, pc, left, held, page, over>>

\* From the CPU loop to the memory loop, and on to the page; pieHandler does
\* not call updatePageTpl.
LoopDone(r) ==
  /\ \/ pc[r] = "cpu" /\ GoTo(r, "mem")
     \/ pc[r] = "mem" /\ GoTo(r, IF r \in Lines THEN "template" ELSE "render")
  /\ UNCHANGED <<filter, ip, tpl, held, used, page, over>>

\* updatePageTpl reads cs.ip, an argument of the Sprintf that makes the
\* template; its two links, both made so, are one here.
ReadAddress(r, w) ==
  /\ Access(r, w, "template", "store")
  /\ held' = [held EXCEPT ![r] = @ \union {ip[w]}]
  /\ UNCHANGED <<filter, ip, tpl, used, page, over>>

\* Mutant: the template is made once and kept.
StoreTplOnce(r, w) ==
  /\ Access(r, w, "store", "render")
  /\ tpl' = IF tpl[w] = {Library} THEN [tpl EXCEPT ![w] = held[r]] ELSE tpl
  /\ UNCHANGED <<filter, ip, held, used, page, over>>

\* templates.PageTpl = what Sprintf returned
StoreTpl(r, w) ==
  /\ Access(r, w, "store", "render")
  /\ tpl' = [tpl EXCEPT ![w] = held[r]]
  /\ UNCHANGED <<filter, ip, held, used, page, over>>

\* page.Render reads the template and writes the page.
Render(r, w) ==
  /\ Access(r, w, "render", "done")
  /\ page' = [page EXCEPT ![r] = @ \union tpl[w]]
  /\ UNCHANGED <<filter, ip, tpl, held, used, over>>

Handle(r) ==
  \/ Arrive(r)
  \/ \E w \in Words : SetAddress(r, w)
  \/ \E f \in Fields : SetField(r, f)
  \/ Open(r)
  \/ \E f \in Fields : Compare(r, f)
  \/ LoopDone(r)
  \/ \E w \in Words : ReadAddress(r, w)
  \/ \E w \in Words : StoreTpl(r, w)
  \/ \E w \in Words : Render(r, w)

Next == \E r \in Reqs : Handle(r)

Spec == Init /\ [][Next]_vars

-----------------------------------------------------------------------------
(* Properties. *)

TypeOK ==
  /\ filter \in [Fields -> Reqs \union {Default}]
  /\ ip \in [Words -> Reqs \union {Boot}]
  /\ tpl \in [Words -> SUBSET (Reqs \union {Boot, Library})]
  /\ pc \in [Reqs -> {"idle", "host", "set", "open", "cpu", "mem",
                     "template", "store", "render", "done"}]
  /\ left \in [Reqs -> SUBSET (Fields \union Words)]
  /\ held \in [Reqs -> SUBSET (Reqs \union {Boot})]
  /\ used \in [Reqs -> [Fields -> SUBSET (Reqs \union {Default})]]
  /\ page \in [Reqs -> SUBSET (Reqs \union {Boot, Library})]
  /\ over \in [Reqs -> SUBSET Reqs]

\* A request and those handled at the same time.
Near(r) == over[r] \union {r}

\* These and the requests handled at the same time as one of them.
Recent(r) == UNION {Near(q) : q \in Near(r)}

\* A chart is filtered with thresholds of its own request or of one handled at
\* the same time that sets them, never with what an earlier request left in
\* cs.filter, unless its filter is malformed (chartserver.go:480-494, 644-658).
ThresholdsFromOverlapping ==
  \A r \in Reqs \ Malformed, f \in Fields :
    used[r][f] \subseteq {Value(q) : q \in Near(r) \ Malformed}

\* The requests for line pages handled at the same time as r all set cs.ip.
Alike(r) == Near(r) \intersect Lines \subseteq Ported

\* The links of a line page, if it and the line pages handled at the same time
\* are asked for with a port in the Host header, lead to addresses that its own
\* request came in on, or one handled at the same time, or one handled at the
\* same time as that one: it may have read its address before, and stored the
\* template it made with it after (chartserver.go:475-478, 760-786).
LinksFromOverlapping ==
  \A r \in Lines : Alike(r) => page[r] \subseteq Recent(r)

\* "Appending ?filter=... to the URL ... can set the filter which determines
\* which processes you want to show in the chart" (topidchart/README.md:7-8).
OwnFilter ==
  \A r \in Reqs \ Malformed, f \in Fields : used[r][f] \subseteq {Value(r)}

-----------------------------------------------------------------------------
(* The inductive invariant: what a handler in flight finds in the shared    *)
(* variables it has set is its own or an overlapping request's.             *)

\* A request still to come has used nothing and met nobody.
Untouched ==
  \A r \in Reqs : pc[r] = "idle" =>
    /\ held[r] = {} /\ page[r] = {} /\ over[r] = {}
    /\ \A f \in Fields : used[r][f] = {}

\* A handler sets thresholds only if it has any to set, and makes a template
\* only for a line page.
OwnStages ==
  \A r \in Reqs : /\ pc[r] = "set" => r \notin Malformed
                  /\ pc[r] \in {"template", "store"} => r \in Lines

\* What is left of a stage is accesses of that stage.
LeftFits == \A r \in Reqs : left[r] \subseteq Accesses(pc[r])

\* Handlers in flight together know of each other.
OverlapKnown ==
  \A q, r \in InFlight : q # r => q \in over[r]

FilterRecent ==
  \A r \in Reqs \ Malformed, f \in Fields :
    pc[r] \in {"open", "cpu", "mem"} \/ (pc[r] = "set" /\ f \notin left[r])
    => filter[f] \in {Value(q) : q \in Near(r) \ Malformed}

\* A word of cs.ip the handler has set, and what it has read of cs.ip since.
AddressRecent ==
  \A r \in Lines \intersect Ported :
    /\ held[r] \subseteq Near(r)
    /\ r \in InFlight =>
         \A w \in Words : (pc[r] = "host" /\ w \in left[r]) \/ ip[w] \in Near(r)

\* A word of the template the handler has stored.
TplRecent ==
  \A r \in Lines, w \in Words :
    Alike(r) /\ (pc[r] = "render" \/ (pc[r] = "store" /\ w \notin left[r]))
    => tpl[w] \subseteq Recent(r)

IInv ==
  /\ TypeOK
  /\ Untouched
  /\ LeftFits
  /\ OwnStages
  /\ OverlapKnown
  /\ FilterRecent
  /\ AddressRecent
  /\ TplRecent
  /\ ThresholdsFromOverlapping
  /\ LinksFromOverlapping
=============================================================================
