--------------------------- MODULE QueriesProofs ---------------------------
(***************************************************************************)
(* Proofs about queries: on every transport the builders return, or hand   *)
(* to their handlers, exactly the events that were asked for.              *)
(* The argument: a row of a reply, a row that passed the filter and a call *)
(* of a handler each stand for an event that was stored when the store was *)
(* asked. They stay in the order of ids, and between them they have every  *)
(* event that is asked for until the call ends.                            *)
(***************************************************************************)
EXTENDS Queries, FiniteSetTheorems, SequenceTheorems, TLAPS

(* The inductive invariant. The parts about a call are stated for the      *)
(* stored events S, the calls h of handlers so far, the rows o of the      *)
(* answer and the rows r still to be filtered; all says that nothing may   *)
(* be missing.                                                             *)

Event == [stream : Stream, id : 0..MaxEvents, kind : Kind, body : Doc]
EnvelopeRow == [id : 0..MaxEvents, kind : Kind, op : Int]
Handling == [name : (Int \X Int) \cup ({"on"} \X Kind), id : 0..MaxEvents]

\* What the variables hold; the call is one that a client may make.
QueryTypes ==
  /\ transport \in Transport
  /\ events \in Seq(Event)
  /\ Len(events) <= MaxEvents
  /\ call.api \in Dispatched \cup {"none", "perform", "envelopes"}
  /\ call.api \in {"perform", "stream"} => call.v1 \in Builders
  /\ call.r2 \in Query2
  /\ pc \in {"idle", "filter", "dispatch", "done"}
  /\ outcome \in {"none", "ok", "empty query", "unsupported", "handler error", "panic", "error"}
  /\ rows \in Seq(EnvelopeRow)
  /\ out \in Seq(EnvelopeRow)
  /\ handled \in Seq(Handling)
  /\ seen \in 0..Len(events)
  /\ cut \in BOOLEAN

\* The ids of a stream grow, from 0 in memory and from 1 in Postgres.
IdsGrow ==
  /\ \A m, n \in Own(Len(events)) : m < n => events[m].id < events[n].id
  /\ \A n \in Own(Len(events)) :
       IF transport = "memory" THEN events[n].id < Cardinality(Own(Len(events)))
                               ELSE events[n].id \in 1..Len(events)

\* Where a call is and what it has returned.
Control ==
  /\ pc = "idle" <=> call.api = "none"
  /\ pc = "idle" => rows = <<>> /\ out = <<>> /\ handled = <<>>
  /\ pc = "done" <=> outcome # "none"
  /\ pc = "filter" => /\ handled = <<>>
                      /\ call.api \in {"stream", "batch"} => transport = "memory"
  /\ pc = "dispatch" => rows = <<>> /\ call.api \in Dispatched
  /\ outcome = "ok" => rows = <<>> /\ (call.api \in Dispatched => out = <<>>)
  /\ call.api \in {"perform", "envelopes"} => handled = <<>>
  /\ call.api = "watch" => call.r2.ids = <<>> /\ (transport = "rest" => pc = "done")

\* Which replies may be cut off, and which calls are refused.
Refusals ==
  /\ cut => transport # "memory" /\ (call.api \in {"perform", "stream"} => transport = "grpc")
  /\ call.api = "perform" =>
       /\ outcome \in {"none", "ok", "empty query", "error"}
       /\ outcome = "empty query" => transport = "grpc" /\ DOMAIN call.v1 = {}

\* The answer is not to miss anything.
Awaited == (pc \in {"filter", "dispatch"} \/ outcome = "ok") /\ ~cut

Stems(x, e) == x.id = e.id /\ x.kind = e.kind
Under(s, t) == \A k \in DOMAIN s, l \in DOMAIN t : s[k].id < t[l].id
FromStore(S, r) == \A k \in DOMAIN r : \E e \in S : Stems(r[k], e)

\* An event satisfies a v1 query, with or without its Eq constraints.
Suits(q, eqs, e) ==
  \/ DOMAIN q = {}
  \/ /\ e.kind \in DOMAIN q
     /\ eqs => \A p \in q[e.kind].eq : p[1] \in DOMAIN e.body /\ e.body[p[1]] = p[2]
     /\ \A sub \in q[e.kind].match : JSONIsSubset(e.body, sub)

\* Perform, Stream and EnvelopesFor: the events that may be in the answer, and
\* those that have to be returned or handled.
Pass(c, t, e) ==
  /\ c.api = "perform" => Suits(c.v1, TRUE, e)
  /\ c.api = "stream" => Suits(c.v1, t # "grpc", e)
  /\ c.api = "envelopes" => e.id \in c.ids
Due(c, t, e) ==
  Pass(c, t, e) /\ (c.api = "stream" => e.kind \in DOMAIN c.v1 /\ c.v1[e.kind].on)

V1Order(h, o, r) == Ascending(h) /\ Ascending(o) /\ Ascending(r) /\ Under(h, o) /\ Under(o, r)
V1Rows(c, t, S, h, o, r) ==
  /\ FromStore(S, r)
  /\ \A k \in DOMAIN o : \E e \in S : Stems(o[k], e) /\ Pass(c, t, e)
  /\ \A k \in DOMAIN h : \E e \in S : h[k].id = e.id /\ Due(c, t, e)
V1Whole(c, t, S, h, o, r) ==
  \A e \in S : Due(c, t, e) => e.id \in Ids(h) \cup Ids(o) \cup Ids(r)
V1Good(c, t, S, h, o, r, all) ==
  /\ V1Order(h, o, r)
  /\ V1Rows(c, t, S, h, o, r)
  /\ all => V1Whole(c, t, S, h, o, r)

\* query2: a handler, by its place, and an event that it is to be called with.
Fits(q, t, p, e) == HandlerWants(q, p, e) /\ (t = "memory" => e.id > q.after)
Carries(x, q, t, e) ==
  \E p \in Registered(q) : Stems(x, e) /\ x.op = Register(q, p) /\ Fits(q, t, p, e)
Fitting(q, t, S, h) ==
  \A k \in DOMAIN h : /\ h[k].name \in Registered(q)
                      /\ \E e \in S : h[k].id = e.id /\ Fits(q, t, h[k].name, e)

Before(i, a, j, b) == i < j \/ (i = j /\ a < b)
Sorted(s) == \A k, l \in DOMAIN s : k < l => Before(s[k].id, s[k].op, s[l].id, s[l].op)
Rising(s) == \A k, l \in DOMAIN s : k < l => s[k].id <= s[l].id

\* StreamBatch: calls and then rows come in the order of ids and handlers.
BatchOrder(q, h, o, r) ==
  /\ \A k, l \in DOMAIN h :
       k < l => Before(h[k].id, Register(q, h[k].name), h[l].id, Register(q, h[l].name))
  /\ Sorted(o)
  /\ \A k \in DOMAIN h, l \in DOMAIN o :
       Before(h[k].id, Register(q, h[k].name), o[l].id, o[l].op)
  /\ Ascending(r) /\ Under(o, r)
BatchRows(q, t, S, h, o, r) ==
  /\ FromStore(S, r)
  /\ \A k \in DOMAIN o : \E e \in S : Carries(o[k], q, t, e)
  /\ Fitting(q, t, S, h)
BatchWhole(q, t, S, h, o, r) ==
  \A e \in S, p \in Registered(q) :
    Fits(q, t, p, e) => \/ \E k \in DOMAIN h : h[k].name = p /\ h[k].id = e.id
                        \/ \E k \in DOMAIN o : o[k].id = e.id /\ o[k].op = Register(q, p)
                        \/ e.id \in Ids(r)
BatchGood(q, t, S, h, o, r, all) ==
  /\ BatchOrder(q, h, o, r)
  /\ BatchRows(q, t, S, h, o, r)
  /\ all => BatchWhole(q, t, S, h, o, r)
Unset(q, t, S) == \E e \in S, p \in IdPlaces(q) : Fits(q, t, p, e) /\ ~IsSet(q, p)

\* The first pass of a watch: the rows of an event that is in the answer
\* already are still to be dropped.
WatchOrder(h, o, r) ==
  /\ Ascending(h) /\ Ascending(o) /\ Under(h, o)
  /\ Rising(r)
  /\ \A k \in DOMAIN o, l \in DOMAIN r : o[k].id <= r[l].id
WatchRows(q, t, S, h, o, r) ==
  /\ FromStore(S, r)
  /\ t # "memory" => \A k \in DOMAIN r : \E e \in S : Carries(r[k], q, t, e)
  /\ \A k \in DOMAIN o : \E e \in S : Carries(o[k], q, t, e)
  /\ Fitting(q, t, S, h)
WatchWhole(q, t, S, h, o, r) ==
  \A e \in S, p \in Registered(q) :
    Fits(q, t, p, e) => e.id \in Ids(h) \cup Ids(o) \cup Ids(r)
WatchGood(q, t, S, h, o, r, all) ==
  /\ WatchOrder(h, o, r)
  /\ WatchRows(q, t, S, h, o, r)
  /\ all => WatchWhole(q, t, S, h, o, r)

V1Inv ==
  call.api \in {"perform", "stream", "envelopes"} =>
    V1Good(call, transport, Stored, handled, out, rows, Awaited)
BatchInv ==
  call.api = "batch" =>
    /\ BatchGood(call.r2, transport, Stored, handled, out, rows, Awaited)
    /\ outcome = "panic" => Unset(call.r2, transport, Stored)
WatchInv ==
  call.api = "watch" =>
    WatchGood(call.r2, transport, Stored, handled, out, rows, Awaited)

QueryInv == QueryTypes /\ IdsGrow /\ Control /\ Refusals /\ V1Inv /\ BatchInv /\ WatchInv
-----------------------------------------------------------------------------
(* Order *)

Below(x, S) == {y \in S : Precedes(y, x)}

\* Different places have different pairs of numbers.
Keyed(S) ==
  /\ IsFiniteSet(S)
  /\ \A x \in S : x[1] \in Int /\ x[2] \in Int
  /\ \A x, y \in S : x[1] = y[1] /\ x[2] = y[2] => x = y

\* The rank of a place counts the others before it.
LEMMA RankType ==
  ASSUME NEW S, Keyed(S), NEW x \in S
  PROVE  Rank(x, S) \in 0..Cardinality(S) - 1
<1>1. IsFiniteSet(S) /\ Below(x, S) \subseteq S /\ x \notin Below(x, S)
  BY DEF Keyed, Below, Precedes
<1>2. IsFiniteSet(Below(x, S)) /\ Cardinality(Below(x, S)) <= Cardinality(S)
      /\ (Cardinality(Below(x, S)) = Cardinality(S) => Below(x, S) = S)
  BY <1>1, FS_Subset
<1>3. Cardinality(S) \in Nat /\ Cardinality(Below(x, S)) \in Nat
  BY <1>1, <1>2, FS_CardinalityType
<1> QED
  BY <1>1, <1>2, <1>3 DEF Rank, Below

\* Ranks compare as the places do.
LEMMA RankGrows ==
  ASSUME NEW S, Keyed(S), NEW x \in S, NEW y \in S
  PROVE  /\ Precedes(x, y) <=> Rank(x, S) < Rank(y, S)
         /\ Rank(x, S) = Rank(y, S) => x = y
<1>0. ASSUME NEW a \in S, NEW b \in S, Precedes(a, b)
      PROVE  Rank(a, S) < Rank(b, S)
  <2>1. /\ Below(a, S) \subseteq Below(b, S) /\ a \in Below(b, S) /\ a \notin Below(a, S)
        /\ Below(b, S) \subseteq S
    BY <1>0 DEF Keyed, Below, Precedes
  <2>2. IsFiniteSet(Below(b, S))
    BY <2>1, FS_Subset DEF Keyed
  <2>3. IsFiniteSet(Below(a, S)) /\ Cardinality(Below(a, S)) <= Cardinality(Below(b, S))
        /\ (Cardinality(Below(a, S)) = Cardinality(Below(b, S)) => Below(a, S) = Below(b, S))
    BY <2>1, <2>2, FS_Subset
  <2>4. Cardinality(Below(a, S)) \in Nat /\ Cardinality(Below(b, S)) \in Nat
    BY <2>2, <2>3, FS_CardinalityType
  <2> QED
    BY <2>1, <2>3, <2>4 DEF Rank, Below
<1>1. Precedes(x, y) => Rank(x, S) < Rank(y, S)
  BY <1>0
<1>2. Precedes(y, x) => Rank(y, S) < Rank(x, S)
  BY <1>0
<1>3. Precedes(x, y) \/ Precedes(y, x) \/ x = y
  BY DEF Precedes, Keyed
<1>4. Rank(x, S) \in Int /\ Rank(y, S) \in Int
  <2>1. Rank(x, S) \in 0..Cardinality(S) - 1 /\ Rank(y, S) \in 0..Cardinality(S) - 1
    BY RankType
  <2>2. Cardinality(S) \in Nat
    BY FS_CardinalityType DEF Keyed
  <2> QED
    BY <2>1, <2>2
<1> QED
  BY <1>1, <1>2, <1>3, <1>4

\* Every number below the count of the places is a rank.
LEMMA RankOnto ==
  ASSUME NEW S, Keyed(S), NEW k \in 0..Cardinality(S) - 1
  PROVE  \E x \in S : Rank(x, S) = k
<1>0. Cardinality(S) \in Nat /\ IsFiniteSet(S)
  BY FS_CardinalityType DEF Keyed
<1> SUFFICES ASSUME \A x \in S : Rank(x, S) # k PROVE FALSE
  OBVIOUS
<1> DEFINE T == (0..Cardinality(S) - 1) \ {k}
           f == [x \in S |-> Rank(x, S)]
<1>1. IsFiniteSet(0..Cardinality(S) - 1) /\ Cardinality(0..Cardinality(S) - 1) = Cardinality(S)
  <2>0. 0 \in Int /\ Cardinality(S) - 1 \in Int
    BY <1>0
  <2>1. IsFiniteSet(0..Cardinality(S) - 1)
        /\ Cardinality(0..Cardinality(S) - 1) = IF 0 > Cardinality(S) - 1 THEN 0
                                                ELSE (Cardinality(S) - 1) - 0 + 1
    BY <2>0, FS_Interval
  <2> QED
    BY <1>0, <2>1
<1>2. IsFiniteSet(T) /\ Cardinality(T) = Cardinality(S) - 1
  BY <1>1, FS_RemoveElement
<1>3. f \in [S -> T]
  BY RankType
<1>4. ~(\E x, y \in S : x # y /\ f[x] = f[y])
  BY RankGrows
<1>5. Cardinality(T) < Cardinality(S)
  BY <1>0, <1>2
<1> HIDE DEF f, T
<1> QED
  BY <1>0, <1>2, <1>3, <1>4, <1>5, FS_PigeonHole

\* A set of places is listed in order, every place at its rank.
LEMMA Ordered ==
  ASSUME NEW S, Keyed(S)
  PROVE  /\ InOrder(S) \in Seq(S) /\ Len(InOrder(S)) = Cardinality(S) /\ Cardinality(S) \in Nat
         /\ DOMAIN InOrder(S) = 1..Cardinality(S)
         /\ \A k \in 1..Cardinality(S) : Rank(InOrder(S)[k], S) = k - 1
         /\ \A x \in S : Rank(x, S) + 1 \in 1..Cardinality(S) /\ InOrder(S)[Rank(x, S) + 1] = x
         /\ \A k, l \in 1..Cardinality(S) : k < l => Precedes(InOrder(S)[k], InOrder(S)[l])
<1>0. Cardinality(S) \in Nat
  BY FS_CardinalityType DEF Keyed
<1> DEFINE s == InOrder(S)
<1>1. \A k \in 1..Cardinality(S) : s[k] \in S /\ Rank(s[k], S) = k - 1
  <2> SUFFICES ASSUME NEW k \in 1..Cardinality(S) PROVE s[k] \in S /\ Rank(s[k], S) = k - 1
    OBVIOUS
  <2>1. k - 1 \in 0..Cardinality(S) - 1
    BY <1>0
  <2>2. \E x \in S : Rank(x, S) = k - 1
    BY <2>1, RankOnto
  <2> QED
    BY <2>2 DEF InOrder
<1>2. DOMAIN s = 1..Cardinality(S) /\ s = [k \in 1..Cardinality(S) |-> s[k]]
  BY DEF InOrder
<1>3. s \in Seq(S) /\ Len(s) = Cardinality(S)
  <2> HIDE DEF s
  <2> QED
    BY <1>0, <1>1, <1>2
<1>4. \A x \in S : Rank(x, S) + 1 \in 1..Cardinality(S) /\ s[Rank(x, S) + 1] = x
  <2> HIDE DEF s
  <2> SUFFICES ASSUME NEW x \in S
               PROVE  Rank(x, S) + 1 \in 1..Cardinality(S) /\ s[Rank(x, S) + 1] = x
    OBVIOUS
  <2>1. Rank(x, S) \in 0..Cardinality(S) - 1
    BY RankType
  <2>2. Rank(x, S) + 1 \in 1..Cardinality(S) /\ Rank(x, S) \in Int
    BY <1>0, <2>1
  <2>3. s[Rank(x, S) + 1] \in S /\ Rank(s[Rank(x, S) + 1], S) = Rank(x, S)
    BY <1>1, <2>2
  <2> QED
    BY <2>2, <2>3, RankGrows
<1>5. \A k, l \in 1..Cardinality(S) : k < l => Precedes(s[k], s[l])
  <2> HIDE DEF s
  <2> SUFFICES ASSUME NEW k \in 1..Cardinality(S), NEW l \in 1..Cardinality(S), k < l
               PROVE  Precedes(s[k], s[l])
    OBVIOUS
  <2>1. s[k] \in S /\ s[l] \in S /\ Rank(s[k], S) < Rank(s[l], S)
    BY <1>0, <1>1
  <2> QED
    BY <2>1, RankGrows
<1> QED
  BY <1>0, <1>1, <1>2, <1>3, <1>4, <1>5
-----------------------------------------------------------------------------
(* Lists *)

\* The first of a list and the others.
LEMMA Taken ==
  ASSUME NEW T, NEW s \in Seq(T), s # <<>>
  PROVE  /\ Head(s) = s[1] /\ 1 \in DOMAIN s /\ s[1] \in T
         /\ Tail(s) \in Seq(T)
         /\ \A k \in DOMAIN Tail(s) : k + 1 \in DOMAIN s /\ Tail(s)[k] = s[k + 1] /\ 1 < k + 1
         /\ \A k \in DOMAIN s : k = 1 \/ (k - 1 \in DOMAIN Tail(s) /\ Tail(s)[k - 1] = s[k])
         /\ DOMAIN s \subseteq Int /\ DOMAIN Tail(s) \subseteq Int
BY HeadTailProperties

\* A list with one more at its end.
LEMMA Added ==
  ASSUME NEW T, NEW s \in Seq(T), NEW x \in T
  PROVE  /\ Append(s, x) \in Seq(T)
         /\ DOMAIN Append(s, x) = DOMAIN s \cup {Len(s) + 1}
         /\ \A k \in DOMAIN s : Append(s, x)[k] = s[k] /\ k < Len(s) + 1
         /\ Append(s, x)[Len(s) + 1] = x
         /\ Len(s) + 1 \in Int /\ DOMAIN s \subseteq Int
BY AppendProperties

\* The numbers that an id may be are integers.
LEMMA Numbers ==
  /\ MaxEvents \in Nat /\ 0..MaxEvents \subseteq Int
  /\ \A s \in Seq(EnvelopeRow) : \A k \in DOMAIN s :
       s[k] \in EnvelopeRow /\ s[k].id \in Int /\ s[k].op \in Int /\ s[k].id \in 0..MaxEvents
  /\ \A s \in Seq(Handling) : \A k \in DOMAIN s : s[k].id \in Int /\ s[k].id \in 0..MaxEvents
  /\ \A e \in Event : e.id \in Int /\ e.id \in 0..MaxEvents
<1>1. MaxEvents \in Nat /\ 0..MaxEvents \subseteq Int
  BY QueriesAssump
<1>2. \A x \in EnvelopeRow : x.id \in 0..MaxEvents /\ x.op \in Int
  BY DEF EnvelopeRow
<1>3. \A x \in Handling : x.id \in 0..MaxEvents
  BY DEF Handling
<1>4. \A s \in Seq(EnvelopeRow) : \A k \in DOMAIN s : s[k] \in EnvelopeRow
  OBVIOUS
<1>5. \A s \in Seq(Handling) : \A k \in DOMAIN s : s[k] \in Handling
  OBVIOUS
<1>6. \A e \in Event : e.id \in 0..MaxEvents
  BY DEF Event
<1> QED
  BY <1>1, <1>2, <1>3, <1>4, <1>5, <1>6

\* The empty list.
LEMMA NoRows == DOMAIN <<>> = {} /\ <<>> \in Seq(EnvelopeRow) /\ <<>> \in Seq(Handling)
OBVIOUS

\* A list without its first row.
LEMMA Shorter ==
  ASSUME NEW s \in Seq(EnvelopeRow), s # <<>>
  PROVE  /\ Head(s) \in EnvelopeRow /\ Tail(s) \in Seq(EnvelopeRow)
         /\ Ids(s) = {Head(s).id} \cup Ids(Tail(s))
         /\ Ascending(s) => /\ Ascending(Tail(s))
                           /\ \A k \in DOMAIN Tail(s) : Head(s).id < Tail(s)[k].id
         /\ Rising(s) => /\ Rising(Tail(s))
                        /\ \A k \in DOMAIN Tail(s) : Head(s).id <= Tail(s)[k].id
         /\ Sorted(s) => /\ Sorted(Tail(s))
                        /\ \A k \in DOMAIN Tail(s) :
                             Before(Head(s).id, Head(s).op, Tail(s)[k].id, Tail(s)[k].op)
         /\ \A k \in DOMAIN Tail(s) : \E l \in DOMAIN s : Tail(s)[k] = s[l]
         /\ \E l \in DOMAIN s : Head(s) = s[l]
<1> DEFINE u == Tail(s)
<1>1. Head(s) = s[1] /\ 1 \in DOMAIN s /\ s[1] \in EnvelopeRow /\ u \in Seq(EnvelopeRow)
  BY Taken
<1>2. /\ \A k \in DOMAIN u : k + 1 \in DOMAIN s /\ u[k] = s[k + 1] /\ 1 < k + 1
      /\ \A k \in DOMAIN s : k = 1 \/ (k - 1 \in DOMAIN u /\ u[k - 1] = s[k])
  BY Taken
<1>3. DOMAIN s \subseteq Int /\ DOMAIN u \subseteq Int
  BY Taken
<1> HIDE DEF u
<1>4. Ids(s) = {s[1].id} \cup Ids(u)
  <2>1. ASSUME NEW i \in Ids(s) PROVE i \in {s[1].id} \cup Ids(u)
    <3>1. PICK k \in DOMAIN s : i = s[k].id
      BY <2>1 DEF Ids
    <3> QED
      BY <1>2, <3>1 DEF Ids
  <2>2. ASSUME NEW i \in Ids(u) PROVE i \in Ids(s)
    <3>1. PICK k \in DOMAIN u : i = u[k].id
      BY <2>2 DEF Ids
    <3> QED
      BY <1>2, <3>1 DEF Ids
  <2>3. s[1].id \in Ids(s)
    BY <1>1 DEF Ids
  <2> QED
    BY <2>1, <2>2, <2>3
<1>5. \A m, n \in DOMAIN u :
        m < n => m + 1 \in DOMAIN s /\ n + 1 \in DOMAIN s /\ m + 1 < n + 1
                 /\ u[m] = s[m + 1] /\ u[n] = s[n + 1]
  <2> SUFFICES ASSUME NEW m \in DOMAIN u, NEW n \in DOMAIN u, m < n
               PROVE  m + 1 < n + 1
    BY <1>2
  <2>1. m \in Int /\ n \in Int
    BY <1>3
  <2> QED
    BY <2>1
<1>7. Ascending(s) => Ascending(u) /\ \A k \in DOMAIN u : s[1].id < u[k].id
  BY <1>1, <1>2, <1>5 DEF Ascending
<1>8. Rising(s) => Rising(u) /\ \A k \in DOMAIN u : s[1].id <= u[k].id
  BY <1>1, <1>2, <1>5 DEF Rising
<1>9. Sorted(s) => /\ Sorted(u)
                   /\ \A k \in DOMAIN u : Before(s[1].id, s[1].op, u[k].id, u[k].op)
  BY <1>1, <1>2, <1>5 DEF Sorted
<1>6. \A k \in DOMAIN u : \E l \in DOMAIN s : u[k] = s[l]
  BY <1>2
<1> QED
  BY <1>1, <1>4, <1>6, <1>7, <1>8, <1>9 DEF u

\* The ids of a list with one more at its end.
LEMMA MoreIds ==
  ASSUME NEW T, NEW s \in Seq(T), NEW x \in T
  PROVE  Ids(Append(s, x)) = Ids(s) \cup {x.id}
<1> DEFINE u == Append(s, x)
<1>1. /\ DOMAIN u = DOMAIN s \cup {Len(s) + 1}
      /\ \A k \in DOMAIN s : u[k] = s[k]
      /\ u[Len(s) + 1] = x
  BY Added
<1> HIDE DEF u
<1>2. Ids(u) = Ids(s) \cup {x.id}
  BY <1>1 DEF Ids
<1> QED
  BY <1>2 DEF u

\* The ids of a list grow when one above them is added.
LEMMA AscendingMore ==
  ASSUME NEW T, NEW s \in Seq(T), NEW x \in T, Ascending(s),
         \A k \in DOMAIN s : s[k].id < x.id
  PROVE  Ascending(Append(s, x))
<1> DEFINE u == Append(s, x)
<1>1. /\ DOMAIN u = DOMAIN s \cup {Len(s) + 1}
      /\ \A k \in DOMAIN s : u[k] = s[k] /\ k < Len(s) + 1
      /\ u[Len(s) + 1] = x
      /\ Len(s) + 1 \in Int /\ DOMAIN s \subseteq Int
  BY Added
<1> HIDE DEF u
<1>2. ASSUME NEW m \in DOMAIN u, NEW n \in DOMAIN u, m < n PROVE u[m].id < u[n].id
  <2>1. CASE m \in DOMAIN s /\ n \in DOMAIN s
    BY <1>1, <1>2, <2>1 DEF Ascending
  <2>2. CASE n = Len(s) + 1 /\ m \in DOMAIN s
    BY <1>1, <2>2
  <2>3. CASE m = Len(s) + 1
    BY <1>1, <1>2, <2>3
  <2> QED
    BY <1>1, <2>1, <2>2, <2>3
<1>3. Ascending(u)
  BY <1>2 DEF Ascending
<1> QED
  BY <1>3 DEF u

\* Two lists, one after the other.
LEMMA Joined ==
  ASSUME NEW s \in Seq(EnvelopeRow), NEW xs \in Seq(EnvelopeRow)
  PROVE  /\ s \o xs \in Seq(EnvelopeRow)
         /\ \A k \in DOMAIN s : k \in DOMAIN (s \o xs) /\ (s \o xs)[k] = s[k]
         /\ \A k \in DOMAIN xs : Len(s) + k \in DOMAIN (s \o xs) /\ (s \o xs)[Len(s) + k] = xs[k]
         /\ \A k \in DOMAIN (s \o xs) :
              k \in DOMAIN s \/ (k - Len(s) \in DOMAIN xs /\ (s \o xs)[k] = xs[k - Len(s)])
         /\ DOMAIN (s \o xs) \subseteq Int /\ Len(s) \in Nat /\ DOMAIN s = 1..Len(s)
<1>1. /\ s \o xs \in Seq(EnvelopeRow)
      /\ Len(s \o xs) = Len(s) + Len(xs)
      /\ \A k \in 1..Len(s) + Len(xs) : (s \o xs)[k] = IF k <= Len(s) THEN s[k] ELSE xs[k - Len(s)]
  BY ConcatProperties
<1>2. /\ Len(s) \in Nat /\ Len(xs) \in Nat
      /\ DOMAIN s = 1..Len(s) /\ DOMAIN xs = 1..Len(xs)
      /\ DOMAIN (s \o xs) = 1..Len(s) + Len(xs)
  BY <1>1, LenProperties
<1> QED
  BY <1>1, <1>2

\* Rows that come after all others may follow them.
LEMMA SortedJoin ==
  ASSUME NEW s \in Seq(EnvelopeRow), NEW xs \in Seq(EnvelopeRow), Sorted(s), Sorted(xs),
         \A k \in DOMAIN s, l \in DOMAIN xs : s[k].id < xs[l].id
  PROVE  Sorted(s \o xs)
<1> DEFINE u == s \o xs
<1>1. /\ \A k \in DOMAIN s : u[k] = s[k]
      /\ \A k \in DOMAIN u :
           k \in DOMAIN s \/ (k - Len(s) \in DOMAIN xs /\ u[k] = xs[k - Len(s)])
      /\ DOMAIN u \subseteq Int /\ Len(s) \in Nat /\ DOMAIN s = 1..Len(s)
  BY Joined
<1>2. DOMAIN u \subseteq 1..Len(s) + Len(xs) /\ Len(xs) \in Nat /\ DOMAIN xs = 1..Len(xs)
  BY ConcatProperties, LenProperties
<1> HIDE DEF u
<1>3. ASSUME NEW k \in DOMAIN u, NEW l \in DOMAIN u, k < l
      PROVE  Before(u[k].id, u[k].op, u[l].id, u[l].op)
  <2>0. k \in Int /\ l \in Int
    BY <1>1
  <2>1. CASE k \in DOMAIN s /\ l \in DOMAIN s
    BY <1>1, <1>3, <2>1 DEF Sorted
  <2>2. CASE k \in DOMAIN s /\ l \notin DOMAIN s
    BY <1>1, <2>2 DEF Before
  <2>3. CASE k \notin DOMAIN s
    <3>1. l \notin DOMAIN s
      BY <1>1, <1>2, <1>3, <2>0, <2>3
    <3>2. k - Len(s) < l - Len(s) /\ k - Len(s) \in DOMAIN xs /\ l - Len(s) \in DOMAIN xs
      BY <1>1, <1>3, <2>0, <2>3, <3>1
    <3> QED
      BY <1>1, <2>3, <3>1, <3>2 DEF Sorted
  <2> QED
    BY <2>1, <2>2, <2>3
<1> QED
  BY <1>3 DEF Sorted, u
-----------------------------------------------------------------------------
(* The answer of Perform, Stream and EnvelopesFor. Whatever passes the     *)
(* filter goes from the front of r to the end of o, and is then handled.   *)

\* A row of an event that passes is kept.
LEMMA V1Take ==
  ASSUME NEW c, NEW t, NEW S \in SUBSET Event, NEW h \in Seq(Handling), h = <<>>,
         NEW o \in Seq(EnvelopeRow), NEW r \in Seq(EnvelopeRow), r # <<>>, NEW all,
         NEW e \in S, Stems(Head(r), e), Pass(c, t, e), V1Good(c, t, S, h, o, r, all)
  PROVE  V1Good(c, t, S, h, Append(o, Head(r)), Tail(r), all)
<1> DEFINE p == Append(o, Head(r))
           u == Tail(r)
           x == Head(r)
<1>1. /\ x \in EnvelopeRow /\ u \in Seq(EnvelopeRow)
      /\ Ids(r) = {x.id} \cup Ids(u)
      /\ Ascending(r) => Ascending(u) /\ \A k \in DOMAIN u : x.id < u[k].id
      /\ \A k \in DOMAIN u : \E l \in DOMAIN r : u[k] = r[l]
      /\ \E l \in DOMAIN r : x = r[l]
  BY Shorter
<1> HIDE DEF u, x
<1>2. /\ DOMAIN p = DOMAIN o \cup {Len(o) + 1}
      /\ \A k \in DOMAIN o : p[k] = o[k]
      /\ p[Len(o) + 1] = x
  BY <1>1, Added DEF x
<1>3. Ids(p) = Ids(o) \cup {x.id}
  BY <1>1, MoreIds DEF x
<1>4. V1Order(h, o, r) /\ V1Rows(c, t, S, h, o, r)
  BY DEF V1Good
<1>5. Ascending(p)
  BY <1>1, <1>4, AscendingMore DEF V1Order, Under, x
<1> HIDE DEF p
<1>6. DOMAIN h = {}
  OBVIOUS
<1>7. V1Order(h, p, u)
  BY <1>1, <1>2, <1>4, <1>5, <1>6 DEF V1Order, Under
<1>8. V1Rows(c, t, S, h, p, u)
  BY <1>1, <1>2, <1>4, <1>6 DEF V1Rows, FromStore, x
<1>9. all => V1Whole(c, t, S, h, p, u)
  BY <1>1, <1>3 DEF V1Good, V1Whole
<1> QED
  BY <1>7, <1>8, <1>9 DEF V1Good, p, u, x

\* A row is dropped whose event need not be returned or handled.
LEMMA V1Drop ==
  ASSUME NEW c, NEW t, NEW S \in SUBSET Event, NEW h \in Seq(Handling),
         NEW o \in Seq(EnvelopeRow), NEW r \in Seq(EnvelopeRow), r # <<>>, NEW all,
         \A e \in S : e.id = Head(r).id => ~Due(c, t, e), V1Good(c, t, S, h, o, r, all)
  PROVE  V1Good(c, t, S, h, o, Tail(r), all)
<1>1. /\ Ids(r) = {Head(r).id} \cup Ids(Tail(r))
      /\ Ascending(r) => Ascending(Tail(r))
      /\ \A k \in DOMAIN Tail(r) : \E l \in DOMAIN r : Tail(r)[k] = r[l]
  BY Shorter
<1>2. V1Order(h, o, r) /\ V1Rows(c, t, S, h, o, r)
  BY DEF V1Good
<1>3. V1Order(h, o, Tail(r))
  BY <1>1, <1>2 DEF V1Order, Under
<1>4. V1Rows(c, t, S, h, o, Tail(r))
  BY <1>1, <1>2 DEF V1Rows, FromStore
<1>5. all => V1Whole(c, t, S, h, o, Tail(r))
  BY <1>1 DEF V1Good, V1Whole
<1> QED
  BY <1>3, <1>4, <1>5 DEF V1Good

\* An event of the answer is handled.
LEMMA V1Handle ==
  ASSUME NEW c, NEW t, NEW S \in SUBSET Event, NEW h \in Seq(Handling),
         NEW o \in Seq(EnvelopeRow), o # <<>>, NEW r \in Seq(EnvelopeRow), r = <<>>, NEW all,
         NEW x \in Handling, x.id = Head(o).id,
         NEW e \in S, x.id = e.id, Due(c, t, e), V1Good(c, t, S, h, o, r, all)
  PROVE  V1Good(c, t, S, Append(h, x), Tail(o), r, all)
<1> DEFINE g == Append(h, x)
           u == Tail(o)
<1>1. /\ u \in Seq(EnvelopeRow)
      /\ Ids(o) = {x.id} \cup Ids(u)
      /\ Ascending(o) => Ascending(u) /\ \A k \in DOMAIN u : x.id < u[k].id
      /\ \A k \in DOMAIN u : \E l \in DOMAIN o : u[k] = o[l]
      /\ \E l \in DOMAIN o : x.id = o[l].id
  BY Shorter
<1> HIDE DEF u
<1>2. /\ DOMAIN g = DOMAIN h \cup {Len(h) + 1}
      /\ \A k \in DOMAIN h : g[k] = h[k]
      /\ g[Len(h) + 1] = x
  BY Added
<1>3. Ids(g) = Ids(h) \cup {x.id}
  BY MoreIds
<1>4. V1Order(h, o, r) /\ V1Rows(c, t, S, h, o, r)
  BY DEF V1Good
<1>5. Ascending(g)
  BY <1>1, <1>4, AscendingMore DEF V1Order, Under
<1> HIDE DEF g
<1>6. DOMAIN r = {}
  OBVIOUS
<1>7. V1Order(g, u, r)
  BY <1>1, <1>2, <1>4, <1>5, <1>6 DEF V1Order, Under
<1>8. V1Rows(c, t, S, g, u, r)
  BY <1>1, <1>2, <1>4, <1>6 DEF V1Rows, FromStore
<1>9. all => V1Whole(c, t, S, g, u, r)
  BY <1>1, <1>3 DEF V1Good, V1Whole
<1> QED
  BY <1>7, <1>8, <1>9 DEF V1Good, g, u

\* An event of the answer is passed over that no handler is there for.
LEMMA V1Skip ==
  ASSUME NEW c, NEW t, NEW S \in SUBSET Event, NEW h \in Seq(Handling),
         NEW o \in Seq(EnvelopeRow), o # <<>>, NEW r \in Seq(EnvelopeRow), r = <<>>, NEW all,
         \A e \in S : e.id = Head(o).id => ~Due(c, t, e), V1Good(c, t, S, h, o, r, all)
  PROVE  V1Good(c, t, S, h, Tail(o), r, all)
<1>1. /\ Ids(o) = {Head(o).id} \cup Ids(Tail(o))
      /\ Ascending(o) => Ascending(Tail(o))
      /\ \A k \in DOMAIN Tail(o) : \E l \in DOMAIN o : Tail(o)[k] = o[l]
  BY Shorter
<1>2. V1Order(h, o, r) /\ V1Rows(c, t, S, h, o, r)
  BY DEF V1Good
<1>3. V1Order(h, Tail(o), r)
  BY <1>1, <1>2 DEF V1Order, Under
<1>4. V1Rows(c, t, S, h, Tail(o), r)
  BY <1>1, <1>2 DEF V1Rows
<1>5. all => V1Whole(c, t, S, h, Tail(o), r)
  BY <1>1 DEF V1Good, V1Whole
<1> QED
  BY <1>3, <1>4, <1>5 DEF V1Good

\* What is good remains so when less is asked.
LEMMA V1Less ==
  ASSUME NEW c, NEW t, NEW S, NEW h, NEW o, NEW r, NEW all, NEW less, less => all,
         V1Good(c, t, S, h, o, r, all)
  PROVE  V1Good(c, t, S, h, o, r, less)
BY DEF V1Good
-----------------------------------------------------------------------------
(* The answer of StreamBatch. *)

\* The rows of an envelope follow those of the envelopes before it.
LEMMA BatchTake ==
  ASSUME NEW q, NEW t, NEW S \in SUBSET Event, NEW h \in Seq(Handling), h = <<>>,
         NEW o \in Seq(EnvelopeRow), NEW r \in Seq(EnvelopeRow), r # <<>>, NEW all,
         NEW xs \in Seq(EnvelopeRow), Sorted(xs),
         \A k \in DOMAIN xs : xs[k].id = Head(r).id /\ \E e \in S : Carries(xs[k], q, t, e),
         \A e \in S, p \in Registered(q) :
           e.id = Head(r).id /\ Fits(q, t, p, e) => \E k \in DOMAIN xs : xs[k].op = Register(q, p),
         BatchGood(q, t, S, h, o, r, all)
  PROVE  BatchGood(q, t, S, h, o \o xs, Tail(r), all)
<1> DEFINE g == o \o xs
           u == Tail(r)
           x == Head(r)
<1>1. /\ u \in Seq(EnvelopeRow)
      /\ Ids(r) = {x.id} \cup Ids(u)
      /\ Ascending(r) => Ascending(u) /\ \A k \in DOMAIN u : x.id < u[k].id
      /\ \A k \in DOMAIN u : \E l \in DOMAIN r : u[k] = r[l]
      /\ \E l \in DOMAIN r : x = r[l]
  BY Shorter
<1> HIDE DEF u, x
<1>2. /\ \A k \in DOMAIN o : k \in DOMAIN g /\ g[k] = o[k]
      /\ \A k \in DOMAIN xs : Len(o) + k \in DOMAIN g /\ g[Len(o) + k] = xs[k]
      /\ \A k \in DOMAIN g :
           k \in DOMAIN o \/ (k - Len(o) \in DOMAIN xs /\ g[k] = xs[k - Len(o)])
  BY Joined
<1>3. BatchOrder(q, h, o, r) /\ BatchRows(q, t, S, h, o, r)
  BY DEF BatchGood
<1>4. \A k \in DOMAIN o : o[k].id < x.id
  BY <1>1, <1>3 DEF BatchOrder, Under
<1>5. Sorted(g)
  <2>1. Sorted(o)
    BY <1>3 DEF BatchOrder
  <2> QED
    BY <1>4, <2>1, SortedJoin DEF x
<1> HIDE DEF g
<1>6. DOMAIN h = {}
  OBVIOUS
<1>7. \A k \in DOMAIN g : g[k].id = x.id \/ \E l \in DOMAIN o : g[k] = o[l]
  BY <1>2 DEF x
<1>8. Under(g, u) /\ Ascending(u)
  BY <1>1, <1>3, <1>7 DEF BatchOrder, Under
<1>9. BatchOrder(q, h, g, u)
  BY <1>3, <1>5, <1>6, <1>8 DEF BatchOrder
<1>10. BatchRows(q, t, S, h, g, u)
  <2>1. FromStore(S, u)
    BY <1>1, <1>3 DEF BatchRows, FromStore
  <2>2. \A k \in DOMAIN g : \E e \in S : Carries(g[k], q, t, e)
    BY <1>2, <1>3 DEF BatchRows
  <2> QED
    BY <1>3, <2>1, <2>2 DEF BatchRows
<1>11. ASSUME all PROVE BatchWhole(q, t, S, h, g, u)
  <2>1. BatchWhole(q, t, S, h, o, r)
    BY <1>11 DEF BatchGood
  <2> SUFFICES ASSUME NEW e \in S, NEW p \in Registered(q), Fits(q, t, p, e)
               PROVE  \/ \E k \in DOMAIN g : g[k].id = e.id /\ g[k].op = Register(q, p)
                      \/ e.id \in Ids(u)
    BY <1>6 DEF BatchWhole
  <2>2. CASE \E k \in DOMAIN o : o[k].id = e.id /\ o[k].op = Register(q, p)
    BY <1>2, <2>2
  <2>3. CASE e.id = x.id
    <3>1. PICK k \in DOMAIN xs : xs[k].op = Register(q, p)
      BY <2>3 DEF x
    <3>2. Len(o) + k \in DOMAIN g /\ g[Len(o) + k] = xs[k]
      BY <1>2
    <3>3. xs[k].id = e.id
      BY <2>3 DEF x
    <3> QED
      BY <3>1, <3>2, <3>3
  <2> QED
    BY <1>1, <1>6, <2>1, <2>2, <2>3 DEF BatchWhole
<1> QED
  BY <1>9, <1>10, <1>11 DEF BatchGood, g, u

\* The handler of a row is called with it.
LEMMA BatchHandle ==
  ASSUME NEW q, NEW t, NEW S \in SUBSET Event, NEW h \in Seq(Handling),
         NEW o \in Seq(EnvelopeRow), o # <<>>, NEW r \in Seq(EnvelopeRow), r = <<>>, NEW all,
         NEW x \in Handling, x.id = Head(o).id, x.name \in Registered(q),
         Register(q, x.name) = Head(o).op,
         NEW e \in S, x.id = e.id, Fits(q, t, x.name, e),
         \A p \in Registered(q) : Register(q, p) = Head(o).op => p = x.name,
         BatchGood(q, t, S, h, o, r, all)
  PROVE  BatchGood(q, t, S, Append(h, x), Tail(o), r, all)
<1> DEFINE g == Append(h, x)
           u == Tail(o)
           y == Head(o)
<1>1. /\ u \in Seq(EnvelopeRow)
      /\ Sorted(o) => Sorted(u) /\ \A k \in DOMAIN u : Before(y.id, y.op, u[k].id, u[k].op)
      /\ \A k \in DOMAIN u : \E l \in DOMAIN o : u[k] = o[l]
      /\ \E l \in DOMAIN o : y = o[l]
  BY Shorter
<1>2. \A k \in DOMAIN o : o[k] = y \/ \E l \in DOMAIN u : u[l] = o[k]
  <2>1. /\ y = o[1]
        /\ \A k \in DOMAIN o : k = 1 \/ (k - 1 \in DOMAIN u /\ u[k - 1] = o[k])
    BY Taken
  <2> HIDE DEF u, y
  <2> QED
    BY <2>1
<1> HIDE DEF u, y
<1>3. /\ DOMAIN g = DOMAIN h \cup {Len(h) + 1}
      /\ \A k \in DOMAIN h : g[k] = h[k] /\ k < Len(h) + 1
      /\ g[Len(h) + 1] = x
      /\ Len(h) + 1 \in Int /\ DOMAIN h \subseteq Int
  BY Added
<1> HIDE DEF g
<1>4. BatchOrder(q, h, o, r) /\ BatchRows(q, t, S, h, o, r)
  BY DEF BatchGood
<1>5. DOMAIN r = {}
  OBVIOUS
<1>6. BatchOrder(q, g, u, r)
  <2>1. ASSUME NEW k \in DOMAIN g, NEW l \in DOMAIN g, k < l
        PROVE  Before(g[k].id, Register(q, g[k].name), g[l].id, Register(q, g[l].name))
    <3>1. CASE k \in DOMAIN h /\ l \in DOMAIN h
      BY <1>3, <1>4, <2>1, <3>1 DEF BatchOrder
    <3>2. CASE k \in DOMAIN h /\ l = Len(h) + 1
      BY <1>1, <1>3, <1>4, <3>2 DEF BatchOrder, y
    <3>3. CASE k = Len(h) + 1
      BY <1>3, <2>1, <3>3
    <3> QED
      BY <1>3, <3>1, <3>2, <3>3
  <2>2. ASSUME NEW k \in DOMAIN g, NEW l \in DOMAIN u
        PROVE  Before(g[k].id, Register(q, g[k].name), u[l].id, u[l].op)
    <3>1. CASE k \in DOMAIN h
      BY <1>1, <1>3, <1>4, <3>1 DEF BatchOrder
    <3>2. CASE k = Len(h) + 1
      BY <1>1, <1>3, <1>4, <3>2 DEF BatchOrder, y
    <3> QED
      BY <1>3, <3>1, <3>2
  <2>3. Sorted(u) /\ Ascending(r) /\ Under(u, r)
    BY <1>1, <1>4, <1>5 DEF BatchOrder, Under
  <2> QED
    BY <2>1, <2>2, <2>3 DEF BatchOrder
<1>7. BatchRows(q, t, S, g, u, r)
  <2>1. \A k \in DOMAIN u : \E d \in S : Carries(u[k], q, t, d)
    BY <1>1, <1>4 DEF BatchRows
  <2>2. Fitting(q, t, S, g)
    BY <1>3, <1>4 DEF BatchRows, Fitting
  <2> QED
    BY <1>4, <2>1, <2>2 DEF BatchRows
<1>8. ASSUME all PROVE BatchWhole(q, t, S, g, u, r)
  <2>1. BatchWhole(q, t, S, h, o, r)
    BY <1>8 DEF BatchGood
  <2> SUFFICES ASSUME NEW d \in S, NEW p \in Registered(q), Fits(q, t, p, d)
               PROVE  \/ \E k \in DOMAIN g : g[k].name = p /\ g[k].id = d.id
                      \/ \E k \in DOMAIN u : u[k].id = d.id /\ u[k].op = Register(q, p)
    BY DEF BatchWhole
  <2>2. CASE \E k \in DOMAIN h : h[k].name = p /\ h[k].id = d.id
    BY <1>3, <2>2
  <2>3. CASE \E k \in DOMAIN o : o[k].id = d.id /\ o[k].op = Register(q, p)
    <3>1. PICK k \in DOMAIN o : o[k].id = d.id /\ o[k].op = Register(q, p)
      BY <2>3
    <3>2. CASE o[k] = y
      <4>1. p = x.name /\ x.id = d.id
        BY <3>1, <3>2 DEF y
      <4> QED
        BY <1>3, <4>1
    <3> QED
      BY <1>2, <3>1, <3>2
  <2>4. d.id \notin Ids(r)
    BY <1>5 DEF Ids
  <2> QED
    BY <2>1, <2>2, <2>3, <2>4 DEF BatchWhole
<1> QED
  BY <1>6, <1>7, <1>8 DEF BatchGood, g, u

\* What is good remains so when less is asked.
LEMMA BatchLess ==
  ASSUME NEW q, NEW t, NEW S, NEW h, NEW o, NEW r, NEW all, NEW less, less => all,
         BatchGood(q, t, S, h, o, r, all)
  PROVE  BatchGood(q, t, S, h, o, r, less)
BY DEF BatchGood
-----------------------------------------------------------------------------
(* The answer of the first pass of Watch. *)

\* A row is enqueued, or its event already is.
LEMMA WatchTake ==
  ASSUME NEW q, NEW t, NEW S \in SUBSET Event, NEW h \in Seq(Handling), h = <<>>,
         NEW o \in Seq(EnvelopeRow), NEW r \in Seq(EnvelopeRow), r # <<>>, NEW all,
         NEW x \in EnvelopeRow, x.id = Head(r).id, \E e \in S : Carries(x, q, t, e),
         WatchGood(q, t, S, h, o, r, all)
  PROVE  WatchGood(q, t, S, h, Push(o, x), Tail(r), all) /\ Push(o, x) \in Seq(EnvelopeRow)
<1> DEFINE u == Tail(r)
           g == Append(o, x)
<1>1. /\ u \in Seq(EnvelopeRow)
      /\ Ids(r) = {x.id} \cup Ids(u)
      /\ Rising(r) => Rising(u) /\ \A k \in DOMAIN u : x.id <= u[k].id
      /\ \A k \in DOMAIN u : \E l \in DOMAIN r : u[k] = r[l]
      /\ \E l \in DOMAIN r : x.id = r[l].id
  BY Shorter
<1> HIDE DEF u
<1>2. /\ g \in Seq(EnvelopeRow)
      /\ DOMAIN g = DOMAIN o \cup {Len(o) + 1}
      /\ \A k \in DOMAIN o : g[k] = o[k]
      /\ g[Len(o) + 1] = x
  BY Added
<1>3. Ids(g) = Ids(o) \cup {x.id}
  BY MoreIds
<1>4. WatchOrder(h, o, r) /\ WatchRows(q, t, S, h, o, r)
  BY DEF WatchGood
<1>5. DOMAIN h = {}
  OBVIOUS
<1>6. \A k \in DOMAIN o : o[k].id <= x.id
  BY <1>1, <1>4 DEF WatchOrder
<1>7. /\ FromStore(S, u)
      /\ t # "memory" => \A k \in DOMAIN u : \E e \in S : Carries(u[k], q, t, e)
  BY <1>1, <1>4 DEF WatchRows, FromStore
<1>8. CASE o # <<>> /\ x.id <= o[Len(o)].id
  <2>1. Push(o, x) = o
    BY <1>8 DEF Push, Last
  <2>2. Len(o) \in DOMAIN o
    BY <1>8
  <2>3. x.id \in Ids(o)
    <3>1. x.id \in Int /\ o[Len(o)].id \in Int
      BY <2>2, Numbers DEF EnvelopeRow
    <3>2. x.id = o[Len(o)].id
      BY <1>6, <1>8, <2>2, <3>1
    <3> QED
      BY <2>2, <3>2 DEF Ids
  <2>4. WatchOrder(h, o, u)
    BY <1>1, <1>4 DEF WatchOrder
  <2>5. WatchRows(q, t, S, h, o, u)
    BY <1>4, <1>7 DEF WatchRows
  <2>6. all => WatchWhole(q, t, S, h, o, u)
    BY <1>1, <2>3 DEF WatchGood, WatchWhole
  <2> QED
    BY <2>1, <2>4, <2>5, <2>6 DEF WatchGood, u
<1>9. CASE ~(o # <<>> /\ x.id <= o[Len(o)].id)
  <2>1. Push(o, x) = g
    BY <1>9 DEF Push, Last
  <2>2. \A k \in DOMAIN o : o[k].id < x.id
    <3> SUFFICES ASSUME NEW k \in DOMAIN o PROVE o[k].id < x.id
      OBVIOUS
    <3>1. o # <<>> /\ Len(o) \in DOMAIN o /\ k <= Len(o)
      OBVIOUS
    <3>2. x.id \in Int /\ o[Len(o)].id \in Int /\ o[k].id \in Int
      BY <3>1, Numbers DEF EnvelopeRow
    <3>3. k = Len(o) \/ o[k].id < o[Len(o)].id
      BY <1>4, <3>1 DEF WatchOrder, Ascending
    <3> QED
      BY <1>9, <3>1, <3>2, <3>3
  <2>3. Ascending(g)
    BY <1>4, <2>2, AscendingMore DEF WatchOrder
  <2> HIDE DEF g
  <2>4. WatchOrder(h, g, u)
    BY <1>1, <1>2, <1>4, <1>5, <2>3 DEF WatchOrder, Under
  <2>5. WatchRows(q, t, S, h, g, u)
    BY <1>2, <1>4, <1>7 DEF WatchRows
  <2>6. all => WatchWhole(q, t, S, h, g, u)
    BY <1>1, <1>3 DEF WatchGood, WatchWhole
  <2> QED
    BY <1>2, <2>1, <2>4, <2>5, <2>6 DEF WatchGood, u
<1> QED
  BY <1>8, <1>9

\* An envelope is dropped that no handler asks for.
LEMMA WatchDrop ==
  ASSUME NEW q, NEW t, NEW S \in SUBSET Event, NEW h \in Seq(Handling),
         NEW o \in Seq(EnvelopeRow), NEW r \in Seq(EnvelopeRow), r # <<>>, NEW all,
         \A e \in S, p \in Registered(q) : e.id = Head(r).id => ~Fits(q, t, p, e),
         WatchGood(q, t, S, h, o, r, all)
  PROVE  WatchGood(q, t, S, h, o, Tail(r), all)
<1>1. /\ Ids(r) = {Head(r).id} \cup Ids(Tail(r))
      /\ Rising(r) => Rising(Tail(r))
      /\ \A k \in DOMAIN Tail(r) : \E l \in DOMAIN r : Tail(r)[k] = r[l]
  BY Shorter
<1>2. WatchOrder(h, o, r) /\ WatchRows(q, t, S, h, o, r)
  BY DEF WatchGood
<1>3. WatchOrder(h, o, Tail(r))
  BY <1>1, <1>2 DEF WatchOrder
<1>4. WatchRows(q, t, S, h, o, Tail(r))
  BY <1>1, <1>2 DEF WatchRows, FromStore
<1>5. all => WatchWhole(q, t, S, h, o, Tail(r))
  BY <1>1 DEF WatchGood, WatchWhole
<1> QED
  BY <1>3, <1>4, <1>5 DEF WatchGood

\* The handler of a row is called with it.
LEMMA WatchHandle ==
  ASSUME NEW q, NEW t, NEW S \in SUBSET Event, NEW h \in Seq(Handling),
         NEW o \in Seq(EnvelopeRow), o # <<>>, NEW r \in Seq(EnvelopeRow), r = <<>>, NEW all,
         NEW x \in Handling, x.id = Head(o).id, x.name \in Registered(q),
         NEW e \in S, x.id = e.id, Fits(q, t, x.name, e),
         WatchGood(q, t, S, h, o, r, all)
  PROVE  WatchGood(q, t, S, Append(h, x), Tail(o), r, all)
<1> DEFINE g == Append(h, x)
           u == Tail(o)
<1>1. /\ u \in Seq(EnvelopeRow)
      /\ Ids(o) = {x.id} \cup Ids(u)
      /\ Ascending(o) => Ascending(u) /\ \A k \in DOMAIN u : x.id < u[k].id
      /\ \A k \in DOMAIN u : \E l \in DOMAIN o : u[k] = o[l]
      /\ \E l \in DOMAIN o : x.id = o[l].id
  BY Shorter
<1> HIDE DEF u
<1>2. /\ DOMAIN g = DOMAIN h \cup {Len(h) + 1}
      /\ \A k \in DOMAIN h : g[k] = h[k]
      /\ g[Len(h) + 1] = x
  BY Added
<1>3. Ids(g) = Ids(h) \cup {x.id}
  BY MoreIds
<1>4. WatchOrder(h, o, r) /\ WatchRows(q, t, S, h, o, r)
  BY DEF WatchGood
<1>5. Ascending(g)
  BY <1>1, <1>4, AscendingMore DEF WatchOrder, Under
<1> HIDE DEF g
<1>6. DOMAIN r = {}
  OBVIOUS
<1>7. WatchOrder(g, u, r)
  BY <1>1, <1>2, <1>4, <1>5, <1>6 DEF WatchOrder, Under, Rising
<1>8. WatchRows(q, t, S, g, u, r)
  <2>1. \A k \in DOMAIN u : \E d \in S : Carries(u[k], q, t, d)
    BY <1>1, <1>4 DEF WatchRows
  <2>2. Fitting(q, t, S, g)
    BY <1>2, <1>4 DEF WatchRows, Fitting
  <2> QED
    BY <1>4, <2>1, <2>2 DEF WatchRows
<1>9. all => WatchWhole(q, t, S, g, u, r)
  BY <1>1, <1>3 DEF WatchGood, WatchWhole
<1> QED
  BY <1>7, <1>8, <1>9 DEF WatchGood, g, u

\* What is good remains so when less is asked.
LEMMA WatchLess ==
  ASSUME NEW q, NEW t, NEW S, NEW h, NEW o, NEW r, NEW all, NEW less, less => all,
         WatchGood(q, t, S, h, o, r, all)
  PROVE  WatchGood(q, t, S, h, o, r, less)
BY DEF WatchGood
-----------------------------------------------------------------------------
(* Places of handlers and the clauses that are sent for them *)

\* A function with a finite domain has finitely many values.
LEMMA FiniteImage ==
  ASSUME NEW f, IsFiniteSet(DOMAIN f)
  PROVE  IsFiniteSet({f[x] : x \in DOMAIN f})
<1> DEFINE T == {f[x] : x \in DOMAIN f}
           g == [x \in DOMAIN f |-> f[x]]
<1>1. g \in Surjection(DOMAIN f, T)
  BY DEF Surjection
<1> HIDE DEF g, T
<1>2. IsFiniteSet(T)
  BY <1>1, FS_Surjection
<1> QED
  BY <1>2 DEF T

\* A set of consecutive numbers is finite.
LEMMA FiniteInterval == \A a, b \in Int : IsFiniteSet(a..b)
BY FS_Interval

\* The place of a handler of a kind, and of an id.
LEMMA PlacesAre ==
  ASSUME NEW q \in Query2
  PROVE  /\ \A p \in KindPlaces(q) :
              /\ p[1] \in DOMAIN q.kinds /\ p[2] \in 0..Len(q.kinds[p[1]].subsets)
              /\ p = <<p[1], p[2]>> /\ p[1] \in Int /\ p[2] \in Int
              /\ p[1] <= Len(q.kinds)
         /\ \A p \in IdPlaces(q) :
              /\ p[1] - Len(q.kinds) \in DOMAIN q.ids /\ p[2] = 0
              /\ p = <<p[1], p[2]>> /\ p[1] \in Int /\ p[2] \in Int
              /\ p[1] > Len(q.kinds)
         /\ Len(q.kinds) \in Nat /\ Len(q.ids) \in Nat
         /\ DOMAIN q.kinds = 1..Len(q.kinds) /\ DOMAIN q.ids = 1..Len(q.ids)
         /\ \A i \in DOMAIN q.kinds : q.kinds[i] \in KindClause /\ Len(q.kinds[i].subsets) \in Nat
         /\ q.after \in Int
<1>1. q.kinds \in Seq(KindClause) /\ q.ids \in Seq(IDClause) /\ q.after \in Int
  BY DEF Query2
<1>2. /\ Len(q.kinds) \in Nat /\ Len(q.ids) \in Nat
      /\ DOMAIN q.kinds = 1..Len(q.kinds) /\ DOMAIN q.ids = 1..Len(q.ids)
  BY <1>1
<1>3. \A i \in DOMAIN q.kinds : q.kinds[i] \in KindClause /\ Len(q.kinds[i].subsets) \in Nat
  <2> SUFFICES ASSUME NEW i \in DOMAIN q.kinds
               PROVE  q.kinds[i] \in KindClause /\ Len(q.kinds[i].subsets) \in Nat
    OBVIOUS
  <2>1. q.kinds[i] \in KindClause
    BY <1>1
  <2>2. q.kinds[i].subsets \in Seq([doc : Doc, on : BOOLEAN])
    BY <2>1 DEF KindClause
  <2> QED
    BY <2>1, <2>2
<1>4. ASSUME NEW p \in KindPlaces(q)
      PROVE  /\ p[1] \in DOMAIN q.kinds /\ p[2] \in 0..Len(q.kinds[p[1]].subsets)
             /\ p = <<p[1], p[2]>>
  <2>1. PICK i \in DOMAIN q.kinds : p \in {<<i, j>> : j \in 0..Len(q.kinds[i].subsets)}
    BY DEF KindPlaces
  <2>2. PICK j \in 0..Len(q.kinds[i].subsets) : p = <<i, j>>
    BY <2>1
  <2> QED
    BY <2>2
<1>5. ASSUME NEW p \in IdPlaces(q)
      PROVE  /\ p[1] - Len(q.kinds) \in DOMAIN q.ids /\ p[2] = 0
             /\ p = <<p[1], p[2]>> /\ p[1] \in Int /\ p[1] > Len(q.kinds)
  <2>1. PICK i \in DOMAIN q.ids : p = <<Len(q.kinds) + i, 0>>
    BY DEF IdPlaces
  <2>2. i \in Int /\ i > 0 /\ Len(q.kinds) + i - Len(q.kinds) = i
    BY <1>2
  <2> QED
    BY <1>2, <2>1, <2>2
<1>6. ASSUME NEW p \in KindPlaces(q) PROVE p[1] \in Int /\ p[2] \in Int /\ p[1] <= Len(q.kinds)
  BY <1>2, <1>3, <1>4
<1> QED
  BY <1>1, <1>2, <1>3, <1>4, <1>5, <1>6

\* There are finitely many handlers, at different places.
LEMMA RegisteredKeyed ==
  ASSUME NEW q \in Query2
  PROVE  Keyed(Registered(q))
<1> DEFINE of == [i \in DOMAIN q.kinds |-> {<<i, j>> : j \in 0..Len(q.kinds[i].subsets)}]
<1>1. IsFiniteSet(DOMAIN q.kinds) /\ IsFiniteSet(DOMAIN q.ids)
  BY PlacesAre, FiniteInterval
<1>2. \A i \in DOMAIN q.kinds : IsFiniteSet(of[i])
  <2> SUFFICES ASSUME NEW i \in DOMAIN q.kinds PROVE IsFiniteSet(of[i])
    OBVIOUS
  <2> DEFINE f == [j \in 0..Len(q.kinds[i].subsets) |-> <<i, j>>]
  <2>0. 0 \in Int /\ Len(q.kinds[i].subsets) \in Int
    BY PlacesAre
  <2>1. IsFiniteSet(DOMAIN f)
    BY <2>0, FiniteInterval
  <2>2. IsFiniteSet({f[x] : x \in DOMAIN f})
    <3> HIDE DEF f
    <3> QED
      BY <2>1, FiniteImage
  <2>3. {f[x] : x \in DOMAIN f} = of[i]
    OBVIOUS
  <2> QED
    BY <2>2, <2>3
<1>3. IsFiniteSet({of[i] : i \in DOMAIN of})
  <2>1. IsFiniteSet(DOMAIN of)
    BY <1>1
  <2> HIDE DEF of
  <2> QED
    BY <2>1, FiniteImage
<1>4. IsFiniteSet(UNION {of[i] : i \in DOMAIN of})
  <2> DEFINE U == {of[i] : i \in DOMAIN of}
  <2>0. IsFiniteSet(U)
    BY <1>3
  <2>1. \A T \in U : IsFiniteSet(T)
    BY <1>2
  <2> HIDE DEF U
  <2>2. IsFiniteSet(UNION U)
    BY <2>0, <2>1, FS_UNION
  <2> QED
    BY <2>2 DEF U
<1>5. UNION {of[i] : i \in DOMAIN of} = KindPlaces(q)
  <2>1. {of[i] : i \in DOMAIN of}
          = {{<<i, j>> : j \in 0..Len(q.kinds[i].subsets)} : i \in DOMAIN q.kinds}
    OBVIOUS
  <2> QED
    BY <2>1 DEF KindPlaces
<1>6. IsFiniteSet(IdPlaces(q))
  <2> DEFINE f == [i \in DOMAIN q.ids |-> <<Len(q.kinds) + i, 0>>]
  <2>1. IsFiniteSet(DOMAIN f)
    BY <1>1
  <2>2. IsFiniteSet({f[x] : x \in DOMAIN f})
    <3> HIDE DEF f
    <3> QED
      BY <2>1, FiniteImage
  <2>3. {f[x] : x \in DOMAIN f} = IdPlaces(q)
    BY DEF IdPlaces
  <2> QED
    BY <2>2, <2>3
<1>7. Registered(q) \subseteq KindPlaces(q) \cup IdPlaces(q)
  BY DEF Registered
<1>8. IsFiniteSet(KindPlaces(q) \cup IdPlaces(q))
  BY <1>4, <1>5, <1>6, FS_Union
<1>9. IsFiniteSet(Registered(q))
  BY <1>7, <1>8, FS_Subset
<1>10. \A p \in Registered(q) : p = <<p[1], p[2]>> /\ p[1] \in Int /\ p[2] \in Int
  BY <1>7, PlacesAre
<1> QED
  BY <1>9, <1>10 DEF Keyed

\* A handler has its own number, below the count of handlers.
LEMMA Registering ==
  ASSUME NEW q \in Query2
  PROVE  /\ Cardinality(Registered(q)) \in Nat
         /\ \A p \in Registered(q) :
              /\ Register(q, p) \in Int /\ Register(q, p) < Cardinality(Registered(q))
              /\ Register(q, p) + 1 \in 1..Cardinality(Registered(q))
              /\ Handlers(q)[Register(q, p) + 1] = p
         /\ \A p, s \in Registered(q) :
              /\ Register(q, p) = Register(q, s) => p = s
              /\ Precedes(p, s) => Register(q, p) < Register(q, s)
<1>1. Keyed(Registered(q))
  BY RegisteredKeyed
<1>2. Cardinality(Registered(q)) \in Nat
  BY <1>1, Ordered
<1>3. ASSUME NEW p \in Registered(q)
      PROVE  /\ Register(q, p) \in Int /\ Register(q, p) < Cardinality(Registered(q))
             /\ Register(q, p) + 1 \in 1..Cardinality(Registered(q))
             /\ Handlers(q)[Register(q, p) + 1] = p
  <2>1. Register(q, p) \in 0..Cardinality(Registered(q)) - 1
    BY <1>1, RankType DEF Register
  <2>2. Handlers(q)[Register(q, p) + 1] = p
    BY <1>1, Ordered DEF Register, Handlers
  <2> QED
    BY <1>2, <2>1, <2>2
<1>4. ASSUME NEW p \in Registered(q), NEW s \in Registered(q)
      PROVE  /\ Register(q, p) = Register(q, s) => p = s
             /\ Precedes(p, s) => Register(q, p) < Register(q, s)
  BY <1>1, RankGrows DEF Register
<1> QED
  BY <1>2, <1>3, <1>4

\* The event of a row fits a handler: SQL selects it for the clause of that
\* handler, and so does the in-memory log.
LEMMA ClausesAre ==
  ASSUME NEW q \in Query2, NEW p \in Registered(q), NEW e \in Event
  PROVE  LET in == BuildBatchRequest(q)
             c  == in.clauses[p]
         IN /\ DOMAIN in.clauses = Registered(q) /\ in.after = q.after
            /\ c.op = Register(q, p)
            /\ \A t \in Transport :
                 t # "memory" /\ e.id >= 1 => (Selects(Operation(c, q.after), e) <=> Fits(q, t, p, e))
            /\ Fits(q, "memory", p, e) <=>
                 /\ e.id > q.after
                 /\ IF c.by = "id" THEN c.id = e.id
                    ELSE c.kind = e.kind /\ (c.by = "subset" => JSONIsSubset(e.body, c.doc))
<1> DEFINE in == BuildBatchRequest(q)
           c  == in.clauses[p]
<1>1. DOMAIN in.clauses = Registered(q) /\ in.after = q.after /\ c = Prepare(q, p)
  BY DEF BuildBatchRequest, Request
<1>2. e.id \in Int /\ q.after \in Int
  BY Numbers, PlacesAre
<1> DEFINE o == Operation(c, q.after)
<1>0. o.clause = c /\ o.after = q.after
  BY DEF Operation
<1> HIDE DEF in, o, c
<1>3. CASE p \in IdPlaces(q)
  <2>1. p[1] > Len(q.kinds)
    BY <1>3, PlacesAre
  <2> DEFINE i == q.ids[p[1] - Len(q.kinds)].id
  <2>2. c = Clause("id", "", <<>>, i, Register(q, p))
    BY <1>1, <2>1 DEF Prepare, PrepareID
  <2>4. HandlerWants(q, p, e) <=> e.id = i
    BY <2>1 DEF HandlerWants
  <2> HIDE DEF i
  <2>5. c.by = "id" /\ c.id = i /\ c.op = Register(q, p)
    <3>1. c.by = "id"
      BY <2>2, ZenonT(20) DEF Clause
    <3>2. c.id = i
      BY <2>2, ZenonT(20) DEF Clause
    <3>3. c.op = Register(q, p)
      BY <2>2, ZenonT(20) DEF Clause
    <3> QED
      BY <3>1, <3>2, <3>3
  <2>3. Selects(o, e) <=> e.id = i
    BY <1>0, <2>5 DEF Selects, MatchID
  <2> QED
    BY <1>1, <1>2, <2>3, <2>4, <2>5 DEF Fits, in, o, c
<1>4. CASE p \notin IdPlaces(q)
  <2>1. p \in KindPlaces(q) /\ (IF p[2] = 0 THEN q.kinds[p[1]].each ELSE q.kinds[p[1]].subsets[p[2]].on)
    BY <1>4 DEF Registered
  <2>2. ~(p[1] > Len(q.kinds))
    BY <2>1, PlacesAre
  <2>3. CASE p[2] = 0
    <3>1. c = Clause("kind", q.kinds[p[1]].kind, <<>>, NoId, Register(q, p))
      BY <1>1, <2>2, <2>3 DEF Prepare, PrepareKind
    <3>4. c.by = "kind" /\ c.kind = q.kinds[p[1]].kind /\ c.op = Register(q, p)
      <4>1. c.by = "kind" /\ c.kind = q.kinds[p[1]].kind
        BY <3>1, ZenonT(20) DEF Clause
      <4>2. c.op = Register(q, p)
        BY <3>1, ZenonT(20) DEF Clause
      <4> QED
        BY <4>1, <4>2
    <3>2. Selects(o, e) <=> e.kind = q.kinds[p[1]].kind /\ (q.after > 0 => e.id > q.after)
      BY <1>0, <3>4 DEF Selects, EachKind, After
    <3>3. HandlerWants(q, p, e) <=> e.kind = q.kinds[p[1]].kind /\ e.id > q.after
      BY <2>1, <2>2, <2>3 DEF HandlerWants
    <3> QED
      BY <1>1, <1>2, <3>2, <3>3, <3>4 DEF Fits, in, o, c
  <2>4. CASE p[2] # 0
    <3>1. c = Clause("subset", q.kinds[p[1]].kind, q.kinds[p[1]].subsets[p[2]].doc, NoId,
                     Register(q, p))
      BY <1>1, <2>2, <2>4 DEF Prepare, PrepareMatched
    <3>4. /\ c.by = "subset" /\ c.kind = q.kinds[p[1]].kind /\ c.op = Register(q, p)
          /\ c.doc = q.kinds[p[1]].subsets[p[2]].doc
      <4>1. c.by = "subset" /\ c.kind = q.kinds[p[1]].kind
        BY <3>1, ZenonT(20) DEF Clause
      <4>2. c.op = Register(q, p)
        BY <3>1, ZenonT(20) DEF Clause
      <4>3. c.doc = q.kinds[p[1]].subsets[p[2]].doc
        BY <3>1, ZenonT(20) DEF Clause
      <4> QED
        BY <4>1, <4>2, <4>3
    <3>2. Selects(o, e)
            <=> /\ e.kind = q.kinds[p[1]].kind
                /\ JSONIsSubset(e.body, q.kinds[p[1]].subsets[p[2]].doc)
                /\ q.after > 0 => e.id > q.after
      BY <1>0, <3>4 DEF Selects, MatchSubset, After
    <3>3. HandlerWants(q, p, e)
            <=> /\ e.kind = q.kinds[p[1]].kind /\ e.id > q.after
                /\ JSONIsSubset(e.body, q.kinds[p[1]].subsets[p[2]].doc)
      BY <2>1, <2>2, <2>4 DEF HandlerWants
    <3>5. \A t \in Transport :
            t # "memory" /\ e.id >= 1 => (Selects(o, e) <=> Fits(q, t, p, e))
      BY <1>2, <3>2, <3>3 DEF Fits
    <3>6. Fits(q, "memory", p, e) <=>
            /\ e.id > q.after
            /\ IF c.by = "id" THEN c.id = e.id
               ELSE c.kind = e.kind /\ (c.by = "subset" => JSONIsSubset(e.body, c.doc))
      BY <1>2, <3>3, <3>4 DEF Fits
    <3> QED
      BY <1>1, <3>4, <3>5, <3>6 DEF in, o, c
  <2> QED
    BY <2>3, <2>4
<1> QED
  BY <1>3, <1>4
-----------------------------------------------------------------------------
(* The store and the rows that it answers with *)

EventsOf(n) == {events[m] : m \in Own(n)}

\* The log of events.
LEMMA EventsTyped ==
  ASSUME QueryTypes
  PROVE  /\ events \in Seq(Event) /\ Len(events) \in Nat /\ Len(events) <= MaxEvents
         /\ DOMAIN events = 1..Len(events) /\ Len(events) \in 0..Len(events)
<1>1. events \in Seq(Event) /\ Len(events) <= MaxEvents
  BY DEF QueryTypes
<1> QED
  BY <1>1

\* A function on the first numbers is a list.
LEMMA ListOf ==
  ASSUME NEW n \in Nat, NEW T, NEW s, s = [k \in 1..n |-> s[k]], \A k \in 1..n : s[k] \in T
  PROVE  s \in Seq(T)
<1>1. s \in [1..n -> T]
  OBVIOUS
<1> QED
  BY <1>1

\* The positions of a stream's events.
LEMMA OwnIs ==
  ASSUME QueryTypes, NEW n \in 0..Len(events)
  PROVE  /\ Own(n) \subseteq Own(Len(events)) /\ Own(n) \subseteq Int /\ IsFiniteSet(Own(n))
         /\ \A m \in Own(n) : m \in DOMAIN events /\ events[m] \in Event
<1>1. Len(events) \in Nat /\ DOMAIN events = 1..Len(events) /\ events \in Seq(Event)
  BY EventsTyped
<1>2. Own(n) \subseteq 1..n /\ Own(n) \subseteq Own(Len(events)) /\ Own(n) \subseteq Int
  BY <1>1 DEF Own
<1>3. \A m \in Own(n) : m \in DOMAIN events /\ events[m] \in Event
  BY <1>1, <1>2
<1>4. 1 \in Int /\ n \in Int
  BY <1>1
<1>5. IsFiniteSet(Own(n))
  BY <1>2, <1>4, FiniteInterval, FS_Subset
<1> QED
  BY <1>2, <1>3, <1>5

\* The events of a stream are found by their ids.
LEMMA StoreIs ==
  ASSUME QueryTypes, IdsGrow, NEW n \in 0..Len(events)
  PROVE  /\ EventsOf(n) \subseteq Event
         /\ \A d, e \in EventsOf(n) : d.id = e.id => d = e
         /\ \A e \in EventsOf(n) : GetEvent(e.id) = e.body
         /\ transport # "memory" => \A e \in EventsOf(n) : e.id >= 1
<1>1. /\ Own(n) \subseteq Own(Len(events)) /\ Own(n) \subseteq Int
      /\ \A m \in Own(n) : m \in DOMAIN events /\ events[m] \in Event
  BY OwnIs
<1>2. /\ Own(Len(events)) \subseteq Int
      /\ \A m \in Own(Len(events)) : m \in DOMAIN events /\ events[m] \in Event
  <2>1. Len(events) \in 0..Len(events)
    BY EventsTyped
  <2> QED
    BY <2>1, OwnIs
<1>3. \A l, m \in Own(Len(events)) : events[l].id = events[m].id => l = m
  <2> SUFFICES ASSUME NEW l \in Own(Len(events)), NEW m \in Own(Len(events)),
                      events[l].id = events[m].id
               PROVE  l = m
    OBVIOUS
  <2>1. events[l].id \in Int /\ events[m].id \in Int /\ l \in Int /\ m \in Int
    BY <1>2, Numbers
  <2>2. ~(l < m) /\ ~(m < l)
    BY <2>1 DEF IdsGrow
  <2> QED
    BY <2>1, <2>2
<1>4. ASSUME NEW e \in EventsOf(n) PROVE GetEvent(e.id) = e.body
  <2>1. PICK m \in Own(Len(events)) : e = events[m]
    BY <1>1 DEF EventsOf
  <2>2. (CHOOSE l \in Own(Len(events)) : events[l].id = e.id) = m
    BY <1>3, <2>1
  <2> QED
    BY <2>1, <2>2 DEF GetEvent
<1>5. ASSUME transport # "memory", NEW e \in EventsOf(n) PROVE e.id >= 1
  <2>1. PICK m \in Own(Len(events)) : e = events[m]
    BY <1>1 DEF EventsOf
  <2>2. e.id \in 1..Len(events)
    BY <1>5, <2>1 DEF IdsGrow
  <2> QED
    BY <2>2
<1> QED
  BY <1>1, <1>3, <1>4, <1>5 DEF EventsOf

\* What a row is made of.
LEMMA RowIs ==
  ASSUME NEW e \in Event, NEW op \in Int
  PROVE  /\ Row(e, op) \in EnvelopeRow
         /\ Row(e, op).id = e.id /\ Row(e, op).kind = e.kind /\ Row(e, op).op = op
BY DEF Row, EnvelopeRow, Event

\* Every pair of an event and an operation has a row, in order.
LEMMA RowsAre ==
  ASSUME QueryTypes, NEW N \in Nat, NEW ops \in [1..N -> Int],
         NEW hits \in SUBSET (Own(Len(events)) \X (1..N))
  PROVE  LET at == InOrder(hits)
             rs == Rows(hits, ops)
         IN /\ rs \in Seq(EnvelopeRow)
            /\ \A k \in DOMAIN rs : at[k] \in hits /\ rs[k] = Row(events[at[k][1]], ops[at[k][2]])
            /\ \A h \in hits : \E k \in DOMAIN rs : at[k] = h
            /\ \A k, l \in DOMAIN rs : k < l => Precedes(at[k], at[l])
<1> DEFINE at == InOrder(hits)
           rs == Rows(hits, ops)
<1>0. Len(events) \in 0..Len(events)
  BY EventsTyped
<1>1. /\ Own(Len(events)) \subseteq Int /\ IsFiniteSet(Own(Len(events)))
      /\ \A m \in Own(Len(events)) : events[m] \in Event
  BY <1>0, OwnIs
<1>2. IsFiniteSet(Own(Len(events)) \X (1..N))
  <2>1. 1 \in Int /\ N \in Int
    OBVIOUS
  <2>2. IsFiniteSet(1..N)
    BY <2>1, FiniteInterval
  <2> QED
    BY <1>1, <2>2, FS_Product
<1>3. Keyed(hits)
  <2>1. IsFiniteSet(hits)
    BY <1>2, FS_Subset
  <2>2. \A h \in hits : h = <<h[1], h[2]>> /\ h[1] \in Int /\ h[2] \in Int
    BY <1>1
  <2> QED
    BY <2>1, <2>2 DEF Keyed
<1>4. /\ at \in Seq(hits) /\ Cardinality(hits) \in Nat
      /\ DOMAIN at = 1..Cardinality(hits)
      /\ \A h \in hits : \E k \in 1..Cardinality(hits) : at[k] = h
      /\ \A k, l \in 1..Cardinality(hits) : k < l => Precedes(at[k], at[l])
  BY <1>3, Ordered
<1>5. \A k \in 1..Cardinality(hits) : at[k] \in hits
  BY <1>4
<1>6. /\ DOMAIN rs = 1..Cardinality(hits)
      /\ \A k \in 1..Cardinality(hits) : rs[k] = Row(events[at[k][1]], ops[at[k][2]])
      /\ rs = [k \in 1..Cardinality(hits) |-> rs[k]]
  BY DEF Rows
<1> HIDE DEF at, rs
<1>7. \A k \in 1..Cardinality(hits) : rs[k] \in EnvelopeRow
  <2> SUFFICES ASSUME NEW k \in 1..Cardinality(hits) PROVE rs[k] \in EnvelopeRow
    OBVIOUS
  <2>1. events[at[k][1]] \in Event /\ ops[at[k][2]] \in Int
    BY <1>1, <1>5
  <2> QED
    BY <1>6, <2>1, RowIs
<1>8. rs \in Seq(EnvelopeRow)
  BY <1>4, <1>6, <1>7, ListOf
<1> QED
  BY <1>4, <1>5, <1>6, <1>8 DEF at, rs

\* A result that tells no operations apart has a row for each event.
LEMMA EnvelopesAre ==
  ASSUME QueryTypes, IdsGrow, NEW ns \in SUBSET Own(Len(events))
  PROVE  LET rs == Envelopes(ns)
         IN /\ rs \in Seq(EnvelopeRow) /\ Ascending(rs)
            /\ \A k \in DOMAIN rs : \E n \in ns : Stems(rs[k], events[n])
            /\ \A n \in ns : events[n].id \in Ids(rs)
<1> DEFINE hits == ns \X {1}
           at == InOrder(hits)
           rs == Rows(hits, <<0>>)
<1>0. Len(events) \in 0..Len(events)
  BY EventsTyped
<1>1. \A m \in Own(Len(events)) : events[m] \in Event
  BY <1>0, OwnIs
<1>2. 1 \in Nat /\ <<0>> \in [1..1 -> Int] /\ hits \in SUBSET (Own(Len(events)) \X (1..1))
  OBVIOUS
<1>3. /\ rs \in Seq(EnvelopeRow)
      /\ \A k \in DOMAIN rs : at[k] \in hits /\ rs[k] = Row(events[at[k][1]], <<0>>[at[k][2]])
      /\ \A h \in hits : \E k \in DOMAIN rs : at[k] = h
      /\ \A k, l \in DOMAIN rs : k < l => Precedes(at[k], at[l])
  <2> HIDE DEF hits
  <2> QED
    BY <1>2, RowsAre
<1>4. \A h \in hits : h[1] \in ns /\ h[2] = 1 /\ h = <<h[1], 1>>
  OBVIOUS
<1>5. \A n \in ns : <<n, 1>> \in hits /\ <<n, 1>>[1] = n
  OBVIOUS
<1> HIDE DEF hits, at, rs
<1>6. \A k \in DOMAIN rs : at[k][1] \in ns /\ at[k][2] = 1 /\ rs[k].id = events[at[k][1]].id
                           /\ rs[k].kind = events[at[k][1]].kind
  <2> SUFFICES ASSUME NEW k \in DOMAIN rs
               PROVE  at[k][1] \in ns /\ at[k][2] = 1 /\ rs[k].id = events[at[k][1]].id
                      /\ rs[k].kind = events[at[k][1]].kind
    OBVIOUS
  <2>1. at[k][1] \in ns /\ at[k][2] = 1
    BY <1>3, <1>4
  <2>2. rs[k] = Row(events[at[k][1]], 0) /\ events[at[k][1]] \in Event
    BY <1>1, <1>3, <2>1
  <2> QED
    BY <2>1, <2>2, RowIs
<1>7. Ascending(rs)
  <2> SUFFICES ASSUME NEW k \in DOMAIN rs, NEW l \in DOMAIN rs, k < l PROVE rs[k].id < rs[l].id
    BY DEF Ascending
  <2>1. at[k][1] < at[l][1]
    BY <1>3, <1>6 DEF Precedes
  <2> QED
    BY <1>6, <2>1 DEF IdsGrow
<1>8. \A n \in ns : events[n].id \in Ids(rs)
  <2> SUFFICES ASSUME NEW n \in ns PROVE events[n].id \in Ids(rs)
    OBVIOUS
  <2>1. PICK k \in DOMAIN rs : at[k] = <<n, 1>>
    BY <1>3, <1>5
  <2> QED
    BY <1>5, <1>6, <2>1 DEF Ids
<1>9. \A k \in DOMAIN rs : \E n \in ns : Stems(rs[k], events[n])
  BY <1>6 DEF Stems
<1> QED
  BY <1>3, <1>7, <1>8, <1>9 DEF Envelopes, rs, hits
-----------------------------------------------------------------------------
(* The operations of a request *)

\* A row for an event that a clause of the request selects.
Picked(in, x, n, p) ==
  /\ Selects(Operation(in.clauses[p], in.after), events[n])
  /\ Stems(x, events[n])
  /\ x.op = in.clauses[p].op

\* There is an operation for each clause, in order.
LEMMA OperationsAre ==
  ASSUME NEW in, Keyed(DOMAIN in.clauses)
  PROVE  LET at  == InOrder(DOMAIN in.clauses)
             ops == Operations(in)
         IN /\ Len(ops) \in Nat /\ Len(ops) = Cardinality(DOMAIN in.clauses)
            /\ \A k \in 1..Len(ops) :
                 at[k] \in DOMAIN in.clauses /\ ops[k] = Operation(in.clauses[at[k]], in.after)
            /\ \A p \in DOMAIN in.clauses : \E k \in 1..Len(ops) : at[k] = p
            /\ \A k, l \in 1..Len(ops) : k < l => Precedes(at[k], at[l])
            /\ Len(ops) = 0 <=> DOMAIN in.clauses = {}
<1> DEFINE D   == DOMAIN in.clauses
           at  == InOrder(D)
           ops == Operations(in)
           T   == {Operation(in.clauses[p], in.after) : p \in D}
<1>1. /\ at \in Seq(D) /\ Cardinality(D) \in Nat /\ DOMAIN at = 1..Cardinality(D)
      /\ \A p \in D : \E k \in 1..Cardinality(D) : at[k] = p
      /\ \A k, l \in 1..Cardinality(D) : k < l => Precedes(at[k], at[l])
  BY Ordered
<1>2. \A k \in 1..Cardinality(D) : at[k] \in D
  BY <1>1
<1>3. /\ DOMAIN ops = 1..Cardinality(D)
      /\ \A k \in 1..Cardinality(D) : ops[k] = Operation(in.clauses[at[k]], in.after)
      /\ ops = [k \in 1..Cardinality(D) |-> ops[k]]
  BY DEF Operations
<1> HIDE DEF at, ops
<1>4. \A k \in 1..Cardinality(D) : ops[k] \in T
  BY <1>2, <1>3
<1>5. ops \in Seq(T)
  <2> HIDE DEF T
  <2> QED
    BY <1>1, <1>3, <1>4, ListOf
<1>6. Len(ops) = Cardinality(D)
  <2> HIDE DEF T
  <2> QED
    BY <1>1, <1>3, <1>5
<1>7. Cardinality(D) = 0 <=> D = {}
  BY FS_EmptySet DEF Keyed
<1> QED
  BY <1>1, <1>2, <1>3, <1>6, <1>7 DEF at, ops

\* Repository.Stream: a row for every event and every clause that selects it.
LEMMA StreamIs ==
  ASSUME QueryTypes, NEW in, Keyed(DOMAIN in.clauses),
         \A p \in DOMAIN in.clauses : in.clauses[p].op \in Int
  PROVE  LET rs == RepositoryStream(Operations(in))
             D  == DOMAIN in.clauses
         IN /\ rs \in Seq(EnvelopeRow)
            /\ \A k \in DOMAIN rs : \E n \in Own(Len(events)), p \in D : Picked(in, rs[k], n, p)
            /\ \A n \in Own(Len(events)), p \in D :
                 Selects(Operation(in.clauses[p], in.after), events[n])
                   => \E k \in DOMAIN rs : Picked(in, rs[k], n, p)
            /\ \A k, l \in DOMAIN rs :
                 k < l => \E n, m \in Own(Len(events)), p, s \in D :
                            /\ Picked(in, rs[k], n, p) /\ Picked(in, rs[l], m, s)
                            /\ n < m \/ (n = m /\ Precedes(p, s))
<1> DEFINE D    == DOMAIN in.clauses
           ops  == Operations(in)
           N    == Len(ops)
           ord  == InOrder(D)
           nums == [k \in 1..N |-> ops[k].clause.op]
           hits == {h \in Own(Len(events)) \X (1..N) : Selects(ops[h[2]], events[h[1]])}
           at   == InOrder(hits)
           rs   == Rows(hits, nums)
<1>1. \A m \in Own(Len(events)) : events[m] \in Event
  BY EventsTyped, OwnIs
<1>2. /\ N \in Nat
      /\ \A k \in 1..N : ord[k] \in D /\ ops[k] = Operation(in.clauses[ord[k]], in.after)
      /\ \A p \in D : \E k \in 1..N : ord[k] = p
      /\ \A k, l \in 1..N : k < l => Precedes(ord[k], ord[l])
  BY OperationsAre
<1>3. \A k \in 1..N : ops[k].clause = in.clauses[ord[k]]
  <2>1. \A c, a : Operation(c, a).clause = c
    BY DEF Operation
  <2> HIDE DEF ops, ord, N
  <2> QED
    BY <1>2, <2>1
<1>4. \A k \in 1..N : nums[k] = in.clauses[ord[k]].op /\ nums[k] \in Int
  BY <1>2, <1>3
<1>5. nums \in [1..N -> Int] /\ hits \in SUBSET (Own(Len(events)) \X (1..N))
  BY <1>4
<1>6. RepositoryStream(Operations(in)) = rs
  BY DEF RepositoryStream
<1>7. \A h \in hits : /\ h[1] \in Own(Len(events)) /\ h[2] \in 1..N
                      /\ Selects(Operation(in.clauses[ord[h[2]]], in.after), events[h[1]])
  BY <1>2
<1>8. \A n \in Own(Len(events)), k \in 1..N :
        Selects(Operation(in.clauses[ord[k]], in.after), events[n]) => <<n, k>> \in hits
  BY <1>2
<1> HIDE DEF D, ops, N, ord, nums, hits
<1>9. /\ rs \in Seq(EnvelopeRow)
      /\ \A k \in DOMAIN rs : at[k] \in hits /\ rs[k] = Row(events[at[k][1]], nums[at[k][2]])
      /\ \A h \in hits : \E k \in DOMAIN rs : at[k] = h
      /\ \A k, l \in DOMAIN rs : k < l => Precedes(at[k], at[l])
  BY <1>2, <1>5, RowsAre
<1> HIDE DEF at, rs
<1>10. \A k \in DOMAIN rs : /\ at[k][1] \in Own(Len(events)) /\ at[k][2] \in 1..N
                            /\ ord[at[k][2]] \in D
                            /\ Picked(in, rs[k], at[k][1], ord[at[k][2]])
  <2> SUFFICES ASSUME NEW k \in DOMAIN rs
               PROVE  /\ at[k][1] \in Own(Len(events)) /\ at[k][2] \in 1..N
                      /\ ord[at[k][2]] \in D
                      /\ Picked(in, rs[k], at[k][1], ord[at[k][2]])
    OBVIOUS
  <2> DEFINE n == at[k][1]
             j == at[k][2]
  <2>1. n \in Own(Len(events)) /\ j \in 1..N /\ rs[k] = Row(events[n], nums[j])
        /\ Selects(Operation(in.clauses[ord[j]], in.after), events[n])
    BY <1>7, <1>9
  <2> HIDE DEF n, j
  <2>2. events[n] \in Event /\ nums[j] \in Int /\ nums[j] = in.clauses[ord[j]].op /\ ord[j] \in D
    BY <1>1, <1>2, <1>4, <2>1
  <2>3. rs[k].id = events[n].id /\ rs[k].kind = events[n].kind /\ rs[k].op = nums[j]
    BY <2>1, <2>2, RowIs
  <2>4. Picked(in, rs[k], n, ord[j])
    BY <2>1, <2>2, <2>3 DEF Picked, Stems
  <2> QED
    BY <2>1, <2>2, <2>4 DEF n, j
<1>11. ASSUME NEW n \in Own(Len(events)), NEW p \in D,
              Selects(Operation(in.clauses[p], in.after), events[n])
       PROVE  \E k \in DOMAIN rs : Picked(in, rs[k], n, p)
  <2>1. PICK j \in 1..N : ord[j] = p
    BY <1>2
  <2>2. <<n, j>> \in hits
    BY <1>8, <1>11, <2>1
  <2>3. PICK k \in DOMAIN rs : at[k] = <<n, j>>
    BY <1>9, <2>2
  <2>4. at[k][1] = n /\ at[k][2] = j
    BY <2>3
  <2> QED
    BY <1>10, <2>1, <2>4
<1>12. ASSUME NEW k \in DOMAIN rs, NEW l \in DOMAIN rs, k < l
       PROVE  \E n, m \in Own(Len(events)), p, s \in D :
                /\ Picked(in, rs[k], n, p) /\ Picked(in, rs[l], m, s)
                /\ n < m \/ (n = m /\ Precedes(p, s))
  <2>1. at[k][1] < at[l][1] \/ (at[k][1] = at[l][1] /\ at[k][2] < at[l][2])
    BY <1>9, <1>12 DEF Precedes
  <2>2. at[k][2] < at[l][2] => Precedes(ord[at[k][2]], ord[at[l][2]])
    BY <1>2, <1>10
  <2>3. /\ at[k][1] \in Own(Len(events)) /\ ord[at[k][2]] \in D
        /\ Picked(in, rs[k], at[k][1], ord[at[k][2]])
    BY <1>10
  <2>4. /\ at[l][1] \in Own(Len(events)) /\ ord[at[l][2]] \in D
        /\ Picked(in, rs[l], at[l][1], ord[at[l][2]])
    BY <1>10
  <2> QED
    BY <2>1, <2>2, <2>3, <2>4
<1>13. \A k \in DOMAIN rs : \E n \in Own(Len(events)), p \in D : Picked(in, rs[k], n, p)
  BY <1>10
<1> QED
  BY <1>6, <1>9, <1>11, <1>12, <1>13 DEF D

\* A finite set is listed without repetition.
LEMMA Listed ==
  ASSUME NEW S, IsFiniteSet(S)
  PROVE  /\ Cardinality(S) \in Nat
         /\ \A k \in 1..Cardinality(S) : SetToSeq(S)[k] \in S
         /\ \A x \in S : \E k \in 1..Cardinality(S) : SetToSeq(S)[k] = x
         /\ \A k, l \in 1..Cardinality(S) : SetToSeq(S)[k] = SetToSeq(S)[l] => k = l
<1> DEFINE N == Cardinality(S)
           f == SetToSeq(S)
<1>1. N \in Nat /\ ExistsBijection(1..N, S)
  BY FS_CardinalityType
<1>2. \E g \in [1..N -> S] : IsInjective(g)
  BY <1>1 DEF ExistsBijection, Bijection, Injection
<1>3. f \in [1..N -> S] /\ IsInjective(f)
  BY <1>2 DEF SetToSeq
<1> HIDE DEF f
<1>4. f \in Injection(1..N, S)
  BY <1>3 DEF Injection
<1>5. Cardinality(1..N) = N
  <2>1. 1 \in Int /\ N \in Int
    BY <1>1
  <2>2. Cardinality(1..N) = IF 1 > N THEN 0 ELSE N - 1 + 1
    BY <2>1, FS_Interval
  <2> QED
    BY <1>1, <2>2
<1>6. f \in Surjection(1..N, S)
  BY <1>4, <1>5, FS_Injection
<1>7. \A k, l \in 1..N : f[k] = f[l] => k = l
  BY <1>3 DEF IsInjective
<1> QED
  BY <1>1, <1>3, <1>6, <1>7 DEF Surjection, f

\* A v1 request has one clause for each kind.
LEMMA ForKindsIs ==
  ASSUME NEW query, IsFiniteSet(query), NEW clause
  PROVE  LET in == ForKinds(query, clause)
             c(p) == SetToSeq(query)[p[1]]
         IN /\ Keyed(DOMAIN in.clauses) /\ in.after = NoAfter
            /\ \A p \in DOMAIN in.clauses : c(p) \in query /\ in.clauses[p] = clause[c(p)]
            /\ \A d \in query : \E p \in DOMAIN in.clauses : c(p) = d
            /\ \A p, s \in DOMAIN in.clauses : c(p) = c(s) => p = s
            /\ DOMAIN in.clauses = {} <=> query = {}
<1> DEFINE in == ForKinds(query, clause)
           N  == Cardinality(query)
           f  == SetToSeq(query)
<1>1. /\ N \in Nat
      /\ \A k \in 1..N : f[k] \in query
      /\ \A d \in query : \E k \in 1..N : f[k] = d
      /\ \A k, l \in 1..N : f[k] = f[l] => k = l
  BY Listed
<1>2. DOMAIN in.clauses = (1..N) \X {0} /\ in.after = NoAfter
  BY DEF ForKinds, Request
<1>3. \A p \in (1..N) \X {0} : in.clauses[p] = clause[f[p[1]]]
  BY DEF ForKinds, Request
<1> HIDE DEF in, f
<1>4. \A p \in (1..N) \X {0} : p[1] \in 1..N /\ p[2] = 0 /\ p = <<p[1], 0>>
  OBVIOUS
<1>5. \A k \in 1..N : <<k, 0>> \in (1..N) \X {0} /\ <<k, 0>>[1] = k
  OBVIOUS
<1>6. Keyed((1..N) \X {0})
  <2>1. 1 \in Int /\ N \in Int
    BY <1>1
  <2>2. IsFiniteSet(1..N) /\ IsFiniteSet({0})
    BY <2>1, FiniteInterval, FS_Singleton
  <2>3. IsFiniteSet((1..N) \X {0})
    BY <2>2, FS_Product
  <2>4. \A p \in (1..N) \X {0} : p[1] \in Int /\ p[2] \in Int
    BY <1>1, <1>4
  <2> QED
    BY <1>4, <2>3, <2>4 DEF Keyed
<1>7. \A d \in query : \E p \in (1..N) \X {0} : f[p[1]] = d
  <2> SUFFICES ASSUME NEW d \in query PROVE \E p \in (1..N) \X {0} : f[p[1]] = d
    OBVIOUS
  <2>1. PICK k \in 1..N : f[k] = d
    BY <1>1
  <2> QED
    BY <1>5, <2>1
<1>8. \A p, s \in (1..N) \X {0} : f[p[1]] = f[s[1]] => p = s
  BY <1>1, <1>4
<1>9. (1..N) \X {0} = {} <=> query = {}
  BY <1>1, <1>4, <1>7
<1> QED
  BY <1>1, <1>2, <1>3, <1>4, <1>6, <1>7, <1>8, <1>9 DEF in, f

\* The constraints that a v1 query is sent as: one for each of its kinds.
LEMMA WireQueryIs ==
  ASSUME NEW q \in Builders
  PROVE  /\ IsFiniteSet(WireQuery(q)) /\ (WireQuery(q) = {} <=> DOMAIN q = {})
         /\ \A c \in WireQuery(q) :
              /\ c.kind \in DOMAIN q /\ c.eq = q[c.kind].eq /\ c.match = q[c.kind].match
              /\ c = ToKindConstraint(q, c.kind)
         /\ \A k \in DOMAIN q : \E c \in WireQuery(q) : c.kind = k
         /\ \A c, d \in WireQuery(q) : c.kind = d.kind => c = d
<1> DEFINE f == [k \in DOMAIN q |-> ToKindConstraint(q, k)]
<1>1. IsFiniteSet(DOMAIN f)
  BY QueriesAssump
<1>2. IsFiniteSet({f[k] : k \in DOMAIN f})
  <2> HIDE DEF f
  <2> QED
    BY <1>1, FiniteImage
<1>3. {f[k] : k \in DOMAIN f} = WireQuery(q)
  BY DEF WireQuery
<1>4. \A k : /\ ToKindConstraint(q, k).kind = k /\ ToKindConstraint(q, k).eq = q[k].eq
             /\ ToKindConstraint(q, k).match = q[k].match
  BY DEF ToKindConstraint
<1>5. \A c \in WireQuery(q) : \E k \in DOMAIN q : c = ToKindConstraint(q, k)
  BY DEF WireQuery
<1>6. \A k \in DOMAIN q : ToKindConstraint(q, k) \in WireQuery(q)
  BY DEF WireQuery
<1>7. WireQuery(q) = {} <=> DOMAIN q = {}
  BY <1>5, <1>6
<1>8. \A c \in WireQuery(q) :
        /\ c.kind \in DOMAIN q /\ c.eq = q[c.kind].eq /\ c.match = q[c.kind].match
        /\ c = ToKindConstraint(q, c.kind)
  BY <1>4, <1>5
<1>9. \A k \in DOMAIN q : \E c \in WireQuery(q) : c.kind = k
  BY <1>4, <1>6
<1> QED
  BY <1>2, <1>3, <1>7, <1>8, <1>9

\* The rows of a v1 request over gRPC: at most one for an event.
LEMMA KindStream ==
  ASSUME QueryTypes, IdsGrow, NEW query, IsFiniteSet(query), NEW clause,
         \A c \in query : clause[c].op \in Int,
         \A c, d \in query, e \in Event :
           /\ Selects(Operation(clause[c], NoAfter), e)
           /\ Selects(Operation(clause[d], NoAfter), e)
           => c = d
  PROVE  LET rs == RepositoryStream(Operations(ForKinds(query, clause)))
         IN /\ rs \in Seq(EnvelopeRow) /\ Ascending(rs)
            /\ \A k \in DOMAIN rs : \E n \in Own(Len(events)), c \in query :
                 Stems(rs[k], events[n]) /\ Selects(Operation(clause[c], NoAfter), events[n])
            /\ \A n \in Own(Len(events)), c \in query :
                 Selects(Operation(clause[c], NoAfter), events[n]) => events[n].id \in Ids(rs)
            /\ Len(Operations(ForKinds(query, clause))) = 0 <=> query = {}
<1> DEFINE in == ForKinds(query, clause)
           D  == DOMAIN in.clauses
           f  == SetToSeq(query)
           rs == RepositoryStream(Operations(in))
<1>1. /\ Keyed(D) /\ in.after = NoAfter
      /\ \A p \in D : f[p[1]] \in query /\ in.clauses[p] = clause[f[p[1]]]
      /\ \A d \in query : \E p \in D : f[p[1]] = d
      /\ \A p, s \in D : f[p[1]] = f[s[1]] => p = s
      /\ D = {} <=> query = {}
  BY ForKindsIs
<1> HIDE DEF in, f
<1>2. \A p \in D : in.clauses[p].op \in Int
  BY <1>1
<1>3. /\ rs \in Seq(EnvelopeRow)
      /\ \A k \in DOMAIN rs : \E n \in Own(Len(events)), p \in D : Picked(in, rs[k], n, p)
      /\ \A n \in Own(Len(events)), p \in D :
           Selects(Operation(in.clauses[p], in.after), events[n])
             => \E k \in DOMAIN rs : Picked(in, rs[k], n, p)
      /\ \A k, l \in DOMAIN rs :
           k < l => \E n, m \in Own(Len(events)), p, s \in D :
                      /\ Picked(in, rs[k], n, p) /\ Picked(in, rs[l], m, s)
                      /\ n < m \/ (n = m /\ Precedes(p, s))
  BY <1>1, <1>2, StreamIs
<1> HIDE DEF rs
<1>4. \A m \in Own(Len(events)) : events[m] \in Event
  BY EventsTyped, OwnIs
<1>5. \A x, n, p : p \in D /\ Picked(in, x, n, p) =>
        Stems(x, events[n]) /\ Selects(Operation(clause[f[p[1]]], NoAfter), events[n])
  BY <1>1 DEF Picked
<1>6. Ascending(rs)
  <2> SUFFICES ASSUME NEW k \in DOMAIN rs, NEW l \in DOMAIN rs, k < l PROVE rs[k].id < rs[l].id
    BY DEF Ascending
  <2>1. PICK n \in Own(Len(events)), m \in Own(Len(events)), p \in D, s \in D :
          /\ Picked(in, rs[k], n, p) /\ Picked(in, rs[l], m, s)
          /\ n < m \/ (n = m /\ Precedes(p, s))
    BY <1>3
  <2>2. rs[k].id = events[n].id /\ rs[l].id = events[m].id
    BY <2>1 DEF Picked, Stems
  <2>3. n < m
    <3> SUFFICES ASSUME n = m, Precedes(p, s) PROVE FALSE
      BY <2>1
    <3>1. f[p[1]] = f[s[1]]
      BY <1>1, <1>4, <1>5, <2>1
    <3>2. p = s /\ p[1] \in Int /\ p[2] \in Int
      BY <1>1, <3>1 DEF Keyed
    <3> QED
      BY <3>2 DEF Precedes
  <2> QED
    BY <2>2, <2>3 DEF IdsGrow
<1>7. \A k \in DOMAIN rs : \E n \in Own(Len(events)), c \in query :
        Stems(rs[k], events[n]) /\ Selects(Operation(clause[c], NoAfter), events[n])
  BY <1>1, <1>3, <1>5
<1>8. ASSUME NEW n \in Own(Len(events)), NEW c \in query,
             Selects(Operation(clause[c], NoAfter), events[n])
      PROVE  events[n].id \in Ids(rs)
  <2>1. PICK p \in D : f[p[1]] = c
    BY <1>1
  <2>2. PICK k \in DOMAIN rs : Picked(in, rs[k], n, p)
    BY <1>1, <1>3, <1>8, <2>1
  <2> QED
    BY <2>2 DEF Picked, Stems, Ids
<1>9. Len(Operations(in)) = 0 <=> query = {}
  BY <1>1, OperationsAre
<1> QED
  BY <1>3, <1>6, <1>7, <1>8, <1>9 DEF in, rs
-----------------------------------------------------------------------------
(* Replies *)

\* A reply has the first rows of a result, and all of them unless it is cut.
Partly(r, rs) ==
  /\ r.rows \in Seq(EnvelopeRow) /\ r.cut \in BOOLEAN
  /\ \A k \in DOMAIN r.rows : k \in DOMAIN rs /\ r.rows[k] = rs[k]
  /\ ~r.cut => r.rows = rs

\* The rows read before a connection breaks.
LEMMA UncheckedIs ==
  ASSUME NEW rs \in Seq(EnvelopeRow), NEW r \in Unchecked(rs)
  PROVE  r.error = "none" /\ Partly(r, rs)
<1>1. PICK n \in 0..Len(rs) : r = Reply(SubSeq(rs, 1, n), n < Len(rs))
  BY DEF Unchecked
<1> DEFINE s == SubSeq(rs, 1, n)
<1>2. /\ s \in Seq(EnvelopeRow) /\ DOMAIN s = 1..n /\ n \in Nat
      /\ \A k \in 1..n : s[k] = rs[k] /\ k \in DOMAIN rs
  OBVIOUS
<1>3. n = Len(rs) => s = rs
  BY SubSeqFull
<1>4. ~(n < Len(rs)) => s = rs
  BY <1>3
<1>5. r.rows = s /\ r.cut = (n < Len(rs)) /\ r.error = "none"
  BY <1>1 DEF Reply
<1> HIDE DEF s
<1>6. (n < Len(rs)) \in BOOLEAN
  OBVIOUS
<1> QED
  BY <1>2, <1>4, <1>5, <1>6 DEF Partly

\* A result that is looked at whole.
LEMMA WholeIs ==
  ASSUME NEW rs \in Seq(EnvelopeRow), NEW r \in Whole(rs)
  PROVE  r.error = "none" /\ Partly(r, rs) /\ ~r.cut
<1>1. r.rows = rs /\ r.cut = FALSE /\ r.error = "none"
  BY DEF Whole, Reply
<1> QED
  BY <1>1 DEF Partly

\* A call that fails answers with an error.
LEMMA MayFailIs ==
  ASSUME NEW replies, NEW r \in MayFail(replies)
  PROVE  r \in replies \/ r.error = "error"
<1>1. r \in replies \/ r = Failure("error")
  BY DEF MayFail
<1> QED
  BY <1>1 DEF Failure

\* A query over gRPC: refused when there is nothing to ask for.
LEMMA ReceiveIs ==
  ASSUME NEW in, RepositoryStream(Operations(in)) \in Seq(EnvelopeRow), NEW r \in Receive(in)
  PROVE  \/ r.error = "error"
         \/ r.error = "empty query" /\ Len(Operations(in)) = 0
         \/ r.error = "none" /\ Len(Operations(in)) # 0 /\ Partly(r, RepositoryStream(Operations(in)))
<1>1. r \in GrpcQuery(in) \/ r.error = "error"
  BY MayFailIs DEF Receive
<1>2. CASE r \in GrpcQuery(in) /\ Len(Operations(in)) = 0
  <2>1. r = Failure("empty query")
    BY <1>2 DEF GrpcQuery, BuildQueryOps
  <2> QED
    BY <1>2, <2>1 DEF Failure
<1>3. CASE r \in GrpcQuery(in) /\ Len(Operations(in)) # 0
  <2>1. r \in Unchecked(RepositoryStream(Operations(in)))
    BY <1>3 DEF GrpcQuery, BuildQueryOps
  <2> QED
    BY <1>3, <2>1, UncheckedIs
<1> QED
  BY <1>1, <1>2, <1>3

\* A part of a result is in the same order.
LEMMA PartlyOrdered ==
  ASSUME NEW rs, NEW r, Partly(r, rs)
  PROVE  /\ Ascending(rs) => Ascending(r.rows)
         /\ Sorted(rs) => Sorted(r.rows)
BY DEF Partly, Ascending, Sorted

\* A reply that goes on to be filtered by the caller.
LEMMA V1Asked ==
  ASSUME NEW c, NEW t, NEW S, NEW rs, NEW r, Partly(r, rs), Ascending(rs), FromStore(S, rs),
         \A e \in S : Due(c, t, e) => e.id \in Ids(rs)
  PROVE  V1Good(c, t, S, <<>>, <<>>, r.rows, ~r.cut)
<1>1. Ascending(r.rows)
  BY PartlyOrdered
<1>2. FromStore(S, r.rows)
  BY DEF Partly, FromStore
<1>3. ~r.cut => V1Whole(c, t, S, <<>>, <<>>, r.rows)
  BY DEF Partly, V1Whole
<1>4. DOMAIN <<>> = {}
  BY NoRows
<1>5. V1Order(<<>>, <<>>, r.rows)
  BY <1>1, <1>4 DEF V1Order, Ascending, Under
<1>6. V1Rows(c, t, S, <<>>, <<>>, r.rows)
  BY <1>2, <1>4 DEF V1Rows
<1> QED
  BY <1>3, <1>5, <1>6 DEF V1Good

\* A reply that is the answer.
LEMMA V1Answered ==
  ASSUME NEW c, NEW t, NEW S, NEW rs, NEW r, Partly(r, rs), Ascending(rs),
         \A k \in DOMAIN rs : \E e \in S : Stems(rs[k], e) /\ Pass(c, t, e),
         \A e \in S : Due(c, t, e) => e.id \in Ids(rs)
  PROVE  V1Good(c, t, S, <<>>, r.rows, <<>>, ~r.cut)
<1>1. Ascending(r.rows)
  BY PartlyOrdered
<1>2. \A k \in DOMAIN r.rows : \E e \in S : Stems(r.rows[k], e) /\ Pass(c, t, e)
  BY DEF Partly
<1>3. ~r.cut => V1Whole(c, t, S, <<>>, r.rows, <<>>)
  BY DEF Partly, V1Whole
<1>4. DOMAIN <<>> = {}
  BY NoRows
<1>5. V1Order(<<>>, r.rows, <<>>)
  BY <1>1, <1>4 DEF V1Order, Ascending, Under
<1>6. V1Rows(c, t, S, <<>>, r.rows, <<>>)
  BY <1>2, <1>4 DEF V1Rows, FromStore
<1> QED
  BY <1>3, <1>5, <1>6 DEF V1Good

\* The envelopes of the whole stream, of which the caller filters.
LEMMA BatchAsked ==
  ASSUME NEW q, NEW t, NEW S, NEW rs, NEW r, Partly(r, rs), Ascending(rs), FromStore(S, rs),
         \A e \in S : e.id \in Ids(rs)
  PROVE  BatchGood(q, t, S, <<>>, <<>>, r.rows, ~r.cut)
<1>1. Ascending(r.rows)
  BY PartlyOrdered
<1>2. FromStore(S, r.rows)
  BY DEF Partly, FromStore
<1>3. ~r.cut => BatchWhole(q, t, S, <<>>, <<>>, r.rows)
  BY DEF Partly, BatchWhole
<1>4. DOMAIN <<>> = {}
  BY NoRows
<1>5. BatchOrder(q, <<>>, <<>>, r.rows)
  BY <1>1, <1>4 DEF BatchOrder, Sorted, Under
<1>6. BatchRows(q, t, S, <<>>, <<>>, r.rows)
  BY <1>2, <1>4 DEF BatchRows, Fitting
<1> QED
  BY <1>3, <1>5, <1>6 DEF BatchGood

\* A reply that is to be dispatched.
LEMMA BatchAnswered ==
  ASSUME NEW q, NEW t, NEW S, NEW rs, NEW r, Partly(r, rs), Sorted(rs),
         \A k \in DOMAIN rs : \E e \in S : Carries(rs[k], q, t, e),
         \A e \in S, p \in Registered(q) :
           Fits(q, t, p, e) => \E k \in DOMAIN rs : rs[k].id = e.id /\ rs[k].op = Register(q, p)
  PROVE  BatchGood(q, t, S, <<>>, r.rows, <<>>, ~r.cut)
<1>1. Sorted(r.rows)
  BY PartlyOrdered
<1>2. \A k \in DOMAIN r.rows : \E e \in S : Carries(r.rows[k], q, t, e)
  BY DEF Partly
<1>3. ~r.cut => BatchWhole(q, t, S, <<>>, r.rows, <<>>)
  BY DEF Partly, BatchWhole
<1>4. DOMAIN <<>> = {}
  BY NoRows
<1>5. BatchOrder(q, <<>>, r.rows, <<>>)
  BY <1>1, <1>4 DEF BatchOrder, Ascending, Under
<1>6. BatchRows(q, t, S, <<>>, r.rows, <<>>)
  BY <1>2, <1>4 DEF BatchRows, Fitting, FromStore
<1> QED
  BY <1>3, <1>5, <1>6 DEF BatchGood

\* A reply that the watch walks through.
LEMMA WatchAsked ==
  ASSUME NEW q, NEW t, NEW S, NEW rs, NEW r, Partly(r, rs), Rising(rs), FromStore(S, rs),
         t # "memory" => \A k \in DOMAIN rs : \E e \in S : Carries(rs[k], q, t, e),
         \A e \in S, p \in Registered(q) : Fits(q, t, p, e) => e.id \in Ids(rs)
  PROVE  WatchGood(q, t, S, <<>>, <<>>, r.rows, ~r.cut)
<1>1. Rising(r.rows)
  BY DEF Partly, Rising
<1>2. /\ FromStore(S, r.rows)
      /\ t # "memory" => \A k \in DOMAIN r.rows : \E e \in S : Carries(r.rows[k], q, t, e)
  BY DEF Partly, FromStore
<1>3. ~r.cut => WatchWhole(q, t, S, <<>>, <<>>, r.rows)
  BY DEF Partly, WatchWhole
<1>4. DOMAIN <<>> = {}
  BY NoRows
<1>5. WatchOrder(<<>>, <<>>, r.rows)
  BY <1>1, <1>4 DEF WatchOrder, Ascending, Under
<1>6. WatchRows(q, t, S, <<>>, <<>>, r.rows)
  BY <1>2, <1>4 DEF WatchRows, Fitting
<1> QED
  BY <1>3, <1>5, <1>6 DEF WatchGood
-----------------------------------------------------------------------------
(* Asking *)

\* A call that a client may make.
CallOK(c) ==
  /\ c.api \in Dispatched \cup {"perform", "envelopes"}
  /\ c.api \in {"perform", "stream"} => c.v1 \in Builders
  /\ c.r2 \in Query2
  /\ c.api = "watch" => c.r2.ids = <<>>

\* No call is running before, and the whole store is seen.
LEMMA Asked ==
  ASSUME QueryInv, NEW c, CallOK(c), Ask(c)
  PROVE  /\ rows = <<>> /\ out = <<>> /\ outcome = "none"
         /\ call' = c /\ handled' = <<>> /\ seen' = Len(events)
         /\ transport' = transport /\ events' = events /\ transport \in Transport
         /\ IdsGrow' /\ Stored' = EventsOf(Len(events))
         /\ call'.api # "none" /\ seen' \in 0..Len(events')
<1>1. /\ pc = "idle" /\ call' = c /\ seen' = Len(events)
      /\ UNCHANGED <<transport, events, handled>>
  BY DEF Ask, catalogueVars
<1>2. rows = <<>> /\ out = <<>> /\ handled = <<>> /\ outcome = "none"
  BY <1>1 DEF QueryInv, Control
<1>3. transport \in Transport
  BY DEF QueryInv, QueryTypes
<1>4. Len(events) \in 0..Len(events)
  BY EventsTyped DEF QueryInv
<1>5. IdsGrow'
  <2>1. IdsGrow
    BY DEF QueryInv
  <2>2. Own(Len(events))' = Own(Len(events))
    BY <1>1 DEF Own
  <2> QED
    BY <1>1, <2>1, <2>2 DEF IdsGrow
<1>6. Stored' = EventsOf(Len(events))
  BY <1>1 DEF Stored, EventsOf, Own
<1>7. c.api # "none"
  BY DEF CallOK, Dispatched
<1> QED
  BY <1>1, <1>2, <1>3, <1>4, <1>5, <1>6, <1>7

\* The types after a call has been made.
LEMMA AskedTypes ==
  ASSUME QueryInv, NEW c, CallOK(c), Ask(c), rows' \in Seq(EnvelopeRow), out' \in Seq(EnvelopeRow),
         pc' \in {"filter", "dispatch", "done"}, cut' \in BOOLEAN,
         outcome' \in {"none", "ok", "empty query", "unsupported", "error"}
  PROVE  QueryTypes'
<1>1. /\ call' = c /\ handled' = <<>> /\ transport' = transport /\ events' = events
      /\ transport \in Transport /\ seen' \in 0..Len(events')
  BY Asked
<1>2. /\ transport' \in Transport /\ seen' \in 0..Len(events')
      /\ pc' \in {"idle", "filter", "dispatch", "done"}
      /\ outcome' \in {"none", "ok", "empty query", "unsupported", "handler error", "panic", "error"}
      /\ call'.api \in Dispatched \cup {"none", "perform", "envelopes"}
      /\ call'.api \in {"perform", "stream"} => call'.v1 \in Builders
      /\ call'.r2 \in Query2
  BY <1>1 DEF CallOK
<1>3. events' \in Seq(Event) /\ Len(events') <= MaxEvents
  BY <1>1, EventsTyped DEF QueryInv
<1>4. handled' \in Seq(Handling)
  BY <1>1, NoRows
<1> QED
  BY <1>2, <1>3, <1>4 DEF QueryTypes

\* A call that is refused.
LEMMA AskRefused ==
  ASSUME QueryInv, NEW c, CallOK(c), Ask(c), NEW o \in {"error", "empty query", "unsupported"},
         Refused(o),
         c.api = "perform" =>
           o # "unsupported" /\ (o = "empty query" => transport = "grpc" /\ DOMAIN c.v1 = {})
  PROVE  QueryInv'
<1>1. /\ rows = <<>> /\ out = <<>> /\ call' = c /\ handled' = <<>> /\ transport' = transport
      /\ IdsGrow' /\ call'.api # "none" /\ transport \in Transport
  BY Asked
<1>2. pc' = "done" /\ outcome' = o /\ cut' = FALSE /\ rows' = <<>> /\ out' = <<>>
  BY <1>1 DEF Refused, Returns
<1>3. QueryTypes'
  BY <1>2, NoRows, AskedTypes
<1>4. Control'
  BY <1>1, <1>2 DEF Control, CallOK
<1>5. Refusals'
  BY <1>1, <1>2 DEF Refusals
<1>6. ~Awaited' /\ outcome' # "panic"
  BY <1>2 DEF Awaited
<1>7. DOMAIN <<>> = {}
  BY NoRows
<1>8. V1Good(call, transport, Stored, handled, out, rows, Awaited)'
  BY <1>1, <1>2, <1>6, <1>7 DEF V1Good, V1Order, V1Rows, Ascending, Under, FromStore
<1>9. BatchGood(call.r2, transport, Stored, handled, out, rows, Awaited)'
  BY <1>1, <1>2, <1>6, <1>7 DEF BatchGood, BatchOrder, BatchRows, Ascending, Under, FromStore,
     Sorted, Fitting
<1>10. WatchGood(call.r2, transport, Stored, handled, out, rows, Awaited)'
  BY <1>1, <1>2, <1>6, <1>7 DEF WatchGood, WatchOrder, WatchRows, Ascending, Under, FromStore,
     Rising, Fitting
<1> QED
  BY <1>1, <1>3, <1>4, <1>5, <1>6, <1>8, <1>9, <1>10 DEF QueryInv, V1Inv, BatchInv, WatchInv

\* A call whose reply is filtered by the caller.
LEMMA AskFilters ==
  ASSUME QueryInv, NEW c, CallOK(c), Ask(c), NEW rs \in Seq(EnvelopeRow), ToFilter(rs),
         cut' \in BOOLEAN,
         cut' => transport # "memory" /\ (c.api \in {"perform", "stream"} => transport = "grpc"),
         c.api \in {"stream", "batch"} => transport = "memory",
         c.api = "watch" => transport # "rest",
         c.api \in {"perform", "stream", "envelopes"} =>
           V1Good(c, transport, EventsOf(Len(events)), <<>>, <<>>, rs, ~cut'),
         c.api = "batch" =>
           BatchGood(c.r2, transport, EventsOf(Len(events)), <<>>, <<>>, rs, ~cut'),
         c.api = "watch" =>
           WatchGood(c.r2, transport, EventsOf(Len(events)), <<>>, <<>>, rs, ~cut')
  PROVE  QueryInv'
<1>1. /\ rows = <<>> /\ out = <<>> /\ call' = c /\ handled' = <<>> /\ transport' = transport
      /\ IdsGrow' /\ call'.api # "none" /\ transport \in Transport /\ outcome = "none"
      /\ Stored' = EventsOf(Len(events))
  BY Asked
<1>2. pc' = "filter" /\ outcome' = "none" /\ rows' = rs /\ out' = <<>>
  BY <1>1 DEF ToFilter
<1>3. QueryTypes'
  BY <1>2, NoRows, AskedTypes
<1>4. Control'
  BY <1>1, <1>2 DEF Control, CallOK
<1>5. Refusals'
  BY <1>1, <1>2 DEF Refusals
<1>6. Awaited' <=> ~cut'
  BY <1>2 DEF Awaited
<1>7. V1Inv'
  BY <1>1, <1>2, <1>6 DEF V1Inv, V1Good
<1>8. BatchInv'
  BY <1>1, <1>2, <1>6 DEF BatchInv, BatchGood
<1>9. WatchInv'
  BY <1>1, <1>2, <1>6 DEF WatchInv, WatchGood
<1> QED
  BY <1>1, <1>3, <1>4, <1>5, <1>7, <1>8, <1>9 DEF QueryInv

\* A call whose reply is dispatched or returned.
LEMMA AskReplies ==
  ASSUME QueryInv, NEW c, CallOK(c), Ask(c), NEW rs \in Seq(EnvelopeRow), Replies(rs),
         cut' \in BOOLEAN,
         cut' => transport # "memory" /\ (c.api \in {"perform", "stream"} => transport = "grpc"),
         c.api \in {"perform", "stream", "batch"},
         c.api \in {"perform", "stream"} =>
           V1Good(c, transport, EventsOf(Len(events)), <<>>, rs, <<>>, ~cut'),
         c.api = "batch" =>
           BatchGood(c.r2, transport, EventsOf(Len(events)), <<>>, rs, <<>>, ~cut')
  PROVE  QueryInv'
<1>1. /\ rows = <<>> /\ out = <<>> /\ call' = c /\ handled' = <<>> /\ transport' = transport
      /\ IdsGrow' /\ call'.api # "none" /\ transport \in Transport /\ outcome = "none"
      /\ Stored' = EventsOf(Len(events))
  BY Asked
<1>2. /\ rows' = <<>> /\ out' = rs
      /\ IF c.api \in Dispatched THEN pc' = "dispatch" /\ outcome' = "none"
         ELSE pc' = "done" /\ outcome' = "ok"
  BY <1>1 DEF Replies, Returns
<1>3. QueryTypes'
  BY <1>2, NoRows, AskedTypes
<1>4. Control'
  BY <1>1, <1>2 DEF Control, CallOK
<1>5. Refusals'
  BY <1>1, <1>2 DEF Refusals, Dispatched
<1>6. (Awaited' <=> ~cut') /\ outcome' # "panic"
  BY <1>2 DEF Awaited
<1>7. V1Inv'
  BY <1>1, <1>2, <1>6 DEF V1Inv, V1Good
<1>8. BatchInv'
  BY <1>1, <1>2, <1>6 DEF BatchInv, BatchGood
<1>9. WatchInv'
  BY <1>1 DEF WatchInv
<1> QED
  BY <1>1, <1>3, <1>4, <1>5, <1>7, <1>8, <1>9 DEF QueryInv
-----------------------------------------------------------------------------
(* The calls of a client *)

\* What a call asks for; the rest is as in no call.
LEMMA NoCallIs ==
  /\ NoCall.r2 \in Query2
  /\ NoCall = [api |-> NoCall.api, v1 |-> NoCall.v1, r2 |-> NoCall.r2, ids |-> NoCall.ids]
<1>1. <<>> \in Seq(KindClause) /\ <<>> \in Seq(IDClause) /\ NoAfter \in Int
  BY DEF NoAfter
<1>2. [kinds |-> <<>>, ids |-> <<>>, after |-> NoAfter] \in Query2
  BY <1>1 DEF Query2
<1>3. NoCall.r2 = [kinds |-> <<>>, ids |-> <<>>, after |-> NoAfter]
  BY DEF NoCall
<1>4. NoCall = [api |-> NoCall.api, v1 |-> NoCall.v1, r2 |-> NoCall.r2, ids |-> NoCall.ids]
  BY DEF NoCall
<1> QED
  BY <1>2, <1>3, <1>4

\* A v1 query, a query2 query and a question for ids.
LEMMA CallsAre ==
  /\ \A q : LET c == [NoCall EXCEPT !.api = "perform", !.v1 = q]
            IN c.api = "perform" /\ c.v1 = q /\ c.r2 = NoCall.r2
  /\ \A q : LET c == [NoCall EXCEPT !.api = "stream", !.v1 = q]
            IN c.api = "stream" /\ c.v1 = q /\ c.r2 = NoCall.r2
  /\ \A q : LET c == [NoCall EXCEPT !.api = "batch", !.r2 = q]
            IN c.api = "batch" /\ c.r2 = q
  /\ \A q : LET c == [NoCall EXCEPT !.api = "watch", !.r2 = q]
            IN c.api = "watch" /\ c.r2 = q
  /\ \A ids : LET c == [NoCall EXCEPT !.api = "envelopes", !.ids = ids]
              IN c.api = "envelopes" /\ c.ids = ids /\ c.r2 = NoCall.r2
BY NoCallIs

\* The envelopes of the whole stream.
LEMMA AllListed ==
  ASSUME QueryTypes, IdsGrow
  PROVE  LET rs == Envelopes(Own(Len(events)))
             S  == EventsOf(Len(events))
         IN /\ rs \in Seq(EnvelopeRow) /\ Ascending(rs) /\ FromStore(S, rs)
            /\ \A e \in S : e.id \in Ids(rs)
BY EnvelopesAre DEF FromStore, EventsOf

\* In memory they are listed whole, or the call fails.
LEMMA MemoryLists ==
  ASSUME QueryTypes, IdsGrow, NEW r \in MemoryAllEnvelopes
  PROVE  \/ r.error = "error"
         \/ r.error = "none" /\ ~r.cut /\ Partly(r, Envelopes(Own(Len(events))))
<1>1. r \in Whole(Envelopes(Own(Len(events)))) \/ r.error = "error"
  BY MayFailIs DEF MemoryAllEnvelopes
<1> QED
  BY <1>1, AllListed, WholeIs

\* By SQL, by the in-memory log and by Perform itself: the constraints of a
\* query are satisfied by the same events.
LEMMA ConstraintsAre ==
  ASSUME NEW q \in Builders, NEW e \in Event
  PROVE  /\ (WireQuery(q) = {} \/ \E c \in WireQuery(q) : TranslateKindConstraint(c, e))
              <=> Suits(q, TRUE, e)
         /\ \A x : Stems(x, e) /\ GetEvent(x.id) = e.body =>
              (Filter(WireQuery(q), x) <=> Suits(q, TRUE, e))
<1>1. /\ WireQuery(q) = {} <=> DOMAIN q = {}
      /\ \A c \in WireQuery(q) :
           c.kind \in DOMAIN q /\ c.eq = q[c.kind].eq /\ c.match = q[c.kind].match
      /\ \A k \in DOMAIN q : \E c \in WireQuery(q) : c.kind = k
  BY WireQueryIs
<1>2. (WireQuery(q) = {} \/ \E c \in WireQuery(q) : TranslateKindConstraint(c, e))
        <=> Suits(q, TRUE, e)
  BY <1>1 DEF TranslateKindConstraint, Suits
<1>3. ASSUME NEW x, Stems(x, e), GetEvent(x.id) = e.body
      PROVE  Filter(WireQuery(q), x) <=> Suits(q, TRUE, e)
  <2>1. \A c \in WireQuery(q) :
          /\ (c.eq # {} => FilterMatchedProperties(c, GetEvent(x.id)))
               <=> \A p \in c.eq : p[1] \in DOMAIN e.body /\ e.body[p[1]] = p[2]
          /\ (c.match # {} => FilterSubsetMatch(c, GetEvent(x.id)))
               <=> \A sub \in c.match : JSONIsSubset(e.body, sub)
    BY <1>3 DEF FilterMatchedProperties, FilterSubsetMatch
  <2>2. x.kind = e.kind
    BY <1>3 DEF Stems
  <2> QED
    BY <1>1, <2>1, <2>2 DEF Filter, Suits
<1> QED
  BY <1>2, <1>3

\* The clauses of v1 queries have one number.
LEMMA TargetNumber == \A c : WholeKind(c).op \in Int /\ BatchClause(c).op \in Int
<1>1. \A by, kind, doc, id : Clause(by, kind, doc, id, TargetOp).op = TargetOp
  BY DEF Clause
<1>2. TargetOp \in Int
  BY DEF TargetOp
<1> QED
  BY <1>1, <1>2 DEF WholeKind, BatchClause

\* The clauses of a v1 query over gRPC: all events of a kind, or those with
\* a subset.
LEMMA V1ClausesAre ==
  ASSUME NEW q \in Builders, NEW c \in WireQuery(q), NEW e \in Event
  PROVE  /\ Selects(Operation(WholeKind(c), NoAfter), e) <=> e.kind = c.kind
         /\ Selects(Operation(BatchClause(c), NoAfter), e)
              <=> e.kind = c.kind /\ \A sub \in c.match : JSONIsSubset(e.body, sub)
<1>1. \A d : /\ Operation(d, NoAfter).clause = d /\ Operation(d, NoAfter).after = NoAfter
             /\ After(Operation(d, NoAfter), e)
  BY DEF Operation, After, NoAfter
<1>2. WholeKind(c).by = "kind" /\ WholeKind(c).kind = c.kind
  BY DEF WholeKind, Clause
<1>4. Selects(Operation(WholeKind(c), NoAfter), e) <=> e.kind = c.kind
  <2> DEFINE o == Operation(WholeKind(c), NoAfter)
  <2>1. o.clause.by = "kind" /\ o.clause.kind = c.kind /\ After(o, e)
    BY <1>1, <1>2
  <2> HIDE DEF o
  <2>2. Selects(o, e) <=> e.kind = c.kind
    BY <2>1 DEF Selects, EachKind
  <2> QED
    BY <2>2 DEF o
<1>5. c.match = {} => BatchClause(c) = WholeKind(c)
  BY DEF BatchClause
<1>6. ASSUME c.match # {}
      PROVE  Selects(Operation(BatchClause(c), NoAfter), e)
               <=> e.kind = c.kind /\ \A sub \in c.match : JSONIsSubset(e.body, sub)
  <2> DEFINE d == CHOOSE sub \in c.match : TRUE
             b == BatchClause(c)
             o == Operation(b, NoAfter)
  <2>1. d \in c.match
    BY <1>6
  <2>2. \A s, t \in c.match : s = t
    BY WireQueryIs, QueriesAssump
  <2>3. b = Clause("subset", c.kind, d, NoId, TargetOp)
    BY <1>6 DEF BatchClause
  <2> HIDE DEF d, b
  <2>4. b.by = "subset" /\ b.kind = c.kind
    BY <2>3, ZenonT(20) DEF Clause
  <2>5. b.doc = d
    BY <2>3, ZenonT(20) DEF Clause
  <2>7. o.clause = b /\ After(o, e)
    BY <1>1
  <2> HIDE DEF o
  <2>8. Selects(o, e) <=> e.kind = c.kind /\ JSONIsSubset(e.body, d)
    BY <2>4, <2>5, <2>7 DEF Selects, MatchSubset
  <2>9. JSONIsSubset(e.body, d) <=> \A sub \in c.match : JSONIsSubset(e.body, sub)
    BY <2>1, <2>2
  <2> QED
    BY <2>8, <2>9 DEF o, b
<1> QED
  BY <1>4, <1>5, <1>6

\* The rows of both v1 requests over gRPC.
LEMMA V1StreamIs ==
  ASSUME QueryTypes, IdsGrow, NEW q \in Builders
  PROVE  LET whole == RepositoryStream(Operations(BuildQueryRequest(WireQuery(q))))
             some  == RepositoryStream(Operations(QueryBatchRequest(WireQuery(q))))
             S     == EventsOf(Len(events))
         IN /\ whole \in Seq(EnvelopeRow) /\ Ascending(whole) /\ FromStore(S, whole)
            /\ \A e \in S : e.kind \in DOMAIN q => e.id \in Ids(whole)
            /\ some \in Seq(EnvelopeRow) /\ Ascending(some)
            /\ \A k \in DOMAIN some : \E e \in S :
                 Stems(some[k], e) /\ e.kind \in DOMAIN q /\ Suits(q, FALSE, e)
            /\ \A e \in S : e.kind \in DOMAIN q /\ Suits(q, FALSE, e) => e.id \in Ids(some)
            /\ Len(Operations(BuildQueryRequest(WireQuery(q)))) = 0 <=> DOMAIN q = {}
            /\ Len(Operations(QueryBatchRequest(WireQuery(q)))) = 0 <=> DOMAIN q = {}
<1> DEFINE query == WireQuery(q)
           each  == [c \in query |-> WholeKind(c)]
           sub   == [c \in query |-> BatchClause(c)]
           whole == RepositoryStream(Operations(ForKinds(query, each)))
           some  == RepositoryStream(Operations(ForKinds(query, sub)))
           S     == EventsOf(Len(events))
<1>1. /\ IsFiniteSet(query) /\ (query = {} <=> DOMAIN q = {})
      /\ \A c \in query : c.kind \in DOMAIN q /\ c.match = q[c.kind].match
      /\ \A k \in DOMAIN q : \E c \in query : c.kind = k
      /\ \A c, d \in query : c.kind = d.kind => c = d
  BY WireQueryIs
<1>2. \A n \in Own(Len(events)) : events[n] \in Event
  BY EventsTyped, OwnIs
<1>3. \A c \in query, e \in Event :
        /\ Selects(Operation(each[c], NoAfter), e) <=> e.kind = c.kind
        /\ Selects(Operation(sub[c], NoAfter), e)
             <=> e.kind = c.kind /\ \A s \in c.match : JSONIsSubset(e.body, s)
  BY V1ClausesAre
<1>4. \A c \in query, e \in Event :
        Selects(Operation(sub[c], NoAfter), e) <=> e.kind = c.kind /\ Suits(q, FALSE, e)
  BY <1>1, <1>3 DEF Suits
<1> HIDE DEF query, each, sub
<1>5. \A c, d \in query, e \in Event :
        /\ Selects(Operation(each[c], NoAfter), e) /\ Selects(Operation(each[d], NoAfter), e) => c = d
        /\ Selects(Operation(sub[c], NoAfter), e) /\ Selects(Operation(sub[d], NoAfter), e) => c = d
  BY <1>1, <1>3
<1>6. \A c \in query : each[c].op \in Int /\ sub[c].op \in Int
  BY TargetNumber DEF query, each, sub
<1>7. /\ whole \in Seq(EnvelopeRow) /\ Ascending(whole)
      /\ \A k \in DOMAIN whole : \E n \in Own(Len(events)), c \in query :
           Stems(whole[k], events[n]) /\ Selects(Operation(each[c], NoAfter), events[n])
      /\ \A n \in Own(Len(events)), c \in query :
           Selects(Operation(each[c], NoAfter), events[n]) => events[n].id \in Ids(whole)
      /\ Len(Operations(ForKinds(query, each))) = 0 <=> query = {}
  BY <1>1, <1>5, <1>6, KindStream
<1>8. /\ some \in Seq(EnvelopeRow) /\ Ascending(some)
      /\ \A k \in DOMAIN some : \E n \in Own(Len(events)), c \in query :
           Stems(some[k], events[n]) /\ Selects(Operation(sub[c], NoAfter), events[n])
      /\ \A n \in Own(Len(events)), c \in query :
           Selects(Operation(sub[c], NoAfter), events[n]) => events[n].id \in Ids(some)
      /\ Len(Operations(ForKinds(query, sub))) = 0 <=> query = {}
  BY <1>1, <1>5, <1>6, KindStream
<1> HIDE DEF whole, some
<1>9. FromStore(S, whole) /\ \A e \in S : e.kind \in DOMAIN q => e.id \in Ids(whole)
  <2>1. FromStore(S, whole)
    BY <1>7 DEF FromStore, EventsOf
  <2>2. ASSUME NEW e \in S, e.kind \in DOMAIN q PROVE e.id \in Ids(whole)
    <3>1. PICK n \in Own(Len(events)) : e = events[n]
      BY DEF EventsOf
    <3>2. PICK c \in query : c.kind = e.kind
      BY <1>1, <2>2
    <3> QED
      BY <1>2, <1>3, <1>7, <3>1, <3>2
  <2> QED
    BY <2>1, <2>2
<1>10. \A k \in DOMAIN some : \E e \in S :
         Stems(some[k], e) /\ e.kind \in DOMAIN q /\ Suits(q, FALSE, e)
  <2> SUFFICES ASSUME NEW k \in DOMAIN some
               PROVE  \E e \in S : Stems(some[k], e) /\ e.kind \in DOMAIN q /\ Suits(q, FALSE, e)
    OBVIOUS
  <2>1. PICK n \in Own(Len(events)), c \in query :
          Stems(some[k], events[n]) /\ Selects(Operation(sub[c], NoAfter), events[n])
    BY <1>8
  <2>2. events[n].kind = c.kind /\ Suits(q, FALSE, events[n]) /\ events[n] \in S
    BY <1>2, <1>4, <2>1 DEF EventsOf
  <2> QED
    BY <1>1, <2>1, <2>2
<1>11. ASSUME NEW e \in S, e.kind \in DOMAIN q, Suits(q, FALSE, e) PROVE e.id \in Ids(some)
  <2>1. PICK n \in Own(Len(events)) : e = events[n]
    BY DEF EventsOf
  <2>2. PICK c \in query : c.kind = e.kind
    BY <1>1, <1>11
  <2> QED
    BY <1>2, <1>4, <1>8, <1>11, <2>1, <2>2
<1>12. /\ BuildQueryRequest(WireQuery(q)) = ForKinds(query, each)
       /\ QueryBatchRequest(WireQuery(q)) = ForKinds(query, sub)
  BY DEF BuildQueryRequest, QueryBatchRequest, query, each, sub
<1> QED
  BY <1>1, <1>7, <1>8, <1>9, <1>10, <1>11, <1>12 DEF whole, some, query

\* The events that a query selects in SQL.
LEMMA TranslatedIs ==
  ASSUME QueryTypes, IdsGrow, NEW q \in Builders
  PROVE  LET rs == Envelopes(TranslateQuery(WireQuery(q)))
             S  == EventsOf(Len(events))
         IN /\ rs \in Seq(EnvelopeRow) /\ Ascending(rs)
            /\ \A k \in DOMAIN rs : \E e \in S : Stems(rs[k], e) /\ Suits(q, TRUE, e)
            /\ \A e \in S : Suits(q, TRUE, e) => e.id \in Ids(rs)
<1> DEFINE ns == TranslateQuery(WireQuery(q))
           rs == Envelopes(ns)
           S  == EventsOf(Len(events))
<1>1. \A n \in Own(Len(events)) : events[n] \in Event
  BY EventsTyped, OwnIs
<1>2. ns \subseteq Own(Len(events)) /\ \A n \in Own(Len(events)) : n \in ns <=> Suits(q, TRUE, events[n])
  BY <1>1, ConstraintsAre DEF TranslateQuery
<1> HIDE DEF ns
<1>3. /\ rs \in Seq(EnvelopeRow) /\ Ascending(rs)
      /\ \A k \in DOMAIN rs : \E n \in ns : Stems(rs[k], events[n])
      /\ \A n \in ns : events[n].id \in Ids(rs)
  BY <1>2, EnvelopesAre
<1> HIDE DEF rs
<1>4. \A k \in DOMAIN rs : \E e \in S : Stems(rs[k], e) /\ Suits(q, TRUE, e)
  BY <1>2, <1>3 DEF EventsOf
<1>5. \A e \in S : Suits(q, TRUE, e) => e.id \in Ids(rs)
  BY <1>2, <1>3 DEF EventsOf
<1> QED
  BY <1>3, <1>4, <1>5 DEF rs, ns

\* The routes of REST that look at the whole result.
LEMMA PostIs ==
  ASSUME NEW rs \in Seq(EnvelopeRow), NEW r \in Post(MayFail(Whole(rs)))
  PROVE  r.error = "error" \/ (r.error = "none" /\ ~r.cut /\ Partly(r, rs))
<1>1. r \in MayFail(Whole(rs)) \/ r.error = "error"
  BY MayFailIs DEF Post
<1>2. r \in Whole(rs) \/ r.error = "error"
  BY <1>1, MayFailIs
<1> QED
  BY <1>2, WholeIs

\* In memory every call goes through the whole stream.
LEMMA MemoryAsked ==
  ASSUME QueryInv, NEW c, CallOK(c), Ask(c), transport = "memory",
         NEW r \in MemoryAllEnvelopes, Given(r, ToFilter(r.rows))
  PROVE  QueryInv'
<1> DEFINE S  == EventsOf(Len(events))
           rs == Envelopes(Own(Len(events)))
<1>1. QueryTypes /\ IdsGrow
  BY DEF QueryInv
<1>2. /\ rs \in Seq(EnvelopeRow) /\ Ascending(rs) /\ FromStore(S, rs)
      /\ \A e \in S : e.id \in Ids(rs)
  BY <1>1, AllListed
<1>3. r.error = "error" \/ (r.error = "none" /\ ~r.cut /\ Partly(r, rs))
  BY <1>1, MemoryLists
<1> HIDE DEF rs, S
<1>4. CASE r.error # "none"
  <2>1. Refused("error")
    BY <1>3, <1>4 DEF Given
  <2> QED
    BY <2>1, AskRefused
<1>5. CASE r.error = "none"
  <2>1. ToFilter(r.rows) /\ cut' = r.cut
    BY <1>5 DEF Given
  <2>2. r.rows \in Seq(EnvelopeRow) /\ r.cut \in BOOLEAN /\ Partly(r, rs) /\ ~r.cut
    BY <1>3, <1>5 DEF Partly
  <2>3. V1Good(c, transport, S, <<>>, <<>>, r.rows, ~cut')
    BY <1>2, <2>1, <2>2, V1Asked
  <2>4. BatchGood(c.r2, transport, S, <<>>, <<>>, r.rows, ~cut')
    BY <1>2, <2>1, <2>2, BatchAsked
  <2>5. WatchGood(c.r2, transport, S, <<>>, <<>>, r.rows, ~cut')
    <3>0. \A k \in DOMAIN rs : rs[k].id \in Int
      BY <1>2, Numbers
    <3>1. Rising(rs)
      BY <1>2, <3>0 DEF Ascending, Rising
    <3> QED
      BY <1>2, <2>1, <2>2, <3>1, WatchAsked
  <2> QED
    BY <2>1, <2>2, <2>3, <2>4, <2>5, AskFilters DEF S
<1> QED
  BY <1>4, <1>5

\* Perform keeps the invariant.
LEMMA PerformKeeps ==
  ASSUME QueryInv, NEW q \in Builders, Perform(q)
  PROVE  QueryInv'
<1> DEFINE c == [NoCall EXCEPT !.api = "perform", !.v1 = q]
           query == WireQuery(q)
           S  == EventsOf(Len(events))
<1>1. c.api = "perform" /\ c.v1 = q /\ CallOK(c)
  BY CallsAre, NoCallIs DEF CallOK, Dispatched
<1>2. Ask(c) /\ QueryTypes /\ IdsGrow /\ transport \in Transport
  BY DEF Perform, QueryInv, QueryTypes
<1>3. \A e : /\ Pass(c, transport, e) <=> Suits(q, TRUE, e)
             /\ Due(c, transport, e) <=> Suits(q, TRUE, e)
  BY <1>1 DEF Pass, Due
<1>4. CASE transport = "grpc"
  <2> DEFINE in == BuildQueryRequest(query)
             rs == RepositoryStream(Operations(in))
  <2>1. PICK r \in Receive(in) : Given(r, PerformGrpc(r.rows))
    BY <1>4 DEF Perform
  <2>2. /\ rs \in Seq(EnvelopeRow) /\ Ascending(rs) /\ FromStore(S, rs)
        /\ \A e \in S : e.kind \in DOMAIN q => e.id \in Ids(rs)
        /\ Len(Operations(in)) = 0 <=> DOMAIN q = {}
    BY <1>2, V1StreamIs
  <2>3. \/ r.error = "error"
        \/ r.error = "empty query" /\ DOMAIN q = {}
        \/ r.error = "none" /\ DOMAIN q # {} /\ Partly(r, rs)
    BY <2>2, ReceiveIs
  <2> HIDE DEF c, in, rs, query, S
  <2>4. CASE r.error # "none"
    <3>1. Refused(r.error)
      BY <2>1, <2>4 DEF Given
    <3> QED
      BY <1>1, <1>2, <1>4, <2>3, <2>4, <3>1, AskRefused
  <2>5. CASE r.error = "none"
    <3>1. ToFilter(r.rows) /\ cut' = r.cut
      BY <2>1, <2>5 DEF Given, PerformGrpc
    <3>2. r.rows \in Seq(EnvelopeRow) /\ r.cut \in BOOLEAN /\ Partly(r, rs) /\ DOMAIN q # {}
      BY <2>3, <2>5 DEF Partly
    <3>3. \A e \in S : Due(c, transport, e) => e.id \in Ids(rs)
      BY <1>3, <2>2, <3>2 DEF Suits
    <3>4. V1Good(c, transport, S, <<>>, <<>>, r.rows, ~cut')
      BY <2>2, <3>1, <3>2, <3>3, V1Asked
    <3> QED
      BY <1>1, <1>2, <1>4, <3>1, <3>2, <3>4, AskFilters DEF S
  <2> QED
    BY <2>4, <2>5
<1>5. CASE transport = "rest"
  <2> DEFINE rs == Envelopes(TranslateQuery(query))
  <2>1. PICK r \in Post(V1QueryRoute(query)) : Given(r, Replies(r.rows))
    BY <1>5 DEF Perform
  <2>2. /\ rs \in Seq(EnvelopeRow) /\ Ascending(rs)
        /\ \A k \in DOMAIN rs : \E e \in S : Stems(rs[k], e) /\ Suits(q, TRUE, e)
        /\ \A e \in S : Suits(q, TRUE, e) => e.id \in Ids(rs)
    BY <1>2, TranslatedIs
  <2>3. r.error = "error" \/ (r.error = "none" /\ ~r.cut /\ Partly(r, rs))
    BY <2>2, PostIs DEF V1QueryRoute, ApplyQuery
  <2> HIDE DEF c, rs, query, S
  <2>4. CASE r.error # "none"
    <3>1. Refused("error")
      BY <2>1, <2>3, <2>4 DEF Given
    <3> QED
      BY <1>1, <1>2, <3>1, AskRefused
  <2>5. CASE r.error = "none"
    <3>1. Replies(r.rows) /\ cut' = r.cut
      BY <2>1, <2>5 DEF Given
    <3>2. r.rows \in Seq(EnvelopeRow) /\ r.cut \in BOOLEAN /\ Partly(r, rs) /\ ~r.cut
      BY <2>3, <2>5 DEF Partly
    <3>4. V1Good(c, transport, S, <<>>, r.rows, <<>>, ~cut')
      BY <1>3, <2>2, <3>1, <3>2, V1Answered
    <3> QED
      BY <1>1, <1>2, <1>5, <3>1, <3>2, <3>4, AskReplies DEF S
  <2> QED
    BY <2>4, <2>5
<1>6. CASE transport = "memory"
  <2>1. PICK r \in MemoryAllEnvelopes : Given(r, ToFilter(r.rows))
    BY <1>6 DEF Perform
  <2> HIDE DEF c
  <2> QED
    BY <1>1, <1>2, <1>6, <2>1, MemoryAsked
<1> QED
  BY <1>2, <1>4, <1>5, <1>6 DEF Transport

\* QueryBuilder.Stream keeps the invariant.
LEMMA StreamKeeps ==
  ASSUME QueryInv, NEW q \in Builders, StreamQuery(q)
  PROVE  QueryInv'
<1> DEFINE c == [NoCall EXCEPT !.api = "stream", !.v1 = q]
           query == WireQuery(q)
           S  == EventsOf(Len(events))
<1>1. c.api = "stream" /\ c.v1 = q /\ CallOK(c)
  BY CallsAre, NoCallIs DEF CallOK, Dispatched
<1>2. Ask(c) /\ QueryTypes /\ IdsGrow /\ transport \in Transport
  BY DEF StreamQuery, QueryInv, QueryTypes
<1>3. \A e : /\ Pass(c, transport, e) <=> Suits(q, transport # "grpc", e)
             /\ Due(c, transport, e) => Suits(q, transport # "grpc", e) /\ e.kind \in DOMAIN q
  BY <1>1 DEF Pass, Due
<1>4. CASE transport = "grpc"
  <2> DEFINE in == QueryBatchRequest(query)
             rs == RepositoryStream(Operations(in))
  <2>1. PICK r \in Receive(in) : Given(r, Replies(r.rows))
    BY <1>4 DEF StreamQuery
  <2>2. /\ rs \in Seq(EnvelopeRow) /\ Ascending(rs)
        /\ \A k \in DOMAIN rs : \E e \in S :
             Stems(rs[k], e) /\ e.kind \in DOMAIN q /\ Suits(q, FALSE, e)
        /\ \A e \in S : e.kind \in DOMAIN q /\ Suits(q, FALSE, e) => e.id \in Ids(rs)
    BY <1>2, V1StreamIs
  <2>3. \/ r.error \in {"error", "empty query"}
        \/ r.error = "none" /\ Partly(r, rs)
    BY <2>2, ReceiveIs
  <2>6. (transport # "grpc") = FALSE
    BY <1>4
  <2> HIDE DEF c, in, rs, query, S
  <2>4. CASE r.error # "none"
    <3>1. Refused(r.error)
      BY <2>1, <2>4 DEF Given
    <3> QED
      BY <1>1, <1>2, <2>3, <2>4, <3>1, AskRefused
  <2>5. CASE r.error = "none"
    <3>1. Replies(r.rows) /\ cut' = r.cut
      BY <2>1, <2>5 DEF Given
    <3>2. r.rows \in Seq(EnvelopeRow) /\ r.cut \in BOOLEAN /\ Partly(r, rs)
      BY <2>3, <2>5 DEF Partly
    <3>3. /\ \A k \in DOMAIN rs : \E e \in S : Stems(rs[k], e) /\ Pass(c, transport, e)
          /\ \A e \in S : Due(c, transport, e) => e.id \in Ids(rs)
      BY <1>3, <2>2, <2>6
    <3>4. V1Good(c, transport, S, <<>>, r.rows, <<>>, ~cut')
      BY <2>2, <3>1, <3>2, <3>3, V1Answered
    <3> QED
      BY <1>1, <1>2, <1>4, <3>1, <3>2, <3>4, AskReplies DEF S
  <2> QED
    BY <2>4, <2>5
<1>5. CASE transport = "rest"
  <2> DEFINE rs == Envelopes(TranslateQuery(query))
  <2>1. PICK r \in Post(V1QueryBatchRoute(query)) : Given(r, Replies(r.rows))
    BY <1>5 DEF StreamQuery
  <2>2. /\ rs \in Seq(EnvelopeRow) /\ Ascending(rs)
        /\ \A k \in DOMAIN rs : \E e \in S : Stems(rs[k], e) /\ Suits(q, TRUE, e)
        /\ \A e \in S : Suits(q, TRUE, e) => e.id \in Ids(rs)
    BY <1>2, TranslatedIs
  <2>3. r.error = "error" \/ (r.error = "none" /\ ~r.cut /\ Partly(r, rs))
    BY <2>2, PostIs DEF V1QueryBatchRoute, ApplyQuery
  <2>6. (transport # "grpc") = TRUE
    BY <1>5
  <2> HIDE DEF c, rs, query, S
  <2>4. CASE r.error # "none"
    <3>1. Refused("error")
      BY <2>1, <2>3, <2>4 DEF Given
    <3> QED
      BY <1>1, <1>2, <3>1, AskRefused
  <2>5. CASE r.error = "none"
    <3>1. Replies(r.rows) /\ cut' = r.cut
      BY <2>1, <2>5 DEF Given
    <3>2. r.rows \in Seq(EnvelopeRow) /\ r.cut \in BOOLEAN /\ Partly(r, rs) /\ ~r.cut
      BY <2>3, <2>5 DEF Partly
    <3>3. /\ \A k \in DOMAIN rs : \E e \in S : Stems(rs[k], e) /\ Pass(c, transport, e)
          /\ \A e \in S : Due(c, transport, e) => e.id \in Ids(rs)
      BY <1>3, <2>2, <2>6
    <3>4. V1Good(c, transport, S, <<>>, r.rows, <<>>, ~cut')
      BY <2>2, <3>1, <3>2, <3>3, V1Answered
    <3> QED
      BY <1>1, <1>2, <1>5, <3>1, <3>2, <3>4, AskReplies DEF S
  <2> QED
    BY <2>4, <2>5
<1>6. CASE transport = "memory"
  <2>1. PICK r \in MemoryAllEnvelopes : Given(r, ToFilter(r.rows))
    BY <1>6 DEF StreamQuery
  <2> HIDE DEF c
  <2> QED
    BY <1>1, <1>2, <1>6, <2>1, MemoryAsked
<1> QED
  BY <1>2, <1>4, <1>5, <1>6 DEF Transport

\* The clause for all events of a stream.
LEMMA AllClause ==
  ASSUME QueryTypes, IdsGrow
  PROVE  LET in == Request([p \in {<<1, 0>>} |-> Clause("all", "", <<>>, NoId, TargetOp)], NoAfter, FALSE)
             rs == RepositoryStream(Operations(in))
             S  == EventsOf(Len(events))
         IN /\ rs \in Seq(EnvelopeRow) /\ Ascending(rs) /\ FromStore(S, rs)
            /\ \A e \in S : e.id \in Ids(rs)
<1> DEFINE in == Request([p \in {<<1, 0>>} |-> Clause("all", "", <<>>, NoId, TargetOp)], NoAfter, FALSE)
           D  == {<<1, 0>>}
           cl == Clause("all", "", <<>>, NoId, TargetOp)
           rs == RepositoryStream(Operations(in))
           S  == EventsOf(Len(events))
<1>1. DOMAIN in.clauses = D /\ in.clauses[<<1, 0>>] = cl /\ in.after = NoAfter
  BY DEF Request
<1>2. cl.by = "all" /\ cl.op = TargetOp /\ TargetOp \in Int
  BY DEF Clause, TargetOp
<1> HIDE DEF in, cl
<1>3. Keyed(D)
  <2>1. IsFiniteSet(D)
    BY FS_Singleton
  <2>2. \A p \in D : p[1] \in Int /\ p[2] \in Int
    OBVIOUS
  <2>3. \A p, s \in D : p = s
    OBVIOUS
  <2> QED
    BY <2>1, <2>2, <2>3 DEF Keyed
<1>4. \A e : Selects(Operation(cl, NoAfter), e)
  <2> SUFFICES ASSUME NEW e PROVE Selects(Operation(cl, NoAfter), e)
    OBVIOUS
  <2> DEFINE o == Operation(cl, NoAfter)
  <2>1. o.clause.by = "all" /\ After(o, e)
    BY <1>2 DEF Operation, After, NoAfter
  <2> HIDE DEF o
  <2>2. Selects(o, e)
    BY <2>1 DEF Selects, AllStreamEvents
  <2> QED
    BY <2>2 DEF o
<1>5. \A p \in D : p = <<1, 0>>
  OBVIOUS
<1>6. <<1, 0>> \in D /\ ~Precedes(<<1, 0>>, <<1, 0>>)
  BY DEF Precedes
<1> HIDE DEF D
<1>7. /\ rs \in Seq(EnvelopeRow)
      /\ \A k \in DOMAIN rs : \E n \in Own(Len(events)), p \in D : Picked(in, rs[k], n, p)
      /\ \A n \in Own(Len(events)), p \in D :
           Selects(Operation(in.clauses[p], in.after), events[n])
             => \E k \in DOMAIN rs : Picked(in, rs[k], n, p)
      /\ \A k, l \in DOMAIN rs :
           k < l => \E n, m \in Own(Len(events)), p, s \in D :
                      /\ Picked(in, rs[k], n, p) /\ Picked(in, rs[l], m, s)
                      /\ n < m \/ (n = m /\ Precedes(p, s))
  BY <1>1, <1>2, <1>3, <1>5, StreamIs
<1> HIDE DEF rs
<1>8. Ascending(rs)
  <2> SUFFICES ASSUME NEW k \in DOMAIN rs, NEW l \in DOMAIN rs, k < l PROVE rs[k].id < rs[l].id
    BY DEF Ascending
  <2>1. PICK n \in Own(Len(events)), m \in Own(Len(events)), p \in D, s \in D :
          /\ Picked(in, rs[k], n, p) /\ Picked(in, rs[l], m, s)
          /\ n < m \/ (n = m /\ Precedes(p, s))
    BY <1>7
  <2>2. rs[k].id = events[n].id /\ rs[l].id = events[m].id
    BY <2>1 DEF Picked, Stems
  <2>3. n < m
    BY <1>5, <1>6, <2>1
  <2> QED
    BY <2>2, <2>3 DEF IdsGrow
<1>9. FromStore(S, rs)
  BY <1>7 DEF FromStore, EventsOf, Picked
<1>10. ASSUME NEW e \in S PROVE e.id \in Ids(rs)
  <2>1. PICK n \in Own(Len(events)) : e = events[n]
    BY DEF EventsOf
  <2>2. \E k \in DOMAIN rs : Picked(in, rs[k], n, <<1, 0>>)
    BY <1>1, <1>4, <1>6, <1>7
  <2> QED
    BY <2>1, <2>2 DEF Picked, Stems, Ids
<1> QED
  BY <1>7, <1>8, <1>9, <1>10 DEF rs, in, cl

\* EnvelopesFor keeps the invariant.
LEMMA EnvelopesKeep ==
  ASSUME QueryInv, NEW ids, EnvelopesFor(ids)
  PROVE  QueryInv'
<1> DEFINE c == [NoCall EXCEPT !.api = "envelopes", !.ids = ids]
           S == EventsOf(Len(events))
<1>1. c.api = "envelopes" /\ CallOK(c)
  BY CallsAre, NoCallIs DEF CallOK, Dispatched
<1>2. Ask(c) /\ QueryTypes /\ IdsGrow /\ transport \in Transport
  BY DEF EnvelopesFor, QueryInv, QueryTypes
<1>3. PICK r \in AllEnvelopes : Given(r, ToFilter(r.rows))
  BY DEF EnvelopesFor
<1> HIDE DEF c
<1>4. CASE transport = "memory"
  BY <1>1, <1>2, <1>3, <1>4, MemoryAsked DEF AllEnvelopes
<1>5. CASE transport # "memory"
  <2> HIDE DEF S
  <2>1. \E rs : /\ rs \in Seq(EnvelopeRow) /\ Ascending(rs) /\ FromStore(S, rs)
                /\ \A e \in S : e.id \in Ids(rs)
                /\ r.error \in {"error", "empty query"} \/ (r.error = "none" /\ Partly(r, rs))
    <3>1. CASE transport = "grpc"
      <4> DEFINE in == Request([p \in {<<1, 0>>} |-> Clause("all", "", <<>>, NoId, TargetOp)],
                               NoAfter, FALSE)
                 rs == RepositoryStream(Operations(in))
      <4>1. /\ rs \in Seq(EnvelopeRow) /\ Ascending(rs) /\ FromStore(S, rs)
            /\ \A e \in S : e.id \in Ids(rs)
        BY <1>2, AllClause DEF S
      <4>2. r \in Receive(in)
        BY <1>3, <3>1 DEF AllEnvelopes, GrpcAllEnvelopes
      <4> HIDE DEF in
      <4>3. r.error \in {"error", "empty query"} \/ (r.error = "none" /\ Partly(r, rs))
        BY <4>1, <4>2, ReceiveIs
      <4> QED
        BY <4>1, <4>3
    <3>2. CASE transport = "rest"
      <4> DEFINE rs == Envelopes(Own(Len(events)))
      <4>1. /\ rs \in Seq(EnvelopeRow) /\ Ascending(rs) /\ FromStore(S, rs)
            /\ \A e \in S : e.id \in Ids(rs)
        BY <1>2, AllListed DEF S
      <4>2. r \in Get(V1QueryAllEnvelopes)
        BY <1>3, <3>2 DEF AllEnvelopes
      <4>3. r \in Unchecked(rs) \/ r.error = "error"
        BY <4>2, MayFailIs DEF Get, V1QueryAllEnvelopes, ReplayMeta
      <4> HIDE DEF rs
      <4>4. r.error = "error" \/ (r.error = "none" /\ Partly(r, rs))
        BY <4>1, <4>3, UncheckedIs
      <4> QED
        BY <4>1, <4>4
    <3> QED
      BY <1>2, <1>5, <3>1, <3>2 DEF Transport
  <2>2. PICK rs : /\ rs \in Seq(EnvelopeRow) /\ Ascending(rs) /\ FromStore(S, rs)
                  /\ \A e \in S : e.id \in Ids(rs)
                  /\ r.error \in {"error", "empty query"} \/ (r.error = "none" /\ Partly(r, rs))
    BY <2>1
  <2>3. CASE r.error # "none"
    <3>1. Refused(r.error)
      BY <1>3, <2>3 DEF Given
    <3> QED
      BY <1>1, <1>2, <2>2, <2>3, <3>1, AskRefused
  <2>4. CASE r.error = "none"
    <3>1. ToFilter(r.rows) /\ cut' = r.cut
      BY <1>3, <2>4 DEF Given
    <3>2. r.rows \in Seq(EnvelopeRow) /\ r.cut \in BOOLEAN /\ Partly(r, rs)
      BY <2>2, <2>4 DEF Partly
    <3>3. V1Good(c, transport, S, <<>>, <<>>, r.rows, ~cut')
      BY <2>2, <3>1, <3>2, V1Asked
    <3> QED
      BY <1>1, <1>2, <1>5, <3>1, <3>2, <3>3, AskFilters DEF S
  <2> QED
    BY <2>3, <2>4
<1> QED
  BY <1>4, <1>5

\* The number of a clause is that of its handler.
LEMMA ClauseNumbers ==
  ASSUME NEW q \in Query2
  PROVE  LET in == BuildBatchRequest(q)
         IN /\ DOMAIN in.clauses = Registered(q) /\ in.after = q.after
            /\ \A p \in Registered(q) : in.clauses[p].op = Register(q, p)
            /\ in.empty <=> q.kinds = <<>> /\ q.ids = <<>>
<1> DEFINE in == BuildBatchRequest(q)
<1>1. /\ DOMAIN in.clauses = Registered(q) /\ in.after = q.after
      /\ \A p \in Registered(q) : in.clauses[p] = Prepare(q, p)
  BY DEF BuildBatchRequest, Request
<1>2. in.empty <=> q.kinds = <<>> /\ q.ids = <<>>
  BY DEF BuildBatchRequest, Request
<1>3. \A p : Prepare(q, p).op = Register(q, p)
  <2> SUFFICES ASSUME NEW p PROVE Prepare(q, p).op = Register(q, p)
    OBVIOUS
  <2>1. PrepareID(q, p).op = Register(q, p)
    BY ZenonT(20) DEF PrepareID, Clause
  <2>2. PrepareKind(q, p).op = Register(q, p)
    BY ZenonT(20) DEF PrepareKind, Clause
  <2>3. PrepareMatched(q, p).op = Register(q, p)
    BY ZenonT(20) DEF PrepareMatched, Clause
  <2> QED
    BY <2>1, <2>2, <2>3 DEF Prepare
<1> HIDE DEF in
<1>4. \A p \in Registered(q) : in.clauses[p].op = Register(q, p)
  BY <1>1, <1>3
<1> QED
  BY <1>1, <1>2, <1>4 DEF in

\* A query without clauses has no handlers.
LEMMA NoHandlers ==
  ASSUME NEW q, q.kinds = <<>>, q.ids = <<>>
  PROVE  Registered(q) = {}
<1>1. DOMAIN <<>> = {}
  BY NoRows
<1>2. KindPlaces(q) = {} /\ IdPlaces(q) = {}
  BY <1>1 DEF KindPlaces, IdPlaces
<1> QED
  BY <1>2 DEF Registered

\* Repository.Stream answers a query2 query with a row for every handler and
\* every event that fits it, in the order of ids and handlers.
LEMMA BatchStream ==
  ASSUME QueryTypes, IdsGrow, transport # "memory", NEW q \in Query2, NEW in,
         in.clauses = BuildBatchRequest(q).clauses, in.after = q.after
  PROVE  LET rs == RepositoryStream(Operations(in))
             S  == EventsOf(Len(events))
         IN /\ rs \in Seq(EnvelopeRow) /\ Sorted(rs)
            /\ \A k \in DOMAIN rs : \E e \in S : Carries(rs[k], q, transport, e)
            /\ \A e \in S, p \in Registered(q) : Fits(q, transport, p, e) =>
                 \E k \in DOMAIN rs : rs[k].id = e.id /\ rs[k].op = Register(q, p)
            /\ Len(Operations(in)) = 0 <=> Registered(q) = {}
<1> DEFINE rs == RepositoryStream(Operations(in))
           S  == EventsOf(Len(events))
           D  == Registered(q)
<1>1. DOMAIN in.clauses = D /\ \A p \in D : in.clauses[p].op = Register(q, p)
  BY ClauseNumbers
<1>2. Keyed(D)
  BY RegisteredKeyed
<1>3. /\ \A p \in D : Register(q, p) \in Int
      /\ \A p, s \in D : Precedes(p, s) => Register(q, p) < Register(q, s)
  BY Registering
<1>4. \A n \in Own(Len(events)) : events[n] \in Event /\ events[n].id >= 1 /\ events[n] \in S
  <2>1. Len(events) \in 0..Len(events)
    BY EventsTyped
  <2>2. \A n \in Own(Len(events)) : events[n] \in S
    BY DEF EventsOf
  <2>3. S \subseteq Event /\ \A e \in S : e.id >= 1
    BY <2>1, StoreIs
  <2> QED
    BY <2>2, <2>3
<1>5. \A n \in Own(Len(events)), p \in D :
        Selects(Operation(in.clauses[p], in.after), events[n]) <=> Fits(q, transport, p, events[n])
  <2> SUFFICES ASSUME NEW n \in Own(Len(events)), NEW p \in D
               PROVE  Selects(Operation(in.clauses[p], in.after), events[n])
                        <=> Fits(q, transport, p, events[n])
    OBVIOUS
  <2>1. transport \in Transport
    BY DEF QueryTypes
  <2> QED
    BY <1>4, <2>1, ClausesAre
<1> HIDE DEF D
<1>6. /\ rs \in Seq(EnvelopeRow)
      /\ \A k \in DOMAIN rs : \E n \in Own(Len(events)), p \in D : Picked(in, rs[k], n, p)
      /\ \A n \in Own(Len(events)), p \in D :
           Selects(Operation(in.clauses[p], in.after), events[n])
             => \E k \in DOMAIN rs : Picked(in, rs[k], n, p)
      /\ \A k, l \in DOMAIN rs :
           k < l => \E n, m \in Own(Len(events)), p, s \in D :
                      /\ Picked(in, rs[k], n, p) /\ Picked(in, rs[l], m, s)
                      /\ n < m \/ (n = m /\ Precedes(p, s))
  BY <1>1, <1>2, <1>3, StreamIs
<1>7. Len(Operations(in)) = 0 <=> D = {}
  BY <1>1, <1>2, OperationsAre
<1> HIDE DEF rs
<1>8. \A x, n, p : n \in Own(Len(events)) /\ p \in D /\ Picked(in, x, n, p) =>
        /\ x.id = events[n].id /\ x.op = Register(q, p)
        /\ Carries(x, q, transport, events[n])
  BY <1>1, <1>5 DEF Picked, Stems, Carries, D
<1>9. Sorted(rs)
  <2> SUFFICES ASSUME NEW k \in DOMAIN rs, NEW l \in DOMAIN rs, k < l
               PROVE  Before(rs[k].id, rs[k].op, rs[l].id, rs[l].op)
    BY DEF Sorted
  <2>1. PICK n \in Own(Len(events)), m \in Own(Len(events)), p \in D, s \in D :
          /\ Picked(in, rs[k], n, p) /\ Picked(in, rs[l], m, s)
          /\ n < m \/ (n = m /\ Precedes(p, s))
    BY <1>6
  <2>2. /\ rs[k].id = events[n].id /\ rs[l].id = events[m].id
        /\ rs[k].op = Register(q, p) /\ rs[l].op = Register(q, s)
    BY <1>8, <2>1
  <2>3. n < m => events[n].id < events[m].id
    BY DEF IdsGrow
  <2> QED
    BY <1>3, <2>1, <2>2, <2>3 DEF Before
<1>10. \A k \in DOMAIN rs : \E e \in S : Carries(rs[k], q, transport, e)
  BY <1>4, <1>6, <1>8
<1>11. ASSUME NEW e \in S, NEW p \in D, Fits(q, transport, p, e)
       PROVE  \E k \in DOMAIN rs : rs[k].id = e.id /\ rs[k].op = Register(q, p)
  <2>1. PICK n \in Own(Len(events)) : e = events[n]
    BY DEF EventsOf
  <2>2. \E k \in DOMAIN rs : Picked(in, rs[k], n, p)
    BY <1>5, <1>6, <1>11, <2>1
  <2> QED
    BY <1>8, <2>1, <2>2
<1> QED
  BY <1>6, <1>7, <1>9, <1>10, <1>11 DEF D, rs

\* A query2 query without clauses is answered at once.
LEMMA AskNothing ==
  ASSUME QueryInv, NEW c, CallOK(c), c.api = "batch", Ask(c), Refused("ok"), Registered(c.r2) = {}
  PROVE  QueryInv'
<1>1. /\ rows = <<>> /\ out = <<>> /\ call' = c /\ handled' = <<>> /\ transport' = transport
      /\ IdsGrow' /\ transport \in Transport
  BY Asked
<1>2. pc' = "done" /\ outcome' = "ok" /\ cut' = FALSE /\ rows' = <<>> /\ out' = <<>>
  BY <1>1 DEF Refused, Returns
<1>3. QueryTypes'
  BY <1>2, NoRows, AskedTypes
<1>4. Control'
  BY <1>1, <1>2 DEF Control
<1>5. Refusals'
  BY <1>1, <1>2 DEF Refusals
<1>6. DOMAIN <<>> = {}
  BY NoRows
<1>7. BatchGood(call.r2, transport, Stored, handled, out, rows, Awaited)'
  BY <1>1, <1>2, <1>6 DEF BatchGood, BatchOrder, BatchRows, BatchWhole, Ascending, Under,
     FromStore, Sorted, Fitting
<1> QED
  BY <1>1, <1>2, <1>3, <1>4, <1>5, <1>7 DEF QueryInv, V1Inv, BatchInv, WatchInv

\* StreamBatch keeps the invariant.
LEMMA BatchKeeps ==
  ASSUME QueryInv, NEW q \in Requests, StreamBatch(q)
  PROVE  QueryInv'
<1> DEFINE c  == [NoCall EXCEPT !.api = "batch", !.r2 = q]
           in == BuildBatchRequest(q)
           S  == EventsOf(Len(events))
<1>0. q \in Query2
  BY QueriesAssump
<1>1. c.api = "batch" /\ c.r2 = q /\ CallOK(c)
  BY <1>0, CallsAre DEF CallOK, Dispatched
<1>2. Ask(c) /\ QueryTypes /\ IdsGrow /\ transport \in Transport
  BY DEF StreamBatch, QueryInv, QueryTypes
<1>3. CASE in.empty
  <2>1. Refused("ok")
    BY <1>3 DEF StreamBatch
  <2>2. Registered(q) = {}
    BY <1>0, <1>3, ClauseNumbers, NoHandlers
  <2> HIDE DEF c
  <2> QED
    BY <1>1, <1>2, <2>1, <2>2, AskNothing
<1>4. CASE ~in.empty /\ transport = "grpc"
  <2> DEFINE req == BuildBatchR2Request(in)
             rs  == RepositoryStream(Operations(req))
  <2>1. PICK r \in Receive(req) : Given(r, Replies(r.rows))
    BY <1>4 DEF StreamBatch
  <2>0. req.clauses = BuildBatchRequest(q).clauses /\ req.after = q.after
    <3>1. in.after = q.after
      BY <1>0, ClauseNumbers
    <3> HIDE DEF in
    <3>2. req.clauses = in.clauses /\ req.after = in.after
      BY DEF BuildBatchR2Request, Request
    <3> QED
      BY <3>1, <3>2 DEF in
  <2> HIDE DEF c, in, req, S
  <2>2. /\ rs \in Seq(EnvelopeRow) /\ Sorted(rs)
        /\ \A k \in DOMAIN rs : \E e \in S : Carries(rs[k], q, transport, e)
        /\ \A e \in S, p \in Registered(q) : Fits(q, transport, p, e) =>
             \E k \in DOMAIN rs : rs[k].id = e.id /\ rs[k].op = Register(q, p)
    BY <1>0, <1>2, <1>4, <2>0, BatchStream DEF S
  <2>3. \/ r.error \in {"error", "empty query"}
        \/ r.error = "none" /\ Partly(r, rs)
    BY <2>2, ReceiveIs
  <2> HIDE DEF rs
  <2>4. CASE r.error # "none"
    <3>1. Refused(r.error)
      BY <2>1, <2>4 DEF Given
    <3> QED
      BY <1>1, <1>2, <2>3, <2>4, <3>1, AskRefused
  <2>5. CASE r.error = "none"
    <3>1. Replies(r.rows) /\ cut' = r.cut
      BY <2>1, <2>5 DEF Given
    <3>2. r.rows \in Seq(EnvelopeRow) /\ r.cut \in BOOLEAN /\ Partly(r, rs)
      BY <2>3, <2>5 DEF Partly
    <3>3. BatchGood(q, transport, S, <<>>, r.rows, <<>>, ~cut')
      BY <2>2, <3>1, <3>2, BatchAnswered
    <3> QED
      BY <1>1, <1>2, <1>4, <3>1, <3>2, <3>3, AskReplies DEF S
  <2> QED
    BY <2>4, <2>5
<1>5. CASE ~in.empty /\ transport = "rest"
  <2> DEFINE rs == RepositoryStream(Operations(in))
  <2>1. PICK r \in Post(V1QueryBatchR2Route(in)) : Given(r, Replies(r.rows))
    BY <1>5 DEF StreamBatch
  <2>0. in.clauses = BuildBatchRequest(q).clauses /\ in.after = q.after
    BY <1>0, ClauseNumbers
  <2> HIDE DEF c, in, S
  <2>2. /\ rs \in Seq(EnvelopeRow) /\ Sorted(rs)
        /\ \A k \in DOMAIN rs : \E e \in S : Carries(rs[k], q, transport, e)
        /\ \A e \in S, p \in Registered(q) : Fits(q, transport, p, e) =>
             \E k \in DOMAIN rs : rs[k].id = e.id /\ rs[k].op = Register(q, p)
        /\ Len(Operations(in)) = 0 <=> Registered(q) = {}
    BY <1>0, <1>2, <1>5, <2>0, BatchStream DEF S
  <2>3. \/ r.error = "error"
        \/ r.error = "none" /\ Partly(r, rs)
        \/ r.error = "none" /\ Partly(r, <<>>) /\ Registered(q) = {}
    <3>1. r \in V1QueryBatchR2Route(in) \/ r.error = "error"
      BY <2>1, MayFailIs DEF Post
    <3>2. CASE r \in V1QueryBatchR2Route(in) /\ Len(Operations(in)) = 0
      <4>1. r \in Whole(<<>>)
        BY <3>2 DEF V1QueryBatchR2Route, TranslateBatchR2
      <4> QED
        BY <2>2, <3>2, <4>1, NoRows, WholeIs
    <3>3. CASE r \in V1QueryBatchR2Route(in) /\ Len(Operations(in)) # 0
      <4>1. r \in Unchecked(rs)
        BY <3>3 DEF V1QueryBatchR2Route, TranslateBatchR2
      <4> QED
        BY <2>2, <4>1, UncheckedIs
    <3> QED
      BY <3>1, <3>2, <3>3
  <2> HIDE DEF rs
  <2>4. CASE r.error # "none"
    <3>1. Refused("error")
      BY <2>1, <2>3, <2>4 DEF Given
    <3> QED
      BY <1>1, <1>2, <3>1, AskRefused
  <2>5. CASE r.error = "none"
    <3>1. Replies(r.rows) /\ cut' = r.cut
      BY <2>1, <2>5 DEF Given
    <3>2. r.rows \in Seq(EnvelopeRow) /\ r.cut \in BOOLEAN
      BY <2>3, <2>5 DEF Partly
    <3>3. CASE Partly(r, rs)
      <4>1. BatchGood(q, transport, S, <<>>, r.rows, <<>>, ~cut')
        BY <2>2, <3>1, <3>3, BatchAnswered
      <4> QED
        BY <1>1, <1>2, <1>5, <3>1, <3>2, <4>1, AskReplies DEF S
    <3>4. CASE Partly(r, <<>>) /\ Registered(q) = {}
      <4>0. DOMAIN <<>> = {}
        BY NoRows
      <4>1. Sorted(<<>>) /\ \A k \in DOMAIN <<>> : \E e \in S : Carries(<<>>[k], q, transport, e)
        BY <4>0 DEF Sorted
      <4>2. BatchGood(q, transport, S, <<>>, r.rows, <<>>, ~cut')
        BY <3>1, <3>4, <4>1, BatchAnswered
      <4> QED
        BY <1>1, <1>2, <1>5, <3>1, <3>2, <4>2, AskReplies DEF S
    <3> QED
      BY <2>3, <2>5, <3>3, <3>4
  <2> QED
    BY <2>4, <2>5
<1>6. CASE ~in.empty /\ transport = "memory"
  <2>1. PICK r \in MemoryAllEnvelopes : Given(r, ToFilter(r.rows))
    BY <1>6 DEF StreamBatch
  <2> HIDE DEF c
  <2> QED
    BY <1>1, <1>2, <1>6, <2>1, MemoryAsked
<1> QED
  BY <1>2, <1>3, <1>4, <1>5, <1>6 DEF Transport

\* The clauses that a watch sends.
LEMMA WatchPartIs ==
  ASSUME NEW q \in Query2
  PROVE  WatchPart(q) \in Query2 /\ WatchPart(q).ids = <<>>
<1>1. <<>> \in Seq(IDClause)
  OBVIOUS
<1> QED
  BY <1>1 DEF WatchPart, Query2

\* The first pass of a watch keeps the invariant.
LEMMA WatchKeeps ==
  ASSUME QueryInv, NEW q \in Requests, WatchFirst(q)
  PROVE  QueryInv'
<1> DEFINE w  == WatchPart(q)
           c  == [NoCall EXCEPT !.api = "watch", !.r2 = w]
           in == BuildBatchRequest(w)
           S  == EventsOf(Len(events))
<1>0. w \in Query2 /\ w.ids = <<>>
  BY QueriesAssump, WatchPartIs
<1>1. c.api = "watch" /\ c.r2 = w /\ CallOK(c)
  <2> HIDE DEF w
  <2>1. c.api = "watch" /\ c.r2 = w
    BY CallsAre
  <2> HIDE DEF c
  <2> QED
    BY <1>0, <2>1 DEF CallOK, Dispatched
<1>2. Ask(c) /\ QueryTypes /\ IdsGrow /\ transport \in Transport
  BY DEF WatchFirst, QueryInv, QueryTypes
<1>4. CASE transport = "grpc"
  <2> DEFINE rs  == RepositoryStream(Operations(in))
  <2>1. PICK r \in Receive(in) : Given(r, ToFilter(r.rows))
    BY <1>4 DEF WatchFirst, BuildWatchRequest
  <2>0. in.after = w.after
    BY <1>0, ClauseNumbers
  <2> HIDE DEF c, w, S
  <2>2. /\ rs \in Seq(EnvelopeRow) /\ Sorted(rs)
        /\ \A k \in DOMAIN rs : \E e \in S : Carries(rs[k], w, transport, e)
        /\ \A e \in S, p \in Registered(w) : Fits(w, transport, p, e) =>
             \E k \in DOMAIN rs : rs[k].id = e.id /\ rs[k].op = Register(w, p)
    BY <1>0, <1>2, <1>4, <2>0, BatchStream DEF S
  <2> HIDE DEF in
  <2>3. \/ r.error \in {"error", "empty query"}
        \/ r.error = "none" /\ Partly(r, rs)
    BY <2>2, ReceiveIs
  <2> HIDE DEF rs
  <2>4. CASE r.error # "none"
    <3>1. Refused(r.error)
      BY <2>1, <2>4 DEF Given
    <3> QED
      BY <1>1, <1>2, <2>3, <2>4, <3>1, AskRefused
  <2>5. CASE r.error = "none"
    <3>1. ToFilter(r.rows) /\ cut' = r.cut
      BY <2>1, <2>5 DEF Given
    <3>2. r.rows \in Seq(EnvelopeRow) /\ r.cut \in BOOLEAN /\ Partly(r, rs)
      BY <2>3, <2>5 DEF Partly
    <3>3. \A k \in DOMAIN rs : rs[k].id \in Int
      BY <2>2, Numbers
    <3>4. Rising(rs)
      BY <2>2, <3>3 DEF Sorted, Rising, Before
    <3>5. FromStore(S, rs)
      BY <2>2 DEF FromStore, Carries
    <3>6. \A e \in S, p \in Registered(w) : Fits(w, transport, p, e) => e.id \in Ids(rs)
      BY <2>2 DEF Ids
    <3>7. WatchGood(w, transport, S, <<>>, <<>>, r.rows, ~cut')
      BY <2>2, <3>1, <3>2, <3>4, <3>5, <3>6, WatchAsked
    <3> QED
      BY <1>1, <1>2, <1>4, <3>1, <3>2, <3>7, AskFilters DEF S
  <2> QED
    BY <2>4, <2>5
<1>5. CASE transport = "rest"
  <2>1. Refused("unsupported")
    BY <1>5 DEF WatchFirst
  <2> HIDE DEF c
  <2> QED
    BY <1>1, <1>2, <2>1, AskRefused
<1>6. CASE transport = "memory" /\ in.empty
  <2>1. Refused("empty query")
    BY <1>6 DEF WatchFirst, BuildWatchRequest
  <2> HIDE DEF c
  <2> QED
    BY <1>1, <1>2, <2>1, AskRefused
<1>7. CASE transport = "memory" /\ ~in.empty
  <2>1. PICK r \in MemoryAllEnvelopes : Given(r, ToFilter(r.rows))
    BY <1>7 DEF WatchFirst, BuildWatchRequest
  <2> HIDE DEF c
  <2> QED
    BY <1>1, <1>2, <1>7, <2>1, MemoryAsked
<1> QED
  BY <1>2, <1>4, <1>5, <1>6, <1>7 DEF Transport
-----------------------------------------------------------------------------
(* The steps of a running call *)

\* What a step of a call leaves alone, and what remains to be shown of it.
LEMMA Kept ==
  ASSUME QueryInv, UNCHANGED <<transport, events, call, seen, cut>>,
         rows' \in Seq(EnvelopeRow), out' \in Seq(EnvelopeRow), handled' \in Seq(Handling),
         pc' \in {"idle", "filter", "dispatch", "done"},
         outcome' \in {"none", "ok", "empty query", "unsupported", "handler error", "panic", "error"},
         Control', Refusals',
         call.api \in {"perform", "stream", "envelopes"} =>
           V1Good(call, transport, Stored, handled', out', rows', Awaited'),
         call.api = "batch" =>
           /\ BatchGood(call.r2, transport, Stored, handled', out', rows', Awaited')
           /\ outcome' = "panic" => Unset(call.r2, transport, Stored),
         call.api = "watch" =>
           WatchGood(call.r2, transport, Stored, handled', out', rows', Awaited')
  PROVE  QueryInv'
<1>1. QueryTypes'
  <2>1. QueryTypes
    BY DEF QueryInv
  <2> QED
    BY <2>1 DEF QueryTypes
<1>2. Own(Len(events))' = Own(Len(events)) /\ Stored' = Stored
  BY DEF Own, Stored
<1>3. IdsGrow'
  <2>1. IdsGrow
    BY DEF QueryInv
  <2> QED
    BY <1>2, <2>1 DEF IdsGrow
<1>4. V1Inv'
  BY <1>2 DEF V1Inv
<1>5. BatchInv'
  BY <1>2 DEF BatchInv
<1>6. WatchInv'
  BY <1>2 DEF WatchInv
<1> QED
  BY <1>1, <1>3, <1>4, <1>5, <1>6 DEF QueryInv

\* The events that were stored when the store was asked.
LEMMA StoredIs ==
  ASSUME QueryInv
  PROVE  /\ Stored \in SUBSET Event
         /\ \A d, e \in Stored : d.id = e.id => d = e
         /\ \A e \in Stored : GetEvent(e.id) = e.body
<1>1. QueryTypes /\ IdsGrow /\ seen \in 0..Len(events)
  BY DEF QueryInv, QueryTypes
<1>2. Stored = EventsOf(seen)
  BY DEF Stored, EventsOf
<1> QED
  BY <1>1, <1>2, StoreIs

\* The variables of a running call.
LEMMA Running ==
  ASSUME QueryInv
  PROVE  /\ rows \in Seq(EnvelopeRow) /\ out \in Seq(EnvelopeRow) /\ handled \in Seq(Handling)
         /\ call.r2 \in Query2 /\ transport \in Transport
         /\ call.api \in Dispatched \cup {"none", "perform", "envelopes"}
         /\ call.api \in {"perform", "stream"} => call.v1 \in Builders
         /\ outcome \in {"none", "ok", "empty query", "unsupported", "handler error", "panic", "error"}
         /\ pc \in {"idle", "filter", "dispatch", "done"}
BY DEF QueryInv, QueryTypes

\* In memory an envelope has a row for each of the handlers that its event
\* fits, in their order.
LEMMA MemoryRowsAre ==
  ASSUME NEW q \in Query2, NEW e \in Event, NEW r \in EnvelopeRow, Stems(r, e),
         GetEvent(r.id) = e.body
  PROVE  LET xs == MemoryRows(BuildBatchRequest(q), r)
         IN /\ xs \in Seq(EnvelopeRow) /\ Sorted(xs)
            /\ \A k \in DOMAIN xs : xs[k].id = r.id /\ Carries(xs[k], q, "memory", e)
            /\ \A p \in Registered(q) :
                 Fits(q, "memory", p, e) => \E k \in DOMAIN xs : xs[k].op = Register(q, p)
<1> DEFINE in == BuildBatchRequest(q)
           M  == MemoryMatches(in, r)
           at == InOrder(M)
           xs == MemoryRows(in, r)
           N  == Cardinality(M)
<1>1. DOMAIN in.clauses = Registered(q) /\ in.after = q.after
      /\ \A p \in Registered(q) : in.clauses[p].op = Register(q, p)
  BY ClauseNumbers
<1>2. r.id = e.id /\ r.kind = e.kind
  BY DEF Stems
<1>3. \A p \in Registered(q) : p \in M <=> Fits(q, "memory", p, e)
  <2> SUFFICES ASSUME NEW p \in Registered(q) PROVE p \in M <=> Fits(q, "memory", p, e)
    OBVIOUS
  <2> DEFINE c == in.clauses[p]
  <2>1. Fits(q, "memory", p, e) <=>
          /\ e.id > q.after
          /\ IF c.by = "id" THEN c.id = e.id
             ELSE c.kind = e.kind /\ (c.by = "subset" => JSONIsSubset(e.body, c.doc))
    BY ClausesAre
  <2> HIDE DEF in
  <2> QED
    BY <1>1, <1>2, <2>1 DEF MemoryMatches, MatchIDClause, MatchKindClause
<1>4. M \subseteq Registered(q)
  <2> HIDE DEF in
  <2> QED
    BY <1>1 DEF MemoryMatches
<1>5. xs = [k \in 1..N |-> Row(r, in.clauses[at[k]].op)]
  BY DEF MemoryRows
<1> HIDE DEF in, M
<1>6. Keyed(M)
  <2>1. Keyed(Registered(q))
    BY RegisteredKeyed
  <2>2. IsFiniteSet(M)
    BY <1>4, <2>1, FS_Subset DEF Keyed
  <2> QED
    BY <1>4, <2>1, <2>2 DEF Keyed
<1>7. /\ at \in Seq(M) /\ N \in Nat /\ DOMAIN at = 1..N
      /\ \A p \in M : \E k \in 1..N : at[k] = p
      /\ \A k, l \in 1..N : k < l => Precedes(at[k], at[l])
  BY <1>6, Ordered
<1>8. \A k \in 1..N : at[k] \in M /\ at[k] \in Registered(q)
  BY <1>4, <1>7
<1> HIDE DEF at, N, xs
<1>9. /\ DOMAIN xs = 1..N /\ xs = [k \in 1..N |-> xs[k]]
      /\ \A k \in 1..N : xs[k] = Row(r, Register(q, at[k]))
  BY <1>1, <1>5, <1>8
<1>10. /\ \A p \in Registered(q) : Register(q, p) \in Int
       /\ \A p, s \in Registered(q) : Precedes(p, s) => Register(q, p) < Register(q, s)
  BY Registering
<1>11. \A k \in 1..N : /\ xs[k] \in EnvelopeRow /\ xs[k].id = r.id /\ xs[k].kind = r.kind
                       /\ xs[k].op = Register(q, at[k])
  <2>1. \A op \in Int : /\ Row(r, op) \in EnvelopeRow /\ Row(r, op).id = r.id
                        /\ Row(r, op).kind = r.kind /\ Row(r, op).op = op
    BY DEF Row, EnvelopeRow
  <2> QED
    BY <1>8, <1>9, <1>10, <2>1
<1>12. xs \in Seq(EnvelopeRow)
  BY <1>7, <1>9, <1>11, ListOf
<1>13. Sorted(xs)
  <2> SUFFICES ASSUME NEW k \in DOMAIN xs, NEW l \in DOMAIN xs, k < l
               PROVE  Before(xs[k].id, xs[k].op, xs[l].id, xs[l].op)
    BY DEF Sorted
  <2>1. Precedes(at[k], at[l])
    BY <1>7, <1>9
  <2>2. Register(q, at[k]) < Register(q, at[l])
    BY <1>8, <1>9, <1>10, <2>1
  <2> QED
    BY <1>9, <1>11, <2>2 DEF Before
<1>14. \A k \in DOMAIN xs : xs[k].id = r.id /\ Carries(xs[k], q, "memory", e)
  BY <1>2, <1>3, <1>8, <1>9, <1>11 DEF Carries, Stems
<1>15. ASSUME NEW p \in Registered(q), Fits(q, "memory", p, e)
       PROVE  \E k \in DOMAIN xs : xs[k].op = Register(q, p)
  BY <1>3, <1>7, <1>9, <1>11, <1>15
<1> QED
  BY <1>12, <1>13, <1>14, <1>15 DEF xs, in

\* Filtering an envelope keeps the invariant.
LEMMA FilterKeeps ==
  ASSUME QueryInv, FilterNext
  PROVE  QueryInv'
<1> DEFINE r == Head(rows)
           S == Stored
<1>1. /\ pc = "filter" /\ rows # <<>> /\ rows' = Tail(rows) /\ pc' = pc /\ outcome' = outcome
      /\ handled' = handled /\ cut' = cut
      /\ UNCHANGED <<transport, events, call, seen, cut>>
  BY DEF FilterNext, catalogueVars
<1>2. /\ rows \in Seq(EnvelopeRow) /\ out \in Seq(EnvelopeRow) /\ handled \in Seq(Handling)
      /\ call.r2 \in Query2 /\ transport \in Transport
      /\ call.api \in Dispatched \cup {"none", "perform", "envelopes"}
      /\ call.api \in {"perform", "stream"} => call.v1 \in Builders
  BY Running
<1>3. /\ S \in SUBSET Event
      /\ \A d, e \in S : d.id = e.id => d = e
      /\ \A e \in S : GetEvent(e.id) = e.body
  BY StoredIs
<1>4. /\ handled = <<>> /\ outcome = "none" /\ call.api # "none"
      /\ call.api \in {"stream", "batch"} => transport = "memory"
      /\ call.api = "watch" => transport # "rest"
  BY <1>1 DEF QueryInv, Control
<1>5. r \in EnvelopeRow /\ Tail(rows) \in Seq(EnvelopeRow) /\ \E l \in DOMAIN rows : r = rows[l]
  BY <1>1, <1>2, Shorter
<1>6. FromStore(S, rows)
  BY <1>2, <1>4 DEF QueryInv, V1Inv, V1Good, V1Rows, BatchInv, BatchGood, BatchRows,
     WatchInv, WatchGood, WatchRows, Dispatched
<1>7. PICK e \in S : Stems(r, e)
  BY <1>5, <1>6 DEF FromStore
<1>8. Control /\ Refusals
  BY DEF QueryInv
<1>9. Control' /\ Refusals' /\ Awaited' = Awaited
  BY <1>1, <1>4, <1>8 DEF Control, Refusals, Awaited
<1>10. r.id = e.id /\ e \in Event /\ GetEvent(r.id) = e.body
  BY <1>3, <1>7 DEF Stems
<1> HIDE DEF r, S
<1>11. CASE call.api \in {"perform", "stream"}
  <2>1. out' = IF Filter(WireQuery(call.v1), r) THEN Append(out, r) ELSE out
    BY <1>11 DEF FilterNext, r
  <2>2. Filter(WireQuery(call.v1), r) <=> Suits(call.v1, TRUE, e)
    BY <1>2, <1>7, <1>10, <1>11, ConstraintsAre
  <2>3. Pass(call, transport, e) <=> Suits(call.v1, TRUE, e)
    <3>1. call.api = "stream" => (transport # "grpc") = TRUE
      BY <1>4
    <3> QED
      BY <1>11, <3>1 DEF Pass
  <2>4. V1Good(call, transport, S, handled, out, rows, Awaited)
    BY <1>11 DEF QueryInv, V1Inv, S
  <2>5. CASE Filter(WireQuery(call.v1), r)
    <3>1. V1Good(call, transport, S, handled, Append(out, r), Tail(rows), Awaited)
      BY <1>1, <1>2, <1>3, <1>4, <1>7, <2>2, <2>3, <2>4, <2>5, V1Take DEF r
    <3>2. out' \in Seq(EnvelopeRow) /\ out' = Append(out, r)
      BY <1>2, <1>5, <2>1, <2>5, Added
    <3> QED
      BY <1>1, <1>2, <1>4, <1>5, <1>9, <1>11, <3>1, <3>2, Kept DEF S
  <2>6. CASE ~Filter(WireQuery(call.v1), r)
    <3>0. \A d \in S : d.id = r.id => ~Due(call, transport, d)
      BY <1>3, <1>10, <2>2, <2>3, <2>6 DEF Due
    <3>1. V1Good(call, transport, S, handled, out, Tail(rows), Awaited)
      BY <1>1, <1>2, <1>3, <2>4, <3>0, V1Drop DEF r
    <3> QED
      BY <1>1, <1>2, <1>4, <1>5, <1>9, <1>11, <2>1, <2>6, <3>1, Kept DEF S
  <2> QED
    BY <2>5, <2>6
<1>12. CASE call.api = "envelopes"
  <2>1. out' = IF r.id \in call.ids THEN Append(out, r) ELSE out
    BY <1>12 DEF FilterNext, r
  <2>3. Pass(call, transport, e) <=> r.id \in call.ids
    BY <1>10, <1>12 DEF Pass
  <2>4. V1Good(call, transport, S, handled, out, rows, Awaited)
    BY <1>12 DEF QueryInv, V1Inv, S
  <2>5. CASE r.id \in call.ids
    <3>1. V1Good(call, transport, S, handled, Append(out, r), Tail(rows), Awaited)
      BY <1>1, <1>2, <1>3, <1>4, <1>7, <2>3, <2>4, <2>5, V1Take DEF r
    <3>2. out' \in Seq(EnvelopeRow) /\ out' = Append(out, r)
      BY <1>2, <1>5, <2>1, <2>5, Added
    <3> QED
      BY <1>1, <1>2, <1>4, <1>5, <1>9, <1>12, <3>1, <3>2, Kept DEF S
  <2>6. CASE r.id \notin call.ids
    <3>0. \A d \in S : d.id = r.id => ~Due(call, transport, d)
      BY <1>3, <1>10, <2>3, <2>6 DEF Due
    <3>1. V1Good(call, transport, S, handled, out, Tail(rows), Awaited)
      BY <1>1, <1>2, <1>3, <2>4, <3>0, V1Drop DEF r
    <3> QED
      BY <1>1, <1>2, <1>4, <1>5, <1>9, <1>12, <2>1, <2>6, <3>1, Kept DEF S
  <2> QED
    BY <2>5, <2>6
<1> DEFINE q  == call.r2
           xs == MemoryRows(BuildBatchRequest(q), r)
<1>13. /\ xs \in Seq(EnvelopeRow) /\ Sorted(xs)
       /\ \A k \in DOMAIN xs : xs[k].id = r.id /\ Carries(xs[k], q, "memory", e)
       /\ \A p \in Registered(q) :
            Fits(q, "memory", p, e) => \E k \in DOMAIN xs : xs[k].op = Register(q, p)
  BY <1>2, <1>5, <1>7, <1>10, MemoryRowsAre DEF r
<1>14. CASE call.api = "batch"
  <2>1. out' = out \o xs
    BY <1>14 DEF FilterNext, r
  <2> HIDE DEF xs
  <2>2. BatchGood(q, transport, S, handled, out, rows, Awaited) /\ transport = "memory"
    BY <1>4, <1>14 DEF QueryInv, BatchInv, S
  <2>3. /\ \A k \in DOMAIN xs : xs[k].id = r.id /\ \E d \in S : Carries(xs[k], q, transport, d)
        /\ \A d \in S, p \in Registered(q) :
             d.id = r.id /\ Fits(q, transport, p, d) =>
               \E k \in DOMAIN xs : xs[k].op = Register(q, p)
    BY <1>3, <1>10, <1>13, <2>2
  <2>4. BatchGood(q, transport, S, handled, out \o xs, Tail(rows), Awaited)
    BY <1>1, <1>2, <1>3, <1>4, <1>13, <2>2, <2>3, BatchTake DEF r
  <2>5. out' \in Seq(EnvelopeRow)
    BY <1>2, <1>13, <2>1, Joined
  <2> QED
    BY <1>1, <1>2, <1>4, <1>5, <1>9, <1>14, <2>1, <2>4, <2>5, Kept DEF S
<1>15. CASE call.api = "watch"
  <2>1. out' = IF transport = "grpc" THEN Push(out, r) ELSE Enqueue(out, xs)
    BY <1>15 DEF FilterNext, r
  <2> HIDE DEF xs
  <2>2. WatchGood(q, transport, S, handled, out, rows, Awaited)
    BY <1>15 DEF QueryInv, WatchInv, S
  <2>3. CASE transport = "grpc"
    <3>1. \E d \in S : Carries(r, q, transport, d)
      BY <1>5, <2>2, <2>3 DEF WatchGood, WatchRows
    <3>2. /\ WatchGood(q, transport, S, handled, Push(out, r), Tail(rows), Awaited)
          /\ Push(out, r) \in Seq(EnvelopeRow)
      BY <1>1, <1>2, <1>3, <1>4, <1>5, <2>2, <3>1, WatchTake DEF r
    <3> QED
      BY <1>1, <1>2, <1>4, <1>5, <1>9, <1>15, <2>1, <2>3, <3>2, Kept DEF S
  <2>4. CASE transport = "memory" /\ xs # <<>>
    <3>0. 1 \in DOMAIN xs /\ xs[1] \in EnvelopeRow
      BY <1>13, <2>4
    <3>1. xs[1].id = r.id /\ \E d \in S : Carries(xs[1], q, transport, d)
      BY <1>13, <2>4, <3>0
    <3>2. /\ WatchGood(q, transport, S, handled, Push(out, xs[1]), Tail(rows), Awaited)
          /\ Push(out, xs[1]) \in Seq(EnvelopeRow)
      BY <1>1, <1>2, <1>3, <1>4, <2>2, <3>0, <3>1, WatchTake DEF r
    <3>3. out' = Push(out, xs[1])
      BY <2>1, <2>4 DEF Enqueue
    <3> QED
      BY <1>1, <1>2, <1>4, <1>5, <1>9, <1>15, <3>2, <3>3, Kept DEF S
  <2>5. CASE transport = "memory" /\ xs = <<>>
    <3>0. DOMAIN xs = {}
      BY <2>5
    <3>1. \A d \in S, p \in Registered(q) : d.id = r.id => ~Fits(q, transport, p, d)
      BY <1>3, <1>10, <1>13, <2>5, <3>0
    <3>2. WatchGood(q, transport, S, handled, out, Tail(rows), Awaited)
      BY <1>1, <1>2, <1>3, <2>2, <3>1, WatchDrop DEF r
    <3>3. out' = out
      BY <2>1, <2>5 DEF Enqueue
    <3> QED
      BY <1>1, <1>2, <1>4, <1>5, <1>9, <1>15, <3>2, <3>3, Kept DEF S
  <2> QED
    BY <1>2, <1>4, <1>15, <2>3, <2>4, <2>5 DEF Transport
<1> QED
  BY <1>2, <1>4, <1>11, <1>12, <1>14, <1>15 DEF Dispatched

\* A body that cannot be loaded ends the call.
LEMMA LoadKeeps ==
  ASSUME QueryInv, LoadFails
  PROVE  QueryInv'
<1>1. /\ pc = "filter" /\ pc' = "done" /\ outcome' = "error"
      /\ rows' = rows /\ out' = out /\ handled' = handled /\ cut' = cut
      /\ UNCHANGED <<transport, events, call, seen, cut>>
  BY DEF LoadFails, Returns, catalogueVars
<1>2. rows' \in Seq(EnvelopeRow) /\ out' \in Seq(EnvelopeRow) /\ handled' \in Seq(Handling)
  BY <1>1, Running
<1>3. Control' /\ Refusals' /\ ~Awaited'
  <2>1. Control /\ Refusals
    BY DEF QueryInv
  <2> QED
    BY <1>1, <2>1 DEF Control, Refusals, Awaited
<1>4. call.api \in {"perform", "stream", "envelopes"} =>
        V1Good(call, transport, Stored, handled', out', rows', Awaited')
  BY <1>1, <1>3, V1Less DEF QueryInv, V1Inv
<1>5. call.api = "batch" =>
        BatchGood(call.r2, transport, Stored, handled', out', rows', Awaited')
  BY <1>1, <1>3, BatchLess DEF QueryInv, BatchInv
<1>6. call.api = "watch" =>
        WatchGood(call.r2, transport, Stored, handled', out', rows', Awaited')
  BY <1>1, <1>3, WatchLess DEF QueryInv, WatchInv
<1> QED
  BY <1>1, <1>2, <1>3, <1>4, <1>5, <1>6, Kept

\* All envelopes are filtered: the answer is returned, or dispatched.
LEMMA FilteredKeeps ==
  ASSUME QueryInv, Filtered
  PROVE  QueryInv'
<1>1. /\ pc = "filter" /\ rows = <<>>
      /\ rows' = rows /\ out' = out /\ handled' = handled /\ cut' = cut
      /\ UNCHANGED <<transport, events, call, seen, cut>>
      /\ IF call.api \in Dispatched THEN pc' = "dispatch" /\ outcome' = outcome
         ELSE pc' = "done" /\ outcome' = "ok"
  BY DEF Filtered, Returns, catalogueVars
<1>2. rows' \in Seq(EnvelopeRow) /\ out' \in Seq(EnvelopeRow) /\ handled' \in Seq(Handling)
  BY <1>1, Running
<1>3. outcome = "none"
  BY <1>1 DEF QueryInv, Control
<1>4. Control' /\ Refusals' /\ Awaited' = Awaited
  <2>1. Control /\ Refusals
    BY DEF QueryInv
  <2>2. Control'
    BY <1>1, <1>3, <2>1 DEF Control, Dispatched
  <2>3. Refusals'
    <3>0. transport' = transport /\ call' = call /\ (cut' <=> cut)
      <4>1. cut' = cut
        BY <1>1
      <4>2. cut' <=> cut
        BY <4>1, Zenon
      <4> QED
        BY <1>1, <4>2
    <3>1. cut' => transport' # "memory" /\ (call'.api \in {"perform", "stream"} => transport' = "grpc")
      BY <2>1, <3>0 DEF Refusals
    <3>2. call'.api = "perform" => outcome' = "ok"
      BY <1>1 DEF Dispatched
    <3> QED
      BY <3>1, <3>2 DEF Refusals
  <2>4. Awaited' = Awaited
    BY <1>1, <1>3 DEF Awaited
  <2> QED
    BY <2>2, <2>3, <2>4
<1>5. pc' \in {"dispatch", "done"} /\ outcome' \in {"none", "ok"}
  BY <1>1, <1>3
<1>6. call.api \in {"perform", "stream", "envelopes"} =>
        V1Good(call, transport, Stored, handled', out', rows', Awaited')
  BY <1>1, <1>4 DEF QueryInv, V1Inv
<1>7. call.api = "batch" =>
        BatchGood(call.r2, transport, Stored, handled', out', rows', Awaited')
  BY <1>1, <1>4 DEF QueryInv, BatchInv
<1>8. call.api = "watch" =>
        WatchGood(call.r2, transport, Stored, handled', out', rows', Awaited')
  BY <1>1, <1>4 DEF QueryInv, WatchInv
<1> QED
  BY <1>1, <1>2, <1>4, <1>5, <1>6, <1>7, <1>8, Kept

\* Everything is dispatched.
LEMMA DispatchedKeeps ==
  ASSUME QueryInv, AllDispatched
  PROVE  QueryInv'
<1>1. /\ pc = "dispatch" /\ out = <<>> /\ pc' = "done" /\ outcome' = "ok"
      /\ rows' = rows /\ out' = out /\ handled' = handled /\ cut' = cut
      /\ UNCHANGED <<transport, events, call, seen, cut>>
  BY DEF AllDispatched, Returns, catalogueVars
<1>2. rows' \in Seq(EnvelopeRow) /\ out' \in Seq(EnvelopeRow) /\ handled' \in Seq(Handling)
  BY <1>1, Running
<1>3. Control' /\ Refusals' /\ Awaited' = Awaited
  <2>1. Control /\ Refusals
    BY DEF QueryInv
  <2>2. Control'
    BY <1>1, <2>1 DEF Control, Dispatched
  <2>3. Refusals'
    BY <1>1, <2>1 DEF Refusals, Control
  <2>4. Awaited' = Awaited
    BY <1>1 DEF Awaited
  <2> QED
    BY <2>2, <2>3, <2>4
<1>4. call.api \in {"perform", "stream", "envelopes"} =>
        V1Good(call, transport, Stored, handled', out', rows', Awaited')
  BY <1>1, <1>3 DEF QueryInv, V1Inv
<1>5. call.api = "batch" =>
        BatchGood(call.r2, transport, Stored, handled', out', rows', Awaited')
  BY <1>1, <1>3 DEF QueryInv, BatchInv
<1>6. call.api = "watch" =>
        WatchGood(call.r2, transport, Stored, handled', out', rows', Awaited')
  BY <1>1, <1>3 DEF QueryInv, WatchInv
<1> QED
  BY <1>1, <1>2, <1>3, <1>4, <1>5, <1>6, Kept

\* The parts of a dispatched call that are the same for every handler.
LEMMA DispatchFrame ==
  ASSUME QueryInv, Dispatch
  PROVE  /\ pc = "dispatch" /\ out # <<>> /\ rows = <<>> /\ rows' = rows /\ outcome = "none"
         /\ call.api \in Dispatched
         /\ UNCHANGED <<transport, events, call, seen, cut>>
         /\ IF call.api = "stream" THEN HandleKind(Head(out)) ELSE HandleOp(Head(out))
<1>1. /\ pc = "dispatch" /\ out # <<>> /\ rows' = rows
      /\ UNCHANGED <<transport, events, call, seen, cut>>
      /\ IF call.api = "stream" THEN HandleKind(Head(out)) ELSE HandleOp(Head(out))
  BY DEF Dispatch, catalogueVars
<1>2. rows = <<>> /\ outcome = "none" /\ call.api \in Dispatched
  BY <1>1 DEF QueryInv, Control
<1> QED
  BY <1>1, <1>2

\* A handler returns, with or without an error.
LEMMA HandlerReturns ==
  ASSUME QueryInv, Dispatch, NEW o \in {"handler error", "panic"},
         UNCHANGED <<pc, outcome>> \/ Returns(o)
  PROVE  /\ Control' /\ Refusals' /\ (Awaited' => Awaited)
         /\ pc' \in {"dispatch", "done"} /\ outcome' \in {"none", o}
<1>1. /\ pc = "dispatch" /\ rows' = <<>> /\ outcome = "none" /\ call.api \in Dispatched
      /\ UNCHANGED <<transport, events, call, seen, cut>> /\ cut' = cut
  BY DispatchFrame
<1>2. Control /\ Refusals
  BY DEF QueryInv
<1>3. (pc' = "dispatch" /\ outcome' = "none") \/ (pc' = "done" /\ outcome' = o)
  BY <1>1 DEF Returns
<1>4. Control'
  BY <1>1, <1>2, <1>3 DEF Control, Dispatched
<1>5. transport' = transport /\ call' = call /\ (cut' <=> cut)
  <2>1. cut' = cut
    BY <1>1
  <2>2. cut' <=> cut
    BY <2>1, Zenon
  <2> QED
    BY <1>1, <2>2
<1>6. Refusals'
  <2>1. cut' => transport' # "memory" /\ (call'.api \in {"perform", "stream"} => transport' = "grpc")
    BY <1>5, <1>2 DEF Refusals
  <2>2. call'.api # "perform"
    BY <1>1 DEF Dispatched
  <2> QED
    BY <2>1, <2>2 DEF Refusals
<1>7. Awaited' => Awaited
  <2>1. pc \in {"filter", "dispatch"}
    BY <1>1
  <2> QED
    BY <1>5, <2>1 DEF Awaited
<1> QED
  BY <1>3, <1>4, <1>6, <1>7

\* Stream hands an event to the handler of its kind, or passes it over.
LEMMA KindKeeps ==
  ASSUME QueryInv, Dispatch, call.api = "stream"
  PROVE  QueryInv'
<1> DEFINE r == Head(out)
           S == Stored
           x == [name |-> <<"on", r.kind>>, id |-> r.id]
<1>1. /\ pc = "dispatch" /\ out # <<>> /\ rows = <<>> /\ rows' = rows /\ outcome = "none"
      /\ UNCHANGED <<transport, events, call, seen, cut>> /\ HandleKind(r)
  BY DispatchFrame
<1>2. /\ rows \in Seq(EnvelopeRow) /\ out \in Seq(EnvelopeRow) /\ handled \in Seq(Handling)
  BY Running
<1>3. S \in SUBSET Event /\ \A d, e \in S : d.id = e.id => d = e
  BY StoredIs
<1>4. V1Good(call, transport, S, handled, out, rows, Awaited)
  BY DEF QueryInv, V1Inv
<1>5. r \in EnvelopeRow /\ Tail(out) \in Seq(EnvelopeRow) /\ \E l \in DOMAIN out : r = out[l]
  BY <1>1, <1>2, Shorter
<1> HIDE DEF S
<1>6. PICK e \in S : Stems(r, e) /\ Pass(call, transport, e)
  BY <1>4, <1>5 DEF V1Good, V1Rows
<1>7. r.id = e.id /\ r.kind = e.kind
  BY <1>6 DEF Stems
<1>8. CASE r.kind \in DOMAIN call.v1 /\ call.v1[r.kind].on
  <2>1. Call(<<"on", r.kind>>, r)
    BY <1>1, <1>8 DEF HandleKind
  <2>2. /\ handled' = Append(handled, x) /\ out' = Tail(out)
        /\ UNCHANGED <<pc, outcome>> \/ Returns("handler error")
    BY <2>1 DEF Call
  <2>3. x \in Handling /\ x.id = r.id
    <3>1. r.kind \in Kind /\ r.id \in 0..MaxEvents
      BY <1>5 DEF EnvelopeRow
    <3> HIDE DEF r
    <3>2. <<"on", r.kind>> \in {"on"} \X Kind
      BY <3>1
    <3> QED
      BY <3>1, <3>2 DEF Handling
  <2> HIDE DEF x
  <2>4. Due(call, transport, e)
    BY <1>6, <1>7, <1>8 DEF Due
  <2>5. V1Good(call, transport, S, Append(handled, x), Tail(out), rows, Awaited)
    BY <1>1, <1>2, <1>3, <1>4, <1>7, <2>3, <2>4, V1Handle
  <2>6. handled' \in Seq(Handling)
    BY <1>2, <2>2, <2>3, Added
  <2>7. /\ Control' /\ Refusals' /\ (Awaited' => Awaited)
        /\ pc' \in {"dispatch", "done"} /\ outcome' \in {"none", "handler error"}
    BY <2>2, HandlerReturns
  <2>8. V1Good(call, transport, S, handled', out', rows', Awaited')
    BY <1>1, <2>2, <2>5, <2>7, V1Less
  <2> QED
    BY <1>1, <1>2, <1>5, <2>2, <2>6, <2>7, <2>8, Kept DEF S
<1>9. CASE ~(r.kind \in DOMAIN call.v1 /\ call.v1[r.kind].on)
  <2>1. handled' = handled /\ out' = Tail(out) /\ UNCHANGED <<pc, outcome>>
    BY <1>1, <1>9 DEF HandleKind
  <2>2. \A d \in S : d.id = r.id => ~Due(call, transport, d)
    BY <1>3, <1>7, <1>9 DEF Due
  <2>3. V1Good(call, transport, S, handled, Tail(out), rows, Awaited)
    BY <1>1, <1>2, <1>3, <1>4, <2>2, V1Skip
  <2>4. /\ Control' /\ Refusals' /\ (Awaited' => Awaited)
        /\ pc' \in {"dispatch", "done"} /\ outcome' \in {"none", "panic"}
    BY <2>1, HandlerReturns
  <2>5. V1Good(call, transport, S, handled', out', rows', Awaited')
    BY <1>1, <2>1, <2>3, <2>4, V1Less
  <2> QED
    BY <1>1, <1>2, <1>5, <2>1, <2>4, <2>5, Kept DEF S
<1> QED
  BY <1>8, <1>9

\* The handler of a row is found by its number.
LEMMA RowHandler ==
  ASSUME NEW q \in Query2, NEW r \in EnvelopeRow, NEW t, NEW e, Carries(r, q, t, e)
  PROVE  LET p == Handlers(q)[r.op + 1]
         IN /\ ~(r.op >= Cardinality(Registered(q)))
            /\ p \in Registered(q) /\ r.op = Register(q, p)
            /\ r.id = e.id /\ Fits(q, t, p, e)
            /\ \A s \in Registered(q) : Register(q, s) = r.op => s = p
            /\ [name |-> p, id |-> r.id] \in Handling
            /\ ~IsSet(q, p) => p \in IdPlaces(q)
<1>1. PICK p \in Registered(q) : Stems(r, e) /\ r.op = Register(q, p) /\ Fits(q, t, p, e)
  BY DEF Carries
<1>2. /\ Cardinality(Registered(q)) \in Nat
      /\ Register(q, p) \in Int /\ Register(q, p) < Cardinality(Registered(q))
      /\ Handlers(q)[Register(q, p) + 1] = p
      /\ \A s \in Registered(q) : Register(q, s) = Register(q, p) => s = p
  BY Registering
<1>3. Handlers(q)[r.op + 1] = p /\ ~(r.op >= Cardinality(Registered(q)))
  BY <1>1, <1>2
<1>4. p \in KindPlaces(q) \cup IdPlaces(q)
  BY DEF Registered
<1>5. p = <<p[1], p[2]>> /\ p[1] \in Int /\ p[2] \in Int
  BY <1>4, PlacesAre
<1>6. r.id \in 0..MaxEvents
  BY DEF EnvelopeRow
<1>7. p \in Int \X Int
  BY <1>5
<1>8. [name |-> p, id |-> r.id] \in Handling
  BY <1>6, <1>7 DEF Handling
<1>9. ~IsSet(q, p) => p \in IdPlaces(q)
  BY <1>4, PlacesAre DEF IsSet
<1> QED
  BY <1>1, <1>2, <1>3, <1>8, <1>9 DEF Stems

\* StreamBatch hands a row to the handler that its number stands for.
LEMMA OpKeeps ==
  ASSUME QueryInv, Dispatch, call.api = "batch"
  PROVE  QueryInv'
<1> DEFINE r == Head(out)
           S == Stored
           q == call.r2
           p == Handlers(q)[r.op + 1]
           x == [name |-> p, id |-> r.id]
<1>1. /\ pc = "dispatch" /\ out # <<>> /\ rows = <<>> /\ rows' = rows /\ outcome = "none"
      /\ UNCHANGED <<transport, events, call, seen, cut>> /\ HandleOp(r)
  BY DispatchFrame
<1>2. /\ rows \in Seq(EnvelopeRow) /\ out \in Seq(EnvelopeRow) /\ handled \in Seq(Handling)
      /\ q \in Query2
  BY Running
<1>3. S \in SUBSET Event
  BY StoredIs
<1>4. BatchGood(q, transport, S, handled, out, rows, Awaited)
  BY DEF QueryInv, BatchInv
<1>5. r \in EnvelopeRow /\ Tail(out) \in Seq(EnvelopeRow) /\ \E l \in DOMAIN out : r = out[l]
  BY <1>1, <1>2, Shorter
<1> HIDE DEF S
<1>6. PICK e \in S : Carries(r, q, transport, e)
  BY <1>4, <1>5 DEF BatchGood, BatchRows
<1>7. /\ ~(r.op >= Cardinality(Registered(q)))
      /\ p \in Registered(q) /\ r.op = Register(q, p)
      /\ r.id = e.id /\ Fits(q, transport, p, e)
      /\ \A s \in Registered(q) : Register(q, s) = r.op => s = p
      /\ x \in Handling
      /\ ~IsSet(q, p) => p \in IdPlaces(q)
  BY <1>2, <1>5, <1>6, RowHandler
<1>8. CASE IsSet(q, p)
  <2>1. Call(p, r)
    BY <1>1, <1>7, <1>8 DEF HandleOp
  <2>2. /\ handled' = Append(handled, x) /\ out' = Tail(out)
        /\ UNCHANGED <<pc, outcome>> \/ Returns("handler error")
    BY <2>1 DEF Call
  <2>3. x.name = p /\ x.id = r.id
    OBVIOUS
  <2> HIDE DEF x, p, q
  <2>5. BatchGood(q, transport, S, Append(handled, x), Tail(out), rows, Awaited)
    BY <1>1, <1>2, <1>3, <1>4, <1>7, <2>3, BatchHandle
  <2>6. handled' \in Seq(Handling)
    BY <1>2, <1>7, <2>2, Added
  <2>7. /\ Control' /\ Refusals' /\ (Awaited' => Awaited)
        /\ pc' \in {"dispatch", "done"} /\ outcome' \in {"none", "handler error"}
    BY <2>2, HandlerReturns
  <2>8. BatchGood(q, transport, S, handled', out', rows', Awaited')
    BY <1>1, <2>2, <2>5, <2>7, BatchLess
  <2> QED
    BY <1>1, <1>2, <1>5, <2>2, <2>6, <2>7, <2>8, Kept DEF S, q
<1>9. CASE ~IsSet(q, p)
  <2>1. Returns("panic") /\ out' = out /\ handled' = handled
    BY <1>1, <1>7, <1>9 DEF HandleOp
  <2>2. Unset(q, transport, S)
    BY <1>7, <1>9 DEF Unset
  <2> HIDE DEF x, p, q
  <2>3. /\ Control' /\ Refusals' /\ (Awaited' => Awaited)
        /\ pc' \in {"dispatch", "done"} /\ outcome' \in {"none", "panic"}
    BY <2>1, HandlerReturns
  <2>4. BatchGood(q, transport, S, handled', out', rows', Awaited')
    BY <1>1, <1>4, <2>1, <2>3, BatchLess
  <2> QED
    BY <1>1, <1>2, <2>1, <2>2, <2>3, <2>4, Kept DEF S, q
<1> QED
  BY <1>8, <1>9

\* Tick hands an enqueued row to the handler that its number stands for.
LEMMA TickKeeps ==
  ASSUME QueryInv, Dispatch, call.api = "watch"
  PROVE  QueryInv'
<1> DEFINE r == Head(out)
           S == Stored
           q == call.r2
           p == Handlers(q)[r.op + 1]
           x == [name |-> p, id |-> r.id]
<1>1. /\ pc = "dispatch" /\ out # <<>> /\ rows = <<>> /\ rows' = rows /\ outcome = "none"
      /\ UNCHANGED <<transport, events, call, seen, cut>> /\ HandleOp(r)
  BY DispatchFrame
<1>2. /\ rows \in Seq(EnvelopeRow) /\ out \in Seq(EnvelopeRow) /\ handled \in Seq(Handling)
      /\ q \in Query2
  BY Running
<1>3. S \in SUBSET Event
  BY StoredIs
<1>4. WatchGood(q, transport, S, handled, out, rows, Awaited)
  BY DEF QueryInv, WatchInv
<1>5. r \in EnvelopeRow /\ Tail(out) \in Seq(EnvelopeRow) /\ \E l \in DOMAIN out : r = out[l]
  BY <1>1, <1>2, Shorter
<1> HIDE DEF S
<1>6. PICK e \in S : Carries(r, q, transport, e)
  BY <1>4, <1>5 DEF WatchGood, WatchRows
<1>7. /\ ~(r.op >= Cardinality(Registered(q)))
      /\ p \in Registered(q) /\ r.id = e.id /\ Fits(q, transport, p, e) /\ x \in Handling
  BY <1>2, <1>5, <1>6, RowHandler
<1>8. CASE IsSet(q, p)
  <2>1. Call(p, r)
    BY <1>1, <1>7, <1>8 DEF HandleOp
  <2>2. /\ handled' = Append(handled, x) /\ out' = Tail(out)
        /\ UNCHANGED <<pc, outcome>> \/ Returns("handler error")
    BY <2>1 DEF Call
  <2>3. x.name = p /\ x.id = r.id
    OBVIOUS
  <2> HIDE DEF x, p, q
  <2>5. WatchGood(q, transport, S, Append(handled, x), Tail(out), rows, Awaited)
    BY <1>1, <1>2, <1>3, <1>4, <1>7, <2>3, WatchHandle
  <2>6. handled' \in Seq(Handling)
    BY <1>2, <1>7, <2>2, Added
  <2>7. /\ Control' /\ Refusals' /\ (Awaited' => Awaited)
        /\ pc' \in {"dispatch", "done"} /\ outcome' \in {"none", "handler error"}
    BY <2>2, HandlerReturns
  <2>8. WatchGood(q, transport, S, handled', out', rows', Awaited')
    BY <1>1, <2>2, <2>5, <2>7, WatchLess
  <2> QED
    BY <1>1, <1>2, <1>5, <2>2, <2>6, <2>7, <2>8, Kept DEF S, q
<1>9. CASE ~IsSet(q, p)
  <2>1. Returns("panic") /\ out' = out /\ handled' = handled
    BY <1>1, <1>7, <1>9 DEF HandleOp
  <2> HIDE DEF x, p, q
  <2>3. /\ Control' /\ Refusals' /\ (Awaited' => Awaited)
        /\ pc' \in {"dispatch", "done"} /\ outcome' \in {"none", "panic"}
    BY <2>1, HandlerReturns
  <2>4. WatchGood(q, transport, S, handled', out', rows', Awaited')
    BY <1>1, <1>4, <2>1, <2>3, WatchLess
  <2> QED
    BY <1>1, <1>2, <2>1, <2>3, <2>4, Kept DEF S, q
<1> QED
  BY <1>8, <1>9

\* After a call the client is as it was before.
LEMMA ReturnKeeps ==
  ASSUME QueryInv, Return
  PROVE  QueryInv'
<1>1. /\ pc' = "idle" /\ call' = NoCall /\ rows' = <<>> /\ out' = <<>> /\ handled' = <<>>
      /\ outcome' = "none" /\ seen' = 0 /\ cut' = FALSE
      /\ transport' = transport /\ events' = events
  BY DEF Return, catalogueVars
<1>2. call'.api = "none" /\ call'.r2 \in Query2
  <2>1. NoCall.api = "none"
    BY DEF NoCall
  <2> QED
    BY <1>1, <2>1, NoCallIs
<1>3. QueryTypes'
  <2>1. QueryTypes
    BY DEF QueryInv
  <2>2. events' \in Seq(Event) /\ Len(events') <= MaxEvents /\ seen' \in 0..Len(events')
    BY <1>1, <2>1, EventsTyped
  <2>3. transport' \in Transport
    BY <1>1, Running
  <2> QED
    BY <1>1, <1>2, <2>2, <2>3, NoRows DEF QueryTypes
<1>4. IdsGrow'
  <2>1. IdsGrow
    BY DEF QueryInv
  <2>2. Own(Len(events))' = Own(Len(events))
    BY <1>1 DEF Own
  <2> QED
    BY <1>1, <2>1, <2>2 DEF IdsGrow
<1>5. Control' /\ Refusals'
  BY <1>1, <1>2 DEF Control, Refusals, Dispatched
<1> QED
  BY <1>2, <1>3, <1>4, <1>5 DEF QueryInv, V1Inv, BatchInv, WatchInv

\* The id of a new event is above those of its stream.
LEMMA NewId ==
  ASSUME QueryTypes, IdsGrow, NEW s \in Written, Len(events) < MaxEvents
  PROVE  /\ NextId(s) \in 0..MaxEvents
         /\ transport # "memory" => NextId(s) = Len(events) + 1
         /\ transport = "memory" /\ s = Here => NextId(s) = Cardinality(Own(Len(events)))
<1>1. /\ Len(events) \in Nat /\ DOMAIN events = 1..Len(events) /\ MaxEvents \in Nat
  BY EventsTyped, Numbers
<1>2. CASE transport # "memory"
  <2>1. NextId(s) = Len(events) + 1
    BY <1>2 DEF NextId
  <2> QED
    BY <1>1, <1>2, <2>1
<1>3. CASE transport = "memory"
  <2> DEFINE T == {m \in DOMAIN events : events[m].stream = s}
  <2>1. NextId(s) = Cardinality(T)
    BY <1>3 DEF NextId
  <2>2. 1 \in Int /\ Len(events) \in Int
    BY <1>1
  <2>3. /\ IsFiniteSet(1..Len(events))
        /\ Cardinality(1..Len(events)) = IF 1 > Len(events) THEN 0 ELSE Len(events) - 1 + 1
    BY <2>2, FS_Interval
  <2>4. Cardinality(1..Len(events)) = Len(events)
    BY <1>1, <2>3
  <2>5. T \subseteq 1..Len(events)
    BY <1>1
  <2>6. s = Here => T = Own(Len(events))
    BY <1>1 DEF Own
  <2> HIDE DEF T
  <2>7. IsFiniteSet(T) /\ Cardinality(T) <= Len(events)
    <3>1. IsFiniteSet(1..Len(events))
      BY <2>3
    <3>2. IsFiniteSet(T) /\ Cardinality(T) <= Cardinality(1..Len(events))
      BY <2>5, <3>1, FS_Subset
    <3> QED
      BY <2>4, <3>2
  <2>8. Cardinality(T) \in Nat
    BY <2>7, FS_CardinalityType
  <2> QED
    BY <1>1, <1>3, <2>1, <2>6, <2>7, <2>8
<1> QED
  BY <1>2, <1>3

\* Submit keeps the invariant, also while a call runs.
LEMMA SubmitKeeps ==
  ASSUME QueryInv, NEW s \in Written, NEW k \in Kind, NEW b \in Doc, Submit(s, k, b)
  PROVE  QueryInv'
<1> DEFINE e == [stream |-> s, id |-> NextId(s), kind |-> k, body |-> b]
           L == Len(events)
<1>1. /\ L < MaxEvents /\ events' = Append(events, e)
      /\ UNCHANGED <<transport, call, pc, rows, out, handled, outcome, seen, cut>>
  BY DEF Submit, catalogueVars
<1>2. QueryTypes /\ IdsGrow
  BY DEF QueryInv
<1>3. events \in Seq(Event) /\ L \in Nat /\ DOMAIN events = 1..L /\ MaxEvents \in Nat
  BY <1>2, EventsTyped, Numbers
<1>4. /\ NextId(s) \in 0..MaxEvents
      /\ transport # "memory" => NextId(s) = L + 1
      /\ transport = "memory" /\ s = Here => NextId(s) = Cardinality(Own(L))
  BY <1>1, <1>2, NewId
<1>5. e \in Event /\ e.stream = s /\ e.id = NextId(s)
  <2>1. s \in Stream
    BY QueriesAssump
  <2> QED
    BY <1>4, <2>1 DEF Event
<1> HIDE DEF e
<1>6. /\ events' \in Seq(Event) /\ Len(events') = L + 1
      /\ \A m \in 1..L : events'[m] = events[m]
      /\ events'[L + 1] = e
  BY <1>1, <1>3, <1>5, AppendProperties
<1>7. \A n \in 0..L : Own(n)' = Own(n)
  BY <1>3, <1>6 DEF Own
<1>8. Own(Len(events))' = Own(L) \cup (IF s = Here THEN {L + 1} ELSE {})
  <2>1. Own(Len(events))' = {m \in 1..L + 1 : events'[m].stream = Here}
    BY <1>6 DEF Own
  <2>2. Own(L) = {m \in 1..L : events[m].stream = Here}
    BY DEF Own
  <2> QED
    BY <1>3, <1>5, <1>6, <2>1, <2>2
<1>9. seen \in 0..L /\ seen \in 0..L + 1
  <2>1. seen \in 0..L
    BY <1>2 DEF QueryTypes
  <2> QED
    BY <1>3, <2>1
<1>10. Stored' = Stored
  <2>1. Own(seen)' = Own(seen)
    BY <1>1, <1>7, <1>9
  <2>2. \A m \in Own(seen) : events'[m] = events[m]
    BY <1>3, <1>6, <1>9 DEF Own
  <2> QED
    BY <1>1, <2>1, <2>2 DEF Stored
<1>11. QueryTypes'
  <2>1. events' \in Seq(Event) /\ Len(events') <= MaxEvents /\ seen' \in 0..Len(events')
    BY <1>1, <1>3, <1>6, <1>9
  <2> QED
    BY <1>1, <1>2, <2>1 DEF QueryTypes
<1>12. IdsGrow'
  <2> DEFINE O == Own(L)
             P == Own(Len(events))'
  <2>1. /\ IsFiniteSet(O) /\ O \subseteq 1..L /\ \A m \in O : events[m] \in Event
    <3>1. L \in 0..L
      BY <1>3
    <3> QED
      BY <1>2, <3>1, OwnIs DEF Own
  <2>2. /\ \A m, n \in O : m < n => events[m].id < events[n].id
        /\ \A n \in O : IF transport = "memory" THEN events[n].id < Cardinality(O)
                        ELSE events[n].id \in 1..L
    BY <1>2 DEF IdsGrow
  <2>3. Cardinality(O) \in Nat /\ L + 1 \notin O
    BY <1>3, <2>1, FS_CardinalityType
  <2>4. \A m \in O : events'[m] = events[m] /\ m \in 1..L /\ events[m].id \in Int
    BY <1>6, <2>1, Numbers
  <2>5. CASE s # Here
    <3>1. P = O
      BY <1>8, <2>5
    <3> HIDE DEF O, P
    <3>2. \A m, n \in P : m < n => events'[m].id < events'[n].id
      BY <2>2, <2>4, <3>1
    <3>3. \A n \in P : IF transport = "memory" THEN events'[n].id < Cardinality(P)
                       ELSE events'[n].id \in 1..L + 1
      BY <1>3, <2>2, <2>4, <3>1
    <3> QED
      BY <1>1, <1>6, <3>2, <3>3 DEF IdsGrow, P
  <2>6. CASE s = Here
    <3>1. P = O \cup {L + 1}
      BY <1>8, <2>6
    <3> HIDE DEF O, P
    <3>2. Cardinality(P) = Cardinality(O) + 1
      BY <2>1, <2>3, <3>1, FS_AddElement
    <3>3. \A n \in O : events'[n].id < e.id
      <4> SUFFICES ASSUME NEW n \in O PROVE events'[n].id < e.id
        OBVIOUS
      <4>1. CASE transport = "memory"
        BY <1>4, <1>5, <2>2, <2>4, <2>6, <4>1 DEF O
      <4>2. CASE transport # "memory"
        <5>1. events[n].id \in 1..L /\ e.id = L + 1
          BY <1>4, <1>5, <2>2, <4>2
        <5> QED
          BY <1>3, <2>4, <5>1
      <4> QED
        BY <4>1, <4>2
    <3>4. ASSUME NEW m \in P, NEW n \in P, m < n PROVE events'[m].id < events'[n].id
      <4>1. CASE m \in O /\ n \in O
        BY <2>2, <2>4, <3>4, <4>1
      <4>2. CASE m \in O /\ n = L + 1
        BY <1>6, <3>3, <4>2
      <4>3. CASE m = L + 1
        <5>1. n \in 1..L + 1
          BY <1>3, <2>4, <3>1
        <5> QED
          BY <1>3, <3>4, <4>3, <5>1
      <4> QED
        BY <3>1, <4>1, <4>2, <4>3
    <3>5. ASSUME NEW n \in P
          PROVE  IF transport = "memory" THEN events'[n].id < Cardinality(P)
                 ELSE events'[n].id \in 1..L + 1
      <4>1. CASE n \in O
        BY <1>3, <2>2, <2>3, <2>4, <3>2, <4>1
      <4>2. CASE n = L + 1
        <5>1. events'[n].id = NextId(s)
          BY <1>5, <1>6, <4>2
        <5>2. transport = "memory" => NextId(s) = Cardinality(O)
          BY <1>4, <2>6 DEF O
        <5> QED
          BY <1>3, <1>4, <2>3, <3>2, <5>1, <5>2
      <4> QED
        BY <3>1, <4>1, <4>2
    <3> QED
      BY <1>1, <1>6, <3>4, <3>5 DEF IdsGrow, P
  <2> QED
    BY <2>5, <2>6
<1>13. Control' /\ Refusals' /\ V1Inv' /\ BatchInv' /\ WatchInv'
  <2>1. Control /\ Refusals /\ V1Inv /\ BatchInv /\ WatchInv
    BY DEF QueryInv
  <2>2. Control' /\ Refusals'
    BY <1>1, <2>1 DEF Control, Refusals
  <2>3. V1Inv' /\ BatchInv' /\ WatchInv'
    BY <1>1, <1>10, <2>1 DEF V1Inv, BatchInv, WatchInv, Awaited
  <2> QED
    BY <2>2, <2>3
<1> QED
  BY <1>11, <1>12, <1>13 DEF QueryInv

\* The catalogue leaves the transport alone.
LEMMA SameTransport == CatalogueNext => transport' = transport
<1>1. \A c, next, key, value : Step(c, next, key, value) => transport' = transport
  BY DEF Step
<1>2. \A c, next : Keeps(c, next) => transport' = transport
  BY <1>1 DEF Keeps
<1>3. \A s : EnsureStream(s) => transport' = transport
  BY DEF EnsureStream
<1>4. ASSUME NEW c, ClientStep(c) PROVE transport' = transport
  <2>1. \A k, n : SetPosition(c, k, n) => transport' = transport
    BY <1>1, <1>2 DEF SetPosition, MemorySetPosition, StoreSetPosition
  <2>2. \A k : GetPosition(c, k) \/ DeletePosition(c, k) => transport' = transport
    BY <1>1, <1>2 DEF GetPosition, DeletePosition
  <2>3. \A s : ListConsumers(c, s) => transport' = transport
    BY <1>2 DEF ListConsumers
  <2>4. Upsert(c) \/ UpsertFails(c) => transport' = transport
    BY <1>1, <1>2 DEF Upsert, UpsertFails
  <2>5. Meta(c) => transport' = transport
    BY <1>2 DEF Meta, ListStreams, ListApps, MemoryMeta
  <2>6. \A d : QueryStreamsForApp(c, d) => transport' = transport
    BY <1>2 DEF QueryStreamsForApp
  <2>7. V1Meta(c) \/ MetaFails(c) \/ ClientReturns(c) => transport' = transport
    BY <1>2 DEF V1Meta, MetaFails, ClientReturns
  <2> QED
    BY <1>4, <2>1, <2>2, <2>3, <2>4, <2>5, <2>6, <2>7 DEF ClientStep
<1> QED
  BY <1>3, <1>4 DEF CatalogueNext

\* A step that leaves the transport and the queries alone.
LEMMA QueriesAside ==
  ASSUME QueryInv, transport' = transport, UNCHANGED queryVars
  PROVE  QueryInv'
<1>1. UNCHANGED <<events, call, pc, rows, out, handled, outcome, seen, cut>>
  BY DEF queryVars
<1>2. Own(Len(events))' = Own(Len(events)) /\ Stored' = Stored
  BY <1>1 DEF Own, Stored
<1>3. QueryTypes'
  BY <1>1 DEF QueryInv, QueryTypes
<1>4. IdsGrow'
  BY <1>1, <1>2 DEF QueryInv, IdsGrow
<1>5. Control' /\ Refusals'
  BY <1>1 DEF QueryInv, Control, Refusals
<1>6. V1Inv' /\ BatchInv' /\ WatchInv'
  BY <1>1, <1>2 DEF QueryInv, V1Inv, BatchInv, WatchInv, Awaited
<1> QED
  BY <1>3, <1>4, <1>5, <1>6 DEF QueryInv

\* Before anything happens the invariant holds.
LEMMA QueryFirst == Init => QueryInv
<1> SUFFICES ASSUME Init PROVE QueryInv
  OBVIOUS
<1>1. /\ transport \in Transport /\ events = <<>> /\ call = NoCall /\ pc = "idle" /\ rows = <<>>
      /\ out = <<>> /\ handled = <<>> /\ outcome = "none" /\ seen = 0 /\ cut = FALSE
  BY DEF Init, CatalogueInit
<1>2. call.api = "none" /\ call.r2 \in Query2
  <2>1. NoCall.api = "none"
    BY DEF NoCall
  <2> QED
    BY <1>1, <2>1, NoCallIs
<1>3. Len(events) = 0 /\ events \in Seq(Event) /\ Own(Len(events)) = {}
  <2>1. events \in Seq(Event) /\ Len(events) = 0
    BY <1>1
  <2> QED
    BY <2>1 DEF Own
<1>4. QueryTypes
  <2>1. Len(events) <= MaxEvents /\ seen \in 0..Len(events)
    BY <1>1, <1>3, Numbers
  <2> QED
    BY <1>1, <1>2, <1>3, <2>1, NoRows DEF QueryTypes
<1>5. IdsGrow
  BY <1>3 DEF IdsGrow
<1>6. Control /\ Refusals
  BY <1>1, <1>2 DEF Control, Refusals, Dispatched
<1> QED
  BY <1>2, <1>4, <1>5, <1>6 DEF QueryInv, V1Inv, BatchInv, WatchInv

\* Every step keeps the invariant.
LEMMA QueryStep == QueryInv /\ [Next]_vars => QueryInv'
<1> SUFFICES ASSUME QueryInv, [Next]_vars PROVE QueryInv'
  OBVIOUS
<1>1. CASE CatalogueNext /\ UNCHANGED queryVars
  BY <1>1, SameTransport, QueriesAside
<1>2. CASE QueryNext
  <2>1. CASE \E s \in Written, k \in Kind, b \in Doc : Submit(s, k, b)
    BY <2>1, SubmitKeeps
  <2>2. CASE \E q \in Builders : Perform(q) \/ StreamQuery(q)
    BY <2>2, PerformKeeps, StreamKeeps
  <2>3. CASE \E q \in Requests : StreamBatch(q) \/ WatchFirst(q)
    BY <2>3, BatchKeeps, WatchKeeps
  <2>4. CASE \E ids \in SUBSET (0..MaxEvents) : EnvelopesFor(ids)
    BY <2>4, EnvelopesKeep
  <2>5. CASE FilterNext \/ LoadFails \/ Filtered
    BY <2>5, FilterKeeps, LoadKeeps, FilteredKeeps
  <2>6. CASE Dispatch
    <3>1. call.api \in Dispatched
      BY <2>6, DispatchFrame
    <3> QED
      BY <2>6, <3>1, KindKeeps, OpKeeps, TickKeeps DEF Dispatched
  <2>7. CASE AllDispatched \/ Return
    BY <2>7, DispatchedKeeps, ReturnKeeps
  <2> QED
    BY <1>2, <2>1, <2>2, <2>3, <2>4, <2>5, <2>6, <2>7 DEF QueryNext
<1>3. CASE UNCHANGED vars
  BY <1>3, QueriesAside DEF vars, catalogueVars
<1> QED
  BY <1>1, <1>2, <1>3 DEF Next

(* The inductive invariant of queries: in every reachable state the rows   *)
(* of the reply, the rows that passed the filter and the calls of handlers *)
(* stand for stored events, in order, and miss none that is asked for.     *)
THEOREM QueryInvariant == Spec => []QueryInv
BY QueryFirst, QueryStep, PTL DEF Spec
-----------------------------------------------------------------------------
(* The properties *)

\* A call that has ended well has nothing left over.
LEMMA EndedIs ==
  ASSUME QueryInv, outcome = "ok"
  PROVE  /\ rows = <<>> /\ Ids(rows) = {} /\ DOMAIN rows = {}
         /\ call.api \in Dispatched => out = <<>> /\ Ids(out) = {} /\ DOMAIN out = {}
         /\ ~cut => Awaited
<1>1. rows = <<>> /\ (call.api \in Dispatched => out = <<>>)
  BY DEF QueryInv, Control
<1>2. DOMAIN <<>> = {}
  BY NoRows
<1>3. Ids(<<>>) = {}
  BY <1>2 DEF Ids
<1> QED
  BY <1>1, <1>2, <1>3 DEF Awaited

(* Types: replies carry no id outside the store, and processBatchResults   *)
(* meets no operation that was not registered: "unknown op" is no outcome. *)
THEOREM QueriesTyped == Spec => []TypeOK
<1>1. QueryInv => TypeOK
  <2> SUFFICES ASSUME QueryInv PROVE TypeOK
    OBVIOUS
  <2>1. /\ pc \in {"idle", "filter", "dispatch", "done"}
        /\ outcome \in {"none", "ok", "empty query", "unsupported", "handler error", "panic", "error"}
        /\ call.api \in Dispatched \cup {"none", "perform", "envelopes"}
        /\ rows \in Seq(EnvelopeRow) /\ out \in Seq(EnvelopeRow) /\ handled \in Seq(Handling)
    BY Running
  <2>2. seen \in 0..Len(events) /\ events \in Seq(Event)
    BY DEF QueryInv, QueryTypes
  <2>3. Ids(rows) \subseteq 0..MaxEvents /\ Ids(out) \subseteq 0..MaxEvents
    BY <2>1, Numbers DEF Ids
  <2>4. Ids(handled) \subseteq 0..MaxEvents
    BY <2>1, Numbers DEF Ids
  <2>5. Ids(events) \subseteq 0..MaxEvents
    <3>1. \A n \in DOMAIN events : events[n] \in Event
      BY <2>2
    <3> QED
      BY <3>1, Numbers DEF Ids
  <2> QED
    BY <2>1, <2>2, <2>3, <2>4, <2>5 DEF TypeOK
<1> QED
  BY <1>1, QueryInvariant, PTL

(* Perform and Stream.ByKinds return the envelopes of exactly the events   *)
(* that satisfy the builder, in order and once each, on every transport.   *)
THEOREM PerformReturnsExactly == Spec => []PerformExact
<1>1. QueryInv => PerformExact
  <2> SUFFICES ASSUME QueryInv, pc = "done", call.api = "perform"
               PROVE  LET wanted == {e.id : e \in {e \in Stored : Wanted(call.v1, e)}}
                      IN /\ cut => transport = "grpc"
                         /\ outcome = "empty query" => transport = "grpc" /\ DOMAIN call.v1 = {}
                         /\ outcome \in {"ok", "empty query", "error"}
                         /\ outcome = "ok" => Ascending(out) /\ Complete(Ids(out), wanted)
    BY DEF PerformExact
  <2> DEFINE wanted == {e.id : e \in {e \in Stored : Wanted(call.v1, e)}}
  <2>1. /\ cut => transport = "grpc"
        /\ outcome = "empty query" => transport = "grpc" /\ DOMAIN call.v1 = {}
        /\ outcome \in {"none", "ok", "empty query", "error"}
    BY DEF QueryInv, Refusals
  <2>2. outcome # "none" /\ handled = <<>>
    BY DEF QueryInv, Control
  <2>3. V1Good(call, transport, Stored, handled, out, rows, Awaited)
    BY DEF QueryInv, V1Inv
  <2>4. \A e : /\ Pass(call, transport, e) <=> Wanted(call.v1, e)
               /\ Due(call, transport, e) <=> Wanted(call.v1, e)
    BY DEF Pass, Due, Suits, Wanted, Satisfies
  <2>5. \A e \in Stored : Wanted(call.v1, e) => e.id \in wanted
    OBVIOUS
  <2>6. \A i \in wanted : \E e \in Stored : Wanted(call.v1, e) /\ i = e.id
    OBVIOUS
  <2> HIDE DEF wanted
  <2>7. ASSUME outcome = "ok" PROVE Ascending(out) /\ Complete(Ids(out), wanted)
    <3>1. Ids(rows) = {} /\ (~cut => Awaited)
      BY <2>7, EndedIs
    <3>2. Ids(handled) = {}
      BY <2>2, NoRows DEF Ids
    <3>3. Ascending(out)
      BY <2>3 DEF V1Good, V1Order
    <3>4. Ids(out) \subseteq wanted
      <4>1. \A k \in DOMAIN out : \E e \in Stored : out[k].id = e.id /\ Pass(call, transport, e)
        BY <2>3 DEF V1Good, V1Rows, Stems
      <4> QED
        BY <2>4, <2>5, <4>1 DEF Ids
    <3>5. ~cut => wanted \subseteq Ids(out)
      BY <2>3, <2>4, <2>6, <3>1, <3>2 DEF V1Good, V1Whole
    <3> QED
      BY <3>3, <3>4, <3>5 DEF Complete
  <2> QED
    BY <2>1, <2>2, <2>7 DEF wanted
<1> QED
  BY <1>1, QueryInvariant, PTL

\* A builder whose Eq constraints are left out.
LEMMA WithoutEq ==
  ASSUME NEW r \in KindBuilder
  PROVE  [r EXCEPT !.eq = {}].eq = {} /\ [r EXCEPT !.eq = {}].match = r.match
<1>1. r = [eq |-> r.eq, match |-> r.match, on |-> r.on]
  BY DEF KindBuilder
<1> QED
  BY <1>1

(* QueryBuilder.Stream calls the handlers in order, once for each event    *)
(* that matches, and unless one of them fails with every one of them.      *)
THEOREM StreamHandlesExactly == Spec => []StreamExact
<1>1. QueryInv => StreamExact
  <2> SUFFICES ASSUME QueryInv, call.api = "stream" PROVE StreamExact
    BY DEF StreamExact
  <2> DEFINE b(e) == IF transport = "grpc" THEN [call.v1[e.kind] EXCEPT !.eq = {}]
                                           ELSE call.v1[e.kind]
             asked(e) == e.kind \in DOMAIN call.v1 /\ call.v1[e.kind].on /\ Satisfies(b(e), e)
             wanted == {e.id : e \in {e \in Stored : asked(e)}}
  <2>1. cut => transport = "grpc"
    BY DEF QueryInv, Refusals
  <2>2. V1Good(call, transport, Stored, handled, out, rows, Awaited)
    BY DEF QueryInv, V1Inv
  <2>3. call.v1 \in Builders /\ Stored \subseteq Event
    BY Running, StoredIs
  <2>4. ASSUME NEW e \in Stored PROVE Due(call, transport, e) <=> asked(e)
    <3>1. CASE e.kind \in DOMAIN call.v1
      <4>1. call.v1[e.kind] \in KindBuilder /\ DOMAIN call.v1 # {}
        BY <2>3, <3>1, QueriesAssump
      <4>2. b(e).match = call.v1[e.kind].match
        BY <4>1, WithoutEq
      <4>3. b(e).eq = IF transport = "grpc" THEN {} ELSE call.v1[e.kind].eq
        BY <4>1, WithoutEq
      <4>4. Satisfies(b(e), e) <=>
              /\ transport # "grpc" =>
                   \A p \in call.v1[e.kind].eq : p[1] \in DOMAIN e.body /\ e.body[p[1]] = p[2]
              /\ \A sub \in call.v1[e.kind].match : JSONIsSubset(e.body, sub)
        <5> HIDE DEF b
        <5> QED
          BY <4>2, <4>3 DEF Satisfies
      <4> HIDE DEF b
      <4>5. Pass(call, transport, e) <=> Suits(call.v1, transport # "grpc", e)
        BY DEF Pass
      <4>6. Suits(call.v1, transport # "grpc", e) <=> Satisfies(b(e), e)
        BY <3>1, <4>1, <4>4 DEF Suits
      <4> QED
        BY <3>1, <4>5, <4>6 DEF Due
    <3>2. CASE e.kind \notin DOMAIN call.v1
      BY <3>2 DEF Due
    <3> QED
      BY <3>1, <3>2
  <2>5. StreamExact <=> /\ Ascending(handled)
                        /\ Ids(handled) \subseteq wanted
                        /\ cut => transport = "grpc"
                        /\ outcome = "ok" => Complete(Ids(handled), wanted)
    BY DEF StreamExact
  <2>6. \A e \in Stored : Due(call, transport, e) => e.id \in wanted
    BY <2>4
  <2>7. \A i \in wanted : \E e \in Stored : Due(call, transport, e) /\ i = e.id
    BY <2>4
  <2> HIDE DEF wanted
  <2>8. Ascending(handled)
    BY <2>2 DEF V1Good, V1Order
  <2>9. Ids(handled) \subseteq wanted
    BY <2>2, <2>6 DEF V1Good, V1Rows, Ids
  <2>10. ASSUME outcome = "ok" PROVE Complete(Ids(handled), wanted)
    <3>1. Ids(rows) = {} /\ Ids(out) = {} /\ (~cut => Awaited)
      BY <2>10, EndedIs DEF Dispatched
    <3>2. ~cut => wanted \subseteq Ids(handled)
      BY <2>2, <2>7, <3>1 DEF V1Good, V1Whole
    <3> QED
      BY <2>9, <3>2 DEF Complete
  <2> QED
    BY <2>1, <2>5, <2>8, <2>9, <2>10
<1> QED
  BY <1>1, QueryInvariant, PTL

\* What the handlers of a query2 query are to be called with: those that the
\* query asks for are those that are registered.
LEMMA WantsAre ==
  ASSUME NEW q \in Query2
  PROVE  /\ \A w \in Wants(q, KindPlaces(q)) :
              /\ w.name \in Registered(q) /\ w = [name |-> w.name, id |-> w.id]
              /\ \E e \in Stored : e.id = w.id /\ \A t : Fits(q, t, w.name, e)
         /\ \A w \in Wants(q, IdPlaces(q)) :
              /\ w.name \in Registered(q) /\ w = [name |-> w.name, id |-> w.id]
              /\ \E e \in Stored :
                   e.id = w.id /\ \A t : (t = "memory" => w.id > q.after) => Fits(q, t, w.name, e)
         /\ \A e \in Stored, p \in Registered(q) : \A t :
              Fits(q, t, p, e) =>
                \/ [name |-> p, id |-> e.id] \in Wants(q, KindPlaces(q))
                \/ /\ [name |-> p, id |-> e.id] \in Wants(q, IdPlaces(q))
                   /\ t = "memory" => e.id > q.after
         /\ \A e \in Stored, p \in IdPlaces(q) : \A t :
              Fits(q, t, p, e) => /\ [name |-> p, id |-> e.id] \in Wants(q, IdPlaces(q))
                                  /\ t = "memory" => e.id > q.after
<1> DEFINE R(places) == [name : places, id : {e.id : e \in Stored}]
<1>1. \A places : \A w \in Wants(q, places) :
        /\ w.name \in places /\ w = [name |-> w.name, id |-> w.id]
        /\ \E e \in Stored : e.id = w.id /\ HandlerWants(q, w.name, e)
  BY DEF Wants
<1>2. ASSUME NEW places, NEW e \in Stored, NEW p \in places, HandlerWants(q, p, e)
      PROVE  [name |-> p, id |-> e.id] \in Wants(q, places)
  <2> DEFINE w == [name |-> p, id |-> e.id]
  <2>1. w \in R(places) /\ w.name = p /\ w.id = e.id
    OBVIOUS
  <2> HIDE DEF w
  <2>2. w \in Wants(q, places)
    BY <1>2, <2>1 DEF Wants
  <2> QED
    BY <2>2 DEF w
<1>3. ASSUME NEW p \in KindPlaces(q), NEW e, HandlerWants(q, p, e)
      PROVE  p \in Registered(q) /\ e.id > q.after
  <2>1. ~(p[1] > Len(q.kinds))
    BY PlacesAre
  <2>2. e.id > q.after /\ (IF p[2] = 0 THEN q.kinds[p[1]].each ELSE q.kinds[p[1]].subsets[p[2]].on)
    BY <1>3, <2>1 DEF HandlerWants
  <2> QED
    BY <2>2 DEF Registered
<1>4. IdPlaces(q) \subseteq Registered(q) /\ Registered(q) \subseteq KindPlaces(q) \cup IdPlaces(q)
  BY DEF Registered
<1>5. ASSUME NEW w \in Wants(q, KindPlaces(q))
      PROVE  /\ w.name \in Registered(q) /\ w = [name |-> w.name, id |-> w.id]
             /\ \E e \in Stored : e.id = w.id /\ \A t : Fits(q, t, w.name, e)
  BY <1>1, <1>3 DEF Fits
<1>6. ASSUME NEW w \in Wants(q, IdPlaces(q))
      PROVE  /\ w.name \in Registered(q) /\ w = [name |-> w.name, id |-> w.id]
             /\ \E e \in Stored :
                  e.id = w.id /\ \A t : (t = "memory" => w.id > q.after) => Fits(q, t, w.name, e)
  BY <1>1, <1>4 DEF Fits
<1>7. ASSUME NEW e \in Stored, NEW p \in IdPlaces(q), NEW t, Fits(q, t, p, e)
      PROVE  /\ [name |-> p, id |-> e.id] \in Wants(q, IdPlaces(q))
             /\ t = "memory" => e.id > q.after
  BY <1>2, <1>7 DEF Fits
<1>8. ASSUME NEW e \in Stored, NEW p \in KindPlaces(q), NEW t, Fits(q, t, p, e)
      PROVE  [name |-> p, id |-> e.id] \in Wants(q, KindPlaces(q))
  BY <1>2, <1>8 DEF Fits
<1> QED
  BY <1>4, <1>5, <1>6, <1>7, <1>8

(* StreamBatch calls every handler with exactly the events that its own    *)
(* clause asks for, once each, and panics only for an OnID clause without  *)
(* a handler whose event is there.                                         *)
THEOREM BatchHandlesExactly == Spec => []BatchExact
<1>1. QueryInv => BatchExact
  <2> SUFFICES ASSUME QueryInv, call.api = "batch" PROVE BatchExact
    BY DEF BatchExact
  <2> DEFINE q == call.r2
             ids == {w \in Wants(q, IdPlaces(q)) : transport = "memory" => w.id > q.after}
             wanted == Wants(q, KindPlaces(q)) \cup ids
  <2>1. BatchExact <=>
          /\ \A m, n \in DOMAIN handled : handled[m] = handled[n] => m = n
          /\ ToSet(handled) \subseteq wanted
          /\ outcome = "ok" => Complete(ToSet(handled), wanted)
          /\ outcome = "panic" => \E w \in ids : ~IsSet(q, w.name)
    BY DEF BatchExact
  <2>2. BatchGood(q, transport, Stored, handled, out, rows, Awaited)
        /\ (outcome = "panic" => Unset(q, transport, Stored))
    BY DEF QueryInv, BatchInv
  <2>3. q \in Query2 /\ handled \in Seq(Handling) /\ Stored \subseteq Event
    BY Running, StoredIs
  <2> HIDE DEF q
  <2>4. /\ \A w \in wanted : /\ w.name \in Registered(q) /\ w = [name |-> w.name, id |-> w.id]
                             /\ \E e \in Stored : e.id = w.id /\ Fits(q, transport, w.name, e)
        /\ \A e \in Stored, p \in Registered(q) :
             Fits(q, transport, p, e) => [name |-> p, id |-> e.id] \in wanted
        /\ \A e \in Stored, p \in IdPlaces(q) :
             Fits(q, transport, p, e) => [name |-> p, id |-> e.id] \in ids
    <3>1. ASSUME NEW w \in wanted
          PROVE  /\ w.name \in Registered(q) /\ w = [name |-> w.name, id |-> w.id]
                 /\ \E e \in Stored : e.id = w.id /\ Fits(q, transport, w.name, e)
      <4>1. CASE w \in Wants(q, KindPlaces(q))
        BY <2>3, <4>1, WantsAre
      <4>2. CASE w \in ids
        BY <2>3, <4>2, WantsAre
      <4> QED
        BY <3>1, <4>1, <4>2
    <3>2. ASSUME NEW e \in Stored, NEW p, [name |-> p, id |-> e.id] \in Wants(q, IdPlaces(q)),
                 transport = "memory" => e.id > q.after
          PROVE  [name |-> p, id |-> e.id] \in ids
      BY <3>2
    <3>3. ASSUME NEW e \in Stored, NEW p \in Registered(q), Fits(q, transport, p, e)
          PROVE  [name |-> p, id |-> e.id] \in wanted
      BY <2>3, <3>2, <3>3, WantsAre
    <3>4. ASSUME NEW e \in Stored, NEW p \in IdPlaces(q), Fits(q, transport, p, e)
          PROVE  [name |-> p, id |-> e.id] \in ids
      BY <2>3, <3>2, <3>4, WantsAre
    <3> QED
      BY <3>1, <3>3, <3>4
  <2> HIDE DEF ids, wanted
  <2>5. /\ BatchOrder(q, handled, out, rows) /\ BatchRows(q, transport, Stored, handled, out, rows)
        /\ Awaited => BatchWhole(q, transport, Stored, handled, out, rows)
    BY <2>2 DEF BatchGood
  <2>6. \A k \in DOMAIN handled :
          /\ handled[k] = [name |-> handled[k].name, id |-> handled[k].id]
          /\ handled[k].name \in Registered(q)
          /\ \E e \in Stored : handled[k].id = e.id /\ Fits(q, transport, handled[k].name, e)
    <3>1. \A x \in Handling : x = [name |-> x.name, id |-> x.id]
      BY DEF Handling
    <3>2. \A k \in DOMAIN handled : handled[k] \in Handling
      BY <2>3
    <3> QED
      BY <2>5, <3>1, <3>2 DEF BatchRows, Fitting
  <2>7. ASSUME NEW m \in DOMAIN handled, NEW n \in DOMAIN handled, handled[m] = handled[n]
        PROVE  m = n
    <3>1. m \in Int /\ n \in Int
      BY <2>3
    <3>2. handled[m].id \in Int
      BY <2>3, Numbers
    <3>3. Register(q, handled[m].name) \in Int
      BY <2>3, <2>6, Registering
    <3>4. ~(m < n) /\ ~(n < m)
      BY <2>5, <2>7, <3>2, <3>3 DEF BatchOrder, Before
    <3> QED
      BY <3>1, <3>4
  <2>8. ToSet(handled) \subseteq wanted
    <3> SUFFICES ASSUME NEW k \in DOMAIN handled PROVE handled[k] \in wanted
      BY DEF ToSet
    <3> QED
      BY <2>4, <2>6
  <2>9. ASSUME outcome = "ok" PROVE Complete(ToSet(handled), wanted)
    <3>1. Ids(rows) = {} /\ DOMAIN out = {} /\ (~cut => Awaited)
      BY <2>9, EndedIs DEF Dispatched
    <3>2. ASSUME ~cut, NEW w \in wanted PROVE w \in ToSet(handled)
      <4>1. PICK e \in Stored : e.id = w.id /\ Fits(q, transport, w.name, e)
        BY <2>4
      <4>2. w.name \in Registered(q) /\ w = [name |-> w.name, id |-> w.id]
        BY <2>4
      <4>3. PICK k \in DOMAIN handled : handled[k].name = w.name /\ handled[k].id = w.id
        BY <2>5, <3>1, <3>2, <4>1, <4>2 DEF BatchWhole
      <4>4. handled[k] = w
        BY <2>6, <4>2, <4>3
      <4> QED
        BY <4>4 DEF ToSet
    <3> QED
      BY <2>8, <3>2 DEF Complete
  <2>10. ASSUME outcome = "panic" PROVE \E w \in ids : ~IsSet(q, w.name)
    <3>1. PICK e \in Stored, p \in IdPlaces(q) : Fits(q, transport, p, e) /\ ~IsSet(q, p)
      BY <2>2, <2>10 DEF Unset
    <3>2. [name |-> p, id |-> e.id] \in ids /\ [name |-> p, id |-> e.id].name = p
      BY <2>4, <3>1
    <3> QED
      BY <3>1, <3>2
  <2> QED
    BY <2>1, <2>7, <2>8, <2>9, <2>10
<1> QED
  BY <1>1, QueryInvariant, PTL

(* Watch hands every stored event that a clause asks for to exactly one of *)
(* the handlers that ask for it, in the order of ids.                      *)
THEOREM WatchHandsOnce == Spec => []WatchOnce
<1>1. QueryInv => WatchOnce
  <2> SUFFICES ASSUME QueryInv, call.api = "watch" PROVE WatchOnce
    BY DEF WatchOnce
  <2> DEFINE q == call.r2
             wanted == Wants(q, KindPlaces(q))
             wantedIds == {w.id : w \in wanted}
  <2>1. WatchOnce <=> /\ Ascending(handled)
                      /\ ToSet(handled) \subseteq wanted
                      /\ outcome = "ok" => Complete(Ids(handled), wantedIds)
    BY DEF WatchOnce
  <2>2. WatchGood(q, transport, Stored, handled, out, rows, Awaited)
    BY DEF QueryInv, WatchInv
  <2>3. q \in Query2 /\ handled \in Seq(Handling) /\ q.ids = <<>>
    <3>1. q.ids = <<>>
      BY DEF QueryInv, Control
    <3> QED
      BY <3>1, Running
  <2> HIDE DEF q
  <2>4. IdPlaces(q) = {}
    BY <2>3, NoRows DEF IdPlaces
  <2>5. Wants(q, IdPlaces(q)) = {}
    <3>1. \A w \in Wants(q, IdPlaces(q)) : w.name \in IdPlaces(q)
      BY DEF Wants
    <3> QED
      BY <2>4, <3>1
  <2>6. /\ \A w \in wanted : /\ w.name \in Registered(q)
                             /\ \E e \in Stored : e.id = w.id /\ Fits(q, transport, w.name, e)
        /\ \A e \in Stored, p \in Registered(q) :
             Fits(q, transport, p, e) => [name |-> p, id |-> e.id] \in wanted
    BY <2>3, <2>5, WantsAre
  <2>7. wantedIds = {w.id : w \in wanted}
    OBVIOUS
  <2> HIDE DEF wanted, wantedIds
  <2>8. /\ WatchOrder(handled, out, rows) /\ WatchRows(q, transport, Stored, handled, out, rows)
        /\ Awaited => WatchWhole(q, transport, Stored, handled, out, rows)
    BY <2>2 DEF WatchGood
  <2>9. Ascending(handled)
    BY <2>8 DEF WatchOrder
  <2>10. \A k \in DOMAIN handled : handled[k] \in wanted
    <3> SUFFICES ASSUME NEW k \in DOMAIN handled PROVE handled[k] \in wanted
      OBVIOUS
    <3>1. handled[k] \in Handling
      BY <2>3
    <3>2. handled[k] = [name |-> handled[k].name, id |-> handled[k].id]
      BY <3>1 DEF Handling
    <3>3. /\ handled[k].name \in Registered(q)
          /\ \E e \in Stored : handled[k].id = e.id /\ Fits(q, transport, handled[k].name, e)
      BY <2>8 DEF WatchRows, Fitting
    <3> QED
      BY <2>6, <3>2, <3>3
  <2>11. ASSUME outcome = "ok" PROVE Complete(Ids(handled), wantedIds)
    <3>1. Ids(rows) = {} /\ Ids(out) = {} /\ (~cut => Awaited)
      BY <2>11, EndedIs DEF Dispatched
    <3>2. Ids(handled) \subseteq wantedIds
      BY <2>7, <2>10 DEF Ids
    <3>3. ~cut => wantedIds \subseteq Ids(handled)
      <4> SUFFICES ASSUME ~cut, NEW w \in wanted PROVE w.id \in Ids(handled)
        BY <2>7
      <4>1. PICK e \in Stored : e.id = w.id /\ Fits(q, transport, w.name, e)
        BY <2>6
      <4> QED
        BY <2>6, <2>8, <3>1, <4>1 DEF WatchWhole
    <3> QED
      BY <3>2, <3>3 DEF Complete
  <2>12. ToSet(handled) \subseteq wanted
    BY <2>10 DEF ToSet
  <2> QED
    BY <2>1, <2>9, <2>11, <2>12
<1> QED
  BY <1>1, QueryInvariant, PTL

(* EnvelopesFor returns the envelopes of those ids of the queried stream   *)
(* and of no other stream.                                                 *)
THEOREM EnvelopesReturnsExactly == Spec => []EnvelopesExact
<1>1. QueryInv => EnvelopesExact
  <2> SUFFICES ASSUME QueryInv, call.api = "envelopes"
               PROVE  /\ cut => transport # "memory"
                      /\ outcome = "ok" =>
                           /\ Ascending(out)
                           /\ Complete(Ids(out), {e.id : e \in Stored} \cap call.ids)
    BY DEF EnvelopesExact
  <2> DEFINE wanted == {e.id : e \in Stored} \cap call.ids
  <2>1. cut => transport # "memory"
    BY DEF QueryInv, Refusals
  <2>2. V1Good(call, transport, Stored, handled, out, rows, Awaited)
    BY DEF QueryInv, V1Inv
  <2>3. \A e : /\ Pass(call, transport, e) <=> e.id \in call.ids
               /\ Due(call, transport, e) <=> e.id \in call.ids
    BY DEF Pass, Due
  <2>4. ASSUME outcome = "ok" PROVE Ascending(out) /\ Complete(Ids(out), wanted)
    <3>1. Ids(rows) = {} /\ (~cut => Awaited)
      BY <2>4, EndedIs
    <3>2. Ids(handled) = {}
      <4>1. handled = <<>>
        BY DEF QueryInv, Control
      <4> QED
        BY <4>1, NoRows DEF Ids
    <3>3. Ascending(out)
      BY <2>2 DEF V1Good, V1Order
    <3>4. Ids(out) \subseteq wanted
      <4>1. \A k \in DOMAIN out : \E e \in Stored : out[k].id = e.id /\ e.id \in call.ids
        BY <2>2, <2>3 DEF V1Good, V1Rows, Stems
      <4> QED
        BY <4>1 DEF Ids
    <3>5. ~cut => wanted \subseteq Ids(out)
      BY <2>2, <2>3, <3>1, <3>2 DEF V1Good, V1Whole
    <3> QED
      BY <3>3, <3>4, <3>5 DEF Complete
  <2> QED
    BY <2>1, <2>4
<1> QED
  BY <1>1, QueryInvariant, PTL
====
