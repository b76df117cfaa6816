------------------------------ MODULE Queries ------------------------------
(***************************************************************************)
(* Querying a stream: the v1 builder (Stream.Query, Perform and Stream),   *)
(* the query2 builder (StreamBatch and the first pass of Watch) and        *)
(* EnvelopesFor, over the gRPC, the REST and the in-memory transport, down *)
(* to the rows that Postgres or the in-memory log selects.                 *)
(* A client asks one query at a time while events are submitted to its     *)
(* stream and to another one. Postgres answers a query in one statement;   *)
(* the in-memory transport lists the envelopes and then loads one body     *)
(* after the other, and so does Perform when the reply is not filtered.    *)
(* Any call may fail. A connection to Postgres that breaks while rows are  *)
(* read makes applyQuery fail, but Repository.Stream and replayMeta do not *)
(* look at rows.Err: the rows read so far pass for the whole result.       *)
(* A body is a flat JSON object of strings, so that the jsonb operators    *)
(* and the local matchers compare the same documents. Events carry their   *)
(* when_occurred in the order of their ids. A list that the code builds in *)
(* a loop is the ordered set of the places where something is appended.    *)
(***************************************************************************)
EXTENDS Catalogue, SequencesExt

CONSTANTS
  Kind,       \* kinds of events
  Field,      \* properties of a body
  Value,      \* their values
  Here,       \* the stream that is queried
  Written,    \* streams that events are submitted to
  Builders,   \* v1 queries the client may build
  Requests,   \* query2 queries the client may build
  MaxEvents   \* bound on submitted events

\* A JSON object; a partial function from properties to values.
Doc == UNION {[P -> Value] : P \in SUBSET Field}
NoAfter == -1   \* AfterID is nil: every id is greater

KindBuilder == [eq : SUBSET (Field \X Value), match : SUBSET Doc, on : BOOLEAN]

\* A query2 query. OnKind clauses have handlers for all events of the kind
\* and for those with a subset, or not; OnID clauses have one or not.
KindClause == [kind : Kind, each : BOOLEAN, subsets : Seq([doc : Doc, on : BOOLEAN])]
IDClause == [id : Int, on : BOOLEAN]
Query2 == [kinds : Seq(KindClause), ids : Seq(IDClause), after : Int]

ASSUME QueriesAssump ==
  /\ Here \in Written
  /\ Written \subseteq Stream
  /\ MaxEvents \in Nat
  /\ \A q \in Builders :
       /\ DOMAIN q \subseteq Kind
       /\ IsFiniteSet(DOMAIN q)
       /\ \A k \in DOMAIN q :
            /\ q[k] \in KindBuilder
            /\ \A d, e \in q[k].match : d = e
  /\ \A q \in Requests : q \in Query2

VARIABLES
  events,     \* the stored events, in the order in which they were stored
  call,       \* the running query
  pc,         \* "idle", "filter", "dispatch" or "done"
  rows,       \* rows still to be filtered
  out,        \* rows of the answer, or still to be dispatched
  handled,    \* calls of handlers: which handler, with which event
  outcome,    \* what the call returned
  seen,       \* events stored when the store was asked
  cut         \* a result ended early and passed for the whole

queryVars == <<events, call, pc, rows, out, handled, outcome, seen, cut>>
vars == <<catalogueVars, queryVars>>

NoCall == [api |-> "none", v1 |-> <<>>, r2 |-> [kinds |-> <<>>, ids |-> <<>>, after |-> NoAfter],
           ids |-> {}]

Init ==
  /\ CatalogueInit
  /\ events = <<>>
  /\ call = NoCall
  /\ pc = "idle"
  /\ rows = <<>>
  /\ out = <<>>
  /\ handled = <<>>
  /\ outcome = "none"
  /\ seen = 0
  /\ cut = FALSE
-----------------------------------------------------------------------------
(* Order. Places in nested loops are pairs, compared by their first and    *)
(* then by their second number.                                            *)

Precedes(x, y) == x[1] < y[1] \/ (x[1] = y[1] /\ x[2] < y[2])
Rank(x, S) == Cardinality({y \in S : Precedes(y, x)})
InOrder(S) == [k \in 1..Cardinality(S) |-> CHOOSE x \in S : Rank(x, S) = k - 1]
-----------------------------------------------------------------------------
(* The store *)

Own(n) == {m \in 1..n : events[m].stream = Here}

\* events.id counts all rows of the table from 1; the in-memory transport
\* uses the index in the packets of the stream.
NextId(s) == IF transport = "memory"
             THEN Cardinality({m \in DOMAIN events : events[m].stream = s})
             ELSE Len(events) + 1

Submit(s, k, b) ==
  /\ s \in streams
  /\ Len(events) < MaxEvents
  /\ events' = Append(events, [stream |-> s, id |-> NextId(s), kind |-> k, body |-> b])
  /\ UNCHANGED <<catalogueVars, call, pc, rows, out, handled, outcome, seen, cut>>

\* Postgres and the in-memory transport look an id up in its stream only.
GetEvent(id) == events[CHOOSE n \in Own(Len(events)) : events[n].id = id].body

JSONIsSubset(body, sub) ==
  DOMAIN sub \subseteq DOMAIN body /\ \A f \in DOMAIN sub : body[f] = sub[f]

Row(e, op) == [id |-> e.id, kind |-> e.kind, op |-> op]

\* The rows for pairs of an event and a position in a list of operations.
Rows(hits, ops) ==
  [m \in 1..Cardinality(hits) |-> Row(events[InOrder(hits)[m][1]], ops[InOrder(hits)[m][2]])]

\* The rows of a result that tells no operations apart.
Envelopes(ns) == Rows(ns \X {1}, <<0>>)
-----------------------------------------------------------------------------
(* v1: Stream.Query().WithKind(k)...; one builder per kind *)

ToKindConstraint(q, k) == [kind |-> k, eq |-> q[k].eq, match |-> q[k].match]
WireQuery(q) == {ToKindConstraint(q, k) : k \in DOMAIN q}

FilterMatchedProperties(c, body) ==
  \A p \in c.eq : p[1] \in DOMAIN body /\ body[p[1]] = p[2]

FilterSubsetMatch(c, body) == \A sub \in c.match : JSONIsSubset(body, sub)

\* filter(): the body is loaded once for each sort of constraint.
Filter(query, r) ==
  \/ query = {}
  \/ \E c \in query :
       /\ c.kind = r.kind
       /\ c.eq # {} => FilterMatchedProperties(c, GetEvent(r.id))
       /\ c.match # {} => FilterSubsetMatch(c, GetEvent(r.id))

\* SQL: event#>>path IN (value) for every Eq and event @> document.
TranslateKindConstraint(c, e) ==
  /\ e.kind = c.kind
  /\ \A p \in c.eq : p[1] \in DOMAIN e.body /\ e.body[p[1]] = p[2]
  /\ \A sub \in c.match : JSONIsSubset(e.body, sub)

TranslateQuery(query) ==
  {n \in Own(Len(events)) :
     query = {} \/ \E c \in query : TranslateKindConstraint(c, events[n])}
-----------------------------------------------------------------------------
(* query2: a handler is registered at <<i, 0>> for all events of the i-th  *)
(* kind, at <<i, j>> for its j-th subset, and at <<Len(q.kinds) + i, 0>>   *)
(* for the i-th id. Its number is the count of those registered before it. *)

KindPlaces(q) ==
  UNION {{<<i, j>> : j \in 0..Len(q.kinds[i].subsets)} : i \in DOMAIN q.kinds}
IdPlaces(q) == {<<Len(q.kinds) + i, 0>> : i \in DOMAIN q.ids}

\* Of a kind only the handlers that are set; an OnID clause is registered
\* with or without a handler.
Registered(q) ==
  {p \in KindPlaces(q) : IF p[2] = 0 THEN q.kinds[p[1]].each ELSE q.kinds[p[1]].subsets[p[2]].on}
    \cup IdPlaces(q)

Register(q, p) == Rank(p, Registered(q))

\* A clause of a request: the events it asks for, and its number.
Clause(by, kind, doc, id, op) == [by |-> by, kind |-> kind, doc |-> doc, id |-> id, op |-> op]
NoId == -1

PrepareKind(q, p)    == Clause("kind", q.kinds[p[1]].kind, <<>>, NoId, Register(q, p))
PrepareMatched(q, p) == Clause("subset", q.kinds[p[1]].kind, q.kinds[p[1]].subsets[p[2]].doc,
                               NoId, Register(q, p))

\* (mutants: the number is taken after the registration; ids are numbered apart)
PrepareLate(q, p) == Clause("id", "", <<>>, q.ids[p[1] - Len(q.kinds)].id, Register(q, p) + 1)
PrepareAmongIDs(q, p) ==
  Clause("id", "", <<>>, q.ids[p[1] - Len(q.kinds)].id, p[1] - Len(q.kinds) - 1)
PrepareID(q, p) == Clause("id", "", <<>>, q.ids[p[1] - Len(q.kinds)].id, Register(q, p))

Prepare(q, p) == IF p[1] > Len(q.kinds) THEN PrepareID(q, p)
                 ELSE IF p[2] = 0 THEN PrepareKind(q, p) ELSE PrepareMatched(q, p)

\* empty: there is no OnKind and no OnID.
Request(clauses, after, empty) == [clauses |-> clauses, after |-> after, empty |-> empty]

BuildBatchRequest(q) ==
  Request([p \in Registered(q) |-> Prepare(q, p)], q.after, q.kinds = <<>> /\ q.ids = <<>>)

\* Watch sends the OnKind clauses only.
WatchPart(q) == [kinds |-> q.kinds, ids |-> <<>>, after |-> q.after]
BuildWatchRequest(q) == BuildBatchRequest(WatchPart(q))
-----------------------------------------------------------------------------
(* The operations of the Repository: the rows that each selects *)

\* AfterID narrows an operation when it is positive, and no lookup by id.
After(o, e) == o.after > 0 => e.id > o.after

EachKind(o, e)        == e.kind = o.clause.kind /\ After(o, e)
MatchSubset(o, e)     == /\ e.kind = o.clause.kind
                         /\ JSONIsSubset(e.body, o.clause.doc)
                         /\ After(o, e)
MatchID(o, e)         == e.id = o.clause.id
AllStreamEvents(o, e) == After(o, e)

Selects(o, e) ==
  CASE o.clause.by = "kind"   -> EachKind(o, e)
    [] o.clause.by = "subset" -> MatchSubset(o, e)
    [] o.clause.by = "id"     -> MatchID(o, e)
    [] o.clause.by = "all"    -> AllStreamEvents(o, e)

Operation(clause, after) == [clause |-> clause, after |-> after]

Operations(in) ==
  LET at == InOrder(DOMAIN in.clauses)
  IN [k \in 1..Cardinality(DOMAIN in.clauses) |-> Operation(in.clauses[at[k]], in.after)]

TranslateBatchR2(in) == Operations(in)   \* by REST
BuildQueryOps(in)    == Operations(in)   \* by gRPC

\* UNION ALL of the operations, ordered by when_occurred; rows of one event
\* tie, and come here in the order of the operations.
RepositoryStream(ops) ==
  Rows({h \in Own(Len(events)) \X (1..Len(ops)) : Selects(ops[h[2]], events[h[1]])},
       [k \in 1..Len(ops) |-> ops[k].clause.op])

\* (mutant: the stream is left out of the WHERE)
ReplayEveryStream == DOMAIN events
ReplayMeta == Own(Len(events))
-----------------------------------------------------------------------------
(* Asking: the reply goes on to be filtered, dispatched or returned *)

Dispatched == {"stream", "batch", "watch"}

Returns(o) == pc' = "done" /\ outcome' = o
Replies(rs) ==
  /\ out' = rs
  /\ rows' = <<>>
  /\ IF call'.api \in Dispatched THEN pc' = "dispatch" /\ UNCHANGED outcome ELSE Returns("ok")
ToFilter(rs) == pc' = "filter" /\ rows' = rs /\ UNCHANGED <<out, outcome>>
Refused(o) == Returns(o) /\ cut' = FALSE /\ UNCHANGED <<rows, out>>

\* System.Stream has ensured the stream that is asked.
Ask(c) ==
  /\ pc = "idle"
  /\ Here \in streams
  /\ call' = c
  /\ seen' = Len(events)
  /\ UNCHANGED <<catalogueVars, events, handled>>

\* A reply of a transport: rows, or an error.  All the rows that were selected
\* are in it, or the first of them.
Reply(rs, c) == [rows |-> rs, cut |-> c, error |-> "none"]
Failure(o)   == [rows |-> <<>>, cut |-> FALSE, error |-> o]

Whole(rs) == {Reply(rs, FALSE)}
Unchecked(rs) == {Reply(SubSeq(rs, 1, n), n < Len(rs)) : n \in 0..Len(rs)}
MayFail(replies) == replies \cup {Failure("error")}

\* What the caller does next with a reply, unless it is an error.
Given(r, next) == IF r.error = "none" THEN next /\ cut' = r.cut ELSE Refused(r.error)

\* The memory transport lists the envelopes and then decides one by one.
MemoryAllEnvelopes == MayFail(Whole(Envelopes(Own(Len(events)))))

\* grpcQuery.Query; receiving may fail at any row.
GrpcQuery(in) ==
  LET ops == BuildQueryOps(in) IN
  IF Len(ops) = 0 THEN {Failure("empty query")} ELSE Unchecked(RepositoryStream(ops))

Receive(in) == MayFail(GrpcQuery(in))

\* applyQuery fails when the connection breaks.
ApplyQuery(query) == MayFail(Whole(Envelopes(TranslateQuery(query))))

V1QueryRoute(query)      == ApplyQuery(query)
V1QueryBatchRoute(query) == ApplyQuery(query)

\* A request without operations is answered with nothing.
V1QueryBatchR2Route(in) ==
  LET ops == TranslateBatchR2(in) IN
  IF Len(ops) = 0 THEN Whole(<<>>) ELSE Unchecked(RepositoryStream(ops))

V1QueryAllEnvelopes == Unchecked(Envelopes(ReplayMeta))

\* The REST client turns every status but 200 and every broken connection
\* into an error.
Post(replies) == MayFail(replies)
Get(replies)  == MayFail(replies)

TargetOp == 42

\* The constraints come in the order in which Go walks the map of builders.
ForKinds(query, clause) ==
  Request([p \in (1..Cardinality(query)) \X {0} |-> clause[SetToSeq(query)[p[1]]]],
          NoAfter, query = {})

\* The v1 builder always sends a non-nil Eq: all events of the kinds are
\* asked for, and the reply is not filtered.
WholeKind(c) == Clause("kind", c.kind, <<>>, NoId, TargetOp)
BuildQueryRequest(query) == ForKinds(query, [c \in query |-> WholeKind(c)])

\* QueryBatch sends the subset and leaves Eq out.
\* (mutant: the subset is left out, too)
BatchWholeKind(c) == WholeKind(c)
BatchClause(c) ==
  IF c.match = {} THEN WholeKind(c)
  ELSE Clause("subset", c.kind, CHOOSE sub \in c.match : TRUE, NoId, TargetOp)

QueryBatchRequest(query) == ForKinds(query, [c \in query |-> BatchClause(c)])

\* Perform filters again what was not filtered by the service.
\* (mutant: the reply is always taken for filtered)
PerformTrusting(rs) == Replies(rs)
PerformGrpc(rs) == ToFilter(rs)

Perform(q) ==
  LET query == WireQuery(q) IN
  /\ Ask([NoCall EXCEPT !.api = "perform", !.v1 = q])
  /\ CASE transport = "grpc" ->
            \E r \in Receive(BuildQueryRequest(query)) : Given(r, PerformGrpc(r.rows))
       [] transport = "rest" -> \E r \in Post(V1QueryRoute(query)) : Given(r, Replies(r.rows))
       [] transport = "memory" -> \E r \in MemoryAllEnvelopes : Given(r, ToFilter(r.rows))

\* QueryBuilder.Stream
StreamQuery(q) ==
  LET query == WireQuery(q) IN
  /\ Ask([NoCall EXCEPT !.api = "stream", !.v1 = q])
  /\ CASE transport = "grpc" ->
            \E r \in Receive(QueryBatchRequest(query)) : Given(r, Replies(r.rows))
       [] transport = "rest" -> \E r \in Post(V1QueryBatchRoute(query)) : Given(r, Replies(r.rows))
       [] transport = "memory" -> \E r \in MemoryAllEnvelopes : Given(r, ToFilter(r.rows))

\* The request as gRPC sends it.
BuildBatchR2Request(in) == Request(in.clauses, in.after, FALSE)

StreamBatch(q) ==
  LET in == BuildBatchRequest(q) IN
  /\ Ask([NoCall EXCEPT !.api = "batch", !.r2 = q])
  /\ IF in.empty THEN Refused("ok")
     ELSE CASE transport = "grpc" ->
                 \E r \in Receive(BuildBatchR2Request(in)) : Given(r, Replies(r.rows))
            [] transport = "rest" ->
                 \E r \in Post(V1QueryBatchR2Route(in)) : Given(r, Replies(r.rows))
            [] transport = "memory" -> \E r \in MemoryAllEnvelopes : Given(r, ToFilter(r.rows))

\* Query.Watch up to the events that are stored already. The service walks
\* through the rows that were selected, the in-memory watch through all.
WatchFirst(q) ==
  LET in == BuildWatchRequest(q) IN
  /\ Ask([NoCall EXCEPT !.api = "watch", !.r2 = WatchPart(q)])
  /\ CASE transport = "grpc"   -> \E r \in Receive(in) : Given(r, ToFilter(r.rows))
       [] transport = "rest"   -> Refused("unsupported")
       [] transport = "memory" ->
            IF in.empty THEN Refused("empty query")
            ELSE \E r \in MemoryAllEnvelopes : Given(r, ToFilter(r.rows))

GrpcAllEnvelopes ==
  Receive(Request([p \in {<<1, 0>>} |-> Clause("all", "", <<>>, NoId, TargetOp)], NoAfter, FALSE))

AllEnvelopes ==
  CASE transport = "grpc"   -> GrpcAllEnvelopes
    [] transport = "rest"   -> Get(V1QueryAllEnvelopes)
    [] transport = "memory" -> MemoryAllEnvelopes

\* Stream.EnvelopesFor: the envelopes of the whole stream, narrowed to ids.
EnvelopesFor(ids) ==
  /\ Ask([NoCall EXCEPT !.api = "envelopes", !.ids = ids])
  /\ \E r \in AllEnvelopes : Given(r, ToFilter(r.rows))
-----------------------------------------------------------------------------
(* Filtering and dispatching a reply *)

\* The clauses of a request that an envelope satisfies in memory.
MatchKindClause(r, c) == c.kind = r.kind /\ (c.by = "subset" => JSONIsSubset(GetEvent(r.id), c.doc))
MatchIDClause(r, c) == c.id = r.id

\* AfterID is applied to an envelope before its kind and its id are compared.
MemoryMatches(in, r) ==
  {p \in DOMAIN in.clauses :
     /\ r.id > in.after
     /\ IF in.clauses[p].by = "id" THEN MatchIDClause(r, in.clauses[p])
                                   ELSE MatchKindClause(r, in.clauses[p])}

MemoryRows(in, r) ==
  LET found == InOrder(MemoryMatches(in, r))
  IN [k \in 1..Cardinality(MemoryMatches(in, r)) |-> Row(r, in.clauses[found[k]].op)]

\* The id last sent or enqueued is not passed again, whatever its op.
\* (mutant: it is)
PushAgain(sent, r) == Append(sent, r)
Push(sent, r) == IF sent # <<>> /\ r.id <= Last(sent).id THEN sent ELSE Append(sent, r)

\* In memory the rows of one envelope repeat its id: the first is enqueued.
Enqueue(sent, rs) == IF rs = <<>> THEN sent ELSE Push(sent, rs[1])

FilterNext ==
  /\ pc = "filter"
  /\ rows # <<>>
  /\ rows' = Tail(rows)
  /\ LET r == Head(rows) IN
     out' = CASE call.api \in {"perform", "stream"} ->
                   IF Filter(WireQuery(call.v1), r) THEN Append(out, r) ELSE out
              [] call.api = "batch" -> out \o MemoryRows(BuildBatchRequest(call.r2), r)
              [] call.api = "watch" ->
                   IF transport = "grpc" THEN Push(out, r)
                   ELSE Enqueue(out, MemoryRows(BuildBatchRequest(call.r2), r))
              [] call.api = "envelopes" -> IF r.id \in call.ids THEN Append(out, r) ELSE out
  /\ UNCHANGED <<catalogueVars, events, call, pc, handled, outcome, seen, cut>>

\* A body is loaded for a row of a kind that is asked for with constraints,
\* for query2 in memory of any kind that is asked for, and for an id; that
\* may fail.
Loads(r) ==
  \/ /\ call.api \in {"perform", "stream"}
     /\ \E c \in WireQuery(call.v1) : c.kind = r.kind /\ (c.eq # {} \/ c.match # {})
  \/ /\ call.api \in {"batch", "watch"}
     /\ transport = "memory"
     /\ LET in == BuildBatchRequest(call.r2) IN
        /\ r.id > in.after
        /\ \E p \in DOMAIN in.clauses :
             IF in.clauses[p].by = "id" THEN in.clauses[p].id = r.id
                                        ELSE in.clauses[p].kind = r.kind

LoadFails ==
  /\ pc = "filter"
  /\ rows # <<>>
  /\ Loads(Head(rows))
  /\ Returns("error")
  /\ UNCHANGED <<catalogueVars, events, call, rows, out, handled, seen, cut>>

Filtered ==
  /\ pc = "filter"
  /\ rows = <<>>
  /\ IF call.api \in Dispatched THEN pc' = "dispatch" /\ UNCHANGED outcome ELSE Returns("ok")
  /\ UNCHANGED <<catalogueVars, events, call, rows, out, handled, seen, cut>>

\* The places of the handlers, by number.
Handlers(q) == InOrder(Registered(q))
IsSet(q, p) == p[1] > Len(q.kinds) => q.ids[p[1] - Len(q.kinds)].on

Call(name, r) ==
  /\ handled' = Append(handled, [name |-> name, id |-> r.id])
  /\ out' = Tail(out)
  /\ \/ UNCHANGED <<pc, outcome>>
     \/ Returns("handler error")

\* postProcessingHandlers.handle
HandleKind(r) ==
  IF r.kind \in DOMAIN call.v1 /\ call.v1[r.kind].on THEN Call(<<"on", r.kind>>, r)
  ELSE out' = Tail(out) /\ UNCHANGED <<pc, outcome, handled>>

\* processBatchResults and TickWithID
HandleOp(r) ==
  LET hs == Handlers(call.r2) IN
  IF r.op >= Cardinality(Registered(call.r2))
  THEN Returns("unknown op") /\ UNCHANGED <<out, handled>>
  ELSE IF ~IsSet(call.r2, hs[r.op + 1]) THEN Returns("panic") /\ UNCHANGED <<out, handled>>
  ELSE Call(hs[r.op + 1], r)

Dispatch ==
  /\ pc = "dispatch"
  /\ out # <<>>
  /\ IF call.api = "stream" THEN HandleKind(Head(out)) ELSE HandleOp(Head(out))
  /\ UNCHANGED <<catalogueVars, events, call, rows, seen, cut>>

AllDispatched ==
  /\ pc = "dispatch"
  /\ out = <<>>
  /\ Returns("ok")
  /\ UNCHANGED <<catalogueVars, events, call, rows, out, handled, seen, cut>>

Return ==
  /\ pc = "done"
  /\ pc' = "idle"
  /\ call' = NoCall
  /\ rows' = <<>>
  /\ out' = <<>>
  /\ handled' = <<>>
  /\ outcome' = "none"
  /\ seen' = 0
  /\ cut' = FALSE
  /\ UNCHANGED <<catalogueVars, events>>

QueryNext ==
  \/ \E s \in Written, k \in Kind, b \in Doc : Submit(s, k, b)
  \/ \E q \in Builders : Perform(q) \/ StreamQuery(q)
  \/ \E q \in Requests : StreamBatch(q) \/ WatchFirst(q)
  \/ \E ids \in SUBSET (0..MaxEvents) : EnvelopesFor(ids)
  \/ FilterNext
  \/ LoadFails
  \/ Filtered
  \/ Dispatch
  \/ AllDispatched
  \/ Return

\* Bound. Queries and the catalogue share the streams only: queries are asked
\* when exactly the Written streams are there and no position is kept, and
\* the catalogue is used while there are no events and no query runs.
Settled ==
  /\ streams = Written
  /\ \A c \in Client : Idle(c)
  /\ \A k \in Key : position[k] = NoPosition

Next ==
  \/ events = <<>> /\ pc = "idle" /\ CatalogueNext /\ UNCHANGED queryVars
  \/ Settled /\ QueryNext

Spec == Init /\ [][Next]_vars
-----------------------------------------------------------------------------
(* Correctness. The reference looks at the events stored when the store    *)
(* was asked, and at the query as the caller built it.                     *)

Stored == {events[n] : n \in Own(seen)}

Satisfies(b, e) ==
  /\ \A p \in b.eq : p[1] \in DOMAIN e.body /\ e.body[p[1]] = p[2]
  /\ \A sub \in b.match : JSONIsSubset(e.body, sub)

Wanted(q, e) == DOMAIN q = {} \/ (e.kind \in DOMAIN q /\ Satisfies(q[e.kind], e))

Ids(s) == {s[n].id : n \in DOMAIN s}
Complete(got, wanted) == got \subseteq wanted /\ (~cut => got = wanted)
Ascending(s) == \A m, n \in DOMAIN s : m < n => s[m].id < s[n].id

\* What a query2 query asks each of its handlers to be called with.
HandlerWants(q, p, e) ==
  IF p[1] > Len(q.kinds) THEN e.id = q.ids[p[1] - Len(q.kinds)].id
  ELSE LET c == q.kinds[p[1]] IN
       /\ e.kind = c.kind
       /\ e.id > q.after
       /\ IF p[2] = 0 THEN c.each
          ELSE c.subsets[p[2]].on /\ JSONIsSubset(e.body, c.subsets[p[2]].doc)

Wants(q, places) ==
  {w \in [name : places, id : {e.id : e \in Stored}] :
     \E e \in Stored : e.id = w.id /\ HandlerWants(q, w.name, e)}

(* Types. A reply never carries an operation that no handler was           *)
(* registered for, and no id below the first or above the last of the      *)
(* store (processBatchResults, query2/query.go).                           *)
TypeOK ==
  /\ pc \in {"idle", "filter", "dispatch", "done"}
  /\ outcome \in {"none", "ok", "empty query", "unsupported", "handler error", "panic",
                  "error"}
  /\ call.api \in Dispatched \cup {"none", "perform", "envelopes"}
  /\ seen \in 0..Len(events)
  /\ Ids(events) \cup Ids(rows) \cup Ids(out) \cup Ids(handled) \subseteq 0..MaxEvents

(* Perform and Stream.ByKinds return exactly the envelopes of the events   *)
(* that were stored when the service was asked and satisfy the builder, in *)
(* order and once each, on every transport: whether the constraints are    *)
(* applied by SQL, by the in-memory log or by Perform itself to a reply    *)
(* that is not filtered, and whatever is submitted meanwhile; or an error. *)
(* Only over gRPC may a broken connection to Postgres leave the last of    *)
(* them out unnoticed; there a query without kinds is refused, too.        *)
PerformExact ==
  pc = "done" /\ call.api = "perform" =>
    LET wanted == {e.id : e \in {e \in Stored : Wanted(call.v1, e)}}
    IN /\ cut => transport = "grpc"
       /\ outcome = "empty query" => transport = "grpc" /\ DOMAIN call.v1 = {}
       /\ outcome \in {"ok", "empty query", "error"}
       /\ outcome = "ok" => Ascending(out) /\ Complete(Ids(out), wanted)

(* QueryBuilder.Stream calls the handler of a kind in order with events of *)
(* that kind that match its subset, once each and, unless a handler fails, *)
(* with every one. REST and memory apply the Eq constraints too; over gRPC *)
(* QueryBatch leaves them out and the handler sees the other events of the *)
(* kind as well, and a broken connection to Postgres goes unnoticed.       *)
StreamExact ==
  call.api = "stream" =>
    LET b(e) == IF transport = "grpc" THEN [call.v1[e.kind] EXCEPT !.eq = {}]
                                      ELSE call.v1[e.kind]
        wanted == {e.id : e \in {e \in Stored : /\ e.kind \in DOMAIN call.v1
                                                /\ call.v1[e.kind].on
                                                /\ Satisfies(b(e), e)}}
    IN /\ Ascending(handled)
       /\ Ids(handled) \subseteq wanted
       /\ cut => transport = "grpc"
       /\ outcome = "ok" => Complete(Ids(handled), wanted)

(* StreamBatch calls every handler with exactly the events its own clause  *)
(* asks for, once each: the operation numbers survive the request, the SQL *)
(* union or the in-memory loop and the reply on every transport, with      *)
(* clauses that register nothing in between. After does not apply to OnID, *)
(* except in memory, where it does.                                        *)
BatchExact ==
  call.api = "batch" =>
    LET q == call.r2
        ids == {w \in Wants(q, IdPlaces(q)) : transport = "memory" => w.id > q.after}
        wanted == Wants(q, KindPlaces(q)) \cup ids
    IN /\ \A m, n \in DOMAIN handled : handled[m] = handled[n] => m = n
       /\ ToSet(handled) \subseteq wanted
       /\ outcome = "ok" => Complete(ToSet(handled), wanted)
       /\ outcome = "panic" => \E w \in ids : ~IsSet(q, w.name)

(* Watch hands every stored event that some clause asks for to exactly one *)
(* of the handlers that ask for it, in the order of ids: a cursor over ids *)
(* cannot give an event to a second clause (pushTranslatorMessage and      *)
(* memoryWatch.enqueue drop the repeated id).                              *)
WatchOnce ==
  call.api = "watch" =>
    LET wanted == Wants(call.r2, KindPlaces(call.r2))
    IN /\ Ascending(handled)
       /\ ToSet(handled) \subseteq wanted
       /\ outcome = "ok" => Complete(Ids(handled), {w.id : w \in wanted})

(* EnvelopesFor returns the envelopes of those ids of the queried stream   *)
(* and of no other stream, although all streams share one sequence of ids  *)
(* in Postgres and each has its own in memory.                             *)
EnvelopesExact ==
  pc = "done" /\ call.api = "envelopes" =>
    /\ cut => transport # "memory"
    /\ outcome = "ok" => /\ Ascending(out)
                         /\ Complete(Ids(out), {e.id : e \in Stored} \cap call.ids)
=============================================================================
