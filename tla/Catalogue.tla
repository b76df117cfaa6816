----------------------------- MODULE Catalogue -----------------------------
(***************************************************************************)
(* What the store keeps beside the events: the streams of each domain and  *)
(* the position of each consumer in a stream, with the calls that read and *)
(* write them over the gRPC, the REST and the in-memory transport.         *)
(* Several clients call at once. A call that is one statement or one       *)
(* operation of the memory service is one step; SetPosition in Postgres    *)
(* takes its snapshot and then updates the row, which another transaction  *)
(* may have changed in between; Meta over REST sends a statement for each  *)
(* domain. Any reply can be lost after the call took effect.               *)
(***************************************************************************)
EXTENDS Integers, Sequences, FiniteSets

CONSTANTS
  Stream,     \* pairs of a domain and the name of a stream
  Key,        \* consumers that keep a position: pairs of a stream and a name
  Client,     \* callers
  MaxPos      \* bound on positions

ASSUME CatalogueAssump ==
  /\ MaxPos \in Nat
  /\ \A s \in Stream : s = <<s[1], s[2]>>
  /\ \A k \in Key : k = <<k[1], k[2]>> /\ k[1] \in Stream

Transport == {"grpc", "rest", "memory"}
NoPosition == -1

VARIABLES
  transport,  \* what the clients are connected with
  streams,    \* rows of events_stream
  position,   \* rows of consumer_positions, NoPosition where there is none
  calls       \* the running call of each client

catalogueVars == <<transport, streams, position, calls>>

\* previous is what SetPosition reads or reports, apps and listed what Meta
\* has still to ask for and has found. before (the streams at the start of
\* the call), held (the values of the row during the call) and cut (a result
\* ended early) are there for the properties only.
NoClientCall ==
  [op |-> "none", pc |-> "idle", key |-> <<>>, id |-> NoPosition, previous |-> NoPosition,
   apps |-> {}, listed |-> <<>>, outcome |-> "none", before |-> {}, held |-> {}, cut |-> FALSE]

CatalogueInit ==
  /\ transport \in Transport
  /\ streams = {}
  /\ position = [k \in Key |-> NoPosition]
  /\ calls = [c \in Client |-> NoClientCall]

Insert(s) == streams' = streams \cup {s}

\* INSERT ... ON CONFLICT DO NOTHING; in memory, the missing map entries.
EnsureStream(s) == Insert(s) /\ UNCHANGED <<transport, position, calls>>
-----------------------------------------------------------------------------
(* Calls *)

Idle(c) == calls[c].pc = "idle"

Begun(op, key, id) ==
  [op |-> op, pc |-> "idle", key |-> key, id |-> id, previous |-> NoPosition,
   apps |-> {}, listed |-> <<>>, outcome |-> "none",
   before |-> IF op = "meta" THEN streams ELSE {},
   held |-> IF op = "set" THEN {position[key]} ELSE {}, cut |-> FALSE]

\* The caller gets the answer, or an error although the call was carried out.
Answered(call, o) == {[call EXCEPT !.pc = "done", !.outcome = r] : r \in {o, "error"}}

\* Client c's call becomes one of next; the others see the row change.
Step(c, next, key, value) ==
  /\ position' = IF key = <<>> THEN position ELSE [position EXCEPT ![key] = value]
  /\ \E call \in next :
       calls' = [d \in Client |->
                   LET now == IF d = c THEN call ELSE calls[d] IN
                   IF now.pc = "upsert" /\ now.key = key
                   THEN [now EXCEPT !.held = @ \cup {value}] ELSE now]
  /\ UNCHANGED <<transport, streams>>

Keeps(c, next) == Step(c, next, <<>>, NoPosition)
-----------------------------------------------------------------------------
(* Positions *)

\* The row is updated where COALESCE(event_id, 0) <= the new position.
\* (mutants: the snapshot is compared; an equal position is refused)
AcceptsSnapshot(row, call) == call.previous = NoPosition \/ call.previous <= call.id
AcceptsHigher(row, call) == row = NoPosition \/ row < call.id
Accepts(row, call) == row = NoPosition \/ row <= call.id

\* gRPC has no word for "none": a previous position of 0 is sent as none.
ReportedPrevious(p) == IF transport = "grpc" /\ p = 0 THEN NoPosition ELSE p

\* memory.SetPosition compares and stores at once, in any stream.
MemorySetPosition(c, key, id) ==
  LET row  == position[key]
      call == [Begun("set", key, id) EXCEPT !.previous = row]
  IN IF Accepts(row, call) THEN Step(c, Answered(call, "ok"), key, id)
     ELSE Keeps(c, Answered(call, "backward"))

\* ConsumerStore.SetPosition up to the snapshot of its statement.
StoreSetPosition(c, key, id) ==
  LET call == Begun("set", key, id)
  IN IF key[1] \notin streams THEN Keeps(c, Answered(call, "no stream"))
     ELSE Keeps(c, {[call EXCEPT !.pc = "upsert", !.previous = position[key]]})

SetPosition(c, key, id) ==
  /\ Idle(c)
  /\ IF transport = "memory" THEN MemorySetPosition(c, key, id) ELSE StoreSetPosition(c, key, id)

\* The upsert sees the newest row. When it is refused the error is built from
\* *previousEventID, which is nil where the snapshot had no row.
Upsert(c) ==
  LET call == calls[c]
      row  == position[call.key]
  IN /\ call.pc = "upsert"
     /\ IF Accepts(row, call)
        THEN LET told == [call EXCEPT !.previous = ReportedPrevious(@)]
             IN Step(c, Answered(told, "ok"), call.key, call.id)
        ELSE Keeps(c, Answered(call, IF call.previous = NoPosition THEN "panic" ELSE "backward"))

\* The statement fails: nothing is stored.
UpsertFails(c) ==
  /\ calls[c].pc = "upsert"
  /\ Keeps(c, {[calls[c] EXCEPT !.pc = "done", !.outcome = "error"]})

GetPosition(c, key) ==
  /\ Idle(c)
  /\ Keeps(c, Answered([Begun("get", key, NoPosition) EXCEPT !.previous = position[key]], "ok"))

DeletePosition(c, key) ==
  /\ Idle(c)
  /\ Step(c, Answered(Begun("delete", key, NoPosition), "ok"), key, NoPosition)

ConsumersOf(s) == {k[2] : k \in {k \in Key : k[1] = s /\ position[k] # NoPosition}}

ListConsumers(c, s) ==
  /\ Idle(c)
  /\ Keeps(c, Answered([Begun("list", <<>>, NoPosition) EXCEPT !.listed = ConsumersOf(s)], "ok"))
-----------------------------------------------------------------------------
(* Meta: the domains and their streams *)

Domains(S) == {s[1] : s \in S}
InDomain(S, d) == {s[2] : s \in {s \in S : s[1] = d}}
Grouped(S) == [d \in Domains(S) |-> InDomain(S, d)]

\* One statement lists the pairs and the client groups them.
ListStreams(c) ==
  Keeps(c, Answered([Begun("meta", <<>>, NoPosition) EXCEPT !.listed = Grouped(streams)], "ok"))

\* The memory transport names its domains without their streams.
MemoryMeta(c) ==
  Keeps(c, Answered([Begun("meta", <<>>, NoPosition)
                       EXCEPT !.listed = [d \in Domains(streams) |-> {}]], "ok"))

ListApps(c) ==
  Keeps(c, {[Begun("meta", <<>>, NoPosition) EXCEPT !.pc = "apps", !.apps = Domains(streams)]})

Meta(c) ==
  /\ Idle(c)
  /\ \/ transport = "grpc" /\ ListStreams(c)
     \/ transport = "rest" /\ ListApps(c)
     \/ transport = "memory" /\ MemoryMeta(c)

\* The streams of one domain. rows.Err is not looked at: a result that ends
\* early passes for the whole.
\* (mutant: the domain is left out of the WHERE)
StreamsOfEveryApp(d) == {s[2] : s \in streams}
StreamsOfApp(d) == InDomain(streams, d)

With(listed, d, found) ==
  [e \in DOMAIN listed \cup {d} |-> IF e = d THEN found ELSE listed[e]]

QueryStreamsForApp(c, d) ==
  /\ calls[c].pc = "apps"
  /\ d \in calls[c].apps
  /\ \E found \in SUBSET StreamsOfApp(d) :
       Keeps(c, {[calls[c] EXCEPT !.apps = @ \ {d}, !.listed = With(@, d, found),
                                  !.cut = @ \/ found # StreamsOfApp(d)]})

V1Meta(c) ==
  /\ calls[c].pc = "apps"
  /\ calls[c].apps = {}
  /\ Keeps(c, Answered(calls[c], "ok"))

MetaFails(c) ==
  /\ calls[c].pc = "apps"
  /\ Keeps(c, {[calls[c] EXCEPT !.pc = "done", !.outcome = "error"]})
-----------------------------------------------------------------------------
ClientReturns(c) ==
  /\ calls[c].pc = "done"
  /\ Keeps(c, {NoClientCall})

ClientStep(c) ==
  \/ \E k \in Key : \/ \E n \in 0..MaxPos : SetPosition(c, k, n)
                    \/ GetPosition(c, k)
                    \/ DeletePosition(c, k)
  \/ \E s \in Stream : ListConsumers(c, s)
  \/ Upsert(c)
  \/ UpsertFails(c)
  \/ Meta(c)
  \/ \E d \in Domains(Stream) : QueryStreamsForApp(c, d)
  \/ V1Meta(c)
  \/ MetaFails(c)
  \/ ClientReturns(c)

CatalogueNext ==
  \/ \E s \in Stream : EnsureStream(s)
  \/ \E c \in Client : ClientStep(c)
-----------------------------------------------------------------------------
(* A position never moves backwards unless it is deleted, whatever other   *)
(* callers do between the snapshot and the upsert of SetPosition           *)
(* (consumer.go), and in memory.                                           *)
PositionForward ==
  [][\A k \in Key : position[k] # NoPosition /\ position'[k] # NoPosition =>
       position'[k] >= position[k]]_catalogueVars

\* What the answer of a SetPosition says of the values the row had.
SetAnswer(call) ==
  LET higher == \E v \in call.held : v > call.id
  IN call.op = "set" /\ call.pc = "done" =>
       /\ call.outcome = "ok" /\ call.previous > call.id => NoPosition \in call.held
       /\ call.outcome = "backward" => higher
       /\ call.outcome = "panic" => higher /\ NoPosition \in call.held /\ transport # "memory"

(* What SetPosition tells its caller is explained by the values the row    *)
(* had during the call: a refusal by a higher one, a previous position     *)
(* above the new one by a deletion; and the error of a refusal cannot be   *)
(* built (the nil previousEventID of consumer.go) only when there was no   *)
(* row at first and another caller stored a higher position meanwhile.     *)
SetAnswered == \A c \in Client : SetAnswer(calls[c])

Pairs(listed) == UNION {{<<d, n>> : n \in listed[d]} : d \in DOMAIN listed}

\* What the answer of a Meta says of the streams.
MetaAnswer(call) ==
  call.op = "meta" /\ call.pc = "done" /\ call.outcome = "ok" =>
    /\ Domains(call.before) \subseteq DOMAIN call.listed
    /\ Pairs(call.listed) \subseteq streams
    /\ transport # "memory" /\ ~call.cut => call.before \subseteq Pairs(call.listed)

(* Meta lists every stream that existed when it was called and no pair     *)
(* that was never created, although REST reads the domains and then the    *)
(* streams of each while streams are being created; the exceptions are the *)
(* streams a broken connection cut off, and the memory transport, which    *)
(* lists domains only (v1Meta, ListStreams, memory.Meta).                  *)
MetaComplete == \A c \in Client : MetaAnswer(calls[c])
-----------------------------------------------------------------------------
(* The inductive invariant behind the three properties *)

Position == NoPosition..MaxPos

CallShape(call) ==
  call = [op |-> call.op, pc |-> call.pc, key |-> call.key, id |-> call.id,
          previous |-> call.previous, apps |-> call.apps, listed |-> call.listed,
          outcome |-> call.outcome, before |-> call.before, held |-> call.held,
          cut |-> call.cut]

CatalogueTypeOK ==
  /\ transport \in Transport
  /\ streams \subseteq Stream
  /\ position \in [Key -> Position]
  /\ \A c \in Client : CallShape(calls[c])

\* Between snapshot and upsert: the row's values are on record, and without a
\* deletion among them it only rose.
Upserting(call) ==
  call.pc = "upsert" =>
    /\ call.op = "set" /\ transport # "memory" /\ call.key \in Key /\ call.id \in 0..MaxPos
    /\ call.held \subseteq Position
    /\ call.previous \in call.held
    /\ position[call.key] \in call.held
    /\ NoPosition \in call.held \/ call.previous <= position[call.key]

\* While Meta asks for one domain after the other: none is forgotten, and those
\* already listed are whole unless a result was cut.
Listing(call) ==
  call.pc = "apps" =>
    /\ call.op = "meta"
    /\ call.before \subseteq streams
    /\ Domains(call.before) \subseteq call.apps \cup DOMAIN call.listed
    /\ \A d \in DOMAIN call.listed :
         /\ call.listed[d] \subseteq InDomain(streams, d)
         /\ ~call.cut => InDomain(call.before, d) \subseteq call.listed[d]

CallInv(call) == Upserting(call) /\ Listing(call) /\ SetAnswer(call) /\ MetaAnswer(call)

CatalogueInv == CatalogueTypeOK /\ \A c \in Client : CallInv(calls[c])
=============================================================================
