---------------------------- MODULE WatchStream ----------------------------
(***************************************************************************)
(* Submitting events and watching a stream over gRPC: concurrent Submit    *)
(* transactions, the in-process bus that announces stored events, and one  *)
(* Watch call that registers a RequerySignal, queries Postgres with an     *)
(* AfterID cursor every time it is signalled, and sends the rows.          *)
(* A kind stands for all that a clause can tell events apart by (kind and  *)
(* JSON subset); the bus signals a watch for events of any stream, which   *)
(* events of a kind no clause selects stand for.                           *)
(***************************************************************************)
EXTENDS Integers, Sequences, FiniteSets

CONSTANTS
  Writer,     \* concurrent Submit calls
  Kind,       \* kinds of events
  Clause,     \* OnKind and OnEach clauses of the watched query
  Selects,    \* the kinds each clause selects
  Pinned,     \* ids asked for by OnID clauses
  MaxEvents   \* bound on Submit transactions

ASSUME WatchAssump ==
  /\ Selects \in [Clause -> SUBSET Kind]
  /\ MaxEvents \in Nat
  /\ Pinned \subseteq Nat \ {0}
  /\ "id" \notin Clause

VARIABLES
  stage,      \* progress of each Submit
  draft,      \* the event each Submit is writing
  events,     \* committed rows of the events table
  nextId,     \* sequence of events.id
  stamp,      \* source of when_occurred: NOW() at the start of a transaction
  pending,    \* dispatchOnEventStored goroutines that have not emitted yet
  \* the Watch call
  pc,         \* its next step
  ch,         \* the RequerySignal's channel of capacity 1 is full
  after,      \* AfterID of the request
  cursor,     \* lastDeliveredID
  batch,      \* rows of the running query not yet read
  high,       \* lastID of the running processWatchResults
  lastSent,   \* grpcResultStream.lastSentID
  sent,       \* rows sent to the client, in order
  \* how a row may escape the cursor or the signal
  disorder,   \* an event became visible below an id that was already visible
  stale       \* a cut-off query or an unannounced commit since the last query

submits == <<stage, draft, events, nextId, stamp, pending>>
watch   == <<pc, ch, after, cursor, batch, high, lastSent, sent>>
vars    == <<submits, watch, disorder, stale>>

Ids == 1..MaxEvents
NoEvent == [id |-> 0, when |-> 0, kind |-> "none"]
Event == [id : 0..MaxEvents, when : 0..MaxEvents, kind : Kind \cup {"none"}]
Row == [clause : Clause \cup {"id"}, id : Ids, when : Ids]

Looping == {"wait", "query", "send"}

TypeOK ==
  /\ stage \in [Writer -> {"idle", "begun", "inserted"}]
  /\ draft \in [Writer -> Event]
  /\ events \subseteq Event
  /\ nextId \in 1..MaxEvents + 1
  /\ stamp \in 1..MaxEvents + 1
  /\ pending \in 0..MaxEvents
  /\ pc \in Looping \cup {"off", "seed"}
  /\ ch \in BOOLEAN
  /\ after \in 0..MaxEvents
  /\ cursor \in 0..MaxEvents
  /\ batch \subseteq Row
  /\ high \in 0..MaxEvents
  /\ lastSent \in -1..MaxEvents
  /\ sent \in Seq(Row)
  /\ disorder \in BOOLEAN
  /\ stale \in BOOLEAN

Init ==
  /\ stage = [w \in Writer |-> "idle"]
  /\ draft = [w \in Writer |-> NoEvent]
  /\ events = {}
  /\ nextId = 1
  /\ stamp = 1
  /\ pending = 0
  /\ pc = "off"
  /\ ch = FALSE
  /\ after = 0
  /\ cursor = 0
  /\ batch = {}
  /\ high = 0
  /\ lastSent = -1
  /\ sent = <<>>
  /\ disorder = FALSE
  /\ stale = FALSE
-----------------------------------------------------------------------------
(* Submit: the transaction begins, the row gets its id, it is committed.   *)
(* Without a lock the three happen inside one statement.                   *)

BeginSubmit(w, k) ==
  /\ stage[w] = "idle"
  /\ stamp <= MaxEvents
  /\ stage' = [stage EXCEPT ![w] = "begun"]
  /\ draft' = [draft EXCEPT ![w] = [id |-> 0, when |-> stamp, kind |-> k]]
  /\ stamp' = stamp + 1
  /\ UNCHANGED <<events, nextId, pending, watch, disorder, stale>>

UnsafeStore(w) ==
  /\ stage[w] = "begun"
  /\ stage' = [stage EXCEPT ![w] = "inserted"]
  /\ draft' = [draft EXCEPT ![w] = [id |-> nextId, when |-> @.when, kind |-> @.kind]]
  /\ nextId' = nextId + 1
  /\ UNCHANGED <<events, stamp, pending, watch, disorder, stale>>

EndSubmit(w) ==
  /\ stage' = [stage EXCEPT ![w] = "idle"]
  /\ draft' = [draft EXCEPT ![w] = NoEvent]
  /\ UNCHANGED <<nextId, stamp>>

\* The row becomes visible.
Commit(w) ==
  /\ stage[w] = "inserted"
  /\ events' = events \cup {draft[w]}
  /\ disorder' = (disorder \/ \E e \in events : e.id > draft[w].id \/ e.when > draft[w].when)
  /\ EndSubmit(w)

CommitSubmit(w) ==
  /\ Commit(w)
  /\ pending' = pending + 1
  /\ UNCHANGED <<watch, stale>>

\* The row is stored but its Submit fails, so that nothing is dispatched.
CommitUnacknowledged(w) ==
  /\ Commit(w)
  /\ stale' = TRUE
  /\ UNCHANGED <<pending, watch>>

Rollback(w) ==
  /\ stage[w] # "idle"
  /\ EndSubmit(w)
  /\ UNCHANGED <<events, pending, watch, disorder, stale>>

\* The callback of the RequerySignal: a full channel coalesces signals.
\* (mutant: a signal that finds the watch busy is lost)
SignalIfWaiting == ch' = (ch \/ pc = "wait")
Signal == ch' = (ch \/ pc # "off")

DispatchOnEventStored ==
  /\ pending > 0
  /\ pending' = pending - 1
  /\ Signal
  /\ UNCHANGED <<stage, draft, events, nextId, stamp, pc, after, cursor, batch, high,
                 lastSent, sent, disorder, stale>>
-----------------------------------------------------------------------------
(* Watch *)

\* NewRequerySignal registers the callback ...
Watch(a) ==
  /\ pc = "off"
  /\ pc' = "seed"
  /\ after' = a
  /\ cursor' = a
  /\ UNCHANGED <<submits, ch, batch, high, lastSent, sent, disorder, stale>>

\* ... and then seeds its own channel with a blocking send.
\* (mutant: it does not seed)
NoSeed ==
  /\ pc = "seed"
  /\ pc' = "wait"
  /\ UNCHANGED <<submits, ch, after, cursor, batch, high, lastSent, sent, disorder, stale>>
Seed ==
  /\ pc = "seed" /\ ~ch
  /\ ch' = TRUE
  /\ pc' = "wait"
  /\ UNCHANGED <<submits, after, cursor, batch, high, lastSent, sent, disorder, stale>>

Wait ==
  /\ pc = "wait" /\ ch
  /\ ch' = FALSE
  /\ pc' = "query"
  /\ UNCHANGED <<submits, after, cursor, batch, high, lastSent, sent, disorder, stale>>

\* The UNION ALL of the clauses; an AfterID of 0 does not filter, and an OnID
\* clause has no cursor.  (mutant: UpdateAfterID does nothing)
RowFor(c, e) == [clause |-> c, id |-> e.id, when |-> e.when]
InClauseNoCursor(c, e) == e.kind \in Selects[c]
InClause(c, e) == e.kind \in Selects[c] /\ (cursor > 0 => e.id > cursor)
ClauseRows(c) == {RowFor(c, e) : e \in {d \in events : InClause(c, d)}}
IdRows == {RowFor("id", e) : e \in {d \in events : d.id \in Pinned}}
Rows == (UNION {ClauseRows(c) : c \in Clause}) \cup IdRows

RunQuery ==
  /\ pc = "query"
  /\ batch' = Rows
  /\ high' = 0
  /\ stale' = FALSE
  /\ pc' = "send"
  /\ UNCHANGED <<submits, ch, after, cursor, lastSent, sent, disorder>>

\* The rows come ordered by when_occurred.
Oldest == {r \in batch : \A q \in batch : r.when <= q.when}

\* pushTranslatorMessage's guard.  (mutant: off by one)
DroppedBelow(r) == r.id < lastSent
Dropped(r) == r.id <= lastSent

PushRow(r) ==
  /\ pc = "send"
  /\ r \in Oldest
  /\ batch' = batch \ {r}
  /\ IF Dropped(r)
     THEN UNCHANGED <<lastSent, sent>>
     ELSE lastSent' = r.id /\ sent' = Append(sent, r)
  /\ high' = IF r.id > high THEN r.id ELSE high
  /\ UNCHANGED <<submits, pc, ch, after, cursor, disorder, stale>>

\* rows.Next() ends early on a connection error that nobody asks about.
CutOff ==
  /\ pc = "send" /\ batch # {}
  /\ batch' = {}
  /\ stale' = TRUE
  /\ UNCHANGED <<submits, pc, ch, after, cursor, high, lastSent, sent, disorder>>

\* (mutant: the cursor is moved to the newest id of the stream)
AdvanceToNewest == cursor' = nextId - 1
Advance == cursor' = IF high > cursor THEN high ELSE cursor

EndQuery ==
  /\ pc = "send" /\ batch = {}
  /\ Advance
  /\ pc' = "wait"
  /\ UNCHANGED <<submits, ch, after, batch, high, lastSent, sent, disorder, stale>>

\* The client goes away, a query or a Send fails: the callback is removed.
\* Not while the call is still blocked seeding its channel.
StopWatch ==
  /\ pc \in Looping
  /\ pc' = "off"
  /\ ch' = FALSE
  /\ after' = 0 /\ cursor' = 0 /\ batch' = {} /\ high' = 0
  /\ lastSent' = -1 /\ sent' = <<>>
  /\ UNCHANGED <<submits, disorder, stale>>
-----------------------------------------------------------------------------
WatchStep == Seed \/ Wait \/ RunQuery \/ (\E r \in batch : PushRow(r)) \/ EndQuery

Next ==
  \/ \E w \in Writer :
       \/ \E k \in Kind : BeginSubmit(w, k)
       \/ UnsafeStore(w) \/ CommitSubmit(w) \/ CommitUnacknowledged(w) \/ Rollback(w)
  \/ DispatchOnEventStored
  \/ \E a \in 0..nextId - 1 : Watch(a)
  \/ WatchStep \/ CutOff \/ StopWatch

Spec == Init /\ [][Next]_vars

\* The goroutines of the dispatch and of the watch run.
Fairness == WF_vars(DispatchOnEventStored) /\ WF_vars(WatchStep)

FairSpec == Spec /\ Fairness
-----------------------------------------------------------------------------
(* Properties *)

SentIds == {sent[i].id : i \in DOMAIN sent}

\* The committed events the request asks for, by id.
Wanted ==
  {e.id : e \in {d \in events : \/ d.id \in Pinned
                                \/ d.id > after /\ \E c \in Clause : d.kind \in Selects[c]}}

\* Rows are sent with strictly increasing ids, so none is sent twice, across
\* all the queries of a watch (AfterID cursor and pushTranslatorMessage).
SentIncreasing ==
  \A i, j \in DOMAIN sent : i < j => sent[i].id < sent[j].id

\* The types, and what was sent so far is in order (Watch, UpdateAfterID).
SentInv == TypeOK /\ SentIncreasing

\* Only committed events that some clause asks for are ever sent.
SentWanted == SentIds \subseteq Wanted

\* While events become visible in the order of their ids and timestamps, the
\* cursor never passes an event that was not sent, even if queries are cut off.
NoGap ==
  ~disorder => \A i \in Wanted : after < i /\ i <= cursor => i \in SentIds

\* A watch that sleeps with no signal and no event under way has sent
\* everything there is, although signals are dropped while one is queued.
QuietMeansCaughtUp ==
  pc = "wait" /\ ~ch /\ pending = 0 /\ ~stale /\ ~disorder => Wanted \subseteq SentIds

(* The inductive strengthening of these invariants *)

Begun == {w \in Writer : stage[w] = "begun"}
Open == {w \in Writer : stage[w] # "idle"}

\* Every id and every signal comes from a transaction that took a timestamp.
Counts ==
  /\ IsFiniteSet(Open)
  /\ nextId + Cardinality(Begun) <= stamp
  /\ pending + Cardinality(Open) < stamp

\* Ids and timestamps were handed out, each of them once.
Stamped ==
  /\ \A w \in Writer : stage[w] # "idle" => draft[w].when \in 1..stamp - 1
  /\ \A w \in Writer : stage[w] = "inserted" => draft[w].id \in 1..nextId - 1
  /\ \A e \in events : e.id \in 1..nextId - 1 /\ e.when \in 1..stamp - 1
Distinct ==
  /\ \A v, w \in Writer : v # w /\ stage[v] # "idle" /\ stage[w] # "idle" =>
       /\ draft[v].when # draft[w].when
       /\ stage[v] = "inserted" /\ stage[w] = "inserted" => draft[v].id # draft[w].id
  /\ \A w \in Writer, e \in events :
       /\ stage[w] # "idle" => draft[w].when # e.when
       /\ stage[w] = "inserted" => draft[w].id # e.id
  /\ \A d, e \in events : d.id = e.id => d = e

\* A call that is not running has no rows; rows are those of wanted events.
NoRowsWhenOff == pc \in {"off", "seed"} => batch = {} /\ sent = <<>> /\ high = 0 /\ lastSent = -1
RowsCommitted ==
  \A r \in batch : r.id \in Wanted /\ \E e \in events : e.id = r.id /\ e.when = r.when

\* The cursors of the watch are where it started or at an event it has seen.
EventIds == {e.id : e \in events}
Cursors ==
  /\ after <= cursor
  /\ cursor # after => cursor \in EventIds
  /\ high # 0 => high \in EventIds
  /\ lastSent # -1 => lastSent \in EventIds
  /\ \A i \in DOMAIN sent : sent[i].id <= lastSent

\* Ids and timestamps agree on the order of the visible events.
Ordered ==
  ~disorder => \A d, e \in events : d.id < e.id => d.when < e.when

\* What is below the last id sent or read was sent.
NoGapRunning ==
  ~disorder => \A i \in Wanted : i <= lastSent \/ i <= high => i \in SentIds

\* What was not sent is among the rows not yet read, or newer than all of them.
Ahead(i) == \A r \in batch : r.id < i
BatchIds == {r.id : r \in batch}
BatchComplete ==
  ~disorder /\ pc = "send" => \A i \in Wanted \ SentIds : i \in BatchIds \/ Ahead(i)

\* While nothing new was announced, the rows not yet read are all there is to send.
BatchIsLast ==
  pc = "send" /\ ~ch /\ pending = 0 /\ ~stale /\ ~disorder =>
    Wanted \ SentIds \subseteq BatchIds

WatchInv ==
  /\ TypeOK
  /\ Counts
  /\ Stamped
  /\ Distinct
  /\ NoRowsWhenOff
  /\ RowsCommitted
  /\ Cursors
  /\ SentIncreasing
  /\ SentWanted
  /\ Ordered
  /\ NoGap
  /\ NoGapRunning
  /\ BatchComplete
  /\ BatchIsLast
  /\ QuietMeansCaughtUp
-----------------------------------------------------------------------------
\* Every wanted event is sent while the watch goes on, unless it is hidden by
\* a disorder, a cut-off query or an unannounced commit.
EventuallySent ==
  \A i \in Ids :
    (pc \in Looping /\ i \in Wanted)
      ~> (i \in SentIds \/ i \notin Wanted \/ pc \notin Looping \/ disorder \/ stale)

(* What the documentation says *)

\* "The dedup mechanism ensures each event is delivered exactly once
\* regardless of signal delivery".
ExactlyOnce ==
  pc = "wait" /\ ~ch /\ pending = 0 /\ ~stale => Wanted \subseteq SentIds
=============================================================================
