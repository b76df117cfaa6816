----------------------------- MODULE Projection -----------------------------
(***************************************************************************)
(* View projections: the handler a pump runs for each event, the store it  *)
(* writes to, the notifier it announces the change to, and those who look  *)
(* on: a reader with a version constraint, a watcher of changes, a caller  *)
(* of WaitForState.  Over gRPC all pumps share the store and the notifier  *)
(* of the service; in memory each client has its own.                      *)
(*                                                                         *)
(* There is one entity.  Its value is the set of the events folded into it *)
(* since it was last deleted, and whether one was folded in twice.         *)
(***************************************************************************)
EXTENDS Pump, FiniteSets

CONSTANTS
  Db,           \* the service's store
  Consumer,     \* the projection's consumer name
  ChangeBuf     \* capacity of a watcher's channel

ASSUME ProjectionAssump ==
  /\ Db \notin Pump
  /\ Consumer \in Name
  /\ ChangeBuf \in Nat \ {0}

VARIABLES
  observer,     \* who looks on in this behaviour (a bound: one at a time)
  view,         \* the entity in each store
  notified,     \* lastVersion of each notifier
  base,         \* what a handler has read of the entity
  req,          \* where a handler's Persist stands, which may outlive its caller
  asked,        \* the event it is for
  handled,      \* ghost: events persisted in each store
  overlap,      \* ghost: a lock was granted while another pump was at work
  reader,       \* a Get
  watcher,      \* a WatchChanges stream
  waiter        \* a WaitForState

viewVars     == <<view, notified, base, req, asked, handled, overlap>>
observerVars == <<reader, watcher, waiter>>
vars         == <<pumpVars, observer, viewVars, observerVars>>

Store      == Pump \cup {Db}
StoreOf(p) == IF remote THEN Db ELSE p
Stores     == IF remote THEN {Db} ELSE Pump

NoEntity == [ver |-> -1, ids |-> {}, twice |-> FALSE]
Entity   == [ver : -1..MaxEvents, ids : SUBSET Ids, twice : BOOLEAN]
NoReader == [at |-> "idle", store |-> Db, mode |-> "after", want |-> 0, woken |-> FALSE,
             status |-> "ok", entity |-> NoEntity]
NoWatcher == [on |-> FALSE, after |-> 0, since |-> 0, ch |-> <<>>, sent |-> 0, dropped |-> FALSE]
NoWaiter  == [at |-> "idle", pump |-> Db, target |-> "Closed", woken |-> FALSE]

ViewTypeOK ==
  /\ view \in [Store -> Entity]
  /\ notified \in [Store -> -1..MaxEvents]
  /\ base \in [Pump -> Entity]
  /\ req \in [Pump -> {"none", "sent", "committed", "raised", "done", "failed"}]
  /\ asked \in [Pump -> Ids]
  /\ handled \in [Store -> SUBSET Ids]
  /\ overlap \in BOOLEAN

Reader  == [at : {"idle", "subscribe", "check", "wait", "refetch", "answered"},
            store : Store, mode : {"after", "until"}, want : Ids, woken : BOOLEAN,
            status : {"ok", "notfound", "stale", "timeout"}, entity : Entity]
Watcher == [on : BOOLEAN, after : Ids, since : -1..MaxEvents, ch : Seq(Ids), sent : Ids,
            dropped : BOOLEAN]
Waiter  == [at : {"idle", "subscribe", "check", "sleep", "returned"},
            pump : Store, target : PumpState, woken : BOOLEAN]

ObserverTypeOK ==
  /\ observer \in {"none", "reader", "watcher", "waiter"}
  /\ reader \in Reader
  /\ watcher \in Watcher /\ Len(watcher.ch) <= ChangeBuf
  /\ waiter \in Waiter

TypeOK == PumpTypeOK /\ ViewTypeOK /\ ObserverTypeOK

Init ==
  /\ PumpInit
  /\ observer \in {"none", "reader", "watcher", "waiter"}
  /\ reported = (observer = "waiter")
  /\ observer \in {"none", "watcher"} => remote
  /\ view = [s \in Store |-> NoEntity]
  /\ notified = [s \in Store |-> -1]
  /\ base = [p \in Pump |-> NoEntity]
  /\ req = [p \in Pump |-> "none"]
  /\ asked = [p \in Pump |-> 0]
  /\ handled = [s \in Store |-> {}]
  /\ overlap = FALSE
  /\ reader = NoReader
  /\ watcher = NoWatcher
  /\ waiter = NoWaiter
-----------------------------------------------------------------------------
(* The handler of one event *)

PayloadOf(i) == log[i - FirstId + 1]

\* What the handler makes of entity e at event i: an upsert of what it read with
\* the event added, or a delete (which, with no entity there, changes nothing).
Reduced(e, i) ==
  IF PayloadOf(i) = "upsert"
  THEN [ver |-> i, ids |-> e.ids \cup {i}, twice |-> e.twice \/ i \in e.ids]
  ELSE NoEntity

\* A request goes on to its next stage, or is over.
Stage(p, st) ==
  /\ req' = [req EXCEPT ![p] = st]
  /\ asked' = [asked EXCEPT ![p] = IF st = "none" THEN 0 ELSE @]
  /\ base' = [base EXCEPT ![p] = NoEntity]
\* What is left of it once the service is done: an answer, if somebody waits for it.
Reply(p, st) == IF pc[p] = "handle" THEN st ELSE "none"

\* A snapshot of the entity, without regard to its version.
ReadEntity(p) == view[StoreOf(p)]

\* The handler reads the entity through its ReduceContext and returns a result,
\* which goes to Persist.
Reduce(p) ==
  /\ At(p, "handle") /\ req[p] = "none"
  /\ base' = [base EXCEPT ![p] = ReadEntity(p)]
  /\ asked' = [asked EXCEPT ![p] = event[p]]
  /\ req' = [req EXCEPT ![p] = "sent"]
  /\ UNCHANGED <<pumpVars, observer, view, notified, handled, overlap, observerVars>>

\* (mutant: the position is not written with the mutations)
PositionKept(p) == pos
PositionWritten(p) ==
  IF remote /\ pos[Consumer] <= asked[p] THEN [pos EXCEPT ![Consumer] = asked[p]] ELSE pos

\* The mutations overwrite what is there; the version is the event's.
WriteEntity(p) == [view EXCEPT ![StoreOf(p)] = Reduced(base[p], asked[p])]

\* Entity and position change in one transaction; in memory there is no position.
Persist(p) ==
  /\ req[p] = "sent"
  /\ view' = WriteEntity(p)
  /\ pos' = PositionWritten(p)
  /\ handled' = [handled EXCEPT ![StoreOf(p)] = @ \cup {asked[p]}]
  /\ Stage(p, "committed")
  /\ KeepState
  /\ UNCHANGED <<remote, reported, log, loopVars, cancelled, monitor, observer, notified,
                 overlap, observerVars>>

\* Emit first raises lastVersion under the notifier's mutex ...
RaiseVersion(p) ==
  /\ req[p] = "committed"
  /\ notified' = [notified EXCEPT ![StoreOf(p)] = IF asked[p] > @ THEN asked[p] ELSE @]
  /\ Stage(p, "raised")
  /\ UNCHANGED <<pumpVars, observer, view, handled, overlap, observerVars>>

Subscribed(s) == reader.at \in {"check", "wait"} /\ reader.store = s

\* The callback of a watch; a full channel drops the change.
Offer(w, v) == IF Len(w.ch) < ChangeBuf THEN [w EXCEPT !.ch = Append(@, v)]
                                        ELSE [w EXCEPT !.dropped = TRUE]

\* ... and then runs the callbacks.
Announce(p) ==
  /\ req[p] = "raised"
  /\ Stage(p, Reply(p, "done"))
  /\ reader' = IF Subscribed(StoreOf(p)) THEN [reader EXCEPT !.woken = TRUE] ELSE reader
  /\ watcher' = IF watcher.on THEN Offer(watcher, asked[p]) ELSE watcher
  /\ UNCHANGED <<pumpVars, observer, view, notified, handled, overlap, waiter>>

\* The service's handler ends with an error, before or after the commit.
ApplyFails(p) ==
  /\ remote
  /\ req[p] \in {"sent", "committed"}
  /\ Stage(p, Reply(p, "failed"))
  /\ UNCHANGED <<pumpVars, observer, view, notified, handled, overlap, observerVars>>

\* The answer is back.  Over gRPC the client's own notifier runs its callbacks
\* as well; no reader depends on it.
Dispatched(p) ==
  /\ req[p] = "done"
  /\ Handled(p)
  /\ Stage(p, "none")
  /\ UNCHANGED <<observer, view, notified, handled, overlap, observerVars>>

\* The handler itself fails, with a mark or without; or the store could not be read.
ReduceFails(p, o) ==
  /\ req[p] = "none"
  /\ HandlerFails(p, o)
  /\ UNCHANGED <<observer, viewVars, observerVars>>

\* The call of Persist fails at the client while the service may go on with it;
\* or a callback of the client's own notifier fails.
PersistFails(p) ==
  /\ req[p] # "none"
  /\ remote \/ req[p] = "done"
  /\ HandlerFails(p, "fail")
  /\ IF req[p] \in {"done", "failed"} THEN Stage(p, "none") ELSE UNCHANGED <<req, asked, base>>
  /\ UNCHANGED <<observer, view, notified, handled, overlap, observerVars>>
-----------------------------------------------------------------------------
(* The pump's steps *)

\* q may still change the view.
AtWork(q) == pc[q] \in {"open", "tick", "handle", "beat"} \/ req[q] # "none"

GrantView(p) ==
  /\ Grant(p)
  /\ overlap' = (overlap \/ HolderOf[p] # Consumer \/ \E q \in Pump \ {p} : AtWork(q))
  /\ UNCHANGED <<observer, view, notified, base, req, asked, handled, observerVars>>

\* (bound: where somebody looks on, pumps run one after the other.  In memory
\* there is one client, a second one would begin with an empty store; one pump is
\* also enough for those who wait for its states.)
StartPump(p) ==
  /\ observer # "none" =>
       \A q \in Pump \ {p} : pc[q] = "idle" \/ (pc[q] = "returned" /\ remote /\ ~reported)
  /\ Start(p)

\* (bound: with pumps side by side all events are upserts; the states a pump
\* reports do not depend on events)
Submit(x) ==
  /\ ~reported /\ (observer = "none" => x = "upsert")
  /\ StoreEvent(x)
  /\ UNCHANGED <<observer, viewVars, observerVars>>

PumpStep(p) ==
  /\ StartPump(p) \/ LoopStep(p)
  /\ UNCHANGED <<observer, viewVars, observerVars>>

\* Requests under way, what was announced and the observers' streams go with the service.
Restart ==
  /\ RestartService
  /\ req' = [p \in Pump |-> IF req[p] \in {"none", "done"} THEN req[p] ELSE Reply(p, "failed")]
  /\ asked' = [p \in Pump |-> IF req'[p] = "none" THEN 0 ELSE asked[p]]
  /\ base' = [p \in Pump |-> NoEntity]
  /\ notified' = [notified EXCEPT ![Db] = -1]
  /\ reader' = NoReader
  /\ watcher' = NoWatcher
  /\ UNCHANGED <<observer, view, handled, overlap, waiter>>
-----------------------------------------------------------------------------
(* A reader *)

Answer(st, e) == reader' = [reader EXCEPT !.at = "answered", !.status = st, !.entity = e,
                                          !.woken = FALSE]
OnlyReader == UNCHANGED <<pumpVars, observer, viewVars, watcher, waiter>>

Found(e) == IF e = NoEntity THEN "notfound" ELSE "ok"

\* A Get reads the entity first; UntilVersion goes on unless it is recent enough.
\* A Get without constraint is one After the lowest version.
Get(s, mode, want) ==
  /\ observer = "reader" /\ reader.at = "idle"
  /\ LET e       == view[s]
         recent  == e # NoEntity /\ e.ver >= want
         waits   == mode = "until" /\ ~recent
         stale   == mode = "after" /\ e # NoEntity /\ ~recent
     IN reader' = [at |-> IF waits THEN "subscribe" ELSE "answered", store |-> s, mode |-> mode,
                   want |-> want, woken |-> FALSE, entity |-> e,
                   status |-> IF stale THEN "stale" ELSE Found(e)]
  /\ OnlyReader

\* (mutant: one version too early)
AlmostReached == notified[reader.store] + 1 >= reader.want
Reached == notified[reader.store] >= reader.want

WaitSubscribe ==
  /\ reader.at = "subscribe"
  /\ reader' = [reader EXCEPT !.at = "check"]
  /\ OnlyReader

\* (mutant: the version is not looked at once the subscription is there)
WaitUnchecked ==
  /\ reader.at = "check"
  /\ reader' = [reader EXCEPT !.at = "wait"]
  /\ OnlyReader
WaitCheck ==
  /\ reader.at = "check"
  /\ reader' = [reader EXCEPT !.at = IF Reached THEN "refetch" ELSE "wait"]
  /\ OnlyReader

\* A change came in.  The channel is as good as its being empty or not: what is
\* read from it is not looked at.
WaitWake ==
  /\ reader.at = "wait" /\ reader.woken
  /\ reader' = [reader EXCEPT !.woken = FALSE, !.at = IF Reached THEN "refetch" ELSE "wait"]
  /\ OnlyReader

WaitTimeout ==
  /\ reader.at = "wait"
  /\ IF Reached THEN reader' = [reader EXCEPT !.at = "refetch", !.woken = FALSE]
                ELSE Answer("timeout", view[reader.store])
  /\ OnlyReader

\* (mutant: the entity read before the wait is returned)
NoRefetch ==
  /\ reader.at = "refetch"
  /\ Answer(Found(reader.entity), reader.entity)
  /\ OnlyReader
Refetch ==
  /\ reader.at = "refetch"
  /\ Answer(Found(view[reader.store]), view[reader.store])
  /\ OnlyReader

\* The caller has its answer, and may ask again.
ReaderReturns ==
  /\ reader.at = "answered"
  /\ reader' = NoReader
  /\ OnlyReader

ReaderStep == WaitSubscribe \/ WaitCheck \/ WaitWake \/ Refetch
-----------------------------------------------------------------------------
(* A watcher of changes, at the service *)

OnlyWatcher == UNCHANGED <<pumpVars, observer, viewVars, reader, waiter>>

WatchChanges(after) ==
  /\ observer = "watcher" /\ remote /\ ~watcher.on
  /\ watcher' = [on |-> TRUE, after |-> after, since |-> notified[Db], ch |-> <<>>, sent |-> 0,
                 dropped |-> FALSE]
  /\ OnlyWatcher

\* (mutant: the change right after the requested version is left out)
SendChangeLate ==
  /\ watcher.on /\ watcher.ch # <<>>
  /\ watcher' = [watcher EXCEPT !.ch = Tail(@),
                                !.sent = IF Head(watcher.ch) <= watcher.after + 1 THEN @
                                         ELSE Head(watcher.ch)]
  /\ OnlyWatcher
SendChange ==
  /\ watcher.on /\ watcher.ch # <<>>
  /\ watcher' = [watcher EXCEPT !.ch = Tail(@),
                                !.sent = IF Head(watcher.ch) <= watcher.after THEN @
                                         ELSE Head(watcher.ch)]
  /\ OnlyWatcher

WatchEnds ==
  /\ watcher.on
  /\ watcher' = NoWatcher
  /\ OnlyWatcher
-----------------------------------------------------------------------------
(* WaitForState on a pump *)

OnlyWaiter == UNCHANGED <<pumpVars, observer, viewVars, reader, watcher>>

WaitForState(p, target) ==
  /\ observer = "waiter" /\ waiter.at \in {"idle", "returned"}
  /\ waiter' = [at |-> IF state[p] = target THEN "returned" ELSE "subscribe",
                pump |-> p, target |-> target, woken |-> FALSE]
  /\ OnlyWaiter

OnStateChange ==
  /\ waiter.at = "subscribe"
  /\ waiter' = [waiter EXCEPT !.at = "check"]
  /\ OnlyWaiter

\* (mutant: no second look at the state)
SleepAtOnce ==
  /\ waiter.at = "check"
  /\ waiter' = [waiter EXCEPT !.at = "sleep"]
  /\ OnlyWaiter
StateCheckAgain ==
  /\ waiter.at = "check"
  /\ waiter' = [waiter EXCEPT !.at = IF state[waiter.pump] = waiter.target THEN "returned" ELSE "sleep"]
  /\ OnlyWaiter

WaiterWakes ==
  /\ waiter.at = "sleep" /\ waiter.woken
  /\ waiter' = [waiter EXCEPT !.at = "returned", !.woken = FALSE]
  /\ OnlyWaiter

WaiterGivesUp ==
  /\ waiter.at = "sleep"
  /\ waiter' = [waiter EXCEPT !.at = "returned", !.woken = FALSE]
  /\ OnlyWaiter

\* A setState runs its callbacks.
EmitState(e) ==
  /\ emits' = emits \ {e}
  /\ waiter' = IF /\ waiter.at \in {"check", "sleep"}
                  /\ e.pump = waiter.pump /\ e.st = waiter.target
               THEN [waiter EXCEPT !.woken = TRUE] ELSE waiter
  /\ UNCHANGED <<serviceVars, loopVars, state, cancelled, monitor, observer, viewVars,
                 reader, watcher>>

WaiterStep == OnStateChange \/ StateCheckAgain \/ WaiterWakes
-----------------------------------------------------------------------------
HandlerStep(p) ==
  Reduce(p) \/ Persist(p) \/ RaiseVersion(p) \/ Announce(p) \/ Dispatched(p)

\* (bounds: a reader asks for the last event, a watcher for what follows the first)
Step ==
  \/ \E p \in Pump : \/ PumpStep(p) \/ GrantView(p) \/ HandlerStep(p)
                     \/ PersistFails(p) \/ ApplyFails(p)
                     \/ \E o \in {"retry", "fail"} : ReduceFails(p, o)
  \/ \E e \in emits : EmitState(e)
  \/ Restart
  \/ \E x \in Payload : Submit(x)
  \/ \E s \in Stores, mode \in {"after", "until"} : Get(s, mode, FirstId + MaxEvents - 1)
  \/ ReaderStep \/ WaitTimeout
  \/ WatchChanges(1)
  \/ SendChange \/ WatchEnds
  \/ \E p \in Pump, target \in PumpState : WaitForState(p, target)
  \/ WaiterStep \/ WaiterGivesUp

\* (bound: a reader's answer is looked at before anything else happens)
Next == (reader.at # "answered" /\ Step) \/ ReaderReturns

Spec == Init /\ [][Next]_vars
-----------------------------------------------------------------------------
(* Properties *)

\* The events up to k that were not deleted since.
Kept(k) == {i \in FirstId..k : \A j \in i..k : PayloadOf(j) = "upsert"}

\* The entity after the events up to k, each folded in once.
Fold(k) == IF Kept(k) = {} THEN NoEntity ELSE [ver |-> k, ids |-> Kept(k), twice |-> FALSE]

\* While no two pumps have been at work together, the stored view is the fold of
\* exactly the events up to the stored position: crashes, retries and takeovers
\* neither lose an event nor apply one twice (PGStore.Persist writes both in one
\* transaction, the pump resumes after that position).
ViewIsFold == remote /\ ~overlap => view[Db] = Fold(pos[Consumer])

\* The types, and the view in Postgres belongs to the position beside it.
ViewInv == TypeOK /\ ViewIsFold

\* A stored position above 0 has every event up to it handled and persisted by
\* some pump, overlapping pumps and lost heartbeats included.
AtLeastOnce ==
  \A n \in Name : pos[n] > 0 => FirstId..pos[n] \subseteq UNION {handled[s] : s \in Stores}

\* A version-constrained Get that succeeds shows a view in which every event up
\* to the wanted one took part.  For After that is an entity of that version, for
\* UntilVersion also the absence of one (resolveGet, resolveUntilVersion,
\* waitUntilVersion).
AnswerCovers ==
  /\ reader.at = "answered"
  /\ reader.status = "ok" \/ (reader.mode = "until" /\ reader.status = "notfound")
  => FirstId..reader.want \subseteq handled[reader.store]

\* The entity UntilVersion returns is the one after some prefix of the stream that
\* includes the wanted event, not a mixture (nor one from before the wait).
UntilIsFold ==
  /\ remote /\ ~overlap
  /\ reader.at = "answered" /\ reader.mode = "until" /\ reader.status \in {"ok", "notfound"}
  => \E k \in reader.want..LastId : reader.entity = Fold(k)

\* When a pump has nothing left to read, every stored event has been handled: none
\* was skipped by a takeover, a retry or a restart (ResumeAfter).
QuietMeansProjected ==
  \A p \in Pump :
    pc[p] = "tick" /\ stream[p] # "broken" /\ cursor[p] = LastId =>
      FirstId..LastId \subseteq handled[StoreOf(p)]

\* A reader is never left asleep below a version that is already reached: a wakeup
\* is in its channel or about to be put there (Notifier.WaitForVersion).
NoMissedVersion ==
  reader.at = "wait" /\ Reached =>
    \/ reader.woken
    \/ \E p \in Pump : req[p] = "raised" /\ StoreOf(p) = reader.store

\* A waiter for a pump state is never left asleep in that state (WaitForState,
\* with the loop and the cancellation monitor both setting states).
NoSleepInState ==
  waiter.at = "sleep" /\ state[waiter.pump] = waiter.target =>
    waiter.woken \/ \E e \in emits : e.pump = waiter.pump /\ e.st = waiter.target

\* While no two pumps have been at work together, a watcher whose buffer never
\* overflowed has been sent, or has waiting, the newest change announced since it
\* came (changeStream).
ChangesNotMissed ==
  ~overlap /\ watcher.on /\ ~watcher.dropped /\ watcher.ch = <<>>
           /\ notified[Db] > watcher.since
    => \/ watcher.sent >= notified[Db] \/ notified[Db] <= watcher.after
       \/ \E p \in Pump : req[p] = "raised"
-----------------------------------------------------------------------------
(* The inductive strengthening of these invariants *)

\* What is stored, read or asked for are ids of the stream.
Bounds ==
  /\ \A n \in Name : pos[n] > 0 => pos[n] <= LastId
  /\ \A p \in Pump : /\ position[p] > 0 => position[p] <= LastId
                     /\ cursor[p] <= LastId
                     /\ req[p] # "none" => asked[p] <= LastId

\* In memory one pump runs.
Alone ==
  ~remote => observer # "none" /\ \A p, q \in Pump : p = q \/ pc[p] = "idle" \/ pc[q] = "idle"

\* A request belongs to the event at its handler, or its pump has failed for good.
Requests ==
  \A p \in Pump :
    /\ pc[p] = "handle" => event[p] = cursor[p]
    /\ req[p] # "none" =>
         \/ pc[p] = "handle" /\ asked[p] = event[p]
         \/ pc[p] \in {"release", "after", "settle"} /\ outcome[p] = "fail"
         \/ pc[p] = "returned"

\* The stores pumps write to.
Active == IF remote THEN {Db} ELSE {p \in Pump : pc[p] # "idle"}

\* Events are handled before any position passes them.
PositionsHandled ==
  \A n \in Name : pos[n] > 0 =>
    Active # {} /\ \A s \in Active : FirstId..pos[n] \subseteq handled[s]
LoopHandled ==
  \A p \in Pump :
    /\ position[p] > 0 => FirstId..position[p] \subseteq handled[StoreOf(p)]
    /\ pc[p] \in {"tick", "beat"} => FirstId..cursor[p] \subseteq handled[StoreOf(p)]
    /\ pc[p] = "handle" => FirstId..event[p] - 1 \subseteq handled[StoreOf(p)]
RequestHandled ==
  \A p \in Pump :
    /\ req[p] # "none" => FirstId..asked[p] - 1 \subseteq handled[StoreOf(p)]
    /\ req[p] \in {"committed", "raised", "done"} => asked[p] \in handled[StoreOf(p)]
VersionsHandled ==
  /\ \A s \in Store : /\ FirstId..view[s].ver \subseteq handled[s]
                      /\ FirstId..notified[s] \subseteq handled[s]
  /\ reader.at = "refetch" => FirstId..reader.want \subseteq handled[reader.store]

\* Over gRPC a version is announced after the position reached it.
VersionsStored ==
  /\ watcher.on => remote
  /\ remote =>
       /\ notified[Db] <= pos[Consumer]
       /\ \A p \in Pump :
            /\ req[p] \in {"committed", "raised", "done"} => asked[p] <= pos[Consumer]
            /\ req[p] = "raised" => asked[p] <= notified[Db]
       /\ reader.store = Db
       /\ reader.at = "refetch" => reader.want <= pos[Consumer]

\* Pumps are at work one at a time until they overlap.
OneAtWork ==
  ~overlap =>
    \A p \in Pump : AtWork(p) => HolderOf[p] = Consumer /\ \A q \in Pump \ {p} : ~AtWork(q)

\* The one at work is at the position, or at the event that follows it.
ExactAt(p) ==
  /\ pc[p] \in {"open", "tick", "handle", "beat"} => position[p] <= pos[Consumer]
  /\ pc[p] = "open" => position[p] = pos[Consumer]
  /\ pc[p] \in {"tick", "beat"} => cursor[p] = pos[Consumer]
  /\ pc[p] = "handle" /\ req[p] = "none" => event[p] = pos[Consumer] + 1
  /\ req[p] = "sent" => asked[p] = pos[Consumer] + 1 /\ base[p] = view[Db]
  /\ req[p] \in {"committed", "raised", "done"} => asked[p] = pos[Consumer]
Exact == remote /\ ~overlap => \A p \in Pump : ExactAt(p)

\* The last change in a watcher's channel is the newest one.
ChangeQueued ==
  /\ watcher.on /\ ~overlap /\ ~watcher.dropped /\ notified[Db] > watcher.since
  /\ \A p \in Pump : req[p] # "raised"
  => IF watcher.ch = <<>>
     THEN watcher.sent >= notified[Db] \/ notified[Db] <= watcher.after
     ELSE watcher.ch[Len(watcher.ch)] = notified[Db]

DeliveryInv ==
  /\ Bounds /\ Alone /\ Requests
  /\ PositionsHandled /\ LoopHandled /\ RequestHandled
  /\ VersionsHandled /\ AnswerCovers

ExactInv ==
  /\ VersionsStored /\ OneAtWork /\ Exact
  /\ ViewIsFold /\ UntilIsFold /\ ChangeQueued

ProjectionInv == TypeOK /\ DeliveryInv /\ ExactInv /\ NoMissedVersion /\ NoSleepInState
=============================================================================
