-------------------------- MODULE ProjectionProofs --------------------------
(***************************************************************************)
(* Proofs about the pumps and the view projections, for any number of      *)
(* pumps, consumer names, events, transports and observers.                *)
(***************************************************************************)
EXTENDS Projection, SequenceTheorems, TLAPS

-----------------------------------------------------------------------------
(* What a pump's loop does *)

PumpAction(p) == StartPump(p) \/ LoopStep(p)

\* The variables of the loop keep their types.
LEMMA LoopTypes ==
  ASSUME PumpTypeOK, NEW p \in Pump, PumpAction(p)
  PROVE  PumpTypeOK'
<1> USE PumpAssump DEF PumpAssump, PumpTypeOK, Goto, KeepState, Ids
<1>0. ASSUME NEW by \in {"loop", "monitor"}, NEW s \in PumpState, SetState(p, by, s)
      PROVE  /\ state' \in [Pump -> PumpState]
             /\ emits' \subseteq [pump : Pump, by : {"loop", "monitor"}, st : PumpState]
  <2>1. [pump |-> p, by |-> by, st |-> s] \in
          [pump : Pump, by : {"loop", "monitor"}, st : PumpState]
    OBVIOUS
  <2>2. CASE reported
    <3>1. state' = [state EXCEPT ![p] = s]
      BY <1>0, <2>2 DEF SetState
    <3>2. emits' = emits \cup {[pump |-> p, by |-> by, st |-> s]}
      BY <1>0, <2>2 DEF SetState
    <3> QED
      BY <2>1, <3>1, <3>2
  <2>3. CASE ~reported
    BY <1>0, <2>3 DEF SetState
  <2> QED
    BY <2>2, <2>3
<1>1. CASE Start(p)
  BY <1>0, <1>1 DEF Start, serviceVars, PumpState
<1>2. CASE CheckContext(p, "loop", "begin") \/ CheckContext(p, "after", "settle")
  BY <1>2 DEF CheckContext, Return, serviceVars
<1>3. CASE BeginCycle(p)
  BY <1>0, <1>3 DEF BeginCycle, serviceVars, PumpState
<1>4. CASE EndCycle(p)
  BY <1>0, <1>4 DEF EndCycle, serviceVars, PumpState
<1>5. CASE Cancel(p) \/ ClientEnds(p)
  BY <1>5 DEF Cancel, ClientEnds, serviceVars, loopVars
<1>6. CASE MonitorCancellation(p)
  BY <1>0, <1>6 DEF MonitorCancellation, serviceVars, loopVars, PumpState
<1>7. CASE AcquireFails(p) \/ OpenFails(p) \/ TickFails(p) \/ HeartbeatFails(p)
  BY <1>7 DEF AcquireFails, OpenFails, TickFails, HeartbeatFails, Give, serviceVars
<1>8. CASE OpenWatch(p)
  <2>1. ResumeAfter(p) \in -1..MaxEvents
    BY DEF ResumeAfter, FirstId
  <2> QED
    BY <1>0, <1>8, <2>1 DEF OpenWatch, serviceVars, PumpState
<1>9. CASE NextEvent(p)
  <2>1. cursor[p] + 1 \in Ids /\ cursor[p] + 1 \in -1..MaxEvents
    BY <1>9 DEF NextEvent, LastId, FirstId
  <2> QED
    BY <1>9, <2>1 DEF NextEvent, serviceVars
<1>10. CASE ProactiveHeartbeat(p)
  BY <1>10 DEF ProactiveHeartbeat, serviceVars
<1>11. CASE Heartbeat(p)
  BY <1>11, ZenonT(40) DEF Heartbeat, Renewed, Conflict
<1>12. CASE HeartbeatMisread(p)
  BY <1>12 DEF HeartbeatMisread, serviceVars
<1>13. CASE Release(p)
  BY <1>13, SMTT(20) DEF Release, serviceVars
<1>14. CASE LockLostSent(p)
  BY <1>14 DEF LockLostSent, serviceVars
<1> QED
  BY <1>1, <1>2, <1>3, <1>4, <1>5, <1>6, <1>7, <1>8, <1>9, <1>10, <1>11, <1>12, <1>13, <1>14
     DEF PumpAction, StartPump, LoopStep

\* What a step of p's loop leaves alone.
Others(p) ==
  /\ UNCHANGED <<remote, reported, log>>
  /\ \A q \in Pump \ {p} :
       /\ pc'[q] = pc[q] /\ position'[q] = position[q] /\ cursor'[q] = cursor[q]
       /\ event'[q] = event[q] /\ outcome'[q] = outcome[q]

\* Steps at which nothing is read or stored: the loop waits, fails or ends.
Rests(p) ==
  /\ pos' = pos
  /\ pc[p] \notin {"handle", "returned"}
  /\ pc'[p] \in {"loop", "begin", "acquire", "release", "after", "settle", "returned"}
  /\ position'[p] \in {0, position[p]}
  /\ cursor'[p] \in {-1, cursor[p]}
  /\ pc[p] = "idle" => \A q \in Pump \ {p} : pc[q] = "idle" \/ remote \/ observer = "none"
  /\ pc[p] \in {"release", "after", "settle"} /\ outcome[p] = "fail" =>
       \/ pc'[p] = "returned"
       \/ pc'[p] \in {"after", "settle"} /\ outcome'[p] = "fail"

Stays(p) == UNCHANGED <<pos, pc, position, cursor, event, outcome>>

Opens(p) ==
  /\ pos' = pos /\ position'[p] = position[p]
  /\ pc[p] = "open" /\ pc'[p] = "tick"
  /\ cursor'[p] = IF position[p] > 0 THEN position[p] ELSE FirstId - 1

Takes(p) ==
  /\ pos' = pos /\ position'[p] = position[p]
  /\ pc[p] = "tick" /\ pc'[p] = "handle"
  /\ cursor[p] < LastId
  /\ cursor'[p] = cursor[p] + 1 /\ event'[p] = cursor[p] + 1

Beats(p) ==
  /\ \/ pc[p] = "beat" /\ pc'[p] = "tick"
     \/ pc[p] = "tick" /\ pc'[p] = "beat" /\ ~remote /\ pos' = pos
  /\ cursor'[p] = cursor[p]
  /\ \/ pos' = pos /\ position'[p] \in {position[p], pos[HolderOf[p]]}
     \/ /\ position[p] >= pos[HolderOf[p]] /\ position'[p] = position[p]
        /\ pos' = [pos EXCEPT ![HolderOf[p]] = position[p]]

\* Every step of the loop is one of these.
LEMMA LoopShape ==
  ASSUME PumpTypeOK, NEW p \in Pump, PumpAction(p)
  PROVE  Others(p) /\ (Rests(p) \/ Stays(p) \/ Opens(p) \/ Takes(p) \/ Beats(p))
<1> USE DEF PumpTypeOK, Goto, At, serviceVars, loopVars, Others
<1>1. CASE StartPump(p)
  BY <1>1 DEF StartPump, Start, Rests
<1>2. CASE CheckContext(p, "loop", "begin") \/ CheckContext(p, "after", "settle")
  BY <1>2 DEF CheckContext, Return, Rests
<1>3. CASE BeginCycle(p) \/ EndCycle(p)
  BY <1>3 DEF BeginCycle, EndCycle, Rests
<1>5. CASE Cancel(p) \/ ClientEnds(p) \/ MonitorCancellation(p) \/ LockLostSent(p)
  BY <1>5 DEF Cancel, ClientEnds, MonitorCancellation, LockLostSent, Stays
<1>7. CASE AcquireFails(p) \/ OpenFails(p) \/ TickFails(p) \/ HeartbeatFails(p)
  BY <1>7 DEF AcquireFails, OpenFails, TickFails, HeartbeatFails, Give, Rests
<1>8. CASE OpenWatch(p)
  BY <1>8 DEF OpenWatch, ResumeAfter, Opens
<1>9. CASE NextEvent(p)
  BY <1>9 DEF NextEvent, Takes
<1>10. CASE ProactiveHeartbeat(p) \/ HeartbeatMisread(p)
  BY <1>10 DEF ProactiveHeartbeat, HeartbeatMisread, Beats
<1>11. CASE Heartbeat(p)
  BY <1>11 DEF Heartbeat, Renewed, Conflict, Beats
<1>13. CASE Release(p)
  BY <1>13 DEF Release, Rests
<1> QED
  BY <1>1, <1>2, <1>3, <1>5, <1>7, <1>8, <1>9, <1>10, <1>11, <1>13
     DEF PumpAction, LoopStep

-----------------------------------------------------------------------------
(* Types *)

\* What a handler makes of an entity is an entity.
LEMMA ReducedEntity ==
  ASSUME NEW e \in Entity, NEW i \in Ids
  PROVE  Reduced(e, i) \in Entity
<1>1. i \in -1..MaxEvents /\ -1 \in -1..MaxEvents
  BY PumpAssump DEF PumpAssump, Ids
<1>2. e.ids \cup {i} \in SUBSET Ids /\ (e.twice \/ i \in e.ids) \in BOOLEAN
  BY DEF Entity
<1> QED
  BY <1>1, <1>2 DEF Reduced, Entity, NoEntity

\* The fields of a reader that moved on.
LEMMA ReaderMoved ==
  ASSUME ObserverTypeOK, NEW a \in {"idle", "subscribe", "check", "wait", "refetch", "answered"},
         NEW w \in BOOLEAN, NEW r,
         \/ r = [reader EXCEPT !.at = a] /\ w = reader.woken
         \/ r = [reader EXCEPT !.woken = w] /\ a = reader.at
         \/ r = [reader EXCEPT !.woken = w, !.at = a]
         \/ r = [reader EXCEPT !.at = a, !.woken = w]
  PROVE  /\ r \in Reader
         /\ r.at = a /\ r.woken = w
         /\ r.store = reader.store /\ r.mode = reader.mode /\ r.want = reader.want
         /\ r.status = reader.status /\ r.entity = reader.entity
<1> USE DEF ObserverTypeOK, Reader
<1>1. CASE r = [reader EXCEPT !.at = a] /\ w = reader.woken
  BY <1>1
<1>2. CASE r = [reader EXCEPT !.woken = w] /\ a = reader.at
  BY <1>2
<1>3. CASE r = [reader EXCEPT !.woken = w, !.at = a]
  BY <1>3
<1>4. CASE r = [reader EXCEPT !.at = a, !.woken = w]
  BY <1>4
<1> QED
  BY <1>1, <1>2, <1>3, <1>4

\* The fields of a reader that was answered.
LEMMA ReaderAnswered ==
  ASSUME ObserverTypeOK, NEW st \in {"ok", "notfound", "stale", "timeout"}, NEW e \in Entity,
         Answer(st, e)
  PROVE  /\ reader' \in Reader
         /\ reader'.at = "answered" /\ reader'.woken = FALSE
         /\ reader'.store = reader.store /\ reader'.mode = reader.mode
         /\ reader'.want = reader.want
         /\ reader'.status = st /\ reader'.entity = e
BY DEF ObserverTypeOK, Reader, Answer

\* The fields of a waiter that moved on.
LEMMA WaiterMoved ==
  ASSUME ObserverTypeOK, NEW a \in {"idle", "subscribe", "check", "sleep", "returned"},
         NEW w \in BOOLEAN, NEW r,
         \/ r = [waiter EXCEPT !.at = a] /\ w = waiter.woken
         \/ r = [waiter EXCEPT !.woken = w] /\ a = waiter.at
         \/ r = [waiter EXCEPT !.at = a, !.woken = w]
  PROVE  /\ r \in Waiter
         /\ r.at = a /\ r.woken = w
         /\ r.pump = waiter.pump /\ r.target = waiter.target
<1> USE DEF ObserverTypeOK, Waiter
<1>1. CASE r = [waiter EXCEPT !.at = a] /\ w = waiter.woken
  BY <1>1
<1>2. CASE r = [waiter EXCEPT !.woken = w] /\ a = waiter.at
  BY <1>2
<1>3. CASE r = [waiter EXCEPT !.at = a, !.woken = w]
  BY <1>3
<1> QED
  BY <1>1, <1>2, <1>3

\* A channel that is not full can take one more change.
LEMMA OfferTypes ==
  ASSUME ObserverTypeOK, NEW v \in Ids, watcher' \in {watcher, Offer(watcher, v)}
  PROVE  watcher' \in Watcher /\ Len(watcher'.ch) <= ChangeBuf
<1>1. watcher.ch \in Seq(Ids) /\ Len(watcher.ch) \in Nat
  BY DEF ObserverTypeOK, Watcher
<1>2. Append(watcher.ch, v) \in Seq(Ids) /\ Len(Append(watcher.ch, v)) = Len(watcher.ch) + 1
  BY <1>1
<1>3. [watcher EXCEPT !.ch = Append(watcher.ch, v)] \in Watcher
  BY <1>2 DEF ObserverTypeOK, Watcher
<1>4. [watcher EXCEPT !.ch = Append(watcher.ch, v)].ch = Append(watcher.ch, v)
  BY DEF ObserverTypeOK, Watcher
<1>5. CASE Len(watcher.ch) < ChangeBuf /\ watcher' # watcher
  <2>1. watcher' = [watcher EXCEPT !.ch = Append(watcher.ch, v)]
    BY <1>5 DEF Offer
  <2>2. Len(watcher'.ch) = Len(watcher.ch) + 1
    BY <1>2, <1>4, <2>1
  <2>3. Len(watcher'.ch) <= ChangeBuf
    BY <1>1, <1>5, <2>2, ProjectionAssump DEF ProjectionAssump
  <2> QED
    BY <1>3, <2>1, <2>3
<1>6. CASE ~(Len(watcher.ch) < ChangeBuf) /\ watcher' # watcher
  <2>1. watcher' = [watcher EXCEPT !.dropped = TRUE]
    BY <1>6 DEF Offer
  <2>2. watcher'.ch = watcher.ch
    BY <2>1 DEF ObserverTypeOK, Watcher
  <2> QED
    BY <2>1, <2>2 DEF ObserverTypeOK, Watcher
<1> QED
  BY <1>5, <1>6 DEF ObserverTypeOK, Watcher

\* The handler's steps.
LEMMA HandlerTypes ==
  ASSUME TypeOK, NEW p \in Pump,
         \/ HandlerStep(p) \/ PersistFails(p) \/ ApplyFails(p)
         \/ \E o \in {"retry", "fail"} : ReduceFails(p, o)
  PROVE  TypeOK'
<1> USE DEF TypeOK
<1>0. StoreOf(p) \in Store /\ Db \in Store /\ NoEntity \in Entity /\ 0 \in Ids /\ Ids \subseteq -1..MaxEvents
  BY PumpAssump DEF StoreOf, Store, NoEntity, Entity, Ids, PumpAssump
<1>1. CASE Reduce(p)
  BY <1>0, <1>1 DEF Reduce, ReadEntity, ViewTypeOK, ObserverTypeOK, PumpTypeOK, pumpVars,
     serviceVars, loopVars, observerVars
<1>2. CASE Persist(p)
  <2>1. Reduced(base[p], asked[p]) \in Entity /\ asked[p] \in Ids
    BY ReducedEntity DEF ViewTypeOK
  <2>2. PumpTypeOK'
    <3>1. pos' \in [Name -> Ids]
      BY <1>2, <2>1 DEF Persist, PositionWritten, PumpTypeOK
    <3> QED
      BY <1>2, <3>1 DEF Persist, PumpTypeOK, loopVars, KeepState
  <2>3. ViewTypeOK'
    BY <1>0, <1>2, <2>1 DEF Persist, WriteEntity, Stage, ViewTypeOK
  <2>4. ObserverTypeOK'
    BY <1>2 DEF Persist, ObserverTypeOK, observerVars
  <2> QED
    BY <2>2, <2>3, <2>4
<1>3. CASE RaiseVersion(p)
  <2>1. ViewTypeOK'
    BY <1>0, <1>3 DEF RaiseVersion, Stage, ViewTypeOK
  <2> QED
    BY <1>3, <2>1 DEF RaiseVersion, ObserverTypeOK, PumpTypeOK, pumpVars,
       serviceVars, loopVars, observerVars
<1>4. CASE Announce(p)
  <2>1. ViewTypeOK'
    BY <1>0, <1>4 DEF Announce, Stage, Reply, ViewTypeOK
  <2>2. asked[p] \in Ids
    BY DEF ViewTypeOK
  <2>3. ObserverTypeOK'
    <3>1. watcher' \in {watcher, Offer(watcher, asked[p])}
      BY <1>4 DEF Announce
    <3>2. watcher' \in Watcher /\ Len(watcher'.ch) <= ChangeBuf
      BY <2>2, <3>1, OfferTypes
    <3>3. [reader EXCEPT !.woken = TRUE] \in Reader
      BY DEF ObserverTypeOK, Reader
    <3>4. reader' \in Reader
      BY <1>4, <3>3 DEF Announce, ObserverTypeOK
    <3> QED
      BY <1>4, <3>2, <3>4 DEF Announce, ObserverTypeOK
  <2> QED
    BY <1>4, <2>1, <2>3 DEF Announce, PumpTypeOK, pumpVars, serviceVars, loopVars
<1>5. CASE ApplyFails(p)
  <2>1. ViewTypeOK'
    BY <1>0, <1>5 DEF ApplyFails, Stage, Reply, ViewTypeOK
  <2> QED
    BY <1>5, <2>1 DEF ApplyFails, ObserverTypeOK, PumpTypeOK, pumpVars,
       serviceVars, loopVars, observerVars
<1>6. CASE Dispatched(p)
  <2>1. ViewTypeOK'
    BY <1>0, <1>6 DEF Dispatched, Stage, ViewTypeOK
  <2>2. PumpTypeOK'
    BY <1>6 DEF Dispatched, Handled, PumpTypeOK, Goto, KeepState, serviceVars
  <2> QED
    BY <1>6, <2>1, <2>2 DEF Dispatched, ObserverTypeOK, observerVars
<1>7. ASSUME NEW o \in {"retry", "fail"}, HandlerFails(p, o)
      PROVE  PumpTypeOK'
  BY <1>7 DEF HandlerFails, Give, PumpTypeOK, Goto, KeepState, serviceVars
<1>8. ASSUME NEW o \in {"retry", "fail"}, ReduceFails(p, o)
      PROVE  TypeOK'
  BY <1>7, <1>8 DEF ReduceFails, ViewTypeOK, ObserverTypeOK, viewVars, observerVars
<1>9. CASE PersistFails(p)
  <2>1. ViewTypeOK'
    BY <1>0, <1>9 DEF PersistFails, Stage, ViewTypeOK
  <2> QED
    BY <1>7, <1>9, <2>1 DEF PersistFails, ObserverTypeOK, observerVars
<1> QED
  BY <1>1, <1>2, <1>3, <1>4, <1>5, <1>6, <1>8, <1>9 DEF HandlerStep

\* Grants, restarts and new events.
LEMMA ServiceTypes ==
  ASSUME TypeOK,
         \/ \E p \in Pump : PumpStep(p) \/ GrantView(p)
         \/ Restart
         \/ \E x \in Payload : Submit(x)
  PROVE  TypeOK'
<1> USE DEF TypeOK
<1>1. ASSUME NEW p \in Pump, PumpStep(p)
      PROVE  TypeOK'
  <2>1. PumpTypeOK'
    BY <1>1, LoopTypes DEF PumpStep, PumpAction
  <2> QED
    BY <1>1, <2>1 DEF PumpStep, ViewTypeOK, ObserverTypeOK, viewVars, observerVars
<1>2. ASSUME NEW p \in Pump, GrantView(p)
      PROVE  TypeOK'
  <2>1. PumpTypeOK'
    BY <1>2, PumpAssump DEF PumpAssump, GrantView, Grant, PumpTypeOK, Goto, KeepState, serviceVars
  <2>2. overlap' \in BOOLEAN
    BY <1>2 DEF GrantView
  <2> QED
    BY <1>2, <2>1, <2>2 DEF GrantView, ViewTypeOK, ObserverTypeOK, observerVars
<1>3. CASE Restart
  <2>1. PumpTypeOK'
    BY <1>3 DEF Restart, RestartService, PumpTypeOK, KeepState, serviceVars
  <2>2. ViewTypeOK'
    <3>1. NoEntity \in Entity /\ 0 \in Ids /\ -1 \in -1..MaxEvents
      BY PumpAssump DEF NoEntity, Entity, Ids, PumpAssump
    <3>2. req' \in [Pump -> {"none", "sent", "committed", "raised", "done", "failed"}]
      BY <1>3 DEF Restart, ViewTypeOK, Reply
    <3> QED
      BY <1>3, <3>1, <3>2 DEF Restart, ViewTypeOK
  <2>3. ObserverTypeOK'
    <3>1. NoReader \in Reader /\ NoWatcher \in Watcher /\ Len(NoWatcher.ch) <= ChangeBuf
      BY PumpAssump, ProjectionAssump
         DEF PumpAssump, ProjectionAssump, NoReader, Reader, NoWatcher, Watcher, Store, Ids,
             NoEntity, Entity
    <3> QED
      BY <1>3, <3>1 DEF Restart, ObserverTypeOK
  <2> QED
    BY <2>1, <2>2, <2>3
<1>4. ASSUME NEW x \in Payload, Submit(x)
      PROVE  TypeOK'
  <2>1. PumpTypeOK'
    <3>1. log' \in Seq(Payload) /\ Len(log') <= MaxEvents
      <4>1. log' = Append(log, x) /\ Len(log) < MaxEvents /\ log \in Seq(Payload)
        BY <1>4 DEF Submit, StoreEvent, PumpTypeOK
      <4>2. Len(log') = Len(log) + 1 /\ Len(log) \in Nat
        BY <4>1
      <4> QED
        BY <4>1, <4>2, PumpAssump DEF PumpAssump
    <3> QED
      BY <1>4, <3>1 DEF Submit, StoreEvent, PumpTypeOK, KeepState, loopVars
  <2> QED
    BY <1>4, <2>1 DEF Submit, ViewTypeOK, ObserverTypeOK, viewVars, observerVars
<1> QED
  BY <1>1, <1>2, <1>3, <1>4

\* The steps of those who look on.
LookOn ==
  \/ \E s \in Stores, mode \in {"after", "until"} : Get(s, mode, FirstId + MaxEvents - 1)
  \/ ReaderStep \/ WaitTimeout \/ ReaderReturns
  \/ WatchChanges(1) \/ SendChange \/ WatchEnds
  \/ \E p \in Pump, target \in PumpState : WaitForState(p, target)
  \/ WaiterStep \/ WaiterGivesUp

\* Those who look on keep the types of their own state.
LEMMA LookOnTypes ==
  ASSUME TypeOK, LookOn
  PROVE  ObserverTypeOK'
<1> USE DEF TypeOK
<1>0. /\ Stores \subseteq Store /\ view \in [Store -> Entity] /\ notified \in [Store -> -1..MaxEvents]
      /\ \A s \in Store : view[s] \in Entity
      /\ reader \in Reader /\ reader.store \in Store /\ reader.entity \in Entity
      /\ NoReader \in Reader /\ NoWatcher \in Watcher /\ Len(NoWatcher.ch) <= ChangeBuf
  BY PumpAssump, ProjectionAssump, SMTT(20)
     DEF PumpAssump, ProjectionAssump, NoReader, Reader, NoWatcher, Watcher, Store, Stores, Ids,
         NoEntity, Entity, ObserverTypeOK, ViewTypeOK
<1>1. ASSUME reader' \in Reader, UNCHANGED <<observer, watcher, waiter>>
      PROVE  ObserverTypeOK'
  BY <1>1 DEF ObserverTypeOK
<1>2. ASSUME watcher' \in Watcher, Len(watcher'.ch) <= ChangeBuf, UNCHANGED <<observer, reader, waiter>>
      PROVE  ObserverTypeOK'
  BY <1>2 DEF ObserverTypeOK
<1>3. ASSUME waiter' \in Waiter, UNCHANGED <<observer, reader, watcher>>
      PROVE  ObserverTypeOK'
  BY <1>3 DEF ObserverTypeOK
<1>4. ASSUME NEW s \in Stores, NEW mode \in {"after", "until"},
             Get(s, mode, FirstId + MaxEvents - 1)
      PROVE  ObserverTypeOK'
  <2>1. FirstId + MaxEvents - 1 \in Ids /\ s \in Store
    BY <1>0, PumpAssump DEF PumpAssump, FirstId, Ids
  <2>2. reader' \in Reader
    BY <1>0, <1>4, <2>1 DEF Get, Reader, Found
  <2> QED
    BY <1>1, <1>4, <2>2 DEF Get, OnlyReader
<1>5. CASE WaitSubscribe \/ WaitCheck \/ WaitWake
  <2>1. reader' \in Reader
    <3>1. \A a \in {"check", "refetch", "wait"} : [reader EXCEPT !.at = a] \in Reader
      BY ReaderMoved, ZenonT(40) DEF ObserverTypeOK, Reader
    <3>2. \A a \in {"refetch", "wait"} : [reader EXCEPT !.woken = FALSE, !.at = a] \in Reader
      BY ReaderMoved
    <3> QED
      BY <1>5, <3>1, <3>2 DEF WaitSubscribe, WaitCheck, WaitWake
  <2> QED
    BY <1>1, <1>5, <2>1 DEF WaitSubscribe, WaitCheck, WaitWake, OnlyReader
<1>6. CASE WaitTimeout
  <2>1. reader' \in Reader
    <3>1. [reader EXCEPT !.at = "refetch", !.woken = FALSE] \in Reader
      BY ReaderMoved
    <3>2. Answer("timeout", view[reader.store]) => reader' \in Reader
      BY <1>0, ReaderAnswered
    <3> QED
      BY <1>6, <3>1, <3>2 DEF WaitTimeout
  <2> QED
    BY <1>1, <1>6, <2>1 DEF WaitTimeout, OnlyReader
<1>7. CASE Refetch
  <2>1. Found(view[reader.store]) \in {"ok", "notfound", "stale", "timeout"}
    BY DEF Found
  <2>2. reader' \in Reader
    BY <1>0, <1>7, <2>1, ReaderAnswered DEF Refetch
  <2> QED
    BY <1>1, <1>7, <2>2 DEF Refetch, OnlyReader
<1>8. CASE ReaderReturns
  BY <1>0, <1>1, <1>8 DEF ReaderReturns, OnlyReader
<1>9. CASE WatchChanges(1) \/ WatchEnds
  <2>1. watcher' \in Watcher /\ Len(watcher'.ch) <= ChangeBuf
    <3>1. CASE WatchChanges(1)
      <4>1. watcher' = [on |-> TRUE, after |-> 1, since |-> notified[Db], ch |-> <<>>, sent |-> 0,
                        dropped |-> FALSE]
        BY <3>1 DEF WatchChanges
      <4>2. 1 \in Ids /\ 0 \in Ids /\ notified[Db] \in -1..MaxEvents /\ <<>> \in Seq(Ids)
        BY <1>0, PumpAssump DEF PumpAssump, Ids, Store
      <4>3. Len(watcher'.ch) = 0
        BY <4>1
      <4> QED
        BY <4>1, <4>2, <4>3, ProjectionAssump DEF ProjectionAssump, Watcher
    <3>2. CASE WatchEnds
      BY <1>0, <3>2 DEF WatchEnds
    <3> QED
      BY <1>9, <3>1, <3>2
  <2> QED
    BY <1>2, <1>9, <2>1 DEF WatchChanges, WatchEnds, OnlyWatcher
<1>10. CASE SendChange
  <2>1. /\ watcher.ch \in Seq(Ids) /\ watcher.ch # <<>> /\ Len(watcher.ch) <= ChangeBuf
        /\ watcher.sent \in Ids
    BY <1>10 DEF SendChange, ObserverTypeOK, Watcher
  <2>2. Tail(watcher.ch) \in Seq(Ids) /\ Head(watcher.ch) \in Ids /\ Len(Tail(watcher.ch)) <= ChangeBuf
    BY <2>1, ProjectionAssump DEF ProjectionAssump
  <2>3. ASSUME NEW t \in Seq(Ids), NEW v \in Ids
        PROVE  /\ [watcher EXCEPT !.ch = t, !.sent = v] \in Watcher
               /\ [watcher EXCEPT !.ch = t, !.sent = v].ch = t
    BY DEF ObserverTypeOK, Watcher
  <2>4. PICK v \in Ids : watcher' = [watcher EXCEPT !.ch = Tail(watcher.ch), !.sent = v]
    BY <1>10, <2>1, <2>2 DEF SendChange
  <2>5. watcher' \in Watcher /\ Len(watcher'.ch) <= ChangeBuf
    BY <2>2, <2>3, <2>4
  <2> QED
    BY <1>2, <1>10, <2>5 DEF SendChange, OnlyWatcher
<1>11. ASSUME NEW p \in Pump, NEW target \in PumpState, WaitForState(p, target)
       PROVE  ObserverTypeOK'
  <2>1. waiter' \in Waiter
    BY <1>11 DEF WaitForState, Waiter, Store
  <2> QED
    BY <1>3, <1>11, <2>1 DEF WaitForState, OnlyWaiter
<1>12. CASE WaiterStep \/ WaiterGivesUp
  <2>1. waiter' \in Waiter
    <3>1. \A a \in {"check", "returned", "sleep"} : [waiter EXCEPT !.at = a] \in Waiter
      BY WaiterMoved DEF ObserverTypeOK, Waiter
    <3>2. [waiter EXCEPT !.at = "returned", !.woken = FALSE] \in Waiter
      BY WaiterMoved
    <3> QED
      BY <1>12, <3>1, <3>2 DEF WaiterStep, OnStateChange, StateCheckAgain, WaiterWakes, WaiterGivesUp
  <2> QED
    BY <1>3, <1>12, <2>1
       DEF WaiterStep, OnStateChange, StateCheckAgain, WaiterWakes, WaiterGivesUp, OnlyWaiter
<1> QED
  BY <1>4, <1>5, <1>6, <1>7, <1>8, <1>9, <1>10, <1>11, <1>12 DEF LookOn, ReaderStep

\* Every step is a step of a pump, a handler, the service, an observer, or a callback.
Cases ==
  \/ \E p \in Pump : \/ PumpStep(p) \/ GrantView(p)
                     \/ HandlerStep(p) \/ PersistFails(p) \/ ApplyFails(p)
                     \/ \E o \in {"retry", "fail"} : ReduceFails(p, o)
  \/ Restart
  \/ \E x \in Payload : Submit(x)
  \/ LookOn
  \/ \E e \in emits : EmitState(e)
  \/ UNCHANGED vars

\* Every step is of one of these groups.
LEMMA NextCases == [Next]_vars => Cases
BY DEF Next, Step, Cases, LookOn

\* What a step of an observer leaves alone.
LEMMA LookOnKeeps == LookOn => UNCHANGED <<pumpVars, observer, viewVars>>
BY DEF LookOn, ReaderStep, WaiterStep, Get, WaitSubscribe, WaitCheck, WaitWake, WaitTimeout,
   Refetch, ReaderReturns, WatchChanges, SendChange, WatchEnds, WaitForState, OnStateChange,
   StateCheckAgain, WaiterWakes, WaiterGivesUp, OnlyReader, OnlyWatcher, OnlyWaiter

\* Every step keeps the types.
LEMMA TypeStep == TypeOK /\ [Next]_vars => TypeOK'
<1> SUFFICES ASSUME TypeOK, Cases PROVE TypeOK'
  BY NextCases
<1>1. CASE LookOn
  BY <1>1, LookOnKeeps, LookOnTypes
     DEF TypeOK, PumpTypeOK, ViewTypeOK, pumpVars, serviceVars, loopVars, viewVars
<1>2. ASSUME NEW e \in emits, EmitState(e)
      PROVE  TypeOK'
  <2>1. [waiter EXCEPT !.woken = TRUE] \in Waiter
    BY DEF TypeOK, ObserverTypeOK, Waiter
  <2>2. waiter' \in Waiter
    BY <1>2, <2>1 DEF EmitState, TypeOK, ObserverTypeOK
  <2>3. ObserverTypeOK' /\ ViewTypeOK'
    BY <1>2, <2>2 DEF EmitState, TypeOK, ObserverTypeOK, ViewTypeOK, viewVars
  <2>4. PumpTypeOK'
    BY <1>2 DEF EmitState, TypeOK, PumpTypeOK, serviceVars, loopVars
  <2> QED
    BY <2>3, <2>4 DEF TypeOK
<1>3. CASE UNCHANGED vars
  BY <1>3 DEF vars, TypeOK, PumpTypeOK, ViewTypeOK, ObserverTypeOK, pumpVars, serviceVars,
     loopVars, viewVars, observerVars
<1> QED
  BY <1>1, <1>2, <1>3, ServiceTypes, HandlerTypes DEF Cases

-----------------------------------------------------------------------------
(* Ids, requests and stores *)

\* Steps that only concern those who look on.
Calm == UNCHANGED <<serviceVars, loopVars, observer, viewVars>>

\* Those who look on, and emissions of a state, change no log, position, request or
\* view.
LEMMA CalmSteps == LookOn \/ (\E e \in emits : EmitState(e)) \/ UNCHANGED vars => Calm
BY LookOnKeeps DEF Calm, EmitState, vars, pumpVars

\* A failed handler releases.
LEMMA FailureShape ==
  ASSUME PumpTypeOK, NEW p \in Pump, NEW o \in {"retry", "fail"}, HandlerFails(p, o)
  PROVE  /\ UNCHANGED <<remote, reported, log, pos, position, cursor, event>>
         /\ pc[p] = "handle" /\ pc'[p] = "release" /\ outcome'[p] = o
         /\ \A q \in Pump \ {p} : pc'[q] = pc[q] /\ outcome'[q] = outcome[q]
BY DEF HandlerFails, Give, Goto, At, serviceVars, PumpTypeOK

\* A stage of p's request is no other's, and what is over has no event.
LEMMA StageShape ==
  ASSUME ViewTypeOK, NEW p \in Pump,
         NEW st \in {"none", "sent", "committed", "raised", "done", "failed"}, Stage(p, st)
  PROVE  /\ req'[p] = st /\ (st # "none" => asked'[p] = asked[p])
         /\ \A q \in Pump \ {p} : req'[q] = req[q] /\ asked'[q] = asked[q] /\ base'[q] = base[q]
BY DEF Stage, ViewTypeOK

\* A request ends at a restart, or it was answered before.
LEMMA RestartShape ==
  ASSUME ViewTypeOK, Restart
  PROVE  /\ UNCHANGED <<serviceVars, pc, position, cursor, event, outcome>>
         /\ UNCHANGED <<observer, view, handled, overlap>>
         /\ remote /\ reader' = NoReader /\ watcher' = NoWatcher
         /\ notified' = [notified EXCEPT ![Db] = -1]
         /\ \A p \in Pump : \/ req'[p] = "none" /\ (req[p] = "none" \/ pc[p] # "handle")
                            \/ req'[p] = "failed" /\ req[p] # "none" /\ asked'[p] = asked[p]
                            \/ req'[p] = "done" /\ req[p] = "done" /\ asked'[p] = asked[p]
BY DEF Restart, RestartService, Reply, ViewTypeOK

\* A dispatched event moves the loop's position up to it.
LEMMA DispatchShape ==
  ASSUME TypeOK, NEW p \in Pump, Dispatched(p)
  PROVE  /\ UNCHANGED <<serviceVars, event, cursor, outcome>>
         /\ UNCHANGED <<observer, view, notified, handled, overlap, observerVars>>
         /\ pc[p] = "handle" /\ pc'[p] \in {"tick", "beat"}
         /\ position'[p] = IF event[p] <= position[p] THEN position[p] ELSE event[p]
         /\ req[p] = "done" /\ req'[p] = "none"
         /\ \A q \in Pump \ {p} : /\ pc'[q] = pc[q] /\ position'[q] = position[q]
                                  /\ req'[q] = req[q] /\ asked'[q] = asked[q]
                                  /\ base'[q] = base[q]
<1>1. Stage(p, "none")
  BY DEF Dispatched
<1>2. req'[p] = "none" /\ \A q \in Pump \ {p} : /\ req'[q] = req[q] /\ asked'[q] = asked[q]
                                                /\ base'[q] = base[q]
  BY <1>1, StageShape DEF TypeOK
<1> QED
  BY <1>2 DEF Dispatched, Handled, Goto, At, TypeOK, PumpTypeOK

\* A grant takes over the stored position.
LEMMA GrantShape ==
  ASSUME TypeOK, NEW p \in Pump, GrantView(p)
  PROVE  /\ UNCHANGED <<serviceVars, event, cursor, outcome, observer, observerVars>>
         /\ UNCHANGED <<view, notified, base, req, asked, handled>>
         /\ pc[p] = "acquire" /\ pc'[p] = "open"
         /\ position'[p] = pos[HolderOf[p]]
         /\ \A q \in Pump \ {p} : pc'[q] = pc[q] /\ position'[q] = position[q]
BY DEF GrantView, Grant, Goto, At, TypeOK, PumpTypeOK

\* What is known of the numbers.
LEMMA Numbers ==
  ASSUME TypeOK
  PROVE  /\ FirstId \in {0, 1} /\ (remote => FirstId = 1) /\ LastId \in Int
         /\ Len(log) \in Nat /\ LastId = FirstId + Len(log) - 1
         /\ \A n \in Name : pos[n] \in Nat
         /\ \A p \in Pump : /\ position[p] \in Nat /\ cursor[p] \in Int /\ event[p] \in Nat
                            /\ asked[p] \in Nat /\ HolderOf[p] \in Name
                            /\ StoreOf(p) \in Store
         /\ Db \in Store /\ Consumer \in Name /\ Db \notin Pump
<1>1. Ids \subseteq Nat /\ -1..MaxEvents \subseteq Int
  BY PumpAssump DEF PumpAssump, Ids
<1>2. /\ \A n \in Name : pos[n] \in Ids
      /\ \A p \in Pump : /\ position[p] \in Ids /\ cursor[p] \in -1..MaxEvents /\ event[p] \in Ids
                         /\ asked[p] \in Ids
  BY DEF TypeOK, PumpTypeOK, ViewTypeOK
<1>3. log \in Seq(Payload)
  BY DEF TypeOK, PumpTypeOK
<1>4. FirstId \in {0, 1} /\ (remote => FirstId = 1) /\ LastId \in Int
         /\ Len(log) \in Nat /\ LastId = FirstId + Len(log) - 1
  BY <1>3 DEF FirstId, LastId
<1> QED
  BY <1>1, <1>2, <1>4, PumpAssump, ProjectionAssump
     DEF PumpAssump, ProjectionAssump, StoreOf, Store

\* A request stays with the event at its handler until its pump has failed for good.
LEMMA RequestsStep == TypeOK /\ Requests /\ [Next]_vars => Requests'
<1> SUFFICES ASSUME TypeOK, Requests, Cases PROVE Requests'
  BY NextCases
<1> USE DEF TypeOK
<1>1. ASSUME NEW p \in Pump, PumpStep(p)
      PROVE  Requests'
  <2>1. Others(p) /\ (Rests(p) \/ Stays(p) \/ Opens(p) \/ Takes(p) \/ Beats(p))
    BY <1>1, LoopShape DEF PumpStep, PumpAction
  <2>2. UNCHANGED <<req, asked>>
    BY <1>1 DEF PumpStep, viewVars
  <2>3. CASE Stays(p)
    BY <2>2, <2>3 DEF Stays, Requests
  <2>4. CASE Rests(p)
    BY <2>1, <2>2, <2>4 DEF Others, Rests, Requests
  <2>5. CASE Opens(p) \/ Beats(p)
    <3>1. pc[p] \in {"open", "tick", "beat"} /\ pc'[p] \in {"tick", "beat"}
      BY <2>5 DEF Opens, Beats
    <3> QED
      BY <2>1, <2>2, <3>1 DEF Others, Requests
  <2>6. CASE Takes(p)
    BY <2>1, <2>2, <2>6 DEF Others, Takes, Requests
  <2> QED
    BY <2>1, <2>3, <2>4, <2>5, <2>6
<1>2. ASSUME NEW p \in Pump, GrantView(p)
      PROVE  Requests'
  BY <1>2 DEF GrantView, Grant, At, Goto, PumpTypeOK, Requests
<1>3. ASSUME NEW p \in Pump, HandlerStep(p) \/ ApplyFails(p)
      PROVE  Requests'
  <2>1. CASE Reduce(p)
    BY <2>1 DEF Reduce, At, pumpVars, loopVars, ViewTypeOK, Requests
  <2>2. ASSUME NEW st \in {"none", "sent", "committed", "raised", "done", "failed"}, Stage(p, st),
               req[p] # "none", UNCHANGED loopVars
        PROVE  Requests'
    BY <2>2, StageShape DEF loopVars, Requests
  <2>3. CASE Persist(p) \/ RaiseVersion(p) \/ Announce(p) \/ ApplyFails(p)
    BY <2>2, <2>3 DEF Persist, RaiseVersion, Announce, ApplyFails, Reply, pumpVars
  <2>4. CASE Dispatched(p)
    <3>1. Stage(p, "none")
      BY <2>4 DEF Dispatched
    <3>2. /\ UNCHANGED <<event, cursor, outcome>> /\ pc'[p] \in {"tick", "beat"}
          /\ \A q \in Pump \ {p} : pc'[q] = pc[q]
      BY <2>4 DEF Dispatched, Handled, Goto, PumpTypeOK
    <3>3. req'[p] = "none" /\ \A q \in Pump \ {p} : req'[q] = req[q] /\ asked'[q] = asked[q]
      BY <3>1, StageShape
    <3> QED
      BY <3>2, <3>3 DEF Requests
  <2> QED
    BY <1>3, <2>1, <2>3, <2>4 DEF HandlerStep
<1>4. ASSUME NEW p \in Pump, NEW o \in {"retry", "fail"}, ReduceFails(p, o)
      PROVE  Requests'
  BY <1>4, FailureShape DEF ReduceFails, viewVars, Requests
<1>5. ASSUME NEW p \in Pump, PersistFails(p)
      PROVE  Requests'
  <2>1. \A q \in Pump : req'[q] = "none" \/ (req'[q] = req[q] /\ asked'[q] = asked[q])
    BY <1>5, StageShape DEF PersistFails, ViewTypeOK
  <2> QED
    BY <1>5, <2>1, FailureShape DEF PersistFails, Requests
<1>6. CASE Restart
  BY <1>6, RestartShape DEF Requests
<1>7. ASSUME NEW x \in Payload, Submit(x)
      PROVE  Requests'
  BY <1>7 DEF Submit, StoreEvent, loopVars, viewVars, Requests
<1>8. CASE Calm
  BY <1>8 DEF Calm, loopVars, viewVars, Requests
<1> QED
  BY <1>1, <1>2, <1>3, <1>4, <1>5, <1>6, <1>7, <1>8, CalmSteps DEF Cases

\* In memory no second pump starts.
LEMMA AloneStep == TypeOK /\ Alone /\ [Next]_vars => Alone'
<1> SUFFICES ASSUME TypeOK, Alone, Cases PROVE Alone'
  BY NextCases
<1> USE DEF TypeOK
<1>1. ASSUME NEW p \in Pump, PumpStep(p)
      PROVE  Alone'
  <2>1. Others(p) /\ (Rests(p) \/ Stays(p) \/ Opens(p) \/ Takes(p) \/ Beats(p))
    BY <1>1, LoopShape DEF PumpStep, PumpAction
  <2> QED
    BY <1>1, <2>1 DEF PumpStep, Others, Rests, Stays, Opens, Takes, Beats, Alone
<1>2. ASSUME NEW p \in Pump, GrantView(p)
      PROVE  Alone'
  BY <1>2 DEF GrantView, Grant, At, Goto, serviceVars, PumpTypeOK, Alone
<1>3. ASSUME NEW p \in Pump, Dispatched(p)
      PROVE  Alone'
  BY <1>3 DEF Dispatched, Handled, At, Goto, serviceVars, PumpTypeOK, Alone
<1>4. ASSUME NEW p \in Pump, NEW o \in {"retry", "fail"}, HandlerFails(p, o), UNCHANGED observer
      PROVE  Alone'
  BY <1>4, FailureShape DEF Alone
<1>5. CASE UNCHANGED <<remote, observer, pc>>
  BY <1>5 DEF Alone
<1> QED
  BY <1>1, <1>2, <1>3, <1>4, <1>5, RestartShape, CalmSteps
     DEF Cases, HandlerStep, Reduce, Persist, RaiseVersion, Announce, ApplyFails, ReduceFails,
         PersistFails, Submit, StoreEvent, Calm, pumpVars, serviceVars, loopVars

\* Ids that were read, asked for or stored as positions are ids of the log.
LEMMA BoundsStep == TypeOK /\ Requests /\ Bounds /\ [Next]_vars => Bounds'
<1> SUFFICES ASSUME TypeOK, Requests, Bounds, Cases PROVE Bounds'
  BY NextCases
<1> DEFINE Same == UNCHANGED <<remote, log>>
<1>0. Same => FirstId' = FirstId /\ LastId' = LastId
  BY DEF FirstId, LastId
<1>1. ASSUME NEW p \in Pump, PumpStep(p)
      PROVE  Bounds'
  <2>1. Others(p) /\ (Rests(p) \/ Stays(p) \/ Opens(p) \/ Takes(p) \/ Beats(p))
    BY <1>1, LoopShape DEF PumpStep, PumpAction, TypeOK
  <2>2. UNCHANGED <<req, asked>>
    BY <1>1 DEF PumpStep, viewVars
  <2>3. LastId' = LastId /\ FirstId' = FirstId
    BY <1>0, <2>1 DEF Others
  <2>4. CASE Rests(p) \/ Stays(p)
    BY <2>1, <2>2, <2>3, <2>4, Numbers DEF Others, Rests, Stays, Bounds
  <2>5. CASE Opens(p)
    BY <2>1, <2>2, <2>3, <2>5, Numbers DEF Others, Opens, Bounds
  <2>7. CASE Takes(p)
    BY <2>1, <2>2, <2>3, <2>7, Numbers DEF Others, Takes, Bounds
  <2>6. CASE Beats(p)
    <3>1. \A n \in Name : pos'[n] \in {pos[n], position[p]}
      BY <2>6 DEF Beats, TypeOK, PumpTypeOK
    <3>2. position'[p] \in {position[p], pos[HolderOf[p]]} /\ cursor'[p] = cursor[p]
      BY <2>6 DEF Beats
    <3> QED
      BY <2>1, <2>2, <2>3, <3>1, <3>2, Numbers DEF Others, Bounds
  <2> QED
    BY <2>1, <2>4, <2>5, <2>6, <2>7
<1>2. ASSUME NEW p \in Pump, GrantView(p)
      PROVE  Bounds'
  BY <1>0, <1>2, GrantShape, Numbers DEF serviceVars, Bounds
<1>3. ASSUME NEW p \in Pump, HandlerStep(p) \/ ApplyFails(p)
      PROVE  Bounds'
  <2>1. CASE Reduce(p)
    <3>1. event[p] <= LastId
      BY <2>1 DEF Reduce, At, Requests, Bounds
    <3>2. asked'[p] = event[p] /\ \A q \in Pump \ {p} : asked'[q] = asked[q] /\ req'[q] = req[q]
      BY <2>1 DEF Reduce, TypeOK, ViewTypeOK
    <3>3. UNCHANGED <<remote, log, pos, position, cursor>>
      BY <2>1 DEF Reduce, pumpVars, serviceVars, loopVars
    <3> QED
      BY <1>0, <3>1, <3>2, <3>3 DEF Bounds
  <2>2. ASSUME NEW st \in {"none", "sent", "committed", "raised", "done", "failed"}, Stage(p, st),
               req[p] # "none", UNCHANGED <<remote, log, position, cursor>>,
               \A n \in Name : pos'[n] \in {pos[n], asked[p]}
        PROVE  Bounds'
    <3>1. \A q \in Pump : req'[q] = "none" \/ (req[q] # "none" /\ asked'[q] = asked[q])
      BY <2>2, StageShape DEF TypeOK
    <3> QED
      BY <1>0, <2>2, <3>1 DEF Bounds
  <2>3. CASE Persist(p)
    <3>1. \A n \in Name : pos'[n] \in {pos[n], asked[p]}
      BY <2>3 DEF Persist, PositionWritten, TypeOK, PumpTypeOK
    <3> QED
      BY <2>2, <2>3, <3>1 DEF Persist, loopVars
  <2>4. CASE RaiseVersion(p) \/ Announce(p) \/ ApplyFails(p)
    BY <2>2, <2>4
       DEF RaiseVersion, Announce, ApplyFails, Reply, pumpVars, serviceVars, loopVars
  <2>5. CASE Dispatched(p)
    <3>1. event[p] <= LastId
      BY <2>5, DispatchShape DEF Requests, Bounds
    <3> QED
      BY <1>0, <2>5, <3>1, DispatchShape, Numbers DEF serviceVars, Bounds
  <2> QED
    BY <1>3, <2>1, <2>3, <2>4, <2>5 DEF HandlerStep
<1>4. ASSUME NEW p \in Pump, NEW o \in {"retry", "fail"}, ReduceFails(p, o)
      PROVE  Bounds'
  BY <1>0, <1>4, FailureShape DEF ReduceFails, viewVars, Bounds, TypeOK
<1>5. ASSUME NEW p \in Pump, PersistFails(p)
      PROVE  Bounds'
  <2>1. \A q \in Pump : req'[q] = "none" \/ (req'[q] = req[q] /\ asked'[q] = asked[q])
    BY <1>5, StageShape DEF PersistFails, TypeOK, ViewTypeOK
  <2> QED
    BY <1>0, <1>5, <2>1, FailureShape DEF PersistFails, Bounds, TypeOK
<1>6. CASE Restart
  BY <1>0, <1>6, RestartShape DEF TypeOK, serviceVars, Bounds
<1>7. ASSUME NEW x \in Payload, Submit(x)
      PROVE  Bounds'
  <2>1. LastId' >= LastId /\ LastId' \in Int
    BY <1>7, Numbers DEF Submit, StoreEvent, TypeOK, PumpTypeOK, LastId, FirstId
  <2> QED
    BY <1>7, <2>1, Numbers DEF Submit, StoreEvent, loopVars, viewVars, Bounds
<1>8. CASE Calm
  BY <1>0, <1>8 DEF Calm, serviceVars, loopVars, viewVars, Bounds
<1> QED
  BY <1>1, <1>2, <1>3, <1>4, <1>5, <1>6, <1>7, <1>8, CalmSteps DEF Cases

-----------------------------------------------------------------------------
(* Events are handled before any position or version passes them *)

\* The transport stays, and what was handled stays handled.
LEMMA Monotone ==
  ASSUME TypeOK, Cases
  PROVE  /\ remote' = remote /\ FirstId' = FirstId
         /\ \A p \in Pump : StoreOf(p)' = StoreOf(p)
         /\ \A s \in Store : handled[s] \subseteq handled'[s]
<1>1. remote' = remote
  <2>1. ASSUME NEW p \in Pump, PumpStep(p)
        PROVE  remote' = remote
    BY <2>1, LoopShape DEF PumpStep, PumpAction, TypeOK, Others
  <2> QED
    BY <2>1, RestartShape, CalmSteps
       DEF Cases, GrantView, Grant, HandlerStep, Reduce, Persist, RaiseVersion, Announce,
           Dispatched, Handled, ApplyFails, ReduceFails, PersistFails, HandlerFails, Submit,
           StoreEvent, Calm, pumpVars, serviceVars, TypeOK
<1>2. \A s \in Store : handled[s] \subseteq handled'[s]
  <2>1. ASSUME NEW p \in Pump, Persist(p)
        PROVE  \A s \in Store : handled[s] \subseteq handled'[s]
    BY <2>1 DEF Persist, TypeOK, ViewTypeOK
  <2> QED
    BY <2>1, RestartShape, CalmSteps
       DEF Cases, PumpStep, GrantView, HandlerStep, Reduce, RaiseVersion, Announce,
           Dispatched, ApplyFails, ReduceFails, PersistFails, Submit, Calm, viewVars, TypeOK
<1> QED
  BY <1>1, <1>2 DEF FirstId, StoreOf

\* A pump that has started writes to the only store in use.
LEMMA ActiveStore ==
  ASSUME Alone, NEW p \in Pump, pc[p] # "idle"
  PROVE  Active = {StoreOf(p)}
BY DEF Alone, Active, StoreOf

\* Where a step of the loop, a grant or a handler takes pump p.
LEMMA Started ==
  ASSUME TypeOK, Requests, NEW p \in Pump,
         \/ PumpStep(p) \/ GrantView(p) \/ HandlerStep(p) \/ PersistFails(p) \/ ApplyFails(p)
         \/ \E o \in {"retry", "fail"} : ReduceFails(p, o)
  PROVE  /\ pc'[p] # "idle" \/ pc' = pc
         /\ pc[p] = "idle" =>
              /\ pos' = pos
              /\ pc' = pc \/ \A q \in Pump \ {p} : pc[q] = "idle" \/ remote \/ observer = "none"
<1>1. CASE PumpStep(p)
  <2>1. Rests(p) \/ Stays(p) \/ Opens(p) \/ Takes(p) \/ Beats(p)
    BY <1>1, LoopShape DEF PumpStep, PumpAction, TypeOK
  <2> QED
    BY <2>1 DEF Rests, Stays, Opens, Takes, Beats
<1>2. CASE GrantView(p)
  BY <1>2, GrantShape
<1>3. CASE Dispatched(p)
  BY <1>3, DispatchShape
<1>4. ASSUME NEW o \in {"retry", "fail"}, HandlerFails(p, o)
      PROVE  pc[p] # "idle" /\ pc'[p] # "idle"
  BY <1>4, FailureShape DEF TypeOK
<1>5. ASSUME req[p] # "none" \/ pc[p] = "handle", pc' = pc
      PROVE  pc[p] # "idle" /\ pc'[p] # "idle"
  BY <1>5 DEF Requests
<1> QED
  BY <1>1, <1>2, <1>3, <1>4, <1>5
     DEF HandlerStep, Reduce, At, Persist, RaiseVersion, Announce, ApplyFails, ReduceFails,
         PersistFails, pumpVars, loopVars

\* A loop passes no event that was not handled in its store.
LEMMA LoopHandledStep ==
  TypeOK /\ Requests /\ Alone /\ PositionsHandled /\ LoopHandled /\ RequestHandled /\ [Next]_vars
    => LoopHandled'
<1> SUFFICES ASSUME TypeOK, Requests, Alone, PositionsHandled, LoopHandled, RequestHandled, Cases
             PROVE  LoopHandled'
  BY NextCases
<1> DEFINE S(q) == handled[StoreOf(q)]
           T(q) == handled'[StoreOf(q)]
<1>0. /\ FirstId' = FirstId /\ FirstId \in Int /\ \A q \in Pump : S(q) \subseteq T(q)
      /\ \A q \in Pump : handled[StoreOf(q)]' = T(q)
  BY Monotone, Numbers
<1>1. \A q \in Pump : /\ position[q] > 0 => FirstId..position[q] \subseteq S(q)
                      /\ pc[q] \in {"tick", "beat"} => FirstId..cursor[q] \subseteq S(q)
                      /\ pc[q] = "handle" => FirstId..event[q] - 1 \subseteq S(q)
  BY DEF LoopHandled
<1>2. ASSUME \A q \in Pump : /\ position'[q] > 0 => FirstId..position'[q] \subseteq T(q)
                             /\ pc'[q] \in {"tick", "beat"} => FirstId..cursor'[q] \subseteq T(q)
                             /\ pc'[q] = "handle" => FirstId..event'[q] - 1 \subseteq T(q)
      PROVE  LoopHandled'
  BY <1>0, <1>2 DEF LoopHandled
<1>3. ASSUME NEW p \in Pump, pc[p] # "idle", NEW n \in Name, pos[n] > 0
      PROVE  FirstId..pos[n] \subseteq S(p)
  BY <1>3, ActiveStore DEF PositionsHandled
<1> HIDE DEF S, T
<1>4. ASSUME NEW p \in Pump, PumpStep(p)
      PROVE  LoopHandled'
  <2>1. Others(p) /\ (Rests(p) \/ Stays(p) \/ Opens(p) \/ Takes(p) \/ Beats(p))
    BY <1>4, LoopShape DEF PumpStep, PumpAction, TypeOK
  <2>2. CASE Stays(p)
    BY <1>0, <1>1, <1>2, <2>2 DEF Stays
  <2>3. CASE Rests(p)
    BY <1>0, <1>1, <1>2, <2>1, <2>3 DEF Others, Rests
  <2>4. CASE Opens(p)
    BY <1>0, <1>1, <1>2, <2>1, <2>4 DEF Others, Opens
  <2>5. CASE Takes(p)
    <3>1. event'[p] - 1 = cursor[p] /\ cursor[p] \in Int
      BY <2>5, Numbers DEF Takes
    <3> QED
      BY <1>0, <1>1, <1>2, <2>1, <2>5, <3>1 DEF Others, Takes
  <2>6. CASE Beats(p)
    <3>1. position'[p] \in {position[p], pos[HolderOf[p]]} /\ pc[p] # "idle" /\ HolderOf[p] \in Name
      BY <2>6, Numbers DEF Beats
    <3>2. position'[p] > 0 => FirstId..position'[p] \subseteq S(p)
      BY <1>1, <1>3, <3>1
    <3> QED
      BY <1>0, <1>1, <1>2, <2>1, <2>6, <3>2 DEF Others, Beats
  <2> QED
    BY <2>1, <2>2, <2>3, <2>4, <2>5, <2>6
<1>5. ASSUME NEW p \in Pump, GrantView(p)
      PROVE  LoopHandled'
  <2>1. position'[p] > 0 => FirstId..position'[p] \subseteq S(p)
    BY <1>3, <1>5, GrantShape, Numbers
  <2> QED
    BY <1>0, <1>1, <1>2, <1>5, <2>1, GrantShape
<1>6. ASSUME NEW p \in Pump, Dispatched(p)
      PROVE  LoopHandled'
  <2>1. event[p] \in S(p) /\ cursor[p] = event[p] /\ event[p] \in Nat
    BY <1>6, DispatchShape, Numbers DEF Requests, RequestHandled, S
  <2>2. FirstId..event[p] \subseteq S(p)
    BY <1>0, <1>1, <1>6, <2>1, DispatchShape
  <2> QED
    BY <1>0, <1>1, <1>2, <1>6, <2>1, <2>2, DispatchShape
<1>7. ASSUME NEW p \in Pump, NEW o \in {"retry", "fail"}, HandlerFails(p, o)
      PROVE  LoopHandled'
  BY <1>0, <1>1, <1>2, <1>7, FailureShape DEF TypeOK
<1>8. CASE UNCHANGED <<pc, position, cursor, event>>
  BY <1>0, <1>1, <1>2, <1>8
<1> QED
  BY <1>4, <1>5, <1>6, <1>7, <1>8, RestartShape, CalmSteps
     DEF Cases, HandlerStep, Reduce, Persist, RaiseVersion, Announce, ApplyFails, ReduceFails,
         PersistFails, Submit, StoreEvent, Calm, pumpVars, serviceVars, loopVars, TypeOK

\* Persist adds the event of its request.
LEMMA PersistShape ==
  ASSUME TypeOK, NEW p \in Pump, Persist(p)
  PROVE  /\ req[p] = "sent" /\ req'[p] = "committed" /\ asked'[p] = asked[p]
         /\ \A q \in Pump \ {p} : req'[q] = req[q] /\ asked'[q] = asked[q] /\ base'[q] = base[q]
         /\ asked[p] \in handled'[StoreOf(p)]
         /\ \A s \in Store : handled'[s] = handled[s] \/ s = StoreOf(p)
         /\ view'[StoreOf(p)] = Reduced(base[p], asked[p])
         /\ \A s \in Store : s # StoreOf(p) => view'[s] = view[s]
         /\ \A n \in Name : \/ pos'[n] = pos[n] /\ (remote /\ n = Consumer => pos[n] > asked[p])
                            \/ remote /\ n = Consumer /\ pos'[n] = asked[p] /\ pos[n] <= asked[p]
         /\ UNCHANGED <<remote, reported, log, loopVars, observer, notified, overlap, observerVars>>
<1>1. Stage(p, "committed") /\ req[p] = "sent"
  BY DEF Persist
<1>2. /\ req'[p] = "committed" /\ asked'[p] = asked[p]
      /\ \A q \in Pump \ {p} : req'[q] = req[q] /\ asked'[q] = asked[q] /\ base'[q] = base[q]
  BY <1>1, StageShape DEF TypeOK
<1>3. /\ asked[p] \in handled'[StoreOf(p)]
      /\ \A s \in Store : handled'[s] = handled[s] \/ s = StoreOf(p)
      /\ view'[StoreOf(p)] = Reduced(base[p], asked[p])
      /\ \A s \in Store : s # StoreOf(p) => view'[s] = view[s]
  BY Numbers DEF Persist, WriteEntity, TypeOK, ViewTypeOK
<1>4. \A n \in Name : \/ pos'[n] = pos[n] /\ (remote /\ n = Consumer => pos[n] > asked[p])
                      \/ remote /\ n = Consumer /\ pos'[n] = asked[p] /\ pos[n] <= asked[p]
  BY Numbers DEF Persist, PositionWritten, TypeOK, PumpTypeOK
<1> QED
  BY <1>1, <1>2, <1>3, <1>4 DEF Persist

\* A request is for an event that follows handled ones, and is handled once committed.
LEMMA RequestHandledStep ==
  TypeOK /\ LoopHandled /\ RequestHandled /\ [Next]_vars => RequestHandled'
<1> SUFFICES ASSUME TypeOK, LoopHandled, RequestHandled, Cases
             PROVE  RequestHandled'
  BY NextCases
<1> DEFINE S(q) == handled[StoreOf(q)]
           T(q) == handled'[StoreOf(q)]
           Late == {"committed", "raised", "done"}
<1>0. /\ FirstId' = FirstId /\ FirstId \in Int /\ \A q \in Pump : S(q) \subseteq T(q)
      /\ \A q \in Pump : handled[StoreOf(q)]' = T(q)
  BY Monotone, Numbers
<1>1. \A q \in Pump : /\ req[q] # "none" => FirstId..asked[q] - 1 \subseteq S(q)
                      /\ req[q] \in Late => asked[q] \in S(q)
  BY DEF RequestHandled
<1>2. ASSUME \A q \in Pump : /\ req'[q] # "none" => FirstId..asked'[q] - 1 \subseteq T(q)
                             /\ req'[q] \in Late => asked'[q] \in T(q)
      PROVE  RequestHandled'
  BY <1>0, <1>2 DEF RequestHandled
<1>3. ASSUME NEW p \in Pump, Reduce(p)
      PROVE  FirstId..event[p] - 1 \subseteq S(p)
  BY <1>3 DEF Reduce, At, LoopHandled
<1>4. ASSUME NEW p \in Pump, Persist(p)
      PROVE  asked[p] \in T(p)
  BY <1>4, PersistShape
<1> HIDE DEF S, T
<1>5. ASSUME NEW p \in Pump, Reduce(p)
      PROVE  RequestHandled'
  <2>1. /\ req'[p] = "sent" /\ asked'[p] = event[p]
        /\ \A q \in Pump \ {p} : asked'[q] = asked[q] /\ req'[q] = req[q]
    BY <1>5 DEF Reduce, TypeOK, ViewTypeOK
  <2> QED
    BY <1>0, <1>1, <1>2, <1>3, <1>5, <2>1
<1>6. ASSUME NEW p \in Pump, Persist(p)
      PROVE  RequestHandled'
  BY <1>0, <1>1, <1>2, <1>4, <1>6, PersistShape
<1>7. ASSUME NEW p \in Pump, NEW st \in {"none", "raised", "done", "failed"}, Stage(p, st),
             st # "none" => req[p] # "none", st \in Late => req[p] \in Late
      PROVE  RequestHandled'
  BY <1>0, <1>1, <1>2, <1>7, StageShape DEF TypeOK
<1>8. CASE UNCHANGED <<req, asked>>
  BY <1>0, <1>1, <1>2, <1>8
<1>9. CASE Restart
  BY <1>0, <1>1, <1>2, <1>9, RestartShape DEF TypeOK
<1> QED
  BY <1>5, <1>6, <1>7, <1>8, <1>9, CalmSteps
     DEF Cases, PumpStep, GrantView, HandlerStep, RaiseVersion, Announce, ApplyFails, Dispatched,
         ReduceFails, PersistFails, Reply, Submit, Calm, viewVars

\* No stored position passes an event that was not handled.
LEMMA PositionsHandledStep ==
  TypeOK /\ Requests /\ Alone /\ PositionsHandled /\ LoopHandled /\ RequestHandled /\ [Next]_vars
    => PositionsHandled'
<1> SUFFICES ASSUME TypeOK, Requests, Alone, Alone', PositionsHandled, LoopHandled,
                    RequestHandled, Cases
             PROVE  PositionsHandled'
  BY NextCases, AloneStep
<1>0. /\ FirstId' = FirstId /\ FirstId \in Int /\ remote' = remote
      /\ \A s \in Store : handled[s] \subseteq handled'[s]
      /\ \A q \in Pump : StoreOf(q)' = StoreOf(q) /\ StoreOf(q) \in Store
      /\ Active \subseteq Store
  BY Monotone, Numbers DEF Active, Store
<1>1. ASSUME NEW p \in Pump, pc'[p] # "idle",
             \A n \in Name : pos'[n] > 0 => FirstId..pos'[n] \subseteq handled'[StoreOf(p)]
      PROVE  PositionsHandled'
  <2>1. Active' = {StoreOf(p)}
    BY <1>0, <1>1 DEF Alone, Active, StoreOf
  <2> QED
    BY <1>0, <1>1, <2>1 DEF PositionsHandled
<1>2. ASSUME UNCHANGED <<pc, pos>>
      PROVE  PositionsHandled'
  <2>1. Active' = Active
    BY <1>0, <1>2 DEF Active
  <2> QED
    BY <1>0, <1>2, <2>1 DEF PositionsHandled
<1>3. ASSUME NEW p \in Pump,
             \/ PumpStep(p) \/ GrantView(p) \/ HandlerStep(p) \/ PersistFails(p) \/ ApplyFails(p)
             \/ \E o \in {"retry", "fail"} : ReduceFails(p, o)
      PROVE  PositionsHandled'
  <2>1. CASE pc[p] = "idle"
    <3>1. /\ pos' = pos /\ (pc'[p] # "idle" \/ pc' = pc)
          /\ pc' = pc \/ remote \/ observer = "none" \/ \A q \in Pump : pc[q] = "idle"
      BY <1>3, <2>1, Started
    <3>2. CASE pc' = pc
      BY <1>2, <3>1, <3>2
    <3>3. CASE remote /\ pc'[p] # "idle"
      <4>1. Active = {Db} /\ StoreOf(p) = Db /\ Db \in Store
        BY <3>3 DEF Active, StoreOf, Store
      <4>2. \A n \in Name : pos'[n] > 0 => FirstId..pos'[n] \subseteq handled'[StoreOf(p)]
        BY <1>0, <3>1, <4>1 DEF PositionsHandled
      <4> QED
        BY <1>1, <3>3, <4>2
    <3>4. CASE ~remote /\ pc'[p] # "idle" /\ \A q \in Pump : pc[q] = "idle"
      <4>1. Active = {}
        BY <3>4 DEF Active
      <4>2. \A n \in Name : ~(pos'[n] > 0)
        BY <3>1, <4>1 DEF PositionsHandled
      <4> QED
        BY <4>2 DEF PositionsHandled
    <3> QED
      BY <3>1, <3>2, <3>3, <3>4 DEF Alone
  <2>2. CASE pc[p] # "idle"
    <3>1. pc'[p] # "idle"
      BY <1>3, <2>2, Started
    <3>2. \A n \in Name : pos[n] > 0 => FirstId..pos[n] \subseteq handled[StoreOf(p)]
      BY <2>2, ActiveStore DEF PositionsHandled
    <3>3. \A n \in Name : pos'[n] > 0 => FirstId..pos'[n] \subseteq handled'[StoreOf(p)]
      <4>1. CASE PumpStep(p)
        <5>1. Rests(p) \/ Stays(p) \/ Opens(p) \/ Takes(p) \/ Beats(p)
          BY <4>1, LoopShape DEF PumpStep, PumpAction, TypeOK
        <5>2. \A n \in Name : pos'[n] \in {pos[n], position[p]}
          BY <5>1 DEF Rests, Stays, Opens, Takes, Beats, TypeOK, PumpTypeOK
        <5> QED
          BY <1>0, <3>2, <5>2 DEF LoopHandled
      <4>2. CASE Persist(p)
        <5>1. FirstId..asked[p] \subseteq handled'[StoreOf(p)]
          <6>1. FirstId..asked[p] - 1 \subseteq handled[StoreOf(p)] /\ asked[p] \in handled'[StoreOf(p)]
            BY <4>2, PersistShape DEF RequestHandled
          <6> QED
            BY <1>0, <6>1, Numbers
        <5>2. \A n \in Name : pos'[n] \in {pos[n], asked[p]}
          BY <4>2, PersistShape
        <5> QED
          BY <1>0, <3>2, <5>1, <5>2
      <4>3. CASE pos' = pos
        BY <1>0, <3>2, <4>3
      <4> QED
        BY <1>3, <4>1, <4>2, <4>3, GrantShape, DispatchShape
           DEF HandlerStep, Reduce, RaiseVersion, Announce, ApplyFails, PersistFails, ReduceFails,
               HandlerFails, pumpVars, serviceVars
    <3> QED
      BY <1>1, <3>1, <3>3
  <2> QED
    BY <2>1, <2>2
<1> QED
  BY <1>2, <1>3, RestartShape, CalmSteps
     DEF Cases, Submit, StoreEvent, Calm, serviceVars, loopVars, TypeOK

\* What the steps do to a reader.
LEMMA ReaderSteps ==
  ASSUME TypeOK, Cases
  PROVE  \/ reader' = reader
         \/ reader' = NoReader
         \/ /\ \E p \in Pump : Announce(p) /\ Subscribed(StoreOf(p))
            /\ reader'.at = reader.at /\ reader'.woken = TRUE
            /\ reader'.store = reader.store /\ reader'.want = reader.want
            /\ reader'.mode = reader.mode
         \/ /\ UNCHANGED <<pumpVars, observer, viewVars>>
            /\ \E s \in Stores, mode \in {"after", "until"} : Get(s, mode, FirstId + MaxEvents - 1)
         \/ /\ UNCHANGED <<pumpVars, observer, viewVars>>
            /\ reader'.store = reader.store /\ reader'.want = reader.want
            /\ reader'.mode = reader.mode
            /\ \/ reader'.at = "check"
               \/ reader'.at \in {"wait", "refetch"} /\ (reader'.at = "refetch" <=> Reached)
               \/ reader'.at = "answered" /\ reader'.status = "timeout"
               \/ /\ reader'.at = "answered" /\ reader.at = "refetch"
                  /\ reader'.entity = view[reader.store]
<1>0. ObserverTypeOK /\ reader.store \in Store /\ \A s \in Store : view[s] \in Entity
  BY DEF TypeOK, ObserverTypeOK, ViewTypeOK, Reader
<1>1. ASSUME NEW p \in Pump, Announce(p)
      PROVE  \/ reader' = reader
             \/ /\ Subscribed(StoreOf(p))
                /\ reader'.at = reader.at /\ reader'.woken = TRUE
                /\ reader'.store = reader.store /\ reader'.want = reader.want
                /\ reader'.mode = reader.mode
  <2>1. CASE Subscribed(StoreOf(p))
    <3>1. reader' = [reader EXCEPT !.woken = TRUE]
      BY <1>1, <2>1 DEF Announce
    <3>2. /\ reader'.at = reader.at /\ reader'.woken = TRUE
          /\ reader'.store = reader.store /\ reader'.want = reader.want
          /\ reader'.mode = reader.mode
      BY <1>0, <3>1 DEF ObserverTypeOK, Reader
    <3> QED
      BY <2>1, <3>2
  <2>2. CASE ~Subscribed(StoreOf(p))
    BY <1>1, <2>2 DEF Announce
  <2> QED
    BY <2>1, <2>2
<1>2. CASE WaitSubscribe
  <2>1. reader' = [reader EXCEPT !.at = "check"]
    BY <1>2 DEF WaitSubscribe
  <2>2. /\ reader'.at = "check" /\ reader'.store = reader.store /\ reader'.want = reader.want
        /\ reader'.mode = reader.mode
    BY <1>0, <2>1 DEF ObserverTypeOK, Reader
  <2> QED
    BY <1>2, <2>2 DEF WaitSubscribe, OnlyReader
<1>3. CASE WaitCheck \/ WaitWake
  <2> DEFINE a == IF Reached THEN "refetch" ELSE "wait"
  <2>1. a \in {"refetch", "wait"} /\ (a = "refetch" <=> Reached)
    OBVIOUS
  <2>2. reader' = [reader EXCEPT !.at = a] \/ reader' = [reader EXCEPT !.woken = FALSE, !.at = a]
    BY <1>3 DEF WaitCheck, WaitWake
  <2> HIDE DEF a
  <2>3. /\ reader'.at = a /\ reader'.store = reader.store /\ reader'.want = reader.want
        /\ reader'.mode = reader.mode
    BY <1>0, <2>1, <2>2 DEF ObserverTypeOK, Reader
  <2> QED
    BY <1>3, <2>1, <2>3 DEF WaitCheck, WaitWake, OnlyReader
<1>4. CASE WaitTimeout
  <2>1. CASE Reached
    <3>1. reader' = [reader EXCEPT !.at = "refetch", !.woken = FALSE]
      BY <1>4, <2>1 DEF WaitTimeout
    <3>2. /\ reader'.at = "refetch" /\ reader'.store = reader.store
          /\ reader'.want = reader.want /\ reader'.mode = reader.mode
      BY <1>0, <3>1 DEF ObserverTypeOK, Reader
    <3> QED
      BY <1>4, <2>1, <3>2 DEF WaitTimeout, OnlyReader
  <2>2. CASE ~Reached
    BY <1>0, <1>4, <2>2, ReaderAnswered DEF WaitTimeout, OnlyReader
  <2> QED
    BY <2>1, <2>2
<1>5. CASE Refetch
  <2>1. Found(view[reader.store]) \in {"ok", "notfound", "stale", "timeout"}
    BY DEF Found
  <2> QED
    BY <1>0, <1>5, <2>1, ReaderAnswered DEF Refetch, OnlyReader
<1>6. ASSUME NEW s \in Stores, NEW mode \in {"after", "until"},
             Get(s, mode, FirstId + MaxEvents - 1)
      PROVE  UNCHANGED <<pumpVars, observer, viewVars>>
  BY <1>6 DEF Get, OnlyReader
<1>7. CASE ReaderReturns \/ Restart
  BY <1>7 DEF ReaderReturns, Restart
<1>8. ASSUME NEW p \in Pump,
             \/ PumpStep(p) \/ GrantView(p) \/ Reduce(p) \/ Persist(p) \/ RaiseVersion(p)
             \/ Dispatched(p) \/ PersistFails(p) \/ ApplyFails(p)
             \/ \E o \in {"retry", "fail"} : ReduceFails(p, o)
      PROVE  reader' = reader
  BY <1>8 DEF PumpStep, GrantView, Reduce, Persist, RaiseVersion, Dispatched, PersistFails,
     ApplyFails, ReduceFails, observerVars
<1>9. CASE \/ WatchChanges(1) \/ SendChange \/ WatchEnds
           \/ \E p \in Pump, target \in PumpState : WaitForState(p, target)
           \/ WaiterStep \/ WaiterGivesUp
           \/ \E e \in emits : EmitState(e)
           \/ \E x \in Payload : Submit(x)
           \/ UNCHANGED vars
  BY <1>9 DEF WatchChanges, SendChange, WatchEnds, WaitForState, WaiterStep, OnStateChange,
     StateCheckAgain, WaiterWakes, WaiterGivesUp, EmitState, Submit, OnlyWatcher, OnlyWaiter,
     vars, observerVars
<1>10. CASE LookOn
  BY <1>2, <1>3, <1>4, <1>5, <1>6, <1>7, <1>9, <1>10 DEF LookOn, ReaderStep
<1> QED
  BY <1>1, <1>7, <1>8, <1>9, <1>10 DEF Cases, HandlerStep

\* Neither a stored nor an announced version passes an event that was not handled.
LEMMA VersionsHandledStep ==
  TypeOK /\ RequestHandled /\ VersionsHandled /\ [Next]_vars => VersionsHandled'
<1> SUFFICES ASSUME TypeOK, RequestHandled, VersionsHandled, Cases
             PROVE  VersionsHandled'
  BY NextCases
<1>0. /\ FirstId' = FirstId /\ FirstId \in {0, 1} /\ StoreOf(Db) = StoreOf(Db)
      /\ \A s \in Store : handled[s] \subseteq handled'[s]
      /\ \A q \in Pump : StoreOf(q) \in Store /\ asked[q] \in Nat
      /\ \A s \in Store : notified[s] \in Int /\ view[s].ver \in Int
      /\ reader.store \in Store /\ reader.want \in Int /\ NoReader.at = "idle"
  <2>1. \A s \in Store : notified[s] \in Int /\ view[s].ver \in Int
    BY PumpAssump DEF TypeOK, ViewTypeOK, Entity, PumpAssump
  <2>2. reader.store \in Store /\ reader.want \in Int
    BY PumpAssump DEF TypeOK, ObserverTypeOK, Reader, Ids, PumpAssump
  <2> QED
    BY <2>1, <2>2, Monotone, Numbers DEF NoReader
<1> DEFINE StoresHandled == \A s \in Store : /\ FirstId..view'[s].ver \subseteq handled'[s]
                                             /\ FirstId..notified'[s] \subseteq handled'[s]
<1>1. StoresHandled
  <2>0. \A s \in Store : /\ FirstId..view[s].ver \subseteq handled[s]
                         /\ FirstId..notified[s] \subseteq handled[s]
    BY DEF VersionsHandled
  <2>1. ASSUME NEW p \in Pump, Persist(p)
        PROVE  StoresHandled
    <3>1. FirstId..asked[p] \subseteq handled'[StoreOf(p)]
      <4>1. FirstId..asked[p] - 1 \subseteq handled[StoreOf(p)] /\ asked[p] \in handled'[StoreOf(p)]
        BY <2>1, PersistShape DEF RequestHandled
      <4> QED
        BY <1>0, <4>1
    <3>2. view'[StoreOf(p)].ver \in {asked[p], -1}
      <4>1. view'[StoreOf(p)] = Reduced(base[p], asked[p])
        BY <2>1, PersistShape
      <4>2. Reduced(base[p], asked[p]).ver \in {asked[p], -1}
        BY DEF Reduced, NoEntity
      <4> QED
        BY <4>1, <4>2
    <3>3. FirstId..view'[StoreOf(p)].ver \subseteq handled'[StoreOf(p)]
      BY <1>0, <3>1, <3>2
    <3> QED
      BY <1>0, <2>0, <2>1, <3>3, PersistShape
  <2>2. ASSUME NEW p \in Pump, RaiseVersion(p)
        PROVE  StoresHandled
    <3>1. FirstId..asked[p] \subseteq handled[StoreOf(p)]
      <4>1. FirstId..asked[p] - 1 \subseteq handled[StoreOf(p)] /\ asked[p] \in handled[StoreOf(p)]
        BY <2>2 DEF RaiseVersion, RequestHandled
      <4> QED
        BY <1>0, <4>1
    <3>2. \A s \in Store : notified'[s] = notified[s] \/ (s = StoreOf(p) /\ notified'[s] = asked[p])
      BY <2>2 DEF RaiseVersion, TypeOK, ViewTypeOK
    <3> QED
      BY <1>0, <2>0, <2>2, <3>1, <3>2 DEF RaiseVersion
  <2>3. CASE Restart
    <3>1. \A s \in Store : notified'[s] \in {notified[s], -1} /\ view'[s] = view[s]
      BY <2>3, RestartShape DEF TypeOK, ViewTypeOK
    <3> QED
      BY <1>0, <2>0, <3>1
  <2>4. CASE UNCHANGED <<view, notified>>
    BY <1>0, <2>0, <2>4
  <2> QED
    BY <2>1, <2>2, <2>3, <2>4, CalmSteps
       DEF Cases, PumpStep, GrantView, HandlerStep, Reduce, Announce, ApplyFails, Dispatched,
           ReduceFails, PersistFails, Submit, Calm, viewVars
<1>2. reader'.at = "refetch" => FirstId..reader'.want \subseteq handled'[reader'.store]
  <2> SUFFICES ASSUME reader'.at = "refetch"
               PROVE  FirstId..reader'.want \subseteq handled'[reader'.store]
    OBVIOUS
  <2>1. ASSUME NEW s \in Stores, NEW mode \in {"after", "until"}, Get(s, mode, FirstId + MaxEvents - 1)
        PROVE  FALSE
    BY <2>1 DEF Get
  <2>2. CASE reader.at = "refetch" /\ reader'.store = reader.store /\ reader'.want = reader.want
    BY <1>0, <2>2 DEF VersionsHandled
  <2>3. CASE Reached /\ reader'.store = reader.store /\ reader'.want = reader.want
    BY <1>0, <2>3 DEF VersionsHandled, Reached
  <2> QED
    BY <1>0, <2>1, <2>2, <2>3, ReaderSteps
<1> QED
  BY <1>0, <1>1, <1>2 DEF VersionsHandled

\* An answer that meets its constraint shows every event up to the wanted one.
LEMMA AnswerStep ==
  TypeOK /\ VersionsHandled /\ AnswerCovers /\ [Next]_vars => AnswerCovers'
<1> SUFFICES ASSUME TypeOK, VersionsHandled, AnswerCovers, Cases,
                    reader'.at = "answered",
                    reader'.status = "ok" \/ (reader'.mode = "until" /\ reader'.status = "notfound")
             PROVE  FirstId..reader'.want \subseteq handled'[reader'.store]
  BY NextCases, Monotone DEF AnswerCovers
<1>0. /\ FirstId' = FirstId /\ FirstId \in {0, 1} /\ MaxEvents \in Nat
      /\ \A s \in Store : handled[s] \subseteq handled'[s]
      /\ \A s \in Store : view[s].ver \in Int
      /\ reader.store \in Store /\ NoReader.at = "idle" /\ Stores \subseteq Store
  <2>1. \A s \in Store : view[s].ver \in Int
    BY PumpAssump DEF TypeOK, ViewTypeOK, Entity, PumpAssump
  <2>2. reader.store \in Store
    BY DEF TypeOK, ObserverTypeOK, Reader
  <2> QED
    BY <2>1, <2>2, Monotone, Numbers, PumpAssump DEF NoReader, PumpAssump, Stores, Store
<1>1. ASSUME NEW s \in Stores, NEW mode \in {"after", "until"}, Get(s, mode, FirstId + MaxEvents - 1)
      PROVE  FirstId..reader'.want \subseteq handled'[reader'.store]
  <2> DEFINE want == FirstId + MaxEvents - 1
  <2>1. reader'.want = want /\ reader'.store = s /\ s \in Store
    BY <1>0, <1>1 DEF Get
  <2>2. view[s].ver >= want
    BY <1>1 DEF Get, Found
  <2>3. FirstId..view[s].ver \subseteq handled[s]
    BY <2>1 DEF VersionsHandled
  <2> QED
    BY <1>0, <2>1, <2>2, <2>3
<1>2. CASE reader.at = "refetch" /\ reader'.store = reader.store /\ reader'.want = reader.want
  BY <1>0, <1>2 DEF VersionsHandled
<1>3. CASE reader' = reader
  BY <1>0, <1>3 DEF AnswerCovers
<1>4. ~Subscribed(Db) \/ reader.at # "answered"
  BY DEF Subscribed
<1> QED
  BY <1>0, <1>1, <1>2, <1>3, ReaderSteps DEF Subscribed

\* A raised version finds its sleeping readers.
LEMMA NoMissedStep == TypeOK /\ NoMissedVersion /\ [Next]_vars => NoMissedVersion'
<1> SUFFICES ASSUME TypeOK, NoMissedVersion, Cases, reader'.at = "wait", Reached', ~reader'.woken
             PROVE  \E p \in Pump : req'[p] = "raised" /\ StoreOf(p) = reader'.store
  BY NextCases, Monotone DEF NoMissedVersion
<1>0. /\ reader.store \in Store /\ reader.want \in Int /\ NoReader.at = "idle"
      /\ \A s \in Store : notified[s] \in Int
  BY PumpAssump DEF TypeOK, ObserverTypeOK, ViewTypeOK, Reader, Ids, PumpAssump, NoReader
<1>1. ASSUME NEW s \in Stores, NEW mode \in {"after", "until"}, Get(s, mode, FirstId + MaxEvents - 1)
      PROVE  FALSE
  BY <1>1 DEF Get
<1>2. CASE /\ UNCHANGED viewVars /\ (reader'.at = "refetch" <=> Reached)
           /\ reader'.store = reader.store /\ reader'.want = reader.want
  BY <1>2 DEF Reached, viewVars
<1>3. CASE reader' = reader
  <2>0. reader.at = "wait" /\ ~reader.woken
    BY <1>3
  <2> DEFINE Still == \A q \in Pump : req[q] = "raised" => req'[q] = "raised"
  <2>1. ASSUME Still, notified'[reader.store] = notified[reader.store]
        PROVE  \E q \in Pump : req'[q] = "raised" /\ StoreOf(q) = reader'.store
    BY <1>3, <2>0, <2>1 DEF NoMissedVersion, Reached
  <2>2. ASSUME NEW p \in Pump, RaiseVersion(p)
        PROVE  \E q \in Pump : req'[q] = "raised" /\ StoreOf(q) = reader'.store
    <3>1. req'[p] = "raised" /\ \A q \in Pump \ {p} : req'[q] = req[q]
      BY <2>2, StageShape DEF RaiseVersion, TypeOK
    <3>2. CASE StoreOf(p) # reader.store
      <4>1. notified'[reader.store] = notified[reader.store]
        BY <1>0, <2>2, <3>2 DEF RaiseVersion, TypeOK, ViewTypeOK
      <4> QED
        BY <2>1, <3>1, <4>1
    <3> QED
      BY <1>3, <3>1, <3>2
  <2>3. ASSUME NEW p \in Pump, Announce(p)
        PROVE  \E q \in Pump : req'[q] = "raised" /\ StoreOf(q) = reader'.store
    <3>1. Stage(p, Reply(p, "done")) /\ UNCHANGED notified
      BY <2>3 DEF Announce
    <3>2. \A q \in Pump \ {p} : req'[q] = req[q]
      BY <3>1, StageShape DEF Reply, TypeOK
    <3>3. StoreOf(p) # reader.store
      <4>1. ASSUME Subscribed(StoreOf(p))
            PROVE  FALSE
        <5>1. reader' = [reader EXCEPT !.woken = TRUE]
          BY <2>3, <4>1 DEF Announce
        <5>2. reader'.woken = TRUE
          BY <5>1 DEF TypeOK, ObserverTypeOK, Reader
        <5> QED
          BY <5>2
      <4> QED
        BY <2>0, <4>1 DEF Subscribed
    <3> QED
      BY <1>3, <2>0, <3>1, <3>2, <3>3 DEF NoMissedVersion, Reached
  <2>4. ASSUME NEW p \in Pump, NEW st \in {"none", "sent", "committed", "done", "failed"},
               Stage(p, st), req[p] # "raised"
        PROVE  Still
    BY <2>4, StageShape DEF TypeOK
  <2>5. ASSUME NEW p \in Pump, Reduce(p)
        PROVE  Still
    BY <2>5 DEF Reduce, TypeOK, ViewTypeOK
  <2>6. CASE Restart
    BY <1>0, <1>3, <2>0, <2>6 DEF Restart
  <2>7. UNCHANGED req => Still
    OBVIOUS
  <2> HIDE DEF Still
  <2>8. ASSUME NEW p \in Pump,
               \/ Reduce(p) \/ Persist(p) \/ Dispatched(p) \/ PersistFails(p) \/ ApplyFails(p)
               \/ PumpStep(p) \/ GrantView(p)
               \/ \E o \in {"retry", "fail"} : ReduceFails(p, o)
        PROVE  Still /\ UNCHANGED notified
    BY <2>4, <2>5, <2>7, <2>8
       DEF Reduce, Persist, Dispatched, PersistFails, ApplyFails, PumpStep, GrantView,
           ReduceFails, Reply, viewVars
  <2>9. CASE Calm \/ \E x \in Payload : Submit(x)
    BY <2>1, <2>7, <2>9 DEF Calm, Submit, viewVars
  <2> QED
    BY <2>1, <2>2, <2>3, <2>6, <2>8, <2>9, CalmSteps DEF Cases, HandlerStep
<1> QED
  BY <1>0, <1>1, <1>2, <1>3, ReaderSteps

\* A reported state finds those who sleep for it.
LEMMA NoSleepStep == TypeOK /\ NoSleepInState /\ [Next]_vars => NoSleepInState'
<1> SUFFICES ASSUME TypeOK, NoSleepInState, Cases, waiter'.at = "sleep",
                    state'[waiter'.pump] = waiter'.target, ~waiter'.woken
             PROVE  \E e \in emits' : e.pump = waiter'.pump /\ e.st = waiter'.target
  BY NextCases DEF NoSleepInState
<1> USE DEF TypeOK
<1>0. waiter \in Waiter /\ state \in [Pump -> PumpState]
  BY DEF ObserverTypeOK, PumpTypeOK
<1>1. ASSUME UNCHANGED <<waiter, state, emits>>
      PROVE  \E e \in emits' : e.pump = waiter'.pump /\ e.st = waiter'.target
  BY <1>1 DEF NoSleepInState
<1>2. ASSUME NEW p \in Pump, NEW by, NEW s, SetState(p, by, s), UNCHANGED waiter
      PROVE  \E e \in emits' : e.pump = waiter'.pump /\ e.st = waiter'.target
  <2>1. CASE ~reported
    BY <1>1, <1>2, <2>1 DEF SetState, KeepState
  <2>2. CASE reported
    <3>1. /\ state' = [state EXCEPT ![p] = s]
          /\ emits' = emits \cup {[pump |-> p, by |-> by, st |-> s]}
      BY <1>2, <2>2 DEF SetState
    <3>2. CASE waiter.pump = p
      <4>1. s = waiter.target
        BY <1>0, <1>2, <3>1, <3>2
      <4>2. [pump |-> p, by |-> by, st |-> s].pump = p /\ [pump |-> p, by |-> by, st |-> s].st = s
        OBVIOUS
      <4> QED
        BY <1>2, <3>1, <3>2, <4>1, <4>2
    <3>3. CASE waiter.pump # p
      <4>1. state'[waiter.pump] = state[waiter.pump]
        BY <1>0, <3>1, <3>3
      <4> QED
        BY <1>2, <3>1, <4>1 DEF NoSleepInState
    <3> QED
      BY <3>2, <3>3
  <2> QED
    BY <2>1, <2>2
<1>3. ASSUME NEW p \in Pump, PumpStep(p)
      PROVE  \E e \in emits' : e.pump = waiter'.pump /\ e.st = waiter'.target
  <2>1. UNCHANGED waiter
    BY <1>3 DEF PumpStep, observerVars
  <2>2. (\E by, s : SetState(p, by, s)) \/ UNCHANGED <<state, emits>>
    BY <1>3 DEF PumpStep, StartPump, Start, LoopStep, CheckContext, BeginCycle, EndCycle, Cancel,
       ClientEnds, MonitorCancellation, AcquireFails, OpenWatch, OpenFails, NextEvent, TickFails,
       ProactiveHeartbeat, Heartbeat, HeartbeatMisread, HeartbeatFails, Release, LockLostSent,
       Give, KeepState
  <2> QED
    BY <1>1, <1>2, <2>1, <2>2
<1>4. ASSUME NEW e \in emits, EmitState(e)
      PROVE  \E f \in emits' : f.pump = waiter'.pump /\ f.st = waiter'.target
  <2>1. CASE waiter.at \in {"check", "sleep"} /\ e.pump = waiter.pump /\ e.st = waiter.target
    <3>1. waiter' = [waiter EXCEPT !.woken = TRUE]
      BY <1>4, <2>1 DEF EmitState
    <3>2. waiter'.woken = TRUE
      BY <1>0, <3>1 DEF Waiter
    <3> QED
      BY <3>2
  <2>2. CASE ~(waiter.at \in {"check", "sleep"} /\ e.pump = waiter.pump /\ e.st = waiter.target)
    <3>1. waiter' = waiter /\ emits' = emits \ {e} /\ state' = state
      BY <1>4, <2>2 DEF EmitState
    <3> QED
      BY <2>2, <3>1 DEF NoSleepInState
  <2> QED
    BY <2>1, <2>2
<1>5. CASE StateCheckAgain
  <2> DEFINE a == IF state[waiter.pump] = waiter.target THEN "returned" ELSE "sleep"
  <2>1. waiter' = [waiter EXCEPT !.at = a] /\ state' = state
    BY <1>5 DEF StateCheckAgain, OnlyWaiter, pumpVars
  <2>2. waiter'.at = a /\ waiter'.pump = waiter.pump /\ waiter'.target = waiter.target
    BY <1>0, <2>1 DEF Waiter
  <2> QED
    BY <2>1, <2>2
<1>6. CASE OnStateChange \/ WaiterWakes \/ WaiterGivesUp
  <2>1. \/ waiter' = [waiter EXCEPT !.at = "check"]
        \/ waiter' = [waiter EXCEPT !.at = "returned", !.woken = FALSE]
    BY <1>6 DEF OnStateChange, WaiterWakes, WaiterGivesUp
  <2>2. waiter'.at \in {"check", "returned"}
    BY <1>0, <2>1 DEF Waiter
  <2> QED
    BY <2>2
<1>7. ASSUME NEW p \in Pump, NEW target \in PumpState, WaitForState(p, target)
      PROVE  FALSE
  BY <1>7 DEF WaitForState
<1>8. ASSUME NEW p \in Pump,
             \/ GrantView(p) \/ HandlerStep(p) \/ PersistFails(p) \/ ApplyFails(p)
             \/ \E o \in {"retry", "fail"} : ReduceFails(p, o)
      PROVE  UNCHANGED <<waiter, state, emits>>
  BY <1>8 DEF GrantView, Grant, HandlerStep, Reduce, Persist, RaiseVersion, Announce, Dispatched,
     Handled, PersistFails, ApplyFails, ReduceFails, HandlerFails, Give, KeepState, observerVars,
     pumpVars
<1>9. ASSUME \/ Restart \/ (\E x \in Payload : Submit(x)) \/ UNCHANGED vars
             \/ WatchChanges(1) \/ SendChange \/ WatchEnds
             \/ \E s \in Stores, mode \in {"after", "until"} : Get(s, mode, FirstId + MaxEvents - 1)
             \/ ReaderStep \/ WaitTimeout \/ ReaderReturns
      PROVE  UNCHANGED <<waiter, state, emits>>
  BY <1>9 DEF Restart, RestartService, Submit, StoreEvent, KeepState, vars, pumpVars, observerVars,
     WatchChanges, SendChange, WatchEnds, OnlyWatcher, Get, ReaderStep, WaitSubscribe, WaitCheck,
     WaitWake, Refetch, WaitTimeout, ReaderReturns, OnlyReader
<1> QED
  BY <1>1, <1>3, <1>4, <1>5, <1>6, <1>7, <1>8, <1>9 DEF Cases, LookOn, WaiterStep

-----------------------------------------------------------------------------
(* The fold of the stream *)

\* One event more is one reduction more.
LEMMA FoldNext ==
  ASSUME NEW k \in Nat, FirstId \in {0, 1}
  PROVE  Fold(k + 1) = Reduced(Fold(k), k + 1)
<1>1. Fold(k).ids = Kept(k) /\ Fold(k).twice = FALSE /\ k + 1 \notin Kept(k)
  BY DEF Fold, NoEntity, Kept
<1>2. CASE PayloadOf(k + 1) = "upsert"
  <2>1. Kept(k + 1) = Kept(k) \cup {k + 1}
    BY <1>2 DEF Kept
  <2> QED
    BY <1>1, <1>2, <2>1 DEF Fold, Reduced
<1>3. CASE PayloadOf(k + 1) # "upsert"
  <2>1. Kept(k + 1) = {}
    BY <1>3 DEF Kept
  <2> QED
    BY <1>3, <2>1 DEF Fold, Reduced
<1> QED
  BY <1>2, <1>3

\* The fold of no event is no entity.
LEMMA FoldNone == remote => Fold(0) = NoEntity
BY DEF Fold, Kept, FirstId

\* What follows later does not change it.
LEMMA FoldSame ==
  ASSUME TypeOK, remote' = remote, log' = log \/ \E x \in Payload : log' = Append(log, x),
         NEW k \in Nat, k <= LastId
  PROVE  Fold(k)' = Fold(k)
<1>1. log \in Seq(Payload) /\ FirstId' = FirstId /\ FirstId \in {0, 1} /\ Len(log) \in Nat
      /\ LastId = FirstId + Len(log) - 1
  BY Numbers DEF FirstId, TypeOK, PumpTypeOK
<1>2. \A j \in FirstId..k : PayloadOf(j)' = PayloadOf(j)
  <2> SUFFICES ASSUME NEW j \in FirstId..k
               PROVE  log'[j - FirstId + 1] = log[j - FirstId + 1]
    BY <1>1 DEF PayloadOf
  <2>1. j - FirstId + 1 \in 1..Len(log)
    BY <1>1
  <2>2. ASSUME NEW x \in Payload, log' = Append(log, x)
        PROVE  log'[j - FirstId + 1] = log[j - FirstId + 1]
    BY <1>1, <2>1, <2>2
  <2> QED
    BY <2>2
<1>3. Kept(k)' = Kept(k)
  BY <1>1, <1>2 DEF Kept
<1> QED
  BY <1>3 DEF Fold, NoEntity

-----------------------------------------------------------------------------
(* One pump at work *)

\* A stored position never moves back.
LEMMA PosGrows ==
  ASSUME TypeOK, Cases
  PROVE  \A n \in Name : pos'[n] >= pos[n]
<1>1. ASSUME NEW p \in Pump, PumpStep(p)
      PROVE  \A n \in Name : pos'[n] >= pos[n]
  <2>1. Rests(p) \/ Stays(p) \/ Opens(p) \/ Takes(p) \/ Beats(p)
    BY <1>1, LoopShape DEF PumpStep, PumpAction, TypeOK
  <2>2. CASE Rests(p) \/ Stays(p) \/ Opens(p) \/ Takes(p)
    <3>1. pos' = pos
      BY <2>2 DEF Rests, Stays, Opens, Takes
    <3> QED
      BY <3>1, Numbers
  <2>3. CASE Beats(p)
    <3>1. CASE pos' = pos
      BY <3>1, Numbers
    <3>2. CASE /\ position[p] >= pos[HolderOf[p]]
               /\ pos' = [pos EXCEPT ![HolderOf[p]] = position[p]]
      <4>1. \A n \in Name : pos'[n] = IF n = HolderOf[p] THEN position[p] ELSE pos[n]
        BY <3>2 DEF TypeOK, PumpTypeOK
      <4> QED
        BY <3>2, <4>1, Numbers
    <3> QED
      BY <2>3, <3>1, <3>2 DEF Beats
  <2> QED
    BY <2>1, <2>2, <2>3
<1>2. ASSUME NEW p \in Pump, Persist(p)
      PROVE  \A n \in Name : pos'[n] >= pos[n]
  BY <1>2, PersistShape, Numbers
<1>3. CASE pos' = pos
  BY <1>3, Numbers
<1> QED
  BY <1>1, <1>2, <1>3, GrantShape, DispatchShape, RestartShape, CalmSteps
     DEF Cases, HandlerStep, Reduce, RaiseVersion, Announce, ApplyFails, PersistFails, ReduceFails,
         HandlerFails, Submit, StoreEvent, Calm, pumpVars, serviceVars, TypeOK

\* Requests and announced versions, step by step.
LEMMA RequestSteps ==
  ASSUME TypeOK, Cases
  PROVE  \/ \E p \in Pump : Reduce(p) \/ Persist(p) \/ RaiseVersion(p)
         \/ Restart
         \/ /\ UNCHANGED notified
            /\ \A q \in Pump :
                 \/ req'[q] = req[q] /\ asked'[q] = asked[q] /\ base'[q] = base[q]
                 \/ req'[q] = "none"
                 \/ /\ req'[q] = "done" /\ req[q] = "raised" /\ pc[q] = "handle"
                    /\ asked'[q] = asked[q]
                 \/ req'[q] = "failed" /\ req[q] # "none" /\ asked'[q] = asked[q]
<1>1. ASSUME NEW p \in Pump,
             \/ Stage(p, "none")
             \/ Stage(p, "done") /\ req[p] = "raised" /\ pc[p] = "handle"
             \/ Stage(p, "failed") /\ req[p] # "none"
      PROVE  \A q \in Pump :
               \/ req'[q] = req[q] /\ asked'[q] = asked[q] /\ base'[q] = base[q]
               \/ req'[q] = "none"
               \/ /\ req'[q] = "done" /\ req[q] = "raised" /\ pc[q] = "handle"
                  /\ asked'[q] = asked[q]
               \/ req'[q] = "failed" /\ req[q] # "none" /\ asked'[q] = asked[q]
  BY <1>1, StageShape DEF TypeOK
<1>2. ASSUME NEW p \in Pump, Announce(p) \/ ApplyFails(p) \/ Dispatched(p) \/ PersistFails(p)
      PROVE  /\ UNCHANGED notified
             /\ \/ Stage(p, "none")
                \/ Stage(p, "done") /\ req[p] = "raised" /\ pc[p] = "handle"
                \/ Stage(p, "failed") /\ req[p] # "none"
                \/ UNCHANGED <<req, asked, base>>
  BY <1>2 DEF Announce, ApplyFails, Dispatched, PersistFails, Reply
<1>3. ASSUME NEW p \in Pump, Announce(p) \/ ApplyFails(p) \/ Dispatched(p) \/ PersistFails(p)
      PROVE  /\ UNCHANGED notified
             /\ \A q \in Pump :
                  \/ req'[q] = req[q] /\ asked'[q] = asked[q] /\ base'[q] = base[q]
                  \/ req'[q] = "none"
                  \/ /\ req'[q] = "done" /\ req[q] = "raised" /\ pc[q] = "handle"
                     /\ asked'[q] = asked[q]
                  \/ req'[q] = "failed" /\ req[q] # "none" /\ asked'[q] = asked[q]
  BY <1>1, <1>2, <1>3
<1>4. ASSUME \/ \E p \in Pump : \/ PumpStep(p) \/ GrantView(p)
                                \/ \E o \in {"retry", "fail"} : ReduceFails(p, o)
             \/ \E x \in Payload : Submit(x)
             \/ Calm
      PROVE  UNCHANGED <<notified, req, asked, base>>
  BY <1>4 DEF PumpStep, GrantView, ReduceFails, Submit, Calm, viewVars
<1> QED
  BY <1>3, <1>4, CalmSteps DEF Cases, HandlerStep

\* A version is announced after the position reached it.
LEMMA VersionsStoredStep == TypeOK /\ VersionsStored /\ [Next]_vars => VersionsStored'
<1> SUFFICES ASSUME TypeOK, TypeOK', VersionsStored, Cases PROVE VersionsStored'
  BY NextCases, TypeStep
<1>0. /\ remote' = remote /\ pos'[Consumer] >= pos[Consumer]
      /\ pos[Consumer] \in Nat /\ pos'[Consumer] \in Nat
      /\ notified[Db] \in Int /\ reader.want \in Int /\ NoReader.at = "idle" /\ NoReader.store = Db
      /\ \A q \in Pump : asked[q] \in Nat
      /\ (remote => Stores = {Db} /\ \A q \in Pump : StoreOf(q) = Db)
  <2>1. pos'[Consumer] \in Nat
    BY ProjectionAssump, PumpAssump DEF TypeOK, PumpTypeOK, ProjectionAssump, PumpAssump, Ids
  <2>2. notified[Db] \in Int /\ reader.want \in Int
    BY Numbers, PumpAssump DEF TypeOK, ViewTypeOK, ObserverTypeOK, Reader, Ids, PumpAssump
  <2> QED
    BY <2>1, <2>2, Monotone, PosGrows, Numbers DEF NoReader, Stores, StoreOf
<1> DEFINE VersionParts ==
             /\ notified'[Db] <= pos'[Consumer]
             /\ \A q \in Pump :
                  /\ req'[q] \in {"committed", "raised", "done"} => asked'[q] <= pos'[Consumer]
                  /\ req'[q] = "raised" => asked'[q] <= notified'[Db]
<1>1. ASSUME remote
      PROVE  VersionParts
  <2>0. /\ notified[Db] <= pos[Consumer]
        /\ \A q \in Pump : /\ req[q] \in {"committed", "raised", "done"} => asked[q] <= pos[Consumer]
                           /\ req[q] = "raised" => asked[q] <= notified[Db]
    BY <1>1 DEF VersionsStored
  <2>1. ASSUME NEW p \in Pump, Reduce(p)
        PROVE  VersionParts
    <3>1. /\ req'[p] = "sent" /\ \A q \in Pump \ {p} : req'[q] = req[q] /\ asked'[q] = asked[q]
          /\ UNCHANGED notified
      BY <2>1 DEF Reduce, TypeOK, ViewTypeOK
    <3> QED
      BY <1>0, <2>0, <3>1
  <2>2. ASSUME NEW p \in Pump, Persist(p)
        PROVE  VersionParts
    <3>1. asked[p] <= pos'[Consumer]
      BY <1>0, <1>1, <2>2, PersistShape, Numbers
    <3> QED
      BY <1>0, <2>0, <2>2, <3>1, PersistShape
  <2>3. ASSUME NEW p \in Pump, RaiseVersion(p)
        PROVE  VersionParts
    <3>1. /\ req[p] = "committed" /\ req'[p] = "raised" /\ asked'[p] = asked[p]
          /\ \A q \in Pump \ {p} : req'[q] = req[q] /\ asked'[q] = asked[q]
      BY <2>3, StageShape DEF RaiseVersion, TypeOK
    <3>2. notified'[Db] = IF asked[p] > notified[Db] THEN asked[p] ELSE notified[Db]
      BY <1>0, <1>1, <2>3, Numbers DEF RaiseVersion, TypeOK, ViewTypeOK
    <3> QED
      BY <1>0, <2>0, <3>1, <3>2
  <2>4. CASE Restart
    <3>1. notified'[Db] = -1
      BY <2>4, RestartShape, Numbers DEF TypeOK, ViewTypeOK
    <3> QED
      BY <1>0, <2>0, <2>4, <3>1, RestartShape DEF TypeOK
  <2> QED
    BY <1>0, <2>0, <2>1, <2>2, <2>3, <2>4, RequestSteps
<1>2. ASSUME remote
      PROVE  reader'.store = Db /\ (reader'.at = "refetch" => reader'.want <= pos'[Consumer])
  <2>1. ASSUME NEW s \in Stores, NEW mode \in {"after", "until"}, Get(s, mode, FirstId + MaxEvents - 1)
        PROVE  reader'.store = Db /\ reader'.at # "refetch"
    BY <1>0, <1>2, <2>1 DEF Get
  <2>2. /\ reader.store = Db
        /\ Reached \/ reader.at = "refetch" => reader.want <= pos'[Consumer]
    BY <1>0, <1>2 DEF VersionsStored, Reached
  <2>3. CASE reader' = reader \/ reader' = NoReader
    BY <1>0, <2>2, <2>3
  <2>4. CASE /\ reader'.store = reader.store /\ reader'.want = reader.want
             /\ reader'.at # "refetch" \/ reader'.at = reader.at \/ Reached
    BY <2>2, <2>4
  <2> QED
    BY <2>1, <2>3, <2>4, ReaderSteps
<1>3. watcher'.on => remote
  <2>1. ASSUME NEW p \in Pump, Announce(p)
        PROVE  watcher.on \/ watcher' = watcher
    BY <2>1 DEF Announce
  <2>2. CASE SendChange
    BY <2>2 DEF SendChange, VersionsStored
  <2>3. CASE WatchChanges(1) \/ WatchEnds \/ Restart
    BY <2>3 DEF WatchChanges, WatchEnds, Restart, NoWatcher
  <2>4. CASE UNCHANGED watcher
    BY <2>4 DEF VersionsStored
  <2> QED
    BY <2>1, <2>2, <2>3, <2>4
       DEF Cases, HandlerStep, LookOn, ReaderStep, WaiterStep, PumpStep, GrantView, Reduce, Persist,
           RaiseVersion, Dispatched, PersistFails, ApplyFails, ReduceFails, Submit, EmitState, Get,
           WaitSubscribe, WaitCheck, WaitWake, WaitTimeout, Refetch, ReaderReturns, WaitForState,
           OnStateChange, StateCheckAgain, WaiterWakes, WaiterGivesUp, OnlyReader, OnlyWaiter,
           observerVars, vars, VersionsStored
<1> QED
  BY <1>0, <1>1, <1>2, <1>3 DEF VersionsStored

\* Only a grant puts a pump to work.
LEMMA WorkSteps ==
  ASSUME TypeOK, Cases
  PROVE  \/ \E p \in Pump : GrantView(p)
         \/ overlap' = overlap /\ \A q \in Pump : AtWork(q)' => AtWork(q)
<1>1. ASSUME NEW p \in Pump, PumpStep(p)
      PROVE  overlap' = overlap /\ \A q \in Pump : AtWork(q)' => AtWork(q)
  <2>1. Others(p) /\ (Rests(p) \/ Stays(p) \/ Opens(p) \/ Takes(p) \/ Beats(p))
    BY <1>1, LoopShape DEF PumpStep, PumpAction, TypeOK
  <2>2. UNCHANGED <<overlap, req>>
    BY <1>1 DEF PumpStep, viewVars
  <2> QED
    BY <2>1, <2>2 DEF Others, Rests, Stays, Opens, Takes, Beats, AtWork
<1>2. ASSUME NEW p \in Pump, Dispatched(p)
      PROVE  overlap' = overlap /\ \A q \in Pump : AtWork(q)' => AtWork(q)
  BY <1>2, DispatchShape DEF AtWork
<1>3. ASSUME NEW p \in Pump, Reduce(p)
      PROVE  overlap' = overlap /\ \A q \in Pump : AtWork(q)' => AtWork(q)
  BY <1>3 DEF Reduce, At, TypeOK, ViewTypeOK, pumpVars, loopVars, AtWork
<1>4. ASSUME NEW p \in Pump, NEW st \in {"none", "committed", "raised", "done", "failed"},
             Stage(p, st), req[p] # "none", UNCHANGED <<pc, overlap>>
      PROVE  overlap' = overlap /\ \A q \in Pump : AtWork(q)' => AtWork(q)
  BY <1>4, StageShape DEF TypeOK, AtWork
<1>5. ASSUME NEW p \in Pump, NEW o \in {"retry", "fail"}, ReduceFails(p, o)
      PROVE  overlap' = overlap /\ \A q \in Pump : AtWork(q)' => AtWork(q)
  BY <1>5, FailureShape DEF ReduceFails, viewVars, TypeOK, AtWork
<1>6. ASSUME NEW p \in Pump, PersistFails(p)
      PROVE  overlap' = overlap /\ \A q \in Pump : AtWork(q)' => AtWork(q)
  <2>1. \A q \in Pump : req'[q] = "none" \/ req'[q] = req[q]
    BY <1>6, StageShape DEF PersistFails, TypeOK, ViewTypeOK
  <2> QED
    BY <1>6, <2>1, FailureShape DEF PersistFails, TypeOK, AtWork
<1>7. CASE Restart
  BY <1>7, RestartShape DEF TypeOK, AtWork
<1>8. CASE Calm \/ \E x \in Payload : Submit(x)
  BY <1>8 DEF Calm, Submit, StoreEvent, loopVars, viewVars, AtWork
<1> QED
  BY <1>1, <1>2, <1>3, <1>4, <1>5, <1>6, <1>7, <1>8, CalmSteps
     DEF Cases, HandlerStep, Persist, RaiseVersion, Announce, ApplyFails, Reply, pumpVars, loopVars

\* Until pumps overlap, one is at work at a time, under the consumer's name.
LEMMA OneAtWorkStep == TypeOK /\ OneAtWork /\ [Next]_vars => OneAtWork'
<1> SUFFICES ASSUME TypeOK, OneAtWork, Cases PROVE OneAtWork'
  BY NextCases
<1>1. ASSUME NEW p \in Pump, GrantView(p)
      PROVE  OneAtWork'
  <2>1. overlap' = (overlap \/ HolderOf[p] # Consumer \/ \E q \in Pump \ {p} : AtWork(q))
    BY <1>1 DEF GrantView
  <2>2. \A q \in Pump \ {p} : AtWork(q)' => AtWork(q)
    BY <1>1, GrantShape DEF AtWork
  <2> QED
    BY <2>1, <2>2 DEF OneAtWork
<1>2. CASE overlap' = overlap /\ \A q \in Pump : AtWork(q)' => AtWork(q)
  BY <1>2 DEF OneAtWork
<1> QED
  BY <1>1, <1>2, WorkSteps

\* Until pumps overlap, a heartbeat stores the position that is there already.
LEMMA LoopKeepsPosition ==
  ASSUME TypeOK, OneAtWork, Exact, remote, ~overlap, NEW p \in Pump, PumpStep(p)
  PROVE  pos'[Consumer] = pos[Consumer]
<1>1. Rests(p) \/ Stays(p) \/ Opens(p) \/ Takes(p) \/ Beats(p)
  BY LoopShape DEF PumpStep, PumpAction, TypeOK
<1>2. CASE Beats(p)
  <2>1. pc[p] = "beat"
    BY <1>2 DEF Beats
  <2>2. HolderOf[p] = Consumer /\ position[p] <= pos[Consumer]
    BY <2>1 DEF OneAtWork, AtWork, Exact, ExactAt
  <2> QED
    BY <1>2, <2>2, Numbers DEF Beats, TypeOK, PumpTypeOK
<1> QED
  BY <1>1, <1>2 DEF Rests, Stays, Opens, Takes

\* Until pumps overlap, only Persist changes the entity and the position beside it.
LEMMA OnlyPersistWrites ==
  ASSUME TypeOK, Cases, OneAtWork, Exact, remote, ~overlap
  PROVE  \/ \E p \in Pump : Persist(p)
         \/ pos'[Consumer] = pos[Consumer] /\ view'[Db] = view[Db]
<1>1. ASSUME NEW p \in Pump, PumpStep(p)
      PROVE  pos'[Consumer] = pos[Consumer] /\ view'[Db] = view[Db]
  BY <1>1, LoopKeepsPosition DEF PumpStep, viewVars
<1> QED
  BY <1>1, GrantShape, DispatchShape, RestartShape, CalmSteps
     DEF Cases, HandlerStep, Reduce, RaiseVersion, Announce, ApplyFails, PersistFails, ReduceFails,
         HandlerFails, Submit, StoreEvent, Calm, pumpVars, serviceVars, viewVars, TypeOK

\* The one at work is at the position, or at the event that follows it.
LEMMA ExactStep ==
  TypeOK /\ Requests /\ OneAtWork /\ Exact /\ [Next]_vars => Exact'
<1> SUFFICES ASSUME TypeOK, Requests, OneAtWork, OneAtWork', Exact, Cases, remote', ~overlap'
             PROVE  \A q \in Pump : ExactAt(q)'
  BY NextCases, OneAtWorkStep DEF Exact
<1>0. /\ remote /\ ~overlap
      /\ FirstId = 1 /\ pos[Consumer] \in Nat /\ \A q \in Pump : StoreOf(q) = Db
      /\ \A q \in Pump : /\ position[q] \in Nat /\ cursor[q] \in Int /\ event[q] \in Nat
                         /\ asked[q] \in Nat
  <2>1. ASSUME NEW p \in Pump, GrantView(p)
        PROVE  ~overlap
    BY <2>1 DEF GrantView
  <2>2. remote
    BY Monotone
  <2>3. ~overlap
    BY <2>1, WorkSteps
  <2> QED
    BY <2>2, <2>3, Numbers DEF StoreOf
<1>1. \A q \in Pump : ExactAt(q)
  BY <1>0 DEF Exact
<1>2. \A q \in Pump : ~AtWork(q)' => ExactAt(q)'
  BY DEF AtWork, ExactAt
<1>3. ASSUME NEW q \in Pump, pos'[Consumer] = pos[Consumer], view'[Db] = view[Db],
             pc'[q] = pc[q], position'[q] = position[q], cursor'[q] = cursor[q],
             event'[q] = event[q],
             \/ req'[q] = req[q] /\ asked'[q] = asked[q] /\ base'[q] = base[q]
             \/ req'[q] = "none" /\ (req[q] = "none" \/ pc[q] # "handle")
             \/ req'[q] = "failed"
             \/ /\ req'[q] \in {"raised", "done"} /\ req[q] \in {"committed", "raised", "done"}
                /\ asked'[q] = asked[q]
      PROVE  ExactAt(q)'
  BY <1>1, <1>3 DEF ExactAt
<1>4. ASSUME NEW p \in Pump, PumpStep(p)
      PROVE  \A q \in Pump : ExactAt(q)'
  <2>1. Others(p) /\ (Rests(p) \/ Stays(p) \/ Opens(p) \/ Takes(p) \/ Beats(p))
    BY <1>4, LoopShape DEF PumpStep, PumpAction, TypeOK
  <2>2. UNCHANGED <<req, asked, base, view>>
    BY <1>4 DEF PumpStep, viewVars
  <2>3. pos'[Consumer] = pos[Consumer]
    BY <1>0, <1>4, LoopKeepsPosition
  <2>4. \A q \in Pump \ {p} : ExactAt(q)'
    BY <1>3, <2>1, <2>2, <2>3 DEF Others
  <2>5. ExactAt(p)'
    <3>0. ExactAt(p)
      BY <1>1
    <3>1. CASE Rests(p)
      BY <2>2, <2>3, <3>0, <3>1 DEF Rests, ExactAt
    <3>2. CASE Stays(p)
      BY <2>2, <2>3, <3>0, <3>2 DEF Stays, ExactAt
    <3>3. CASE Opens(p)
      BY <1>0, <2>2, <2>3, <3>0, <3>3 DEF Opens, ExactAt
    <3>4. CASE Takes(p)
      <4>1. req'[p] = "none"
        BY <2>2, <3>4 DEF Takes, Requests
      <4> QED
        BY <1>0, <2>3, <3>0, <3>4, <4>1 DEF Takes, ExactAt
    <3>5. CASE Beats(p)
      <4>1. pc[p] = "beat" /\ pc'[p] = "tick" /\ cursor'[p] = cursor[p] /\ req[p] = "none"
        BY <1>0, <3>5 DEF Beats, Requests
      <4>2. HolderOf[p] = Consumer
        BY <1>0, <4>1 DEF OneAtWork, AtWork
      <4>3. position'[p] \in {position[p], pos[Consumer]}
        BY <3>5, <4>2 DEF Beats
      <4> QED
        BY <1>0, <2>2, <2>3, <3>0, <4>1, <4>3 DEF ExactAt
    <3> QED
      BY <2>1, <3>1, <3>2, <3>3, <3>4, <3>5
  <2> QED
    BY <2>4, <2>5
<1>5. ASSUME NEW p \in Pump, GrantView(p)
      PROVE  \A q \in Pump : ExactAt(q)'
  <2>1. HolderOf[p] = Consumer /\ req[p] = "none"
    BY <1>5, GrantShape DEF GrantView, Requests
  <2>2. pos'[Consumer] = pos[Consumer]
    BY <1>5, GrantShape DEF serviceVars
  <2>3. ExactAt(p)'
    BY <1>0, <1>5, <2>1, <2>2, GrantShape DEF ExactAt
  <2> QED
    BY <1>3, <1>5, <2>2, <2>3, GrantShape
<1>6. ASSUME NEW p \in Pump, Reduce(p)
      PROVE  \A q \in Pump : ExactAt(q)'
  <2>1. /\ pc[p] = "handle" /\ req[p] = "none" /\ req'[p] = "sent"
        /\ asked'[p] = event[p] /\ base'[p] = view[Db]
        /\ \A q \in Pump \ {p} : req'[q] = req[q] /\ asked'[q] = asked[q] /\ base'[q] = base[q]
    BY <1>0, <1>6 DEF Reduce, At, ReadEntity, TypeOK, ViewTypeOK
  <2>2. UNCHANGED <<pos, view, pc, position, cursor, event>>
    BY <1>6 DEF Reduce, pumpVars, serviceVars, loopVars
  <2>3. ExactAt(p)'
    BY <1>1, <2>1, <2>2 DEF ExactAt
  <2> QED
    BY <1>3, <2>1, <2>2, <2>3
<1>7. ASSUME NEW p \in Pump, Persist(p)
      PROVE  \A q \in Pump : ExactAt(q)'
  <2>1. AtWork(p)'
    BY <1>7, PersistShape DEF AtWork
  <2>2. \A q \in Pump \ {p} : ExactAt(q)'
    BY <1>2, <2>1 DEF OneAtWork
  <2>3. asked[p] = pos[Consumer] + 1
    BY <1>1, <1>7, PersistShape DEF ExactAt
  <2>4. pos'[Consumer] = asked[p]
    BY <1>0, <1>7, <2>3, PersistShape, Numbers
  <2>5. ExactAt(p)'
    <3>1. pc[p] \notin {"open", "tick", "beat"} /\ pc' = pc /\ position' = position
      BY <1>7, PersistShape DEF Requests, loopVars
    <3> QED
      BY <1>0, <1>1, <1>7, <2>3, <2>4, <3>1, PersistShape DEF ExactAt
  <2> QED
    BY <2>2, <2>5
<1>8. ASSUME NEW p \in Pump, Dispatched(p)
      PROVE  \A q \in Pump : ExactAt(q)'
  <2>1. pos'[Consumer] = pos[Consumer]
    BY <1>8, DispatchShape DEF serviceVars
  <2>2. cursor[p] = event[p] /\ asked[p] = event[p] /\ asked[p] = pos[Consumer]
    BY <1>1, <1>8, DispatchShape DEF Requests, ExactAt
  <2>3. ExactAt(p)'
    <3>1. position[p] <= pos[Consumer]
      BY <1>1, <1>8, DispatchShape DEF ExactAt
    <3>2. /\ pc'[p] \in {"tick", "beat"} /\ req'[p] = "none" /\ cursor'[p] = cursor[p]
          /\ position'[p] \in {position[p], event[p]}
      BY <1>8, DispatchShape
    <3>3. position'[p] <= pos'[Consumer] /\ cursor'[p] = pos'[Consumer]
      <4>1. cursor'[p] = pos'[Consumer] /\ event[p] = pos'[Consumer]
        BY <2>1, <2>2, <3>2
      <4>2. pos'[Consumer] \in Nat
        BY <1>0, <2>1
      <4>3. event[p] <= pos'[Consumer]
        BY <4>1, <4>2
      <4>4. position[p] <= pos'[Consumer]
        BY <2>1, <3>1
      <4> QED
        BY <3>2, <4>1, <4>3, <4>4
    <3> QED
      BY <3>2, <3>3 DEF ExactAt
  <2> QED
    BY <1>3, <1>8, <2>1, <2>3, DispatchShape
<1>9. ASSUME NEW p \in Pump, NEW o \in {"retry", "fail"}, HandlerFails(p, o), UNCHANGED view,
             \A q \in Pump : \/ req'[q] = req[q] /\ asked'[q] = asked[q] /\ base'[q] = base[q]
                             \/ q = p /\ req'[q] = "none"
      PROVE  \A q \in Pump : ExactAt(q)'
  <2>1. pos' = pos /\ pc'[p] = "release" /\ \A q \in Pump \ {p} : pc'[q] = pc[q]
    BY <1>9, FailureShape DEF TypeOK
  <2>2. ExactAt(p)'
    BY <1>1, <1>9, <2>1 DEF ExactAt
  <2> QED
    BY <1>3, <1>9, <2>1, <2>2, FailureShape DEF TypeOK
<1>10. ASSUME NEW p \in Pump, PersistFails(p)
       PROVE  \A q \in Pump : ExactAt(q)'
  <2>1. \A q \in Pump : \/ req'[q] = req[q] /\ asked'[q] = asked[q] /\ base'[q] = base[q]
                        \/ q = p /\ req'[q] = "none"
    BY <1>10, StageShape DEF PersistFails, TypeOK
  <2> QED
    BY <1>9, <1>10, <2>1 DEF PersistFails
<1>11. ASSUME NEW p \in Pump, NEW o \in {"retry", "fail"}, ReduceFails(p, o)
       PROVE  \A q \in Pump : ExactAt(q)'
  BY <1>9, <1>11 DEF ReduceFails, viewVars
<1>12. ASSUME NEW p \in Pump, RaiseVersion(p) \/ Announce(p) \/ ApplyFails(p)
       PROVE  \A q \in Pump : ExactAt(q)'
  <2>1. UNCHANGED <<pos, view, pc, position, cursor, event>>
    BY <1>12 DEF RaiseVersion, Announce, ApplyFails, pumpVars, serviceVars, loopVars
  <2>2. \/ Stage(p, "raised") /\ req[p] = "committed"
        \/ Stage(p, "done") /\ req[p] = "raised"
        \/ Stage(p, "failed")
        \/ Stage(p, "none") /\ pc[p] # "handle"
    BY <1>12 DEF RaiseVersion, Announce, ApplyFails, Reply
  <2>3. /\ \/ req'[p] = "none" /\ pc[p] # "handle"
           \/ req'[p] = "failed"
           \/ /\ req'[p] \in {"raised", "done"} /\ req[p] \in {"committed", "raised"}
              /\ asked'[p] = asked[p]
        /\ \A q \in Pump \ {p} : req'[q] = req[q] /\ asked'[q] = asked[q] /\ base'[q] = base[q]
    BY <2>2, StageShape DEF TypeOK
  <2> QED
    BY <1>3, <2>1, <2>3
<1>13. CASE Restart
  BY <1>3, <1>13, RestartShape DEF TypeOK, serviceVars
<1>14. CASE Calm \/ \E x \in Payload : Submit(x)
  BY <1>3, <1>14 DEF Calm, Submit, StoreEvent, serviceVars, loopVars, viewVars
<1> QED
  BY <1>4, <1>5, <1>6, <1>7, <1>8, <1>10, <1>11, <1>12, <1>13, <1>14, CalmSteps
     DEF Cases, HandlerStep

-----------------------------------------------------------------------------
(* What the view shows *)

\* Overlap is remembered.
LEMMA OverlapStays == TypeOK /\ Cases /\ ~overlap' => ~overlap
<1> SUFFICES ASSUME TypeOK, Cases, ~overlap' PROVE ~overlap
  OBVIOUS
<1>1. ASSUME NEW p \in Pump, GrantView(p)
      PROVE  ~overlap
  BY <1>1 DEF GrantView
<1> QED
  BY <1>1, WorkSteps

\* The log is only appended to.
LEMMA LogSteps ==
  ASSUME TypeOK, Cases
  PROVE  log' = log \/ \E x \in Payload : log' = Append(log, x)
<1>1. ASSUME NEW p \in Pump, PumpStep(p)
      PROVE  log' = log
  BY <1>1, LoopShape DEF PumpStep, PumpAction, TypeOK, Others
<1> QED
  BY <1>1, GrantShape, DispatchShape, RestartShape, CalmSteps
     DEF Cases, HandlerStep, Reduce, Persist, RaiseVersion, Announce, ApplyFails, PersistFails,
         ReduceFails, HandlerFails, Submit, StoreEvent, Calm, pumpVars, serviceVars, TypeOK

\* Over gRPC a stored position is the id of an event, or 0.
LEMMA StoredPosition ==
  ASSUME TypeOK, Bounds, remote
  PROVE  pos[Consumer] \in Nat /\ pos[Consumer] <= LastId
BY Numbers DEF Bounds

\* Until pumps overlap, the view is the fold up to the position.
LEMMA ViewStep ==
  TypeOK /\ Bounds /\ OneAtWork /\ Exact /\ ViewIsFold /\ [Next]_vars => ViewIsFold'
<1> SUFFICES ASSUME TypeOK, Bounds, OneAtWork, Exact, ViewIsFold, Cases, remote', ~overlap'
             PROVE  view'[Db] = Fold(pos[Consumer])'
  BY NextCases DEF ViewIsFold
<1>0. remote' = remote
  BY Monotone
<1>1. remote
  BY <1>0
<1>2. ~overlap
  BY OverlapStays
<1>3. view[Db] = Fold(pos[Consumer]) /\ FirstId = 1 /\ \A p \in Pump : StoreOf(p) = Db
  BY <1>1, <1>2, Numbers DEF ViewIsFold, StoreOf
<1>4. pos[Consumer] \in Nat /\ pos[Consumer] <= LastId
  BY <1>1, StoredPosition
<1>5. ASSUME NEW k \in Nat, k <= LastId
      PROVE  Fold(k)' = Fold(k)
  BY <1>0, <1>5, FoldSame, LogSteps
<1>6. ASSUME NEW p \in Pump, Persist(p)
      PROVE  view'[Db] = Fold(pos[Consumer])'
  <2>1. asked[p] = pos[Consumer] + 1 /\ base[p] = view[Db] /\ asked[p] <= LastId
    BY <1>1, <1>2, <1>6, PersistShape DEF Exact, ExactAt, Bounds
  <2>2. pos'[Consumer] = pos[Consumer] + 1
    BY <1>1, <1>4, <1>6, <2>1, PersistShape, Numbers
  <2>3. view'[Db] = Reduced(Fold(pos[Consumer]), pos[Consumer] + 1)
    BY <1>3, <1>6, <2>1, PersistShape
  <2>4. view'[Db] = Fold(pos[Consumer] + 1)
    BY <1>3, <1>4, <2>3, FoldNext
  <2>5. pos[Consumer] + 1 \in Nat /\ pos[Consumer] + 1 <= LastId
    BY <1>4, <2>1
  <2> QED
    BY <1>5, <2>2, <2>4, <2>5
<1>7. CASE pos'[Consumer] = pos[Consumer] /\ view'[Db] = view[Db]
  BY <1>3, <1>4, <1>5, <1>7
<1> QED
  BY <1>1, <1>2, <1>6, <1>7, OnlyPersistWrites

\* While an answer is looked at nothing else happens.
LEMMA AnswerFrozen ==
  ASSUME [Next]_vars, reader.at = "answered"
  PROVE  UNCHANGED vars \/ reader' = NoReader
BY DEF Next, ReaderReturns

\* UntilVersion answers with the fold up to the position, which has reached the
\* wanted version.
LEMMA UntilStep ==
  /\ TypeOK /\ Bounds /\ VersionsStored /\ ViewIsFold /\ UntilIsFold /\ [Next]_vars
  => UntilIsFold'
<1> SUFFICES ASSUME TypeOK, Bounds, VersionsStored, ViewIsFold, UntilIsFold, [Next]_vars, Cases,
                    remote', ~overlap', reader'.at = "answered", reader'.mode = "until",
                    reader'.status \in {"ok", "notfound"}
             PROVE  \E k \in reader'.want..LastId' : reader'.entity = Fold(k)'
  BY NextCases DEF UntilIsFold
<1>0. remote' = remote
  BY Monotone
<1>1. remote
  BY <1>0
<1>2. ~overlap
  BY OverlapStays
<1>3. /\ pos[Consumer] \in Nat /\ pos[Consumer] <= LastId /\ LastId \in Int
      /\ view[Db] = Fold(pos[Consumer])
      /\ Stores = {Db} /\ reader.store = Db /\ NoReader.at = "idle"
  BY <1>1, <1>2, StoredPosition, Numbers DEF ViewIsFold, Stores, VersionsStored, NoReader
<1>4. ASSUME UNCHANGED <<pumpVars, observer, viewVars>>, reader'.want \in Int,
             reader'.want <= pos[Consumer], reader'.entity = view[Db]
      PROVE  \E k \in reader'.want..LastId' : reader'.entity = Fold(k)'
  <2>1. LastId' = LastId /\ Fold(pos[Consumer])' = Fold(pos[Consumer]) /\ pos' = pos
    BY <1>4 DEF pumpVars, serviceVars, LastId, Fold, Kept, PayloadOf, FirstId, NoEntity
  <2>2. pos[Consumer] \in reader'.want..LastId'
    BY <1>3, <1>4, <2>1
  <2>3. reader'.entity = Fold(pos[Consumer])'
    BY <1>3, <1>4, <2>1
  <2> QED
    BY <2>1, <2>2, <2>3
<1>5. ASSUME NEW s \in Stores, NEW mode \in {"after", "until"}, Get(s, mode, FirstId + MaxEvents - 1),
             UNCHANGED <<pumpVars, observer, viewVars>>
      PROVE  \E k \in reader'.want..LastId' : reader'.entity = Fold(k)'
  <2>1. reader'.want = FirstId + MaxEvents - 1 /\ reader'.want \in Int
    BY <1>5, Numbers, PumpAssump DEF Get, PumpAssump
  <2>2. reader'.entity = view[Db] /\ view[Db] # NoEntity /\ view[Db].ver >= reader'.want
    BY <1>3, <1>5, <2>1 DEF Get
  <2>3. view[Db].ver = pos[Consumer]
    BY <1>3, <2>2 DEF Fold
  <2> QED
    BY <1>3, <1>4, <1>5, <2>1, <2>2, <2>3
<1>6. CASE reader.at = "answered"
  <2>1. UNCHANGED vars
    BY <1>3, <1>6, AnswerFrozen
  <2>2. \E k \in reader.want..LastId : reader.entity = Fold(k)
    BY <1>1, <1>2, <1>6, <2>1 DEF UntilIsFold, vars, observerVars
  <2>3. UNCHANGED <<remote, log, reader>>
    BY <2>1 DEF vars, pumpVars, serviceVars, observerVars
  <2>4. LastId' = LastId
    BY <2>3 DEF LastId, FirstId
  <2>5. ASSUME NEW k
        PROVE  Fold(k)' = Fold(k)
    BY <2>3 DEF Fold, Kept, PayloadOf, FirstId, NoEntity
  <2> QED
    BY <2>2, <2>3, <2>4, <2>5
<1>7. CASE reader.at # "answered" /\ reader.at = "refetch" /\ reader'.entity = view[reader.store]
           /\ reader'.want = reader.want /\ UNCHANGED <<pumpVars, observer, viewVars>>
  <2>1. reader.want \in Int
    BY PumpAssump DEF TypeOK, ObserverTypeOK, Reader, Ids, PumpAssump
  <2>2. reader.want <= pos[Consumer]
    BY <1>1, <1>7 DEF VersionsStored
  <2> QED
    BY <1>3, <1>4, <1>7, <2>1, <2>2
<1> QED
  BY <1>3, <1>5, <1>6, <1>7, ReaderSteps DEF Subscribed

\* What is appended is last, and the only element is first and last.
LEMMA LastOfQueue ==
  ASSUME NEW q \in Seq(Int), NEW v \in Int
  PROVE  /\ Append(q, v) # <<>> /\ Append(q, v)[Len(Append(q, v))] = v
         /\ q # <<>> /\ Tail(q) = <<>> => Len(q) = 1
<1>1. Len(Append(q, v)) = Len(q) + 1 /\ Len(q) \in Nat /\ Append(q, v)[Len(q) + 1] = v
  OBVIOUS
<1>2. Append(q, v) # <<>>
  BY <1>1
<1>3. q # <<>> /\ Tail(q) = <<>> => Len(q) = 1
  <2> SUFFICES ASSUME q # <<>>, Tail(q) = <<>> PROVE Len(q) = 1
    OBVIOUS
  <2> DEFINE r == Tail(q)
  <2>1. Len(r) = Len(q) - 1
    OBVIOUS
  <2>2. r = <<>>
    OBVIOUS
  <2> HIDE DEF r
  <2>3. Len(r) = 0
    BY <2>2
  <2> QED
    BY <1>1, <2>1, <2>3
<1> QED
  BY <1>1, <1>2, <1>3

\* The newest change is the last one in a watcher's channel, or was sent.
LEMMA ChangeStep ==
  TypeOK /\ VersionsStored /\ Exact /\ ChangeQueued /\ [Next]_vars => ChangeQueued'
<1> DEFINE Said(w, v) == IF w.ch = <<>> THEN w.sent >= v \/ v <= w.after
                                        ELSE w.ch[Len(w.ch)] = v
<1> SUFFICES ASSUME TypeOK, VersionsStored, Exact, ChangeQueued, Cases,
                    watcher'.on, ~overlap', ~watcher'.dropped, notified'[Db] > watcher'.since,
                    \A p \in Pump : req'[p] # "raised"
             PROVE  Said(watcher', notified'[Db])
  BY NextCases DEF ChangeQueued
<1>0. ~overlap
  BY OverlapStays
<1>1. /\ watcher \in Watcher /\ watcher.ch \in Seq(Int) /\ notified[Db] \in Int
      /\ watcher.sent \in Int /\ watcher.after \in Int
  <2>1. watcher \in Watcher
    BY DEF TypeOK, ObserverTypeOK
  <2>2. Ids \subseteq Int /\ notified[Db] \in Int
    BY Numbers, PumpAssump DEF TypeOK, ViewTypeOK, PumpAssump, Ids
  <2>3. watcher.ch \in Seq(Ids) /\ watcher.sent \in Ids /\ watcher.after \in Ids
    BY <2>1 DEF Watcher
  <2> QED
    BY <2>1, <2>2, <2>3, SeqMonotonic
<1>2. ASSUME watcher' = watcher, notified'[Db] = notified[Db], \A p \in Pump : req[p] # "raised"
      PROVE  Said(watcher', notified'[Db])
  BY <1>0, <1>2 DEF ChangeQueued
<1>3. ASSUME NEW p \in Pump, Announce(p)
      PROVE  Said(watcher', notified'[Db])
  <2>1. req[p] = "raised" /\ notified' = notified
    BY <1>3 DEF Announce
  <2>2. watcher.on
    BY <1>3 DEF Announce
  <2>3. remote
    BY <2>2 DEF VersionsStored
  <2>4. asked[p] = notified[Db]
    <3>1. asked[p] <= notified[Db] /\ notified[Db] <= pos[Consumer]
      BY <2>1, <2>3 DEF VersionsStored
    <3>2. asked[p] = pos[Consumer]
      BY <1>0, <2>1, <2>3 DEF Exact, ExactAt
    <3> QED
      BY <1>1, <3>1, <3>2, Numbers
  <2>5. watcher' = Offer(watcher, asked[p])
    BY <1>3, <2>2 DEF Announce
  <2>6. CASE Len(watcher.ch) < ChangeBuf
    <3>1. watcher' = [watcher EXCEPT !.ch = Append(watcher.ch, asked[p])]
      BY <2>5, <2>6 DEF Offer
    <3>2. watcher'.ch = Append(watcher.ch, asked[p])
      BY <1>1, <3>1 DEF Watcher
    <3>3. watcher'.ch # <<>> /\ watcher'.ch[Len(watcher'.ch)] = asked[p]
      BY <1>1, <2>4, <3>2, LastOfQueue
    <3> QED
      BY <2>1, <2>4, <3>3
  <2>7. CASE ~(Len(watcher.ch) < ChangeBuf)
    <3>1. watcher' = [watcher EXCEPT !.dropped = TRUE]
      BY <2>5, <2>7 DEF Offer
    <3>2. watcher'.dropped = TRUE
      BY <1>1, <3>1 DEF Watcher
    <3> QED
      BY <3>2
  <2> QED
    BY <2>6, <2>7
<1>4. CASE SendChange
  <2>1. /\ watcher.on /\ watcher.ch # <<>> /\ UNCHANGED <<notified, req>>
        /\ watcher' = [watcher EXCEPT !.ch = Tail(watcher.ch),
                         !.sent = IF Head(watcher.ch) <= watcher.after THEN watcher.sent
                                  ELSE Head(watcher.ch)]
    BY <1>4 DEF SendChange, OnlyWatcher, viewVars
  <2>2. /\ watcher'.ch = Tail(watcher.ch) /\ watcher'.after = watcher.after
        /\ watcher'.since = watcher.since /\ watcher'.dropped = watcher.dropped
        /\ watcher'.sent = IF Head(watcher.ch) <= watcher.after THEN watcher.sent
                           ELSE Head(watcher.ch)
    BY <1>1, <2>1 DEF Watcher
  <2>3. watcher.ch[Len(watcher.ch)] = notified[Db]
    BY <1>0, <2>1, <2>2 DEF ChangeQueued
  <2>4. CASE Tail(watcher.ch) = <<>>
    <3>1. Head(watcher.ch) = notified[Db]
      <4>1. Len(watcher.ch) = 1
        BY <1>1, <2>1, <2>4, LastOfQueue
      <4> QED
        BY <1>1, <2>1, <2>3, <4>1
    <3> QED
      BY <1>1, <2>1, <2>2, <2>4, <3>1
  <2>5. CASE Tail(watcher.ch) # <<>>
    <3>1. watcher'.ch[Len(watcher'.ch)] = notified[Db]
      <4> DEFINE ch == watcher.ch
                 rest == Tail(ch)
      <4>1. ch \in Seq(Int) /\ ch # <<>> /\ rest # <<>>
        BY <1>1, <2>1, <2>5
      <4> HIDE DEF ch
      <4>2. rest \in Seq(Int) /\ Len(rest) = Len(ch) - 1 /\ Len(ch) \in Nat
        BY <4>1
      <4>3. Len(ch) >= 2
        <5> HIDE DEF rest
        <5> QED
          BY <4>1, <4>2
      <4>4. rest[Len(ch) - 1] = ch[Len(ch)]
        BY <4>1, <4>2, <4>3
      <4>5. watcher'.ch = rest /\ ch[Len(ch)] = notified[Db]
        BY <2>2, <2>3 DEF ch
      <4>6. UNCHANGED notified
        BY <2>1
      <4> QED
        BY <4>2, <4>4, <4>5, <4>6
    <3> QED
      BY <2>1, <2>2, <2>5, <3>1
  <2> QED
    BY <2>4, <2>5
<1>5. CASE WatchChanges(1)
  <2>1. watcher'.since = notified[Db] /\ notified' = notified
    BY <1>5 DEF WatchChanges, OnlyWatcher, viewVars
  <2> QED
    BY <1>1, <2>1
<1>6. CASE WatchEnds \/ Restart
  BY <1>6 DEF WatchEnds, Restart, NoWatcher
<1>7. ASSUME NEW p \in Pump, RaiseVersion(p)
      PROVE  FALSE
  BY <1>7, StageShape DEF RaiseVersion, TypeOK
<1>8. ASSUME NEW p \in Pump, Reduce(p) \/ Persist(p)
      PROVE  /\ watcher' = watcher /\ notified'[Db] = notified[Db]
             /\ \A q \in Pump : req[q] # "raised"
  <2>1. watcher' = watcher /\ notified' = notified
    BY <1>8 DEF Reduce, Persist, observerVars
  <2>2. req[p] # "raised" /\ \A q \in Pump \ {p} : req'[q] = req[q]
    BY <1>8, PersistShape DEF Reduce, TypeOK, ViewTypeOK
  <2> QED
    BY <2>1, <2>2
<1>9. ASSUME NEW p \in Pump, ApplyFails(p) \/ Dispatched(p) \/ PersistFails(p)
      PROVE  /\ watcher' = watcher /\ notified'[Db] = notified[Db]
             /\ \A q \in Pump : req[q] # "raised"
  <2>1. watcher' = watcher /\ notified' = notified
    BY <1>9 DEF ApplyFails, Dispatched, PersistFails, observerVars
  <2>2. \/ req' = req
        \/ \E st \in {"none", "done", "failed"} : Stage(p, st) /\ req[p] # "raised"
    BY <1>9 DEF ApplyFails, Dispatched, PersistFails, Reply
  <2>3. \A q \in Pump : req[q] = "raised" => req'[q] = "raised"
    BY <2>2, StageShape DEF TypeOK
  <2> QED
    BY <2>1, <2>3
<1>10. ASSUME \/ \E p \in Pump : \/ PumpStep(p) \/ GrantView(p)
                                 \/ \E o \in {"retry", "fail"} : ReduceFails(p, o)
              \/ \E x \in Payload : Submit(x)
              \/ \E e \in emits : EmitState(e)
              \/ UNCHANGED vars
              \/ \E s \in Stores, mode \in {"after", "until"} : Get(s, mode, FirstId + MaxEvents - 1)
              \/ ReaderStep \/ WaitTimeout \/ ReaderReturns
              \/ \E p \in Pump, target \in PumpState : WaitForState(p, target)
              \/ WaiterStep \/ WaiterGivesUp
       PROVE  UNCHANGED <<watcher, notified, req>>
  BY <1>10
     DEF ReaderStep, WaiterStep, PumpStep, GrantView, ReduceFails, Submit, EmitState, Get,
         WaitSubscribe, WaitCheck, WaitWake, WaitTimeout, Refetch, ReaderReturns, WaitForState,
         OnStateChange, StateCheckAgain, WaiterWakes, WaiterGivesUp, OnlyReader, OnlyWaiter,
         observerVars, viewVars, vars
<1> HIDE DEF Said
<1> QED
  BY <1>2, <1>3, <1>4, <1>5, <1>6, <1>7, <1>8, <1>9, <1>10 DEF Cases, HandlerStep, LookOn

-----------------------------------------------------------------------------
(* The theorems *)

\* Before anything happens nothing is stored, handled or asked for.
LEMMA ProjectionInvInit == Init => ProjectionInv
<1> SUFFICES ASSUME Init PROVE ProjectionInv
  OBVIOUS
<1>0. /\ NoEntity \in Entity /\ 0 \in Ids /\ Ids \subseteq Nat /\ -1 \in -1..MaxEvents
      /\ Db \in Store /\ <<>> \in Seq(Payload) /\ <<>> \in Seq(Ids)
      /\ \A p \in Pump : StoreOf(p) \in Store
  BY PumpAssump DEF PumpAssump, NoEntity, Entity, Ids, Store, StoreOf
<1>1. PumpTypeOK
  BY <1>0, PumpAssump DEF Init, PumpInit, PumpTypeOK, PumpState, PumpAssump
<1>2. ViewTypeOK
  BY <1>0 DEF Init, ViewTypeOK
<1>3. ObserverTypeOK
  <2>1. NoReader \in Reader
    BY <1>0 DEF NoReader, Reader
  <2>2. 0 \in -1..MaxEvents
    BY PumpAssump DEF PumpAssump
  <2>3. NoWatcher \in Watcher
    BY <1>0, <2>2 DEF NoWatcher, Watcher
  <2>4. NoWatcher.ch = <<>>
    BY DEF NoWatcher
  <2>5. Len(NoWatcher.ch) <= ChangeBuf
    BY <2>4, ProjectionAssump DEF ProjectionAssump
  <2>6. NoWaiter \in Waiter
    BY <1>0 DEF NoWaiter, Waiter, PumpState
  <2> QED
    BY <2>1, <2>3, <2>5, <2>6 DEF Init, ObserverTypeOK
<1>4. TypeOK
  BY <1>1, <1>2, <1>3 DEF TypeOK
<1>5. LastId >= -1 /\ FirstId \in {0, 1} /\ (remote => FirstId = 1)
  BY DEF Init, PumpInit, LastId, FirstId
<1>6. Bounds /\ Alone /\ Requests
  BY <1>5 DEF Init, PumpInit, Bounds, Alone, Requests
<1>7. PositionsHandled /\ LoopHandled /\ RequestHandled
  BY DEF Init, PumpInit, PositionsHandled, LoopHandled, RequestHandled
<1>8. VersionsHandled /\ AnswerCovers
  BY <1>5 DEF Init, VersionsHandled, AnswerCovers, NoReader, NoEntity
<1>9. VersionsStored /\ OneAtWork /\ Exact
  <2>1. notified[Db] = -1 /\ pos[Consumer] = 0
    BY <1>0, ProjectionAssump DEF Init, PumpInit, ProjectionAssump
  <2>2. \A p \in Pump : pc[p] = "idle" /\ req[p] = "none"
    BY DEF Init, PumpInit
  <2>3. reader.store = Db /\ reader.at = "idle" /\ watcher.on = FALSE
    BY DEF Init, NoReader, NoWatcher
  <2> QED
    BY <2>1, <2>2, <2>3 DEF VersionsStored, OneAtWork, AtWork, Exact, ExactAt
<1>10. ViewIsFold
  BY <1>0, FoldNone, ProjectionAssump DEF Init, PumpInit, ViewIsFold, ProjectionAssump
<1>11. UntilIsFold /\ ChangeQueued /\ NoMissedVersion /\ NoSleepInState
  BY DEF Init, UntilIsFold, ChangeQueued, NoMissedVersion, NoSleepInState, NoReader, NoWatcher,
     NoWaiter
<1> QED
  BY <1>4, <1>6, <1>7, <1>8, <1>9, <1>10, <1>11 DEF ProjectionInv, DeliveryInv, ExactInv

\* The inductive invariant of pumps, stores, notifiers and observers: positions
\* and versions follow the handled events, and a single pump at work is exactly at
\* the stored position (pump.go, PGStore.Persist, Notifier.Emit, resolveGet,
\* changeStream, WaitForState).
THEOREM ProjectionInvariant == Spec => []ProjectionInv
<1>1. Init => ProjectionInv
  BY ProjectionInvInit
<1>2. ProjectionInv /\ [Next]_vars => ProjectionInv'
  <2> SUFFICES ASSUME ProjectionInv, [Next]_vars PROVE ProjectionInv'
    OBVIOUS
  <2> USE DEF ProjectionInv, DeliveryInv, ExactInv
  <2>1. TypeOK'
    BY TypeStep
  <2>2. DeliveryInv'
    BY BoundsStep, AloneStep, RequestsStep, PositionsHandledStep, LoopHandledStep,
       RequestHandledStep, VersionsHandledStep, AnswerStep
  <2>3. ExactInv'
    BY VersionsStoredStep, OneAtWorkStep, ExactStep, ViewStep, UntilStep, ChangeStep
  <2>4. NoMissedVersion' /\ NoSleepInState'
    BY NoMissedStep, NoSleepStep
  <2> QED
    BY <2>1, <2>2, <2>3, <2>4
<1> QED
  BY <1>1, <1>2, PTL DEF Spec

\* Every event up to a stored position was handled and persisted by some pump,
\* whatever overlaps, fails or restarts (pump.go, applyHeartbeat, PGStore.Persist).
THEOREM EventsAtLeastOnce == Spec => []AtLeastOnce
<1>1. ProjectionInv => AtLeastOnce
  <2> SUFFICES ASSUME ProjectionInv, NEW n \in Name, pos[n] > 0
               PROVE  FirstId..pos[n] \subseteq UNION {handled[s] : s \in Stores}
    BY DEF AtLeastOnce
  <2>1. PICK s \in Active : FirstId..pos[n] \subseteq handled[s]
    BY DEF ProjectionInv, DeliveryInv, PositionsHandled
  <2>2. s \in Stores
    BY DEF Active, Stores
  <2> QED
    BY <2>1, <2>2
<1> QED
  BY <1>1, ProjectionInvariant, PTL

\* Until pumps overlap, the view in Postgres is the fold of exactly the events up
\* to the position stored with it: no crash, retry or takeover loses an event or
\* applies one twice (PGStore.Persist, ResumeAfter).
THEOREM ViewIsFoldOfPrefix == Spec => []ViewInv
<1>1. ProjectionInv => ViewInv
  BY DEF ProjectionInv, ExactInv, ViewInv
<1> QED
  BY <1>1, ProjectionInvariant, PTL

\* A version-constrained Get that succeeds shows a view in which every event up to
\* the wanted one took part (resolveGet, resolveUntilVersion, waitUntilVersion).
THEOREM GetCoversVersion == Spec => []AnswerCovers
<1>1. ProjectionInv => AnswerCovers
  BY DEF ProjectionInv, DeliveryInv
<1> QED
  BY <1>1, ProjectionInvariant, PTL

\* What UntilVersion returns is the entity after some prefix of the stream that
\* includes the wanted event (waitUntilVersion and the read that follows it).
THEOREM UntilVersionIsFold == Spec => []UntilIsFold
<1>1. ProjectionInv => UntilIsFold
  BY DEF ProjectionInv, ExactInv
<1> QED
  BY <1>1, ProjectionInvariant, PTL

\* A pump that has nothing left to read has every stored event handled in its
\* store (RunWithDomainStream, ResumeAfter).
THEOREM QuietPumpIsDone == Spec => []QuietMeansProjected
<1>1. ProjectionInv => QuietMeansProjected
  BY DEF ProjectionInv, DeliveryInv, LoopHandled, QuietMeansProjected
<1> QED
  BY <1>1, ProjectionInvariant, PTL

\* No reader sleeps below a version that is reached without a wakeup on its way
\* (Notifier.WaitForVersion against Notifier.Emit).
THEOREM NoVersionMissed == Spec => []NoMissedVersion
<1>1. ProjectionInv => NoMissedVersion
  BY DEF ProjectionInv
<1> QED
  BY <1>1, ProjectionInvariant, PTL

\* No caller of WaitForState sleeps in the state it waits for (pump.setState by the
\* loop and by the cancellation monitor).
THEOREM NoStateMissed == Spec => []NoSleepInState
<1>1. ProjectionInv => NoSleepInState
  BY DEF ProjectionInv
<1> QED
  BY <1>1, ProjectionInvariant, PTL

\* A watcher whose buffer never overflowed is not left without the newest change
\* (changeStream).
THEOREM NoChangeMissed == Spec => []ChangesNotMissed
<1>1. ProjectionInv => ChangesNotMissed
  BY DEF ProjectionInv, ExactInv, ChangeQueued, ChangesNotMissed
<1> QED
  BY <1>1, ProjectionInvariant, PTL
=============================================================================
