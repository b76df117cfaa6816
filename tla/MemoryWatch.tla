---------------------------- MODULE MemoryWatch ----------------------------
(***************************************************************************)
(* Submit and Watch of the in-memory transport, for one stream and one     *)
(* watch.  Packets are appended, and the watch's callback runs, on the     *)
(* single service goroutine; Tick runs on the consumer's.  The callback    *)
(* feeds pendingEvents, a bounded channel; Tick first catches up on what   *)
(* is stored and then follows the channel.                                 *)
(***************************************************************************)
EXTENDS Integers, Sequences

CONSTANTS
  Kind,        \* kinds of events
  Watched,     \* the kinds the query's clauses select
  Buffer,      \* capacity of pendingEvents
  MaxEvents    \* bound on the stream's length

ASSUME MemWatchAssump ==
  /\ Watched \subseteq Kind
  /\ Buffer \in Nat \ {0}
  /\ MaxEvents \in Nat

VARIABLES
  packets,     \* kinds of the stored packets; the id of the first is 0
  listening,   \* the callback is registered; nothing ever removes it
  pendingEvents, \* ids in the channel
  closed,      \* the channel was closed
  panicked,    \* the service goroutine sent on the closed channel
  after,       \* AfterID of the query, -1 when it has none
  initDone, lastEvent,
  scan,        \* next envelope of the catch-up's loop, -1 when it does not run
  all,         \* number of envelopes the catch-up read
  pending,     \* events enqueued and not yet returned by Tick
  delivered,   \* ids Tick returned
  lost         \* ids whose Tick failed after it took them from the channel

catchup == <<initDone, scan, all>>
channel == <<pendingEvents, closed, panicked>>
vars == <<packets, listening, channel, after, catchup, lastEvent, pending, delivered, lost>>

Ids == 0..MaxEvents - 1

TypeOK ==
  /\ packets \in Seq(Kind)
  /\ listening \in BOOLEAN
  /\ pendingEvents \in Seq(Ids)
  /\ closed \in BOOLEAN
  /\ panicked \in BOOLEAN
  /\ after \in {-1} \cup Ids
  /\ initDone \in BOOLEAN
  /\ lastEvent \in {-1} \cup Ids
  /\ scan \in -1..MaxEvents
  /\ all \in 0..MaxEvents
  /\ pending \in Seq(Ids)
  /\ delivered \in Seq(Ids)
  /\ lost \subseteq Ids

Init ==
  /\ packets = <<>>
  /\ listening = FALSE
  /\ pendingEvents = <<>>
  /\ closed = FALSE
  /\ panicked = FALSE
  /\ after = -1
  /\ initDone = FALSE
  /\ lastEvent = -1
  /\ scan = -1
  /\ all = 0
  /\ pending = <<>>
  /\ delivered = <<>>
  /\ lost = {}
-----------------------------------------------------------------------------
Stored == 0..Len(packets) - 1

\* queryInFilter.filter: the query selects the packet with this id.
Passes(id) == packets[id + 1] \in Watched /\ id > after

\* enqueue's guard.  (mutant: off by one)
FreshOrLast(id) == id >= lastEvent
Fresh(id) == id > lastEvent

\* The filter, and enqueue for what passes it.
Enqueue(id) ==
  IF Passes(id) /\ Fresh(id)
  THEN pending' = Append(pending, id) /\ lastEvent' = id
  ELSE UNCHANGED <<pending, lastEvent>>

\* The callback: a full channel is closed, and a send on it then panics.
\* (mutant: an event that finds the buffer full is dropped, even with room for one)
NotifyDropping(id) ==
  IF ~listening \/ Len(pendingEvents) + 1 >= Buffer
  THEN UNCHANGED channel
  ELSE pendingEvents' = Append(pendingEvents, id) /\ UNCHANGED <<closed, panicked>>
Notify(id) ==
  \/ /\ ~listening
     /\ UNCHANGED channel
  \/ /\ listening /\ ~closed /\ Len(pendingEvents) < Buffer
     /\ pendingEvents' = Append(pendingEvents, id)
     /\ UNCHANGED <<closed, panicked>>
  \/ /\ listening /\ ~closed /\ Len(pendingEvents) = Buffer
     /\ closed' = TRUE
     /\ UNCHANGED <<pendingEvents, panicked>>
  \/ /\ listening /\ closed
     /\ panicked' = TRUE
     /\ UNCHANGED <<pendingEvents, closed>>

Submit(k) ==
  /\ ~panicked
  /\ Len(packets) < MaxEvents
  /\ packets' = Append(packets, k)
  /\ Notify(Len(packets))
  /\ UNCHANGED <<listening, after, catchup, lastEvent, pending, delivered, lost>>

Watch(a) ==
  /\ ~panicked /\ ~listening
  /\ listening' = TRUE
  /\ after' = a
  /\ UNCHANGED <<packets, channel, catchup, lastEvent, pending, delivered, lost>>
-----------------------------------------------------------------------------
(* Tick, by what it does next *)

Ticking == listening /\ ~panicked

Pop ==
  /\ Ticking
  /\ pending # <<>> /\ scan = -1
  /\ delivered' = Append(delivered, Head(pending))
  /\ pending' = Tail(pending)
  /\ UNCHANGED <<packets, listening, channel, after, catchup, lastEvent, lost>>

\* processInitEvents reads all the envelopes ...
AllEnvelopes ==
  /\ Ticking
  /\ pending = <<>> /\ ~initDone /\ scan = -1
  /\ scan' = 0
  /\ all' = Len(packets)
  /\ UNCHANGED <<packets, listening, channel, after, initDone, lastEvent, pending, delivered,
                 lost>>

\* ... filters and enqueues one after the other, ...
FilterEnvelope ==
  /\ Ticking
  /\ scan >= 0 /\ scan < all
  /\ Enqueue(scan)
  /\ scan' = scan + 1
  /\ UNCHANGED <<packets, listening, channel, after, initDone, all, delivered, lost>>

\* ... and is done; if its Tick's context ends while an event is fetched, it
\* starts over at a later Tick.  (mutant: a failure half-way counts as done)
EndInitEvents(done) ==
  /\ Ticking
  /\ initDone' = done
  /\ scan' = -1
  /\ all' = 0
  /\ UNCHANGED <<packets, listening, channel, after, lastEvent, pending, delivered, lost>>
ProcessInitEvents == scan >= 0 /\ scan = all /\ EndInitEvents(TRUE)
FailInitEventsDone == scan >= 0 /\ EndInitEvents(TRUE)
FailInitEvents == scan >= 0 /\ EndInitEvents(FALSE)

\* processNewEvent.  Receiving from the closed and drained channel yields 0.
Receive(id) ==
  \/ /\ pendingEvents # <<>>
     /\ id = Head(pendingEvents)
     /\ pendingEvents' = Tail(pendingEvents)
  \/ /\ pendingEvents = <<>> /\ closed
     /\ id = 0
     /\ UNCHANGED pendingEvents

ProcessNewEvent(id) ==
  /\ Ticking
  /\ pending = <<>> /\ initDone
  /\ Receive(id)
  /\ Enqueue(id)
  /\ UNCHANGED <<packets, listening, closed, panicked, after, catchup, delivered, lost>>

\* The Tick's context ends while it fetches the envelope or the event.
FailNewEvent(id) ==
  /\ Ticking
  /\ pending = <<>> /\ initDone
  /\ Receive(id)
  /\ lost' = lost \cup {id}
  /\ UNCHANGED <<packets, listening, closed, panicked, after, catchup, lastEvent, pending,
                 delivered>>

Tick ==
  \/ Pop \/ AllEnvelopes \/ FilterEnvelope \/ ProcessInitEvents
  \/ \E id \in Stored : ProcessNewEvent(id)

Next ==
  \/ \E k \in Kind : Submit(k)
  \/ \E a \in {-1} \cup Stored : Watch(a)
  \/ Tick
  \/ FailInitEvents
  \/ \E id \in Stored : FailNewEvent(id)

Spec == Init /\ [][Next]_vars

\* The consumer keeps calling Tick, in the end with contexts that let the
\* catch-up finish.
Fairness == WF_vars(Tick) /\ <>[][~FailInitEvents]_vars

FairSpec == Spec /\ Fairness
-----------------------------------------------------------------------------
(* Properties *)

InSeq(s) == {s[i] : i \in DOMAIN s}
Wanted == {id \in Stored : Passes(id)}

\* Tick returns strictly increasing ids, although the catch-up and the channel
\* overlap and the catch-up may be repeated.
DeliveredIncreasing ==
  LET s == delivered \o pending IN
  \A i, j \in DOMAIN s : i < j => s[i] < s[j]

\* The types, and what Tick returned so far is in order (memoryWatch.enqueue).
DeliveredInv == TypeOK /\ DeliveredIncreasing

\* Once caught up, every wanted event was delivered, is queued, or is in the
\* channel, because the callback was registered before the catch-up; only an
\* event whose own Tick failed, or a full channel, makes an exception.
NothingForgotten ==
  initDone /\ ~closed =>
    Wanted \ lost \subseteq InSeq(delivered) \cup InSeq(pending) \cup InSeq(pendingEvents)

(* The inductive strengthening of these invariants *)

Increasing(s) == \A i, j \in DOMAIN s : i < j => s[i] < s[j]
Handled == InSeq(delivered) \cup InSeq(pending)

\* A call that was not made yet has read and done nothing.
NotListening ==
  ~listening => /\ pendingEvents = <<>> /\ ~closed /\ ~initDone /\ scan = -1
                /\ pending = <<>> /\ delivered = <<>> /\ lastEvent = -1

\* The catch-up reads stored envelopes, in order, and before it is done.
ScanInv ==
  /\ Len(packets) <= MaxEvents /\ lastEvent < Len(packets)
  /\ all <= Len(packets) /\ scan <= all
  /\ scan >= 0 => ~initDone

\* What is queued comes after what was delivered, and nothing after lastEvent.
QueueInv ==
  /\ Increasing(delivered) /\ Increasing(pending)
  /\ \A d \in InSeq(delivered), p \in InSeq(pending) : d < p
  /\ \A id \in Handled : id <= lastEvent

\* The channel holds stored ids in order.
ChannelInv ==
  /\ Increasing(pendingEvents)
  /\ \A id \in InSeq(pendingEvents) : id \in Stored

\* No wanted event at or before lastEvent was passed over.
NoneSkipped ==
  ~closed => \A id \in Wanted \ lost : id <= lastEvent => id \in Handled

\* What the catch-up has read is handled; what it did not read was announced.
ScanComplete ==
  scan >= 0 /\ ~closed =>
    /\ \A id \in Wanted \ lost : id < scan => id \in Handled
    /\ \A id \in Wanted : id >= all => id \in InSeq(pendingEvents)

MemWatchInv ==
  /\ TypeOK
  /\ NotListening
  /\ ScanInv
  /\ QueueInv
  /\ ChannelInv
  /\ NoneSkipped
  /\ ScanComplete
  /\ NothingForgotten
-----------------------------------------------------------------------------
\* Every wanted event is delivered as long as the channel does not fill up and
\* the Tick that takes the event from it is not cancelled.
EventuallyDelivered ==
  \A id \in Ids :
    (listening /\ id \in Wanted) ~> (id \in InSeq(delivered) \/ closed \/ id \in lost)
=============================================================================
