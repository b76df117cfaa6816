------------------------- MODULE MemoryWatchProofs -------------------------
(***************************************************************************)
(* Proofs about Submit and Watch of the in-memory transport, for any       *)
(* kinds, any query, any capacity of the channel and any stream length.    *)
(***************************************************************************)
EXTENDS MemoryWatch, SequenceTheorems, TLAPS

USE DEF catchup, channel

-----------------------------------------------------------------------------
(* Queues of increasing ids *)

\* An empty sequence holds nothing.
LEMMA InEmpty == InSeq(<<>>) = {} /\ Increasing(<<>>)
BY DEF InSeq, Increasing

\* Appending adds one element, and keeps the order if that one is larger.
LEMMA InAppend ==
  ASSUME NEW S, NEW s \in Seq(S), NEW x \in S
  PROVE  /\ Append(s, x) \in Seq(S)
         /\ InSeq(Append(s, x)) = InSeq(s) \cup {x}
<1>1. /\ DOMAIN s = 1..Len(s) /\ Len(s) \in Nat
      /\ DOMAIN Append(s, x) = 1..Len(s) + 1
      /\ Append(s, x)[Len(s) + 1] = x
      /\ \A i \in 1..Len(s) : Append(s, x)[i] = s[i]
  OBVIOUS
<1> QED
  BY <1>1, AppendProperties DEF InSeq
\* A greater element at the end keeps a sequence increasing.
LEMMA IncreasingAppend ==
  ASSUME NEW s \in Seq(Int), NEW x \in Int, Increasing(s), \A y \in InSeq(s) : y < x
  PROVE  Increasing(Append(s, x))
<1>1. /\ DOMAIN s = 1..Len(s) /\ Len(s) \in Nat
      /\ DOMAIN Append(s, x) = 1..Len(s) + 1
      /\ Append(s, x)[Len(s) + 1] = x
      /\ \A i \in 1..Len(s) : Append(s, x)[i] = s[i]
  OBVIOUS
<1>2. \A i \in 1..Len(s) : s[i] < x
  BY <1>1 DEF InSeq
<1> QED
  BY <1>1, <1>2 DEF Increasing

\* Taking the head of an increasing queue takes its least element.
LEMMA InTail ==
  ASSUME NEW S, NEW s \in Seq(S), s # <<>>
  PROVE  /\ Head(s) \in S /\ Tail(s) \in Seq(S)
         /\ InSeq(s) = {Head(s)} \cup InSeq(Tail(s))
<1>1. /\ DOMAIN s = 1..Len(s) /\ Len(s) \in Nat \ {0}
      /\ Head(s) = s[1] /\ Tail(s) \in Seq(S)
      /\ DOMAIN Tail(s) = 1..Len(s) - 1
      /\ \A i \in 1..Len(s) - 1 : Tail(s)[i] = s[i + 1]
  OBVIOUS
<1>2. ASSUME NEW i \in 2..Len(s)
      PROVE  s[i] = Tail(s)[i - 1] /\ i - 1 \in 1..Len(s) - 1
  BY <1>1
<1>3. InSeq(s) \subseteq {Head(s)} \cup InSeq(Tail(s))
  <2> SUFFICES ASSUME NEW i \in 1..Len(s), s[i] # s[1]
               PROVE  s[i] \in InSeq(Tail(s))
    BY <1>1 DEF InSeq
  <2>1. i \in 2..Len(s)
    BY <1>1
  <2> QED
    BY <1>1, <1>2, <2>1 DEF InSeq
<1>4. {Head(s)} \cup InSeq(Tail(s)) \subseteq InSeq(s)
  <2>1. \A i \in 1..Len(s) - 1 : i + 1 \in 1..Len(s)
    BY <1>1
  <2>2. 1 \in 1..Len(s)
    BY <1>1
  <2> QED
    BY <1>1, <2>1, <2>2 DEF InSeq
<1> QED
  BY <1>1, <1>3, <1>4
\* The tail of an increasing sequence is increasing.
LEMMA IncreasingTail ==
  ASSUME NEW s \in Seq(Int), s # <<>>, Increasing(s)
  PROVE  /\ Increasing(Tail(s))
         /\ \A y \in InSeq(Tail(s)) : Head(s) < y
<1>1. /\ DOMAIN s = 1..Len(s) /\ Len(s) \in Nat \ {0}
      /\ Head(s) = s[1]
      /\ DOMAIN Tail(s) = 1..Len(s) - 1
      /\ \A i \in 1..Len(s) - 1 : Tail(s)[i] = s[i + 1]
  OBVIOUS
<1>2. Increasing(Tail(s))
  BY <1>1, SMTT(20) DEF Increasing
<1>3. \A i \in 1..Len(s) - 1 : s[1] < s[i + 1]
  BY <1>1 DEF Increasing
<1> QED
  BY <1>1, <1>2, <1>3 DEF InSeq
-----------------------------------------------------------------------------
(* The state of the watch *)

\* What is wanted depends on the stored packets and on AfterID.
LEMMA WantedSame ==
  ASSUME UNCHANGED <<packets, after>>
  PROVE  Wanted' = Wanted /\ Stored' = Stored
BY DEF Wanted, Stored, Passes

\* A Submit adds at most its own event to what is wanted.
LEMMA WantedSubmit ==
  ASSUME TypeOK, NEW k \in Kind, Submit(k)
  PROVE  /\ Wanted' \subseteq Wanted \cup {Len(packets)}
         /\ Stored' = Stored \cup {Len(packets)}
         /\ Len(packets') = Len(packets) + 1
<1>1. /\ packets' = Append(packets, k) /\ after' = after
      /\ packets \in Seq(Kind) /\ Len(packets) \in Nat
  BY DEF Submit, TypeOK
<1>2. /\ Len(packets') = Len(packets) + 1
      /\ \A i \in 1..Len(packets) : packets'[i] = packets[i]
  BY <1>1
<1>3. Stored' = Stored \cup {Len(packets)}
  BY <1>1, <1>2 DEF Stored
<1>4. ASSUME NEW id \in Stored
      PROVE  Passes(id)' <=> Passes(id)
  <2>1. id + 1 \in 1..Len(packets)
    BY <1>1 DEF Stored
  <2> QED
    BY <1>1, <1>2, <2>1 DEF Passes
<1> QED
  BY <1>2, <1>3, <1>4 DEF Wanted

\* The stored ids are ids, and so integers.
LEMMA StoredTyped ==
  ASSUME TypeOK, ScanInv
  PROVE  /\ Stored \subseteq Ids /\ Ids \subseteq Int /\ Wanted \subseteq Stored
         /\ \A id \in Ids : id >= 0
         /\ lastEvent \in Int /\ scan \in Int /\ all \in Int /\ Len(packets) \in Nat
         /\ pending \in Seq(Int) /\ delivered \in Seq(Int) /\ pendingEvents \in Seq(Int)
<1>1. /\ lastEvent \in Int /\ scan \in Int /\ all \in Int /\ Len(packets) \in Nat
      /\ Ids \subseteq Int /\ \A id \in Ids : id >= 0
  BY MemWatchAssump DEF MemWatchAssump, TypeOK, Ids
<1>2. Stored \subseteq Ids
  BY <1>1, MemWatchAssump DEF MemWatchAssump, ScanInv, Stored, Ids
<1>3. pending \in Seq(Int) /\ delivered \in Seq(Int) /\ pendingEvents \in Seq(Int)
  BY <1>1, SeqMonotonic DEF TypeOK
<1> QED
  BY <1>1, <1>2, <1>3 DEF Wanted

\* Enqueueing keeps the queue in order and handles what passes the filter.
LEMMA EnqueueEffect ==
  ASSUME TypeOK, QueueInv, NEW id \in Ids, Enqueue(id), delivered' = delivered
  PROVE  /\ pending' \in Seq(Ids) /\ lastEvent' \in {-1} \cup Ids
         /\ QueueInv'
         /\ Handled \subseteq Handled'
         /\ \/ Passes(id) /\ Fresh(id) /\ lastEvent' = id /\ id \in Handled'
            \/ ~(Passes(id) /\ Fresh(id)) /\ lastEvent' = lastEvent
<1>0. /\ pending \in Seq(Ids) /\ pending \in Seq(Int) /\ id \in Int /\ lastEvent \in Int
      /\ Ids \subseteq Int
  <2>1. Ids \subseteq Int
    BY MemWatchAssump DEF MemWatchAssump, Ids
  <2>2. pending \in Seq(Int)
    BY <2>1, SeqMonotonic DEF TypeOK
  <2>3. lastEvent \in Int
    BY <2>1 DEF TypeOK
  <2> QED
    BY <2>1, <2>2, <2>3 DEF TypeOK
<1>1. CASE Passes(id) /\ Fresh(id)
  <2>1. pending' = Append(pending, id) /\ lastEvent' = id /\ lastEvent < id
    BY <1>0, <1>1 DEF Enqueue, Fresh
  <2>2. pending' \in Seq(Ids) /\ InSeq(pending') = InSeq(pending) \cup {id}
    BY <1>0, <2>1, InAppend
  <2>3. \A y \in Handled : y \in Int /\ y < id
    <3>1. \A y \in Handled : y \in Int /\ y <= lastEvent
      <4>1. InSeq(pending) \subseteq Ids /\ InSeq(delivered) \subseteq Ids
        BY DEF InSeq, TypeOK
      <4> QED
        BY <1>0, <4>1 DEF QueueInv, Handled
    <3> QED
      BY <1>0, <2>1, <3>1
  <2>4. Increasing(pending')
    BY <1>0, <2>1, <2>3, IncreasingAppend DEF QueueInv, Handled
  <2>5. Handled' = Handled \cup {id}
    BY <2>2 DEF Handled
  <2>6. \A y \in Handled' : y <= lastEvent'
    BY <1>0, <2>1, <2>3, <2>5
  <2>7. \A d \in InSeq(delivered'), p \in InSeq(pending') : d < p
    BY <2>2, <2>3 DEF QueueInv, Handled
  <2> QED
    BY <1>1, <2>1, <2>2, <2>4, <2>5, <2>6, <2>7 DEF QueueInv
<1>2. CASE ~(Passes(id) /\ Fresh(id))
  <2>1. pending' = pending /\ lastEvent' = lastEvent
    BY <1>2 DEF Enqueue
  <2> QED
    BY <1>0, <1>2, <2>1 DEF TypeOK, QueueInv, Handled
<1> QED
  BY <1>1, <1>2

\* A step keeps the types.
LEMMA TypeStep == TypeOK /\ ScanInv /\ QueueInv /\ [Next]_vars => TypeOK'
<1> SUFFICES ASSUME TypeOK, ScanInv, QueueInv, [Next]_vars PROVE TypeOK'
  OBVIOUS
<1>0. /\ Stored \subseteq Ids /\ Len(packets) \in Nat /\ MaxEvents \in Nat
      /\ \A s \in Seq(Ids) : s # <<>> => Head(s) \in Ids /\ Tail(s) \in Seq(Ids)
      /\ \A s \in Seq(Ids) : \A x \in Ids : Append(s, x) \in Seq(Ids)
  BY StoredTyped, MemWatchAssump, InTail, AppendProperties DEF MemWatchAssump
<1>1. ASSUME NEW k \in Kind, Submit(k)
      PROVE  TypeOK'
  <2>1. packets' \in Seq(Kind) /\ Len(packets) \in Ids
    BY <1>0, <1>1, AppendProperties DEF Submit, TypeOK, Ids
  <2>2. pendingEvents' \in Seq(Ids)
    BY <1>0, <1>1, <2>1 DEF Submit, Notify, TypeOK
  <2>3. closed' \in BOOLEAN /\ panicked' \in BOOLEAN
    BY <1>1 DEF Submit, Notify, TypeOK
  <2> QED
    BY <1>1, <2>1, <2>2, <2>3 DEF Submit, TypeOK
<1>2. ASSUME NEW a \in {-1} \cup Stored, Watch(a)
      PROVE  TypeOK'
  <2>1. listening' \in BOOLEAN /\ after' \in {-1} \cup Ids
    BY <1>0, <1>2 DEF Watch
  <2> QED
    BY <1>2, <2>1 DEF Watch, TypeOK
<1>3. CASE Pop
  <2>1. pending' \in Seq(Ids) /\ delivered' \in Seq(Ids)
    BY <1>0, <1>3 DEF Pop, TypeOK
  <2> QED
    BY <1>3, <2>1 DEF Pop, TypeOK
<1>4. CASE AllEnvelopes
  <2>1. scan' \in -1..MaxEvents /\ all' \in 0..MaxEvents
    BY <1>0, <1>4 DEF AllEnvelopes, ScanInv
  <2> QED
    BY <1>4, <2>1 DEF AllEnvelopes, TypeOK
<1>5. CASE FilterEnvelope
  <2>1. scan \in Ids /\ scan + 1 \in -1..MaxEvents
    BY <1>0, <1>5 DEF FilterEnvelope, TypeOK, Ids
  <2>2. pending' \in Seq(Ids) /\ lastEvent' \in {-1} \cup Ids
    BY <1>5, <2>1, EnqueueEffect DEF FilterEnvelope
  <2> QED
    BY <1>5, <2>1, <2>2 DEF FilterEnvelope, TypeOK
<1>6. CASE ProcessInitEvents \/ FailInitEvents
  <2>1. initDone' \in BOOLEAN
    BY <1>6 DEF ProcessInitEvents, FailInitEvents, EndInitEvents
  <2>2. scan' \in -1..MaxEvents /\ all' \in 0..MaxEvents
    BY <1>0, <1>6 DEF ProcessInitEvents, FailInitEvents, EndInitEvents
  <2> QED
    BY <1>6, <2>1, <2>2 DEF ProcessInitEvents, FailInitEvents, EndInitEvents, TypeOK
<1>7. ASSUME NEW id \in Stored, Receive(id)
      PROVE  pendingEvents' \in Seq(Ids)
  BY <1>0, <1>7 DEF Receive, TypeOK
<1>8. ASSUME NEW id \in Stored, ProcessNewEvent(id)
      PROVE  TypeOK'
  <2>1. pending' \in Seq(Ids) /\ lastEvent' \in {-1} \cup Ids
    BY <1>0, <1>8, EnqueueEffect DEF ProcessNewEvent
  <2> QED
    BY <1>7, <1>8, <2>1 DEF ProcessNewEvent, TypeOK
<1>9. ASSUME NEW id \in Stored, FailNewEvent(id)
      PROVE  TypeOK'
  <2>1. lost' \subseteq Ids
    BY <1>0, <1>9 DEF FailNewEvent, TypeOK
  <2> QED
    BY <1>7, <1>9, <2>1 DEF FailNewEvent, TypeOK
<1>10. CASE UNCHANGED vars
  BY <1>10 DEF vars, TypeOK
<1> QED
  BY <1>1, <1>2, <1>3, <1>4, <1>5, <1>6, <1>8, <1>9, <1>10 DEF Next, Tick

\* The catch-up stays within the stored envelopes; an idle call stays idle.
LEMMA ScanStep ==
  TypeOK /\ ScanInv /\ NotListening /\ [Next]_vars => ScanInv' /\ NotListening'
<1> SUFFICES ASSUME TypeOK, ScanInv, NotListening, [Next]_vars
             PROVE  ScanInv' /\ NotListening'
  OBVIOUS
<1>0. /\ scan \in Int /\ all \in Int /\ Len(packets) \in Nat /\ lastEvent \in Int
      /\ MaxEvents \in Nat
  BY StoredTyped, MemWatchAssump DEF MemWatchAssump
<1>1. ASSUME NEW k \in Kind, Submit(k)
      PROVE  ScanInv' /\ NotListening'
  <2>1. Len(packets') = Len(packets) + 1
    BY <1>1, WantedSubmit
  <2>2. ~listening => UNCHANGED channel
    BY <1>1 DEF Submit, Notify
  <2> QED
    BY <1>0, <1>1, <2>1, <2>2 DEF Submit, ScanInv, NotListening
<1>2. CASE UNCHANGED packets /\ listening'
  <2>4. lastEvent' < Len(packets)
    <3>1. CASE UNCHANGED lastEvent
      BY <3>1 DEF ScanInv
    <3>2. CASE FilterEnvelope
      BY <1>0, <3>2 DEF FilterEnvelope, Enqueue, ScanInv
    <3>3. ASSUME NEW id \in Stored, ProcessNewEvent(id)
          PROVE  lastEvent' < Len(packets)
      BY <1>0, <3>3 DEF ProcessNewEvent, Enqueue, ScanInv, Stored
    <3> QED
      BY <3>1, <3>2, <3>3 DEF Next, Submit, Watch, Tick, Pop, AllEnvelopes, ProcessInitEvents,
         FailInitEvents, EndInitEvents, FailNewEvent, vars
  <2>1. CASE UNCHANGED catchup
    BY <1>2, <2>1, <2>4 DEF ScanInv, NotListening
  <2>2. CASE AllEnvelopes \/ FilterEnvelope \/ ProcessInitEvents \/ FailInitEvents
    <3>1. Len(packets') = Len(packets)
      BY <1>2
    <3>2. CASE AllEnvelopes
      BY <1>0, <1>2, <2>4, <3>1, <3>2 DEF AllEnvelopes, ScanInv, NotListening
    <3>3. CASE FilterEnvelope
      BY <1>0, <1>2, <2>4, <3>1, <3>3 DEF FilterEnvelope, ScanInv, NotListening
    <3>4. CASE scan' = -1 /\ all' = 0
      BY <1>0, <1>2, <2>4, <3>1, <3>4 DEF ScanInv, NotListening
    <3> QED
      BY <2>2, <3>2, <3>3, <3>4 DEF ProcessInitEvents, FailInitEvents, EndInitEvents
  <2>3. CASE ~UNCHANGED catchup
    BY <2>2, <2>3 DEF Next, Submit, Watch, Tick, Pop, ProcessNewEvent, FailNewEvent, vars
  <2> QED
    BY <2>1, <2>3
<1>3. CASE UNCHANGED vars
  BY <1>3 DEF vars, ScanInv, NotListening
<1> QED
  BY <1>1, <1>2, <1>3
     DEF Next, Watch, Tick, Ticking, Pop, AllEnvelopes, FilterEnvelope, ProcessInitEvents,
         FailInitEvents, EndInitEvents, ProcessNewEvent, FailNewEvent

\* What Tick returns and what it queued stays in order.
LEMMA QueueStep == TypeOK /\ ScanInv /\ QueueInv /\ [Next]_vars => QueueInv'
<1> SUFFICES ASSUME TypeOK, ScanInv, QueueInv, [Next]_vars PROVE QueueInv'
  OBVIOUS
<1>0. /\ Stored \subseteq Ids /\ Ids \subseteq Int
      /\ pending \in Seq(Int) /\ delivered \in Seq(Int)
  BY StoredTyped
<1>1. CASE Pop
  <2>1. /\ pending # <<>> /\ pending' = Tail(pending)
        /\ delivered' = Append(delivered, Head(pending)) /\ lastEvent' = lastEvent
    BY <1>1 DEF Pop
  <2>2. /\ Head(pending) \in Int /\ InSeq(pending) = {Head(pending)} \cup InSeq(pending')
        /\ Increasing(pending') /\ \A y \in InSeq(pending') : Head(pending) < y
    BY <1>0, <2>1, InTail, IncreasingTail DEF QueueInv
  <2>3. InSeq(delivered') = InSeq(delivered) \cup {Head(pending)}
    BY <1>0, <2>1, <2>2, InAppend
  <2>4. Increasing(delivered')
    BY <1>0, <2>1, <2>2, IncreasingAppend DEF QueueInv
  <2>5. Handled' = Handled
    BY <2>2, <2>3 DEF Handled
  <2> QED
    BY <2>1, <2>2, <2>3, <2>4, <2>5 DEF QueueInv
<1>2. CASE FilterEnvelope
  <2>1. scan \in Ids
    BY <1>2, MemWatchAssump DEF FilterEnvelope, TypeOK, Ids, MemWatchAssump
  <2> QED
    BY <1>2, <2>1, EnqueueEffect DEF FilterEnvelope
<1>3. ASSUME NEW id \in Stored, ProcessNewEvent(id)
      PROVE  QueueInv'
  BY <1>0, <1>3, EnqueueEffect DEF ProcessNewEvent
<1>4. CASE UNCHANGED <<pending, delivered, lastEvent>>
  BY <1>4 DEF QueueInv, Handled
<1> QED
  BY <1>1, <1>2, <1>3, <1>4
     DEF Next, Submit, Watch, Tick, AllEnvelopes, ProcessInitEvents, FailInitEvents,
         EndInitEvents, FailNewEvent, vars

\* Taking an id from the channel leaves the later ones in it.
LEMMA ReceiveEffect ==
  ASSUME TypeOK, ChannelInv, NEW id \in Stored, Receive(id)
  PROVE  /\ Increasing(pendingEvents') /\ InSeq(pendingEvents') \subseteq InSeq(pendingEvents)
         /\ ~closed => /\ InSeq(pendingEvents) = {id} \cup InSeq(pendingEvents')
                       /\ \A y \in InSeq(pendingEvents') : id < y
<1>1. pendingEvents \in Seq(Int)
  <2>1. Ids \subseteq Int
    BY MemWatchAssump DEF MemWatchAssump, Ids
  <2> QED
    BY <2>1, SeqMonotonic DEF TypeOK
<1>2. CASE pendingEvents # <<>> /\ id = Head(pendingEvents) /\ pendingEvents' = Tail(pendingEvents)
  <2>1. InSeq(pendingEvents) = {id} \cup InSeq(pendingEvents')
    BY <1>1, <1>2, InTail
  <2>2. Increasing(pendingEvents') /\ \A y \in InSeq(pendingEvents') : id < y
    BY <1>1, <1>2, IncreasingTail DEF ChannelInv
  <2> QED
    BY <2>1, <2>2
<1>3. CASE closed /\ UNCHANGED pendingEvents
  BY <1>3 DEF ChannelInv
<1> QED
  BY <1>2, <1>3 DEF Receive

\* The channel stays in order.
LEMMA ChannelStep == TypeOK /\ ScanInv /\ ChannelInv /\ [Next]_vars => ChannelInv'
<1> SUFFICES ASSUME TypeOK, ScanInv, ChannelInv, [Next]_vars PROVE ChannelInv'
  OBVIOUS
<1>0. pendingEvents \in Seq(Int) /\ Len(packets) \in Nat
  BY StoredTyped
<1>1. ASSUME NEW k \in Kind, Submit(k)
      PROVE  ChannelInv'
  <2>1. Stored' = Stored \cup {Len(packets)}
    BY <1>1, WantedSubmit
  <2>2. CASE pendingEvents' = Append(pendingEvents, Len(packets))
    <3>1. InSeq(pendingEvents') = InSeq(pendingEvents) \cup {Len(packets)}
      BY <1>0, <2>2, InAppend
    <3>2. \A y \in InSeq(pendingEvents) : y < Len(packets)
      BY <1>0 DEF ChannelInv, Stored
    <3>3. Increasing(pendingEvents')
      BY <1>0, <2>2, <3>2, IncreasingAppend DEF ChannelInv
    <3> QED
      BY <2>1, <3>1, <3>3 DEF ChannelInv
  <2>3. CASE UNCHANGED pendingEvents
    BY <2>1, <2>3 DEF ChannelInv
  <2> QED
    BY <1>1, <2>2, <2>3 DEF Submit, Notify
<1>2. ASSUME NEW id \in Stored, Receive(id), UNCHANGED packets
      PROVE  ChannelInv'
  BY <1>2, ReceiveEffect DEF ChannelInv, Stored
<1>3. CASE UNCHANGED <<packets, pendingEvents>>
  BY <1>3 DEF ChannelInv, Stored
<1> QED
  BY <1>1, <1>2, <1>3
     DEF Next, Watch, Tick, Pop, AllEnvelopes, FilterEnvelope, ProcessInitEvents,
         FailInitEvents, EndInitEvents, ProcessNewEvent, FailNewEvent, vars

\* Nothing wanted is passed over or forgotten, by the catch-up or by the channel.
CompleteParts == NoneSkipped /\ ScanComplete /\ NothingForgotten

\* No step passes over or forgets a wanted event.
LEMMA CompleteStep ==
  /\ TypeOK /\ NotListening /\ ScanInv /\ QueueInv /\ ChannelInv /\ CompleteParts
  /\ [Next]_vars
  => CompleteParts'
<1> SUFFICES ASSUME TypeOK, NotListening, ScanInv, QueueInv, ChannelInv, CompleteParts,
                    [Next]_vars
             PROVE  CompleteParts'
  OBVIOUS
<1>0. /\ Stored \subseteq Ids /\ Ids \subseteq Int /\ Wanted \subseteq Stored
      /\ \A id \in Ids : id >= 0
      /\ lastEvent \in Int /\ scan \in Int /\ all \in Int /\ Len(packets) \in Nat
      /\ Stored = 0..Len(packets) - 1
      /\ pendingEvents \in Seq(Int)
  BY StoredTyped DEF Stored
<1> USE DEF CompleteParts
<1>1. ASSUME NEW k \in Kind, Submit(k)
      PROVE  CompleteParts'
  <2> DEFINE n == Len(packets)
  <2>1. /\ Wanted' \subseteq Wanted \cup {n} /\ Handled' = Handled /\ lost' = lost
        /\ UNCHANGED <<listening, catchup, lastEvent>>
    BY <1>1, WantedSubmit DEF Submit, Handled
  <2>2. n \in Int /\ n > lastEvent /\ scan <= n /\ all <= n
    BY <1>0 DEF ScanInv
  <2>3. ASSUME ~closed'
        PROVE  /\ ~closed /\ InSeq(pendingEvents) \subseteq InSeq(pendingEvents')
               /\ listening => n \in InSeq(pendingEvents')
    <3>1. /\ ~closed
          /\ \/ UNCHANGED pendingEvents /\ ~listening
             \/ pendingEvents' = Append(pendingEvents, n)
      BY <1>1, <2>3 DEF Submit, Notify
    <3>2. InSeq(Append(pendingEvents, n)) = InSeq(pendingEvents) \cup {n}
      BY <1>0, <2>2, InAppend
    <3> QED
      BY <3>1, <3>2
  <2> HIDE DEF n
  <2>4. NoneSkipped'
    <3> SUFFICES ASSUME ~closed', NEW id \in Wanted' \ lost', id <= lastEvent'
                 PROVE  id \in Handled'
      BY DEF NoneSkipped
    <3>1. id # n
      BY <1>0, <2>1, <2>2
    <3> QED
      BY <2>1, <2>3, <3>1 DEF NoneSkipped
  <2>5. ScanComplete'
    BY <1>0, <2>1, <2>2, <2>3 DEF ScanComplete, NotListening
  <2>6. NothingForgotten'
    BY <2>1, <2>3 DEF NothingForgotten, Handled, NotListening
  <2> QED
    BY <2>4, <2>5, <2>6
<1>2. ASSUME NEW a \in {-1} \cup Stored, Watch(a)
      PROVE  CompleteParts'
  <2>1. ~initDone' /\ scan' = -1 /\ lastEvent' = -1
    BY <1>2 DEF Watch, NotListening
  <2>2. \A id \in Wanted' : id >= 0 /\ id \in Int
    <3>1. Wanted' \subseteq Stored' /\ Stored' = Stored
      BY <1>2 DEF Wanted, Stored, Watch
    <3> QED
      BY <1>0, <3>1
  <2> QED
    BY <2>1, <2>2 DEF NoneSkipped, ScanComplete, NothingForgotten
<1>3. CASE Pop
  <2>1. Wanted' = Wanted
    BY <1>3, WantedSame DEF Pop
  <2>2. Handled' = Handled
    <3>1. pending \in Seq(Ids) /\ delivered \in Seq(Ids) /\ pending # <<>>
      BY <1>3 DEF Pop, TypeOK
    <3>2. Head(pending) \in Ids /\ InSeq(pending) = {Head(pending)} \cup InSeq(Tail(pending))
      BY <3>1, InTail
    <3>3. InSeq(delivered') = InSeq(delivered) \cup {Head(pending)}
      BY <1>3, <3>1, <3>2, InAppend DEF Pop
    <3> QED
      BY <1>3, <3>2, <3>3 DEF Pop, Handled
  <2> QED
    BY <1>3, <2>1, <2>2 DEF Pop, NoneSkipped, ScanComplete, NothingForgotten, Handled
<1>4. CASE AllEnvelopes
  <2>1. Wanted' = Wanted /\ Handled' = Handled
    BY <1>4, WantedSame DEF AllEnvelopes, Handled
  <2>2. NoneSkipped'
    BY <1>4, <2>1 DEF AllEnvelopes, NoneSkipped
  <2>3. ScanComplete'
    BY <1>0, <1>4, <2>1 DEF AllEnvelopes, ScanComplete
  <2> QED
    BY <1>4, <2>2, <2>3 DEF AllEnvelopes, NothingForgotten
<1>5. CASE FilterEnvelope
  <2>1. Wanted' = Wanted
    BY <1>5, WantedSame DEF FilterEnvelope
  <2>2. scan \in Ids /\ scan' = scan + 1 /\ all' = all /\ scan >= 0 /\ ~initDone'
    BY <1>5, MemWatchAssump DEF FilterEnvelope, TypeOK, Ids, MemWatchAssump, ScanInv
  <2>3. /\ Handled \subseteq Handled'
        /\ \/ Passes(scan) /\ Fresh(scan) /\ lastEvent' = scan /\ scan \in Handled'
           \/ ~(Passes(scan) /\ Fresh(scan)) /\ lastEvent' = lastEvent
    BY <1>5, <2>2, EnqueueEffect DEF FilterEnvelope
  <2>4. lost' = lost /\ closed' = closed /\ pendingEvents' = pendingEvents
    BY <1>5 DEF FilterEnvelope
  <2>5. ASSUME ~closed, NEW id \in Wanted \ lost, id <= scan
        PROVE  id \in Handled'
    <3>1. CASE id < scan
      BY <2>2, <2>3, <2>5, <3>1 DEF ScanComplete
    <3>2. CASE id = scan
      BY <1>0, <2>3, <2>5, <3>2 DEF Wanted, Fresh, NoneSkipped
    <3> QED
      BY <1>0, <2>5, <3>1, <3>2
  <2>6. NoneSkipped'
    BY <2>1, <2>3, <2>4, <2>5 DEF NoneSkipped
  <2>7. ScanComplete'
    BY <1>0, <2>1, <2>2, <2>4, <2>5 DEF ScanComplete
  <2> QED
    BY <2>2, <2>6, <2>7 DEF NothingForgotten
<1>6. CASE ProcessInitEvents \/ FailInitEvents
  <2>1. Wanted' = Wanted /\ Handled' = Handled
    BY <1>6, WantedSame DEF ProcessInitEvents, FailInitEvents, EndInitEvents, Handled
  <2>2. scan' = -1 /\ UNCHANGED <<lastEvent, lost, closed, pendingEvents, pending, delivered>>
    BY <1>6 DEF ProcessInitEvents, FailInitEvents, EndInitEvents
  <2>3. NoneSkipped' /\ ScanComplete'
    BY <2>1, <2>2 DEF NoneSkipped, ScanComplete
  <2>4. CASE initDone'
    <3>1. scan = all /\ scan >= 0
      BY <1>6, <2>4 DEF ProcessInitEvents, FailInitEvents, EndInitEvents
    <3>2. ~closed => \A id \in Wanted \ lost : id \in Handled \cup InSeq(pendingEvents)
      BY <1>0, <3>1 DEF ScanComplete
    <3> QED
      BY <2>1, <2>2, <2>3, <3>2 DEF NothingForgotten, Handled
  <2> QED
    BY <2>3, <2>4 DEF NothingForgotten
<1>7. ASSUME NEW id \in Stored, ProcessNewEvent(id)
      PROVE  CompleteParts'
  <2>1. Wanted' = Wanted /\ lost' = lost /\ closed' = closed /\ initDone /\ scan' = scan
    BY <1>7, WantedSame DEF ProcessNewEvent
  <2>2. /\ Handled \subseteq Handled'
        /\ \/ Passes(id) /\ Fresh(id) /\ lastEvent' = id /\ id \in Handled'
           \/ ~(Passes(id) /\ Fresh(id)) /\ lastEvent' = lastEvent
    BY <1>0, <1>7, EnqueueEffect DEF ProcessNewEvent
  <2>3. ~closed => /\ InSeq(pendingEvents) = {id} \cup InSeq(pendingEvents')
                   /\ \A y \in InSeq(pendingEvents') : id < y
    BY <1>7, ReceiveEffect DEF ProcessNewEvent
  <2>4. ASSUME ~closed, NEW j \in Wanted \ lost
        PROVE  j \in Handled' \/ j \in InSeq(pendingEvents')
    <3>1. CASE j = id
      BY <1>0, <2>2, <2>4, <3>1 DEF Wanted, Fresh, NoneSkipped
    <3>2. CASE j # id
      BY <2>1, <2>2, <2>3, <2>4, <3>2 DEF NothingForgotten, Handled
    <3> QED
      BY <3>1, <3>2
  <2>5. NoneSkipped'
    <3> SUFFICES ASSUME ~closed, NEW j \in Wanted \ lost, j <= lastEvent'
                 PROVE  j \in Handled'
      BY <2>1 DEF NoneSkipped
    <3>1. CASE lastEvent' = lastEvent
      BY <2>2, <3>1 DEF NoneSkipped
    <3>2. CASE lastEvent' = id
      BY <1>0, <2>3, <2>4, <3>2
    <3> QED
      BY <2>2, <3>1, <3>2
  <2>6. scan = -1
    BY <1>0, <1>7 DEF ProcessNewEvent, ScanInv, TypeOK
  <2> QED
    BY <2>1, <2>4, <2>5, <2>6 DEF ScanComplete, NothingForgotten, Handled
<1>8. ASSUME NEW id \in Stored, FailNewEvent(id)
      PROVE  CompleteParts'
  <2>1. /\ Wanted' = Wanted /\ Handled' = Handled /\ lost' = lost \cup {id}
        /\ UNCHANGED <<closed, initDone, scan, lastEvent, delivered, pending>> /\ initDone
    BY <1>8, WantedSame DEF FailNewEvent, Handled
  <2>2. ~closed => InSeq(pendingEvents) = {id} \cup InSeq(pendingEvents')
    BY <1>8, ReceiveEffect DEF FailNewEvent
  <2>3. scan = -1
    BY <1>0, <2>1 DEF ScanInv, TypeOK
  <2> QED
    BY <2>1, <2>2, <2>3 DEF NoneSkipped, ScanComplete, NothingForgotten, Handled
<1>9. CASE UNCHANGED vars
  <2>1. Wanted' = Wanted /\ Handled' = Handled
    BY <1>9, WantedSame DEF vars, Handled
  <2> QED
    BY <1>9, <2>1 DEF vars, NoneSkipped, ScanComplete, NothingForgotten, Handled
<1> QED
  BY <1>1, <1>2, <1>3, <1>4, <1>5, <1>6, <1>7, <1>8, <1>9 DEF Next, Tick

-----------------------------------------------------------------------------
(* The theorems *)

\* Nothing has happened before the first call.
LEMMA MemWatchInvInit == Init => MemWatchInv
<1> SUFFICES ASSUME Init PROVE MemWatchInv
  OBVIOUS
<1>1. TypeOK
  <2>1. <<>> \in Seq(Kind) /\ <<>> \in Seq(Ids) /\ -1 \in -1..MaxEvents /\ 0 \in 0..MaxEvents
    BY MemWatchAssump DEF MemWatchAssump
  <2> QED
    BY <2>1 DEF Init, TypeOK
<1>2. NotListening /\ ScanInv
  BY MemWatchAssump DEF Init, NotListening, ScanInv, MemWatchAssump
<1>3. QueueInv /\ ChannelInv
  BY InEmpty DEF Init, QueueInv, ChannelInv, Handled
<1>4. Wanted = {}
  BY DEF Init, Wanted, Stored
<1> QED
  BY <1>1, <1>2, <1>3, <1>4
     DEF Init, MemWatchInv, NoneSkipped, ScanComplete, NothingForgotten

\* The inductive invariant of the watch: the queues are in order, and no
\* wanted event is passed over (memoryWatch.Tick, enqueue, the OnPacket
\* callback).
THEOREM MemoryWatchInvariant == Spec => []MemWatchInv
<1>1. Init => MemWatchInv
  BY MemWatchInvInit
<1>2. MemWatchInv /\ [Next]_vars => MemWatchInv'
  BY TypeStep, ScanStep, QueueStep, ChannelStep, CompleteStep DEF MemWatchInv, CompleteParts
<1> QED
  BY <1>1, <1>2, PTL DEF Spec

\* Tick returns strictly increasing ids, although the catch-up and the channel
\* overlap and a failed catch-up is repeated (memoryWatch.enqueue).
THEOREM DeliveredInOrder == Spec => []DeliveredInv
<1>1. MemWatchInv => DeliveredInv
  <2> SUFFICES ASSUME MemWatchInv PROVE DeliveredIncreasing
    BY DEF MemWatchInv, DeliveredInv
  <2>1. /\ delivered \in Seq(Ids) /\ pending \in Seq(Ids)
        /\ DOMAIN delivered = 1..Len(delivered) /\ DOMAIN pending = 1..Len(pending)
        /\ Len(delivered) \in Nat /\ Len(pending) \in Nat
    BY DEF MemWatchInv, TypeOK
  <2> DEFINE s == delivered \o pending
  <2>2. /\ DOMAIN s = 1..Len(delivered) + Len(pending)
        /\ \A i \in 1..Len(delivered) + Len(pending) :
             s[i] = IF i <= Len(delivered) THEN delivered[i] ELSE pending[i - Len(delivered)]
    BY <2>1, ConcatProperties
  <2>3. \A i \in DOMAIN delivered, j \in DOMAIN pending : delivered[i] < pending[j]
    BY DEF MemWatchInv, QueueInv, InSeq
  <2>4. /\ \A i, j \in DOMAIN delivered : i < j => delivered[i] < delivered[j]
        /\ \A i, j \in DOMAIN pending : i < j => pending[i] < pending[j]
    BY DEF MemWatchInv, QueueInv, Increasing
  <2> HIDE DEF s
  <2>5. ASSUME NEW i \in DOMAIN s, NEW j \in DOMAIN s, i < j
        PROVE  s[i] < s[j]
    <3>1. CASE j <= Len(delivered)
      BY <2>1, <2>2, <2>4, <2>5, <3>1
    <3>2. CASE i <= Len(delivered) /\ j > Len(delivered)
      <4>1. i \in DOMAIN delivered /\ j - Len(delivered) \in DOMAIN pending
        BY <2>1, <2>2, <2>5, <3>2
      <4>2. s[i] = delivered[i]
        BY <2>1, <2>2, <3>2
      <4>3. s[j] = pending[j - Len(delivered)]
        BY <2>1, <2>2, <3>2
      <4>4. delivered[i] < pending[j - Len(delivered)]
        BY <2>3, <4>1
      <4> QED
        BY <4>2, <4>3, <4>4
    <3>3. CASE i > Len(delivered)
      <4>1. /\ i - Len(delivered) \in DOMAIN pending /\ j - Len(delivered) \in DOMAIN pending
            /\ i - Len(delivered) < j - Len(delivered) /\ j > Len(delivered)
        BY <2>1, <2>2, <2>5, <3>3
      <4>2. s[i] = pending[i - Len(delivered)]
        BY <2>1, <2>2, <2>5, <3>3
      <4>3. s[j] = pending[j - Len(delivered)]
        BY <2>1, <2>2, <2>5, <4>1
      <4>4. pending[i - Len(delivered)] < pending[j - Len(delivered)]
        BY <2>4, <4>1
      <4> QED
        BY <4>2, <4>3, <4>4
    <3> QED
      BY <2>1, <2>2, <2>5, <3>1, <3>2, <3>3
  <2> QED
    BY <2>5 DEF DeliveredIncreasing, s
<1> QED
  BY <1>1, MemoryWatchInvariant, PTL

\* Once caught up, every wanted event was delivered, is queued, or is in the
\* channel, unless its own Tick failed or the channel was full
\* (memoryWatch.processInitEvents, processNewEvent).
THEOREM NothingIsForgotten == Spec => []NothingForgotten
<1>1. MemWatchInv => NothingForgotten
  BY DEF MemWatchInv
<1> QED
  BY <1>1, MemoryWatchInvariant, PTL
=============================================================================
