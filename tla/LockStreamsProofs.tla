------------------------- MODULE LockStreamsProofs -------------------------
(* Proofs that the notifications of module LockStreams are not lost.       *)
EXTENDS LockStreams, TLAPS

\* The initial state: nothing is owed and every channel is empty.
LEMMA StreamInit == Init => StreamInv
  <1> SUFFICES ASSUME Init PROVE StreamInv
    OBVIOUS
  <1>1. pending \in [Holder -> 0..MaxPending]
    BY StreamAssump DEF Init
  <1>2. TypeOK
    BY <1>1 DEF Init, TypeOK, WaitSteps, AliveSteps
  <1>3. OwedAreSubscribed /\ WakeupNotLost /\ LossNotLost
    BY DEF Init, OwedAreSubscribed, WakeupNotLost, LossNotLost
  <1> QED BY <1>2, <1>3 DEF StreamInv

\* Announcing the end of h's lock keeps the invariant: the event it adds to
\* the bus covers everything it promises.
LEMMA AnnounceKeeps ==
  ASSUME StreamInv, NEW h \in Holder, Announce(h), Owe(h),
         holder' \in Holder \cup {None}, live' \in BOOLEAN,
         UNCHANGED <<wait, releaseCh, alive, lockLostCh, told>>
  PROVE  StreamInv'
  <1>1. TypeOK'
    BY StreamAssump DEF StreamInv, TypeOK, Announce, Owe, SubscribedWaiters, BoundStreams
  <1>2. OwedAreSubscribed'
    BY DEF StreamInv, OwedAreSubscribed, Owe, SubscribedWaiters, BoundStreams
  <1>3. pending'[h] > 0 /\ \A g \in Holder : pending'[g] >= pending[g]
    BY DEF StreamInv, TypeOK, Announce
  <1>4. WakeupNotLost'
    BY <1>3 DEF WakeupNotLost
  <1>5. LossNotLost'
    <2>1. \A g \in owedLoss : g \in Holder /\ (g \in lockLostCh \/ pending[g] > 0)
      BY DEF StreamInv, TypeOK, LossNotLost
    <2>2. \A g \in owedLoss' : g \in owedLoss \/ g = h
      BY DEF Owe
    <2>3. \A g \in Holder : pending[g] > 0 => pending'[g] > 0
      BY <1>1, <1>3 DEF StreamInv, TypeOK
    <2> QED BY <1>3, <2>1, <2>2, <2>3 DEF LossNotLost
  <1> QED BY <1>1, <1>2, <1>4, <1>5 DEF StreamInv

\* A stream that closes takes its channel and what it is owed with it.
LEMMA CloseKeeps ==
  ASSUME StreamInv, NEW h \in Holder, CloseEffect(h),
         UNCHANGED <<lock, pending, waiters>>
  PROVE  StreamInv'
  BY SMT
  DEF StreamInv, TypeOK, OwedAreSubscribed, WakeupNotLost, LossNotLost, CloseEffect,
      SubscribedWaiters, BoundStreams, AliveSteps, lock, waiters

\* Every step of the service keeps the invariant.
LEMMA StreamStep == StreamInv /\ [Next]_vars => StreamInv'
  <1> SUFFICES ASSUME StreamInv, [Next]_vars PROVE StreamInv'
    OBVIOUS
  <1> USE StreamAssump DEF lock, waiters, keepers, WaitSteps, AliveSteps
  <1> DEFINE Parts == TypeOK /\ OwedAreSubscribed /\ WakeupNotLost /\ LossNotLost
  <1>a. Parts
    BY DEF StreamInv
  <1>b. SUFFICES Parts'
    BY DEF StreamInv
  <1> HIDE DEF Parts
  <1>1. CASE Expire
    BY <1>1, <1>a DEF Parts, Expire, TypeOK, OwedAreSubscribed, WakeupNotLost, LossNotLost,
       SubscribedWaiters, BoundStreams
  <1>2. CASE CleanExpired
    <2>1. holder \in Holder
      BY <1>2 DEF CleanExpired, StreamInv, TypeOK
    <2>2. StreamInv'
      BY <1>2, <2>1, AnnounceKeeps DEF CleanExpired, Free
    <2> QED BY <2>2 DEF StreamInv, Parts
  <1>3. CASE Crash
    BY <1>3, <1>a DEF Parts, Crash, TypeOK, OwedAreSubscribed, WakeupNotLost, LossNotLost,
       SubscribedWaiters, BoundStreams
  <1>4. ASSUME NEW h \in Holder, Emit(h) PROVE Parts'
    <2>1. TypeOK'
      BY <1>4, <1>a DEF Parts, Emit, Signal, TypeOK, SubscribedWaiters, BoundStreams
    <2>2. OwedAreSubscribed'
      BY <1>4, <1>a DEF Parts, Emit, Signal, OwedAreSubscribed, SubscribedWaiters, BoundStreams
    <2>3. WakeupNotLost'
      BY <1>4, <1>a DEF Parts, Emit, Signal, WakeupNotLost, OwedAreSubscribed
    <2>4. LossNotLost'
      BY <1>4, <1>a DEF Parts, Emit, Signal, TypeOK, LossNotLost, OwedAreSubscribed
    <2> QED BY <2>1, <2>2, <2>3, <2>4 DEF Parts
  <1>5. ASSUME NEW h \in Holder, TryAcquire(h) PROVE Parts'
    BY <1>5, <1>a DEF Parts, TryAcquire, Take, TypeOK, OwedAreSubscribed, WakeupNotLost,
       LossNotLost, SubscribedWaiters, BoundStreams
  <1>6. ASSUME NEW h \in Holder, Release(h) PROVE Parts'
    <2>1. StreamInv'
      BY <1>6, AnnounceKeeps DEF Release, Free
    <2> QED BY <2>1 DEF StreamInv, Parts
  <1>7. ASSUME NEW h \in Holder,
               WaitForLock(h) \/ Refused(h) \/ SubscribeToRelease(h)
        PROVE Parts'
    BY <1>7, <1>a DEF Parts, WaitForLock, Refused, SubscribeToRelease, TypeOK,
       OwedAreSubscribed, WakeupNotLost, LossNotLost, SubscribedWaiters, BoundStreams
  <1>8. ASSUME NEW h \in Holder, Grant(h) \/ Wake(h) \/ CancelWait(h) PROVE Parts'
    BY <1>8, <1>a, ZenonT(40) DEF Parts, Grant, Take, Wake, CancelWait, EndWait, TypeOK,
       OwedAreSubscribed, WakeupNotLost, LossNotLost, SubscribedWaiters, BoundStreams
  <1>9. ASSUME NEW h \in Holder,
               OpenStream(h) \/ BindHolder(h) \/ SubscribeToLockReleased(h)
        PROVE Parts'
    BY <1>9, <1>a DEF Parts, OpenStream, BindHolder, SubscribeToLockReleased, TypeOK,
       OwedAreSubscribed, WakeupNotLost, LossNotLost, SubscribedWaiters, BoundStreams
  <1>10. ASSUME NEW h \in Holder, ProcessHeartbeat(h) PROVE Parts'
    BY <1>10, <1>a DEF Parts, ProcessHeartbeat, TypeOK, OwedAreSubscribed, WakeupNotLost,
       LossNotLost, SubscribedWaiters, BoundStreams
  <1>11. ASSUME NEW h \in Holder,
                RejectBind(h) \/ NotifyLockLost(h) \/ FailReleaseRequest(h) \/ CloseStream(h)
         PROVE Parts'
    <2>1. StreamInv'
      BY <1>11, CloseKeeps DEF RejectBind, NotifyLockLost, FailReleaseRequest, CloseStream
    <2> QED BY <2>1 DEF StreamInv, Parts
  <1>12. CASE UNCHANGED vars
    BY <1>12, <1>a DEF Parts, vars, TypeOK, OwedAreSubscribed, WakeupNotLost, LossNotLost,
       SubscribedWaiters, BoundStreams
  <1> QED
    BY <1>1, <1>2, <1>3, <1>4, <1>5, <1>6, <1>7, <1>8, <1>9, <1>10, <1>11, <1>12
    DEF Next, WaiterStep, KeeperStep, HandleReleaseRequest

\* The inductive invariant holds of every behaviour, for any set of holders
\* and any bound on the events in flight.
THEOREM StreamInvariant == Spec => []StreamInv
  BY StreamInit, StreamStep, PTL DEF Spec

\* No announced release is lost on its way to a subscribed WaitForLock call.
THEOREM WakeupsArrive == Spec => []WakeupNotLost
  <1>1. StreamInv => WakeupNotLost
    BY DEF StreamInv
  <1> QED BY <1>1, StreamInvariant, PTL

\* No announced end of a lock is lost on its way to its bound KeepAlive stream.
THEOREM LossesArrive == Spec => []LossNotLost
  <1>1. StreamInv => LossNotLost
    BY DEF StreamInv
  <1> QED BY <1>1, StreamInvariant, PTL
=============================================================================
