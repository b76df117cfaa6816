---------------------------- MODULE LockStreams ----------------------------
(***************************************************************************)
(* The long-lived lock streams of the gRPC service: WaitForLock, which     *)
(* blocks until the lock of a consumer is granted, and KeepAlive, which    *)
(* is bound to a held lock and is told when it is lost.  Both depend on    *)
(* LockReleasedEvents that separate goroutines carry over the in-process   *)
(* bus.  The store is the one of module Lease, seen through a single       *)
(* consumer: who holds the lock and whether held_until is in the future.   *)
(* Its operations are atomic here; module ConsumerLocks has their inside.  *)
(***************************************************************************)
EXTENDS Integers, FiniteSets

CONSTANTS
  Holder,      \* instance identities; each has at most one stream of a kind
  Waiter,      \* those that call WaitForLock
  Keeper,      \* those that open KeepAlive streams
  None,        \* the lock row does not exist
  Workload,    \* how locks come free, a subset of Endings
  MaxPending   \* bound on undelivered events per holder

Endings == {"release", "expire"}

ASSUME StreamAssump ==
  /\ None \notin Holder
  /\ Waiter \subseteq Holder
  /\ Keeper \subseteq Holder
  /\ Workload \subseteq Endings
  /\ MaxPending \in Nat \ {0}

VARIABLES
  holder,      \* holder of the committed lock row
  live,        \* its held_until is in the future
  pending,     \* dispatch goroutines that have not emitted yet, by evt.Holder
  wait,        \* progress of each holder's WaitForLock call
  releaseCh,   \* the call's channel of capacity 1 holds a signal
  alive,       \* progress of each holder's KeepAlive stream
  lockLostCh,  \* the stream's channel of capacity 1 holds an event
  \* what a stream may expect
  owedWake,    \* calls that were subscribed when a release was announced
  owedLoss,    \* streams that were bound when their lock's end was announced
  told         \* streams on which a heartbeat was answered "not locked"

lock    == <<holder, live>>
waiters == <<wait, releaseCh, owedWake>>
keepers == <<alive, lockLostCh, owedLoss, told>>
vars    == <<lock, pending, waiters, keepers>>

WaitSteps == {"idle", "try", "subscribe", "wait", "retry"}
AliveSteps == {"closed", "unbound", "checked", "bound"}

TypeOK ==
  /\ holder \in Holder \cup {None}
  /\ live \in BOOLEAN
  /\ pending \in [Holder -> 0..MaxPending]
  /\ wait \in [Holder -> WaitSteps]
  /\ releaseCh \in SUBSET Holder
  /\ alive \in [Holder -> AliveSteps]
  /\ lockLostCh \in SUBSET Holder
  /\ owedWake \in SUBSET Holder
  /\ owedLoss \in SUBSET Holder
  /\ told \in SUBSET Holder

Init ==
  /\ holder = None
  /\ live = FALSE
  /\ pending = [h \in Holder |-> 0]
  /\ wait = [h \in Holder |-> "idle"]
  /\ releaseCh = {}
  /\ alive = [h \in Holder |-> "closed"]
  /\ lockLostCh = {}
  /\ owedWake = {}
  /\ owedLoss = {}
  /\ told = {}
-----------------------------------------------------------------------------
(* The store and the bus *)

Available == holder = None \/ ~live
OwnLive(h) == holder = h /\ live

\* TryAcquire succeeds for a free, expired or own lock.  It announces nothing
\* about an expired row of its own consumer that it overwrites.
MayTake(h) == Available \/ holder = h

Take(h) == holder' = h /\ live' = TRUE
Free == holder' = None /\ live' = FALSE

\* Calls and streams whose callbacks are registered with the bus.
SubscribedWaiters == {h \in Holder : wait[h] \in {"wait", "retry"}}
BoundStreams == {h \in Holder : alive[h] = "bound"}

\* go bus.dispatchOnLockReleased.  (mutant: the event is never dispatched)
AnnounceNothing(h) == UNCHANGED pending
Announce(h) ==
  /\ pending[h] < MaxPending
  /\ pending' = [pending EXCEPT ![h] = @ + 1]

\* Whoever is subscribed by now is to hear of it.
Owe(h) ==
  /\ owedWake' = owedWake \cup SubscribedWaiters
  /\ owedLoss' = owedLoss \cup (BoundStreams \cap {h})

\* The callbacks of one event: signals that find their channel full coalesce.
\* (mutants: releaseCh without a buffer; keepalive streams are not signalled)
SignalUnbuffered(h) ==
  /\ releaseCh' = releaseCh \cup {w \in SubscribedWaiters : wait[w] = "wait"}
  /\ lockLostCh' = lockLostCh \cup (BoundStreams \cap {h})
SignalWaitersOnly(h) ==
  /\ releaseCh' = releaseCh \cup SubscribedWaiters
  /\ lockLostCh' = lockLostCh
Signal(h) ==
  /\ releaseCh' = releaseCh \cup SubscribedWaiters
  /\ lockLostCh' = lockLostCh \cup (BoundStreams \cap {h})

\* A dispatch goroutine gets to emit, under the emitter's mutex.
Emit(h) ==
  /\ pending[h] > 0
  /\ pending' = [pending EXCEPT ![h] = @ - 1]
  /\ Signal(h)
  /\ UNCHANGED <<lock, wait, owedWake, alive, owedLoss, told>>

\* held_until passes; no event, and no process that looks for it.
Expire ==
  /\ "expire" \in Workload
  /\ holder # None /\ live
  /\ live' = FALSE
  /\ UNCHANGED <<holder, pending, waiters, keepers>>

\* TryAcquire of another consumer cleans the expired row up.
CleanExpired ==
  /\ holder # None /\ ~live
  /\ Free
  /\ Announce(holder)
  /\ Owe(holder)
  /\ UNCHANGED <<wait, releaseCh, alive, lockLostCh, told>>

\* The unary calls.  Releasing an absent or expired lock changes nothing and
\* releasing another holder's is an error.
TryAcquire(h) ==
  /\ MayTake(h)
  /\ Take(h)
  /\ UNCHANGED <<pending, waiters, keepers>>

Release(h) ==
  /\ "release" \in Workload
  /\ OwnLive(h)
  /\ Free
  /\ Announce(h)
  /\ Owe(h)
  /\ UNCHANGED <<wait, releaseCh, alive, lockLostCh, told>>
-----------------------------------------------------------------------------
(* WaitForLock *)

WaitForLock(h) ==
  /\ h \in Waiter
  /\ wait[h] = "idle"
  /\ wait' = [wait EXCEPT ![h] = "try"]
  /\ UNCHANGED <<lock, pending, releaseCh, owedWake, keepers>>

\* The call returns: its callback is removed and its channel is garbage.
\* (mutant: the callback's channel outlives the call)
EndWaitLeaking(h) ==
  /\ wait' = [wait EXCEPT ![h] = "idle"]
  /\ UNCHANGED <<releaseCh, owedWake>>
EndWait(h) ==
  /\ wait' = [wait EXCEPT ![h] = "idle"]
  /\ releaseCh' = releaseCh \ {h}
  /\ owedWake' = owedWake \ {h}

\* acquireLock, then grantLock; both for the first try and for a retry.
Grant(h) ==
  /\ wait[h] \in {"try", "retry"}
  /\ MayTake(h)
  /\ Take(h)
  /\ EndWait(h)
  /\ UNCHANGED <<pending, keepers>>

\* The lock was held by another: subscribe, or go on waiting.
Refused(h) ==
  /\ wait[h] \in {"try", "retry"}
  /\ ~MayTake(h)
  /\ wait' = [wait EXCEPT ![h] = IF @ = "try" THEN "subscribe" ELSE "wait"]
  /\ UNCHANGED <<lock, pending, releaseCh, owedWake, keepers>>

SubscribeToRelease(h) ==
  /\ wait[h] = "subscribe"
  /\ wait' = [wait EXCEPT ![h] = "wait"]
  /\ UNCHANGED <<lock, pending, releaseCh, owedWake, keepers>>

\* (mutant: the signal is consumed without trying again)
WakeAndForget(h) ==
  /\ wait[h] = "wait" /\ h \in releaseCh
  /\ releaseCh' = releaseCh \ {h}
  /\ UNCHANGED <<lock, pending, wait, owedWake, keepers>>
Wake(h) ==
  /\ wait[h] = "wait" /\ h \in releaseCh
  /\ wait' = [wait EXCEPT ![h] = "retry"]
  /\ releaseCh' = releaseCh \ {h}
  /\ owedWake' = owedWake \ {h}
  /\ UNCHANGED <<lock, pending, keepers>>

\* The caller's context ends, or the store reports an error.
CancelWait(h) ==
  /\ wait[h] # "idle"
  /\ EndWait(h)
  /\ UNCHANGED <<lock, pending, keepers>>
-----------------------------------------------------------------------------
(* KeepAlive *)

CloseEffect(h) ==
  /\ alive' = [alive EXCEPT ![h] = "closed"]
  /\ lockLostCh' = lockLostCh \ {h}
  /\ owedLoss' = owedLoss \ {h}
  /\ told' = told \ {h}

OpenStream(h) ==
  /\ h \in Keeper
  /\ alive[h] = "closed"
  /\ alive' = [alive EXCEPT ![h] = "unbound"]
  /\ UNCHANGED <<lock, pending, waiters, lockLostCh, owedLoss, told>>

\* bindHolder reads the lock; the subscription comes after.
BindHolder(h) ==
  /\ alive[h] = "unbound"
  /\ OwnLive(h)
  /\ alive' = [alive EXCEPT ![h] = "checked"]
  /\ UNCHANGED <<lock, pending, waiters, lockLostCh, owedLoss, told>>

\* EXPIRED or STOLEN, and the stream closes; so do messages before Bind.
RejectBind(h) ==
  /\ alive[h] = "unbound"
  /\ ~OwnLive(h)
  /\ CloseEffect(h)
  /\ UNCHANGED <<lock, pending, waiters>>

SubscribeToLockReleased(h) ==
  /\ alive[h] = "checked"
  /\ alive' = [alive EXCEPT ![h] = "bound"]
  /\ UNCHANGED <<lock, pending, waiters, lockLostCh, owedLoss, told>>

\* A heartbeat that renews keeps the lock live; one that does not is answered
\* EXPIRED or STOLEN and leaves the stream open.  (mutant: always RENEWED)
ProcessHeartbeatBlindly(h) ==
  /\ alive[h] = "bound"
  /\ UNCHANGED told
  /\ UNCHANGED <<lock, pending, waiters, alive, lockLostCh, owedLoss>>
ProcessHeartbeat(h) ==
  /\ alive[h] = "bound"
  /\ told' = IF OwnLive(h) THEN told \ {h} ELSE told \cup {h}
  /\ UNCHANGED <<lock, pending, waiters, alive, lockLostCh, owedLoss>>

\* ReleaseAck after a release, or when there is nothing left to release.
HandleReleaseRequest(h) ==
  /\ alive[h] = "bound"
  /\ Release(h)

\* The lock is another holder's by now: Release fails and so does the stream.
FailReleaseRequest(h) ==
  /\ alive[h] = "bound"
  /\ live /\ holder # h
  /\ CloseEffect(h)
  /\ UNCHANGED <<lock, pending, waiters>>

NotifyLockLost(h) ==
  /\ alive[h] = "bound" /\ h \in lockLostCh
  /\ CloseEffect(h)
  /\ UNCHANGED <<lock, pending, waiters>>

\* The client disconnects, the stream idles out, or a message is invalid.
CloseStream(h) ==
  /\ alive[h] # "closed"
  /\ CloseEffect(h)
  /\ UNCHANGED <<lock, pending, waiters>>

\* The process stops: streams and undelivered events go, the row stays.
Crash ==
  /\ pending' = [h \in Holder |-> 0]
  /\ wait' = [h \in Holder |-> "idle"]
  /\ alive' = [h \in Holder |-> "closed"]
  /\ releaseCh' = {} /\ lockLostCh' = {}
  /\ owedWake' = {} /\ owedLoss' = {} /\ told' = {}
  /\ UNCHANGED lock
-----------------------------------------------------------------------------
WaiterStep(h) == Grant(h) \/ Refused(h) \/ SubscribeToRelease(h) \/ Wake(h)

KeeperStep(h) ==
  BindHolder(h) \/ RejectBind(h) \/ SubscribeToLockReleased(h) \/ NotifyLockLost(h)

Next ==
  \/ Expire \/ CleanExpired \/ Crash
  \/ \E h \in Holder :
       \/ Emit(h) \/ TryAcquire(h) \/ Release(h)
       \/ WaitForLock(h) \/ WaiterStep(h) \/ CancelWait(h)
       \/ OpenStream(h) \/ KeeperStep(h) \/ ProcessHeartbeat(h)
       \/ HandleReleaseRequest(h) \/ FailReleaseRequest(h) \/ CloseStream(h)

Spec == Init /\ [][Next]_vars

\* Goroutines run, and a bound client keeps sending heartbeats; nothing else
\* is assumed of callers.
Fairness ==
  \A h \in Holder :
    /\ WF_vars(Emit(h))
    /\ WF_vars(WaiterStep(h))
    /\ WF_vars(KeeperStep(h))
    /\ WF_vars(ProcessHeartbeat(h))

FairSpec == Spec /\ Fairness
-----------------------------------------------------------------------------
(* Properties *)

\* A WaitForLock call that was subscribed when a release was announced has a
\* signal in its channel or an event on its way, even when the event arrives
\* while the call is busy retrying (waitForGrant's buffered releaseCh).
WakeupNotLost ==
  \A w \in owedWake : w \in releaseCh \/ \E h \in Holder : pending[h] > 0

\* A KeepAlive stream bound when its lock's end was announced has the event in
\* lockLostCh or on its way (subscribeToLockReleased).
LossNotLost == \A h \in owedLoss : h \in lockLostCh \/ pending[h] > 0

\* Only streams that are subscribed are owed anything, and channels hold
\* signals only while their stream is registered.
OwedAreSubscribed ==
  /\ owedWake \subseteq SubscribedWaiters
  /\ releaseCh \subseteq SubscribedWaiters
  /\ owedLoss \subseteq BoundStreams
  /\ lockLostCh \subseteq BoundStreams

StreamInv == TypeOK /\ OwedAreSubscribed /\ WakeupNotLost /\ LossNotLost

\* A waiter to whom a release was announced gets the lock, unless it gives up
\* or somebody else takes the lock first: it does not sleep beside a free lock.
AnnouncedLockIsTaken ==
  \A w \in Holder :
    (w \in owedWake /\ Available) ~> (~Available \/ wait[w] = "idle")

\* A client that goes on sending heartbeats learns that its lock is gone, from
\* the heartbeat's LockStatus even where no LockLost is pushed.
HolderLearns ==
  \A h \in Holder :
    (alive[h] = "bound" /\ ~OwnLive(h))
      ~> (h \in told \/ alive[h] # "bound" \/ OwnLive(h))

(* What the documentation says *)

\* "the server SHALL block until the lock is available AND the server SHALL
\* respond with LockGranted when the lock is acquired".
WaiterIsServed ==
  \A w \in Holder :
    (wait[w] # "idle" /\ Available) ~> (wait[w] = "idle" \/ ~Available)
=============================================================================
