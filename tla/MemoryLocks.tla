---------------------------- MODULE MemoryLocks ----------------------------
(***************************************************************************)
(* The consumer lock of the in-memory transport, for one consumer.  A      *)
(* single service goroutine performs all operations, so each is atomic;    *)
(* around it run the expiry timers, whose closures queue a lockExpiryOp,   *)
(* and the callers, who emit LockReleasedEvents after their operation.     *)
(* Times are relative: until and due count down.  Positions and other      *)
(* consumers are left out; a heartbeat with a stale position changes       *)
(* nothing.                                                                *)
(***************************************************************************)
EXTENDS Integers, FiniteSets

CONSTANTS
  Holder,     \* instance identities
  Waiter,     \* those that call WaitForLock
  Obj,        \* memoryLockState objects, reused when nothing refers to them
  None,       \* no object: the consumer has no lock
  TTL,        \* ticks
  MaxGen,     \* bound on the generation of an object
  MaxOps      \* bound on queued operations of a kind

ASSUME MemAssump ==
  /\ None \notin Obj
  /\ Holder # {}
  /\ Waiter \subseteq Holder
  /\ TTL \in Nat \ {0}
  /\ MaxGen \in Nat
  /\ MaxOps \in Nat \ {0}

VARIABLES
  cur,        \* the object in the locks map
  owner,      \* holder of each object
  until,      \* ticks to heldUntil; -1 once it is past
  gen,        \* generation
  due,        \* ticks to the object's timer; -1 when it is not running
  lazy,       \* the timer was set by a heartbeat: its closure reads gen when it runs
  running,    \* closures of fired heartbeat timers that have not read gen yet
  ops,        \* lockExpiryOps in flight, by generation
  emitting,   \* callers about to emit a release
  wait,       \* progress of each WaitForLock
  releaseCh,  \* calls whose channel holds a signal
  dropped     \* whoever freed the lock last gave up before its Emit

objects == <<owner, until, gen, due, lazy>>
waiters == <<wait, releaseCh>>
vars    == <<cur, objects, running, ops, emitting, waiters, dropped>>

TypeOK ==
  /\ cur \in Obj \cup {None}
  /\ owner \in [Obj -> Holder]
  /\ until \in [Obj -> -1..TTL]
  /\ gen \in [Obj -> 0..MaxGen]
  /\ due \in [Obj -> -1..TTL]
  /\ lazy \in [Obj -> BOOLEAN]
  /\ running \in [Obj -> 0..MaxOps]
  /\ ops \in [0..MaxGen -> 0..MaxOps]
  /\ emitting \in 0..MaxOps
  /\ wait \in [Holder -> {"idle", "try", "refused", "wait"}]
  /\ releaseCh \subseteq Holder
  /\ dropped \in BOOLEAN

Init ==
  /\ cur = None
  /\ owner = [o \in Obj |-> CHOOSE h \in Holder : TRUE]
  /\ until = [o \in Obj |-> -1]
  /\ gen = [o \in Obj |-> 0]
  /\ due = [o \in Obj |-> -1]
  /\ lazy = [o \in Obj |-> FALSE]
  /\ running = [o \in Obj |-> 0]
  /\ ops = [g \in 0..MaxGen |-> 0]
  /\ emitting = 0
  /\ wait = [h \in Holder |-> "idle"]
  /\ releaseCh = {}
  /\ dropped = FALSE
-----------------------------------------------------------------------------
Held == cur # None
Past == Held /\ until[cur] < 0
Available == ~Held \/ Past
OwnLive(h) == Held /\ ~Past /\ owner[cur] = h

\* Objects no map entry, timer or closure refers to.
Garbage == {o \in Obj : o # cur /\ due[o] < 0 /\ running[o] = 0}

\* Calls whose callback is registered: WaitForLock subscribes before its first
\* attempt.  (mutant: it subscribes after a failed attempt)
SubscribedLate == {h \in Holder : wait[h] = "wait"}
Subscribed == {h \in Holder : wait[h] # "idle"}

Signal == releaseCh' = releaseCh \cup Subscribed

\* Release and the cleanup emit on the caller's goroutine, after the operation;
\* a caller whose context ended meanwhile returns without emitting.
Announce ==
  \/ /\ emitting < MaxOps
     /\ emitting' = emitting + 1
     /\ UNCHANGED dropped
  \/ dropped' = TRUE /\ UNCHANGED emitting
-----------------------------------------------------------------------------
(* Operations of the service goroutine *)

\* tryAcquireInternal succeeds: a new object of generation 0 with a timer of
\* its own.  The timer of an object it replaces goes on.
Acquire(h) ==
  /\ Available \/ OwnLive(h)
  /\ \E o \in Garbage :
       /\ cur' = o
       /\ owner' = [owner EXCEPT ![o] = h]
       /\ until' = [until EXCEPT ![o] = TTL]
       /\ gen' = [gen EXCEPT ![o] = 0]
       /\ due' = [due EXCEPT ![o] = TTL]
       /\ lazy' = [lazy EXCEPT ![o] = FALSE]
  /\ dropped' = FALSE

TryAcquire(h) ==
  /\ Acquire(h)
  /\ UNCHANGED <<running, ops, emitting, waiters>>

\* An operation removes the current object and stops its timer.
Remove ==
  /\ cur' = None
  /\ due' = [due EXCEPT ![cur] = -1]
  /\ UNCHANGED <<owner, until, gen, lazy>>

Release(h) ==
  /\ OwnLive(h)
  /\ Remove
  /\ Announce
  /\ UNCHANGED <<running, ops, waiters>>

\* TryAcquire of another consumer cleans the expired lock up.
CleanExpiredLocks ==
  /\ Past
  /\ Remove
  /\ Announce
  /\ UNCHANGED <<running, ops, waiters>>

\* (mutants: the old timer is stopped and none is started; the ttl is added to
\* what was left of the lease)
HeartbeatStopsTimer(h) ==
  /\ OwnLive(h)
  /\ gen[cur] < MaxGen
  /\ until' = [until EXCEPT ![cur] = TTL]
  /\ gen' = [gen EXCEPT ![cur] = @ + 1]
  /\ due' = [due EXCEPT ![cur] = -1]
  /\ lazy' = [lazy EXCEPT ![cur] = TRUE]
  /\ UNCHANGED <<cur, owner, running, ops, emitting, waiters, dropped>>
Heartbeat(h) ==
  /\ OwnLive(h)
  /\ gen[cur] < MaxGen
  /\ until' = [until EXCEPT ![cur] = TTL]
  /\ gen' = [gen EXCEPT ![cur] = @ + 1]
  /\ due' = [due EXCEPT ![cur] = TTL]
  /\ lazy' = [lazy EXCEPT ![cur] = TRUE]
  /\ UNCHANGED <<cur, owner, running, ops, emitting, waiters, dropped>>

\* lockExpiryOp.perform: emits and removes the lock, whichever object it is, if
\* the generations agree.  (mutant: it removes without emitting)
ExpireSilently(g) ==
  /\ ops[g] > 0
  /\ ops' = [ops EXCEPT ![g] = @ - 1]
  /\ cur' = IF Held /\ gen[cur] = g THEN None ELSE cur
  /\ UNCHANGED <<objects, running, emitting, waiters, dropped>>
PerformExpiry(g) ==
  /\ ops[g] > 0
  /\ ops' = [ops EXCEPT ![g] = @ - 1]
  /\ IF Held /\ gen[cur] = g
     THEN cur' = None /\ Signal
     ELSE UNCHANGED <<cur, releaseCh>>
  /\ UNCHANGED <<objects, running, emitting, wait, dropped>>
-----------------------------------------------------------------------------
(* Timers and time *)

\* The first timer of an object carries generation 0 in its operation.
FireTimer(o) ==
  /\ due[o] = 0
  /\ due' = [due EXCEPT ![o] = -1]
  /\ IF lazy[o]
     THEN /\ running[o] < MaxOps
          /\ running' = [running EXCEPT ![o] = @ + 1]
          /\ UNCHANGED ops
     ELSE /\ ops[0] < MaxOps
          /\ ops' = [ops EXCEPT ![0] = @ + 1]
          /\ UNCHANGED running
  /\ UNCHANGED <<cur, owner, until, gen, lazy, emitting, waiters, dropped>>

\* The closure of a heartbeat's timer reads the generation and queues.
QueueExpiry(o) ==
  /\ running[o] > 0
  /\ ops[gen[o]] < MaxOps
  /\ running' = [running EXCEPT ![o] = @ - 1]
  /\ ops' = [ops EXCEPT ![gen[o]] = @ + 1]
  /\ UNCHANGED <<cur, objects, emitting, waiters, dropped>>

\* A due timer may fire late, a lock is past its end at once.
Tick ==
  /\ until' = [o \in Obj |-> IF until[o] >= 0 THEN until[o] - 1 ELSE -1]
  /\ due' = [o \in Obj |-> IF due[o] > 0 THEN due[o] - 1 ELSE due[o]]
  /\ UNCHANGED <<cur, owner, gen, lazy, running, ops, emitting, waiters, dropped>>
-----------------------------------------------------------------------------
(* WaitForLock and the callers' Emit *)

EmitRelease ==
  /\ emitting > 0
  /\ emitting' = emitting - 1
  /\ Signal
  /\ UNCHANGED <<cur, objects, running, ops, wait, dropped>>

SubscribeToRelease(h) ==
  /\ h \in Waiter /\ wait[h] = "idle"
  /\ wait' = [wait EXCEPT ![h] = "try"]
  /\ UNCHANGED <<cur, objects, running, ops, emitting, releaseCh, dropped>>

EndWait(h) ==
  /\ wait' = [wait EXCEPT ![h] = "idle"]
  /\ releaseCh' = releaseCh \ {h}

Granted(h) ==
  /\ wait[h] = "try"
  /\ Acquire(h)
  /\ EndWait(h)
  /\ UNCHANGED <<running, ops, emitting>>

Refused(h) ==
  /\ wait[h] = "try"
  /\ ~Available /\ ~OwnLive(h)
  /\ wait' = [wait EXCEPT ![h] = "refused"]
  /\ UNCHANGED <<cur, objects, running, ops, emitting, releaseCh, dropped>>

\* The caller gets the refusal and goes to sleep.
Sleep(h) ==
  /\ wait[h] = "refused"
  /\ wait' = [wait EXCEPT ![h] = "wait"]
  /\ UNCHANGED <<cur, objects, running, ops, emitting, releaseCh, dropped>>

Wake(h) ==
  /\ wait[h] = "wait" /\ h \in releaseCh
  /\ wait' = [wait EXCEPT ![h] = "try"]
  /\ releaseCh' = releaseCh \ {h}
  /\ UNCHANGED <<cur, objects, running, ops, emitting, dropped>>

CancelWait(h) ==
  /\ wait[h] # "idle"
  /\ EndWait(h)
  /\ UNCHANGED <<cur, objects, running, ops, emitting, dropped>>

WaiterStep(h) == Granted(h) \/ Refused(h) \/ Sleep(h) \/ Wake(h)

Next ==
  \/ \E h \in Holder :
       \/ TryAcquire(h) \/ Release(h) \/ Heartbeat(h)
       \/ SubscribeToRelease(h) \/ WaiterStep(h) \/ CancelWait(h)
  \/ CleanExpiredLocks \/ EmitRelease \/ Tick
  \/ \E g \in 0..MaxGen : PerformExpiry(g)
  \/ \E o \in Obj : FireTimer(o) \/ QueueExpiry(o)

Spec == Init /\ [][Next]_vars

\* Timers fire, the service goroutine serves its queue, goroutines run.
Fairness ==
  /\ \A o \in Obj : WF_vars(FireTimer(o)) /\ WF_vars(QueueExpiry(o))
  /\ \A g \in 0..MaxGen : WF_vars(PerformExpiry(g))
  /\ WF_vars(EmitRelease)
  /\ \A h \in Holder : WF_vars(WaiterStep(h))

FairSpec == Spec /\ Fairness
-----------------------------------------------------------------------------
(* Properties *)

\* However often it is renewed, a lock in the map has a running timer, a closure
\* or a queued operation that will remove it: none is held for ever.
LockWillExpire ==
  Held => due[cur] >= 0 \/ running[cur] > 0 \/ ops[gen[cur]] > 0

\* The types, and a held lock has something that will end it (lockExpiryOp).
LockInv == TypeOK /\ LockWillExpire

\* No WaitForLock call sleeps beside a free lock without a signal under way,
\* because it subscribed before it first tried.
NoSleepBesideFreeLock ==
  \A h \in Holder :
    wait[h] = "wait" /\ ~Held /\ ~dropped => h \in releaseCh \/ emitting > 0

(* The inductive strengthening of these invariants *)

\* An object whose first timer still counts was never renewed.
FirstTimerCurrent == \A o \in Obj : ~lazy[o] => gen[o] = 0

\* A refusal stays announced until the call tries again.
RefusalAnnounced ==
  \A h \in Holder :
    wait[h] \in {"refused", "wait"} /\ ~Held /\ ~dropped => h \in releaseCh \/ emitting > 0

MemInv == TypeOK /\ FirstTimerCurrent /\ LockWillExpire /\ RefusalAnnounced
-----------------------------------------------------------------------------
\* A waiting call is woken when the lock is released or expires, unless the
\* releasing caller gave up before its Emit.
WaiterIsServed ==
  \A h \in Holder :
    (wait[h] = "wait" /\ Available)
      ~> (wait[h] # "wait" \/ ~Available \/ dropped)
=============================================================================
