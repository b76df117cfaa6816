------------------------- MODULE MemoryLocksProofs -------------------------
(***************************************************************************)
(* Proofs about the consumer lock of the in-memory transport, for any      *)
(* number of holders, waiters and lock objects, and any TTL.               *)
(***************************************************************************)
EXTENDS MemoryLocks, TLAPS

USE DEF objects, waiters

\* What counting in a table of bounded counters does to the table.
LEMMA CountUp ==
  ASSUME NEW S, NEW N \in Nat, NEW f \in [S -> 0..N], NEW x \in S, f[x] < N
  PROVE  /\ [f EXCEPT ![x] = f[x] + 1] \in [S -> 0..N]
         /\ \A y \in S : /\ [f EXCEPT ![x] = f[x] + 1][y] >= f[y]
                         /\ y = x => [f EXCEPT ![x] = f[x] + 1][y] > 0
<1>1. f[x] + 1 \in 0..N /\ f[x] + 1 > 0
  OBVIOUS
<1> QED
  BY <1>1
\* A counter above zero that goes down by one stays in its range.
LEMMA CountDown ==
  ASSUME NEW S, NEW N \in Nat, NEW f \in [S -> 0..N], NEW x \in S, f[x] > 0
  PROVE  [f EXCEPT ![x] = f[x] - 1] \in [S -> 0..N]
<1>1. f[x] - 1 \in 0..N
  OBVIOUS
<1> QED
  BY <1>1

\* A tick keeps what is left of a lease or of a timer in its range.
LEMMA TickRange ==
  ASSUME NEW N \in Nat, NEW u \in -1..N
  PROVE  /\ (IF u >= 0 THEN u - 1 ELSE -1) \in -1..N
         /\ (IF u > 0 THEN u - 1 ELSE u) \in -1..N
OBVIOUS

\* Announcing a release keeps its counter, or records that it was dropped.
LEMMA AnnounceEffect ==
  ASSUME TypeOK, Announce
  PROVE  /\ emitting' \in 0..MaxOps /\ dropped' \in BOOLEAN
         /\ dropped' \/ emitting' > 0
<1>1. CASE emitting < MaxOps /\ emitting' = emitting + 1 /\ UNCHANGED dropped
  BY <1>1, MemAssump DEF MemAssump, TypeOK
<1>2. CASE dropped' = TRUE /\ UNCHANGED emitting
  BY <1>2 DEF TypeOK
<1> QED
  BY <1>1, <1>2 DEF Announce

\* An acquired object is a fresh one of generation 0 whose timer runs.
LEMMA AcquireEffect ==
  ASSUME TypeOK, NEW h \in Holder, Acquire(h)
  PROVE  \E o \in Obj :
           /\ cur' = o /\ o # None
           /\ owner' = [owner EXCEPT ![o] = h]
           /\ until' = [until EXCEPT ![o] = TTL]
           /\ gen' = [gen EXCEPT ![o] = 0]
           /\ due' = [due EXCEPT ![o] = TTL]
           /\ lazy' = [lazy EXCEPT ![o] = FALSE]
BY MemAssump DEF MemAssump, Acquire, Garbage

\* An operation keeps the types.
LEMMA TypeStep == TypeOK /\ [Next]_vars => TypeOK'
<1> SUFFICES ASSUME TypeOK, [Next]_vars PROVE TypeOK'
  OBVIOUS
<1> USE MemAssump DEF MemAssump, TypeOK, Held, OwnLive, Past
<1>1. ASSUME NEW h \in Holder, Acquire(h), UNCHANGED <<running, ops, emitting>>,
             wait' \in [Holder -> {"idle", "try", "refused", "wait"}],
             releaseCh' \subseteq Holder
      PROVE  TypeOK'
  <2>1. dropped' \in BOOLEAN
    BY <1>1 DEF Acquire
  <2>2. /\ cur' \in Obj /\ owner' \in [Obj -> Holder] /\ until' \in [Obj -> -1..TTL]
        /\ gen' \in [Obj -> 0..MaxGen] /\ due' \in [Obj -> -1..TTL]
    <3>1. PICK o \in Obj : /\ cur' = o
                           /\ owner' = [owner EXCEPT ![o] = h]
                           /\ until' = [until EXCEPT ![o] = TTL]
                           /\ gen' = [gen EXCEPT ![o] = 0]
                           /\ due' = [due EXCEPT ![o] = TTL]
      BY <1>1, AcquireEffect
    <3>2. TTL \in -1..TTL /\ 0 \in 0..MaxGen
      OBVIOUS
    <3> QED
      BY <3>1, <3>2
  <2>3. lazy' \in [Obj -> BOOLEAN]
    BY <1>1, AcquireEffect
  <2> QED
    BY <1>1, <2>1, <2>2, <2>3
<1>2. ASSUME Held, Remove, Announce, UNCHANGED <<running, ops, waiters>>
      PROVE  TypeOK'
  <2>1. emitting' \in 0..MaxOps /\ dropped' \in BOOLEAN
    BY <1>2, AnnounceEffect
  <2>2. due' \in [Obj -> -1..TTL]
    BY <1>2 DEF Remove
  <2> QED
    BY <1>2, <2>1, <2>2 DEF Remove
<1>3. ASSUME NEW h \in Holder, Heartbeat(h)
      PROVE  TypeOK'
  <2>1. /\ until' \in [Obj -> -1..TTL] /\ due' \in [Obj -> -1..TTL]
        /\ gen' \in [Obj -> 0..MaxGen]
    <3>1. until' \in [Obj -> -1..TTL]
      BY <1>3 DEF Heartbeat
    <3>2. due' \in [Obj -> -1..TTL]
      BY <1>3 DEF Heartbeat
    <3>3. gen' \in [Obj -> 0..MaxGen]
      BY <1>3 DEF Heartbeat
    <3> QED
      BY <3>1, <3>2, <3>3
  <2>2. lazy' \in [Obj -> BOOLEAN]
    BY <1>3 DEF Heartbeat
  <2> QED
    BY <1>3, <2>1, <2>2 DEF Heartbeat
<1>4. ASSUME NEW g \in 0..MaxGen, PerformExpiry(g)
      PROVE  TypeOK'
  <2>1. ops' \in [0..MaxGen -> 0..MaxOps]
    BY <1>4, SMTT(20) DEF PerformExpiry
  <2>2. cur' \in Obj \cup {None} /\ releaseCh' \subseteq Holder
    BY <1>4 DEF PerformExpiry, Signal, Subscribed
  <2> QED
    BY <1>4, <2>1, <2>2 DEF PerformExpiry
<1>5. ASSUME NEW o \in Obj, FireTimer(o)
      PROVE  TypeOK'
  <2>1. due' \in [Obj -> -1..TTL]
    BY <1>5 DEF FireTimer
  <2>2. running' \in [Obj -> 0..MaxOps] /\ ops' \in [0..MaxGen -> 0..MaxOps]
    <3>1. CASE lazy[o]
      <4>1. running[o] < MaxOps /\ running' = [running EXCEPT ![o] = running[o] + 1]
            /\ ops' = ops
        BY <1>5, <3>1 DEF FireTimer
      <4> QED
        BY <4>1, CountUp
    <3>2. CASE ~lazy[o]
      <4>1. 0 \in 0..MaxGen /\ ops[0] < MaxOps /\ ops' = [ops EXCEPT ![0] = ops[0] + 1]
            /\ running' = running
        BY <1>5, <3>2 DEF FireTimer
      <4> QED
        BY <4>1, CountUp
    <3> QED
      BY <3>1, <3>2
  <2> QED
    BY <1>5, <2>1, <2>2 DEF FireTimer
<1>6. ASSUME NEW o \in Obj, QueueExpiry(o)
      PROVE  TypeOK'
  <2>1. running' \in [Obj -> 0..MaxOps] /\ ops' \in [0..MaxGen -> 0..MaxOps]
    <3>1. /\ gen[o] \in 0..MaxGen /\ ops[gen[o]] < MaxOps /\ running[o] > 0
          /\ running' = [running EXCEPT ![o] = running[o] - 1]
          /\ ops' = [ops EXCEPT ![gen[o]] = ops[gen[o]] + 1]
      BY <1>6 DEF QueueExpiry
    <3> QED
      BY <3>1, CountUp, CountDown
  <2> QED
    BY <1>6, <2>1 DEF QueueExpiry
<1>7. CASE Tick
  <2>1. until' \in [Obj -> -1..TTL] /\ due' \in [Obj -> -1..TTL]
    <3>1. \A o \in Obj : until[o] \in -1..TTL /\ due[o] \in -1..TTL
      OBVIOUS
    <3>2. \A o \in Obj : (IF until[o] >= 0 THEN until[o] - 1 ELSE -1) \in -1..TTL
      BY <3>1, TickRange
    <3>3. \A o \in Obj : (IF due[o] > 0 THEN due[o] - 1 ELSE due[o]) \in -1..TTL
      BY <3>1, TickRange
    <3> QED
      BY <1>7, <3>2, <3>3 DEF Tick
  <2> QED
    BY <1>7, <2>1 DEF Tick
<1>8. CASE EmitRelease
  BY <1>8 DEF EmitRelease, Signal, Subscribed
<1>9. CASE /\ UNCHANGED <<cur, objects, running, ops, emitting, dropped>>
           /\ wait' \in [Holder -> {"idle", "try", "refused", "wait"}]
           /\ releaseCh' \subseteq Holder
  BY <1>9
<1>10. ASSUME NEW h \in Holder,
              SubscribeToRelease(h) \/ WaiterStep(h) \/ CancelWait(h) \/ TryAcquire(h)
       PROVE  /\ wait' \in [Holder -> {"idle", "try", "refused", "wait"}]
              /\ releaseCh' \subseteq Holder
  BY <1>10 DEF SubscribeToRelease, WaiterStep, Granted, Refused, Sleep, Wake, CancelWait,
               EndWait, TryAcquire
<1>11. ASSUME NEW h \in Holder, WaiterStep(h)
       PROVE  TypeOK'
  BY <1>1, <1>9, <1>10, <1>11 DEF WaiterStep, Granted, Refused, Sleep, Wake
<1>12. CASE UNCHANGED vars
  BY <1>12 DEF vars
<1> QED
  BY <1>1, <1>2, <1>3, <1>4, <1>5, <1>6, <1>7, <1>8, <1>9, <1>10, <1>11, <1>12
     DEF Next, TryAcquire, Release, CleanExpiredLocks, SubscribeToRelease, CancelWait

\* Whatever happens to the lock in the map, something will end it: an operation
\* that is consumed without removing it was of another generation.
LEMMA ExpiryStep ==
  TypeOK /\ FirstTimerCurrent /\ LockWillExpire /\ [Next]_vars
    => FirstTimerCurrent' /\ LockWillExpire'
<1> SUFFICES ASSUME TypeOK, FirstTimerCurrent, LockWillExpire, [Next]_vars
             PROVE  FirstTimerCurrent' /\ LockWillExpire'
  OBVIOUS
<1> USE MemAssump DEF MemAssump, TypeOK, FirstTimerCurrent, LockWillExpire, Held
<1>1. ASSUME NEW h \in Holder, Acquire(h), UNCHANGED <<running, ops>>
      PROVE  FirstTimerCurrent' /\ LockWillExpire'
  <2>1. PICK o \in Obj : /\ cur' = o
                         /\ gen' = [gen EXCEPT ![o] = 0]
                         /\ due' = [due EXCEPT ![o] = TTL]
                         /\ lazy' = [lazy EXCEPT ![o] = FALSE]
    BY <1>1, AcquireEffect
  <2>2. FirstTimerCurrent'
    BY <2>1
  <2>3. due'[cur'] = TTL /\ TTL >= 0
    BY <2>1
  <2> QED
    BY <2>2, <2>3
<1>2. ASSUME Remove
      PROVE  FirstTimerCurrent' /\ LockWillExpire'
  BY <1>2 DEF Remove
<1>3. ASSUME NEW h \in Holder, Heartbeat(h)
      PROVE  FirstTimerCurrent' /\ LockWillExpire'
  BY <1>3 DEF Heartbeat, OwnLive
<1>4. ASSUME NEW g \in 0..MaxGen, PerformExpiry(g)
      PROVE  FirstTimerCurrent' /\ LockWillExpire'
  BY <1>4 DEF PerformExpiry
<1>5. ASSUME NEW o \in Obj, FireTimer(o)
      PROVE  FirstTimerCurrent' /\ LockWillExpire'
  <2>1. FirstTimerCurrent' /\ cur' = cur /\ gen' = gen
    BY <1>5 DEF FireTimer
  <2>2. CASE lazy[o]
    <3>1. /\ running[o] < MaxOps /\ running' = [running EXCEPT ![o] = running[o] + 1]
          /\ ops' = ops /\ due' = [due EXCEPT ![o] = -1]
      BY <1>5, <2>2 DEF FireTimer
    <3>2. \A q \in Obj : running'[q] >= running[q] /\ (q = o => running'[q] > 0)
      BY <3>1, CountUp
    <3> QED
      BY <2>1, <3>1, <3>2
  <2>3. CASE ~lazy[o]
    <3>1. /\ ops[0] < MaxOps /\ ops' = [ops EXCEPT ![0] = ops[0] + 1]
          /\ running' = running /\ due' = [due EXCEPT ![o] = -1] /\ 0 \in 0..MaxGen
      BY <1>5, <2>3 DEF FireTimer
    <3>2. gen[o] = 0 /\ \A g \in 0..MaxGen : ops'[g] >= ops[g] /\ (g = 0 => ops'[g] > 0)
      BY <2>3, <3>1, CountUp, SMTT(20)
    <3>3. \A q \in Obj : gen[q] \in 0..MaxGen
      OBVIOUS
    <3> QED
      BY <2>1, <3>1, <3>2, <3>3
  <2> QED
    BY <2>2, <2>3
<1>6. ASSUME NEW o \in Obj, QueueExpiry(o)
      PROVE  FirstTimerCurrent' /\ LockWillExpire'
  <2>1. /\ FirstTimerCurrent' /\ cur' = cur /\ gen' = gen /\ due' = due
        /\ running' = [running EXCEPT ![o] = running[o] - 1]
        /\ ops' = [ops EXCEPT ![gen[o]] = ops[gen[o]] + 1] /\ ops[gen[o]] < MaxOps
    BY <1>6 DEF QueueExpiry
  <2>2. \A q \in Obj : gen[q] \in 0..MaxGen /\ (q # o => running'[q] = running[q])
    BY <2>1
  <2>3. \A g \in 0..MaxGen : ops'[g] >= ops[g] /\ (g = gen[o] => ops'[g] > 0)
    <3>1. /\ gen[o] \in 0..MaxGen /\ ops[gen[o]] < MaxOps /\ MaxOps \in Nat
          /\ ops \in [0..MaxGen -> 0..MaxOps]
      BY <2>1
    <3> HIDE DEF TypeOK, FirstTimerCurrent, LockWillExpire, MemAssump
    <3> QED
      BY <2>1, <3>1, CountUp
  <2> QED
    BY <2>1, <2>2, <2>3
<1>7. CASE Tick
  BY <1>7 DEF Tick
<1>8. CASE UNCHANGED <<cur, objects, running, ops>>
  BY <1>8
<1> QED
  BY <1>1, <1>2, <1>3, <1>4, <1>5, <1>6, <1>7, <1>8
     DEF Next, TryAcquire, Release, CleanExpiredLocks, EmitRelease, SubscribeToRelease,
         WaiterStep, Granted, Refused, Sleep, Wake, CancelWait, vars

\* The lock becomes free together with a signal or a promise of one, and only
\* the waiting call takes its signal away.
LEMMA AnnouncedStep == TypeOK /\ RefusalAnnounced /\ [Next]_vars => RefusalAnnounced'
<1> SUFFICES ASSUME TypeOK, RefusalAnnounced, [Next]_vars PROVE RefusalAnnounced'
  OBVIOUS
<1> USE MemAssump DEF MemAssump, TypeOK, RefusalAnnounced, Held
<1>1. ASSUME NEW h \in Holder, Acquire(h)
      PROVE  RefusalAnnounced'
  BY <1>1, AcquireEffect
<1>2. CASE Announce /\ UNCHANGED waiters
  BY <1>2, AnnounceEffect
<1>3. ASSUME NEW g \in 0..MaxGen, PerformExpiry(g)
      PROVE  RefusalAnnounced'
  BY <1>3 DEF PerformExpiry, Signal, Subscribed
<1>4. CASE EmitRelease
  BY <1>4 DEF EmitRelease, Signal, Subscribed
<1>5. ASSUME NEW h \in Holder, SubscribeToRelease(h)
      PROVE  RefusalAnnounced'
  BY <1>5 DEF SubscribeToRelease
<1>6. ASSUME NEW h \in Holder, Refused(h)
      PROVE  RefusalAnnounced'
  BY <1>6 DEF Refused, Available, Past
<1>7. ASSUME NEW h \in Holder, Sleep(h) \/ Wake(h) \/ CancelWait(h)
      PROVE  RefusalAnnounced'
  BY <1>7 DEF Sleep, Wake, CancelWait, EndWait
<1>8. CASE UNCHANGED <<cur, emitting, waiters, dropped>>
  BY <1>8
<1> QED
  BY <1>1, <1>2, <1>3, <1>4, <1>5, <1>6, <1>7, <1>8
     DEF Next, TryAcquire, Release, Heartbeat, CleanExpiredLocks, Tick, FireTimer, QueueExpiry,
         WaiterStep, Granted, vars

\* The inductive invariant of the in-memory lock: generations tell timers apart,
\* and what will end a lock or wake a waiting call is always somewhere on its way
\* (tryAcquireInternal, heartbeatLockAndPosition, lockExpiryOp, WaitForLock).
THEOREM MemoryInvariant == Spec => []MemInv
<1>1. Init => MemInv
  <2> SUFFICES ASSUME Init PROVE MemInv
    OBVIOUS
  <2>1. owner \in [Obj -> Holder]
    BY MemAssump DEF MemAssump, Init
  <2>2. lazy \in [Obj -> BOOLEAN] /\ dropped \in BOOLEAN
    BY DEF Init
  <2>3. TypeOK
    BY <2>1, <2>2, MemAssump DEF MemAssump, Init, TypeOK
  <2> QED
    BY <2>3 DEF Init, MemInv, FirstTimerCurrent, LockWillExpire, RefusalAnnounced, Held
<1>2. MemInv /\ [Next]_vars => MemInv'
  BY TypeStep, ExpiryStep, AnnouncedStep DEF MemInv
<1> QED
  BY <1>1, <1>2, PTL DEF Spec

\* However often it is renewed or replaced, a held in-memory lock has a timer, a
\* closure or a queued operation that will remove it (lockExpiryOp.perform).
THEOREM HeldLockWillExpire == Spec => []LockInv
<1>1. MemInv => LockInv
  BY DEF MemInv, LockInv
<1> QED
  BY <1>1, MemoryInvariant, PTL

\* No WaitForLock call sleeps beside a free lock with no signal under way
\* (WaitForLock subscribes before it tries).
THEOREM NoLostRelease == Spec => []NoSleepBesideFreeLock
<1>1. MemInv => NoSleepBesideFreeLock
  BY DEF MemInv, RefusalAnnounced, NoSleepBesideFreeLock
<1> QED
  BY <1>1, MemoryInvariant, PTL
=============================================================================
