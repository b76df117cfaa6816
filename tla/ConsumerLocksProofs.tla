------------------------ MODULE ConsumerLocksProofs ------------------------
(***************************************************************************)
(* Proofs about the consumer-lock store, for any number of consumers,      *)
(* holders and requests, any TTL and guarantee, and any workload.          *)
(***************************************************************************)
EXTENDS ConsumerLocks, TLAPS

USE DEF store, call, ghost, Steps, TxSteps, AcquireSteps

\* The initial states have the right types.
LEMMA TypeInit == Init => TypeOK
BY ConstAssump DEF Init, TypeOK, ConstAssump

\* Telling a caller its guarantee keeps the type of the promises.
LEMMA TellType ==
  ASSUME TypeOK, NEW c \in Consumer, NEW h \in Holder, NEW u \in Nat, Tell(c, h, u)
  PROVE  promise' \in [Consumer -> [Holder -> Nat]]
<1>1. CASE UNCHANGED promise
  BY <1>1 DEF TypeOK
<1>2. ASSUME NEW g, g = u - (TTL - Guarantee), g > promise[c][h],
             promise' = [promise EXCEPT ![c][h] = g]
      PROVE  promise' \in [Consumer -> [Holder -> Nat]]
  <2>1. g \in Nat
    BY <1>2, ConstAssump DEF TypeOK, ConstAssump
  <2> QED
    BY <1>2, <2>1 DEF TypeOK
<1> QED
  BY <1>1, <1>2 DEF Tell

\* A caller is told nothing, or its own new guarantee.
LEMMA TellEffect ==
  ASSUME TypeOK, NEW c \in Consumer, NEW h \in Holder, NEW u \in Nat, Tell(c, h, u),
         NEW d \in Consumer, NEW g \in Holder
  PROVE  \/ promise'[d][g] = promise[d][g]
         \/ d = c /\ g = h /\ promise'[d][g] = u - (TTL - Guarantee)
<1>1. CASE UNCHANGED promise
  BY <1>1
<1>2. CASE promise' = [promise EXCEPT ![c][h] = u - (TTL - Guarantee)]
  <2>1. CASE d = c /\ g = h
    BY <1>2, <2>1 DEF TypeOK
  <2>2. CASE d = c /\ g # h
    BY <1>2, <2>2 DEF TypeOK
  <2>3. CASE d # c
    BY <1>2, <2>3 DEF TypeOK
  <2> QED
    BY <2>1, <2>2, <2>3
<1> QED
  BY <1>1, <1>2 DEF Tell

\* One step keeps the types, whichever statement it is.
LEMMA TypeStep == TypeOK /\ [Next]_vars => TypeOK'
<1> SUFFICES ASSUME TypeOK, [Next]_vars PROVE TypeOK'
  OBVIOUS
<1> USE ConstAssump DEF ConstAssump, TypeOK
<1>1. ASSUME NEW p \in Proc, NEW c \in Consumer, NEW h \in Holder, TryAcquire(p, c, h)
      PROVE  TypeOK'
  BY <1>1 DEF TryAcquire, Start
<1>2. ASSUME NEW p \in Proc, NEW c \in Consumer, NEW h \in Holder, NEW n \in 0..MaxPos,
             Heartbeat(p, c, h, n)
      PROVE  TypeOK'
  BY <1>2 DEF Heartbeat, Start
<1>3. ASSUME NEW p \in Proc, NEW c \in Consumer, NEW h \in Holder, QueryActiveLock(p, c, h)
      PROVE  TypeOK'
  BY <1>3 DEF QueryActiveLock, Start
<1>4. ASSUME NEW p \in Proc, NEW c \in Consumer, NEW h \in Holder, SubmitWithLock(p, c, h)
      PROVE  TypeOK'
  BY <1>4 DEF SubmitWithLock, Start
<1>5. ASSUME NEW p \in Proc, AdvisoryLock(p) PROVE TypeOK'
  BY <1>5 DEF AdvisoryLock, Goto
<1>6. ASSUME NEW p \in Proc, UpsertLock(p) PROVE TypeOK'
  BY <1>6 DEF UpsertLock, Goto
<1>7. ASSUME NEW p \in Proc, RefuseAcquire(p) PROVE TypeOK'
  BY <1>7 DEF RefuseAcquire, Return
<1>8. ASSUME NEW p \in Proc, CleanExpiredLocks(p) PROVE TypeOK'
  BY <1>8 DEF CleanExpiredLocks, Goto
<1>9. ASSUME NEW p \in Proc, CleanupFails(p) PROVE TypeOK'
  BY <1>9 DEF CleanupFails, Goto
<1>10. ASSUME NEW p \in Proc, QueryPosition(p) PROVE TypeOK'
  BY <1>10 DEF QueryPosition, Goto
<1>11. ASSUME NEW p \in Proc, CommitAcquire(p) PROVE TypeOK'
  <2>1. promise' \in [Consumer -> [Holder -> Nat]]
    BY <1>11, TellType DEF CommitAcquire
  <2> QED
    BY <1>11, <2>1 DEF CommitAcquire, Return, Disturb
<1>12. ASSUME NEW p \in Proc, UpdateLockHeartbeat(p) PROVE TypeOK'
  BY <1>12 DEF UpdateLockHeartbeat, Goto, RenewUntil
<1>13. ASSUME NEW p \in Proc, RejectHeartbeat(p) PROVE TypeOK'
  BY <1>13 DEF RejectHeartbeat, Return
<1>14. ASSUME NEW p \in Proc, CommitHeartbeat(p) PROVE TypeOK'
  <2>1. promise' \in [Consumer -> [Holder -> Nat]]
    BY <1>14, TellType DEF CommitHeartbeat
  <2> QED
    BY <1>14, <2>1 DEF CommitHeartbeat, Return, Disturb
<1>15. ASSUME NEW p \in Proc, ConflictHeartbeat(p) PROVE TypeOK'
  BY <1>15 DEF ConflictHeartbeat, Return
<1>16. ASSUME NEW p \in Proc, DeleteLock(p) PROVE TypeOK'
  BY <1>16 DEF DeleteLock, Return
<1>17. ASSUME NEW p \in Proc, ResolveAndCheckLock(p) PROVE TypeOK'
  BY <1>17 DEF ResolveAndCheckLock, Goto
<1>18. ASSUME NEW p \in Proc, RejectSubmit(p) PROVE TypeOK'
  BY <1>18 DEF RejectSubmit, Return
<1>19. ASSUME NEW p \in Proc, CommitSubmit(p) PROVE TypeOK'
  BY <1>19 DEF CommitSubmit, Return
<1>20. ASSUME NEW p \in Proc, Abort(p) PROVE TypeOK'
  BY <1>20 DEF Abort, Return
<1>21. ASSUME NEW c \in Consumer, DeletePosition(c) PROVE TypeOK'
  BY <1>21 DEF DeletePosition
<1>22. ASSUME NEW c \in Consumer, NEW n \in 0..MaxPos, SetPosition(c, n) PROVE TypeOK'
  BY <1>22 DEF SetPosition
<1>23. CASE Tick
  BY <1>23 DEF Tick
<1>24. CASE UNCHANGED vars
  BY <1>24 DEF vars
<1> QED
  BY <1>1, <1>2, <1>3, <1>4, <1>5, <1>6, <1>7, <1>8, <1>9, <1>10, <1>11, <1>12,
     <1>13, <1>14, <1>15, <1>16, <1>17, <1>18, <1>19, <1>20, <1>21, <1>22, <1>23,
     <1>24 DEF Next, Progress

\* The variables of the lock store keep their types.
THEOREM TypeCorrect == Spec => []TypeOK
BY TypeInit, TypeStep, PTL DEF Spec

\* Every step keeps the inductive invariant.
LEMMA LeaseInvStep == LeaseInv /\ [Next]_vars => LeaseInv'
<1> SUFFICES ASSUME LeaseInv, [Next]_vars PROVE LeaseInv'
  OBVIOUS
<1> USE ConstAssump DEF ConstAssump
<1>0. TypeOK /\ TypeOK'
  BY TypeStep DEF LeaseInv
<1>1. ASSUME NEW p \in Proc, NEW c \in Consumer, NEW h \in Holder, TryAcquire(p, c, h)
      PROVE  LeaseInv'
  BY <1>0, <1>1 DEF LeaseInv, TypeOK, TryAcquire, Start,
       TimesPast, SingleAcquirer, HoldsAdvisory, SingleRowWriter, OwnsRow,
       AcquireFenced, MayTake, HeartbeatFenced, OwnLiveRow, GuaranteeBacked, Relies,
       ReleaseIntact, AckStored, GrantCoversAcks
<1>2. ASSUME NEW p \in Proc, NEW c \in Consumer, NEW h \in Holder, NEW n \in 0..MaxPos, Heartbeat(p, c, h, n)
      PROVE  LeaseInv'
  BY <1>0, <1>2 DEF LeaseInv, TypeOK, Heartbeat, Start,
       TimesPast, SingleAcquirer, HoldsAdvisory, SingleRowWriter, OwnsRow,
       AcquireFenced, MayTake, HeartbeatFenced, OwnLiveRow, GuaranteeBacked, Relies,
       ReleaseIntact, AckStored, GrantCoversAcks
<1>3. ASSUME NEW p \in Proc, NEW c \in Consumer, NEW h \in Holder, QueryActiveLock(p, c, h)
      PROVE  LeaseInv'
  <2>1. TimesPast'
    BY <1>0, <1>3 DEF LeaseInv, TypeOK, QueryActiveLock, Start, TimesPast
  <2>2. SingleAcquirer'
    BY <1>0, <1>3 DEF LeaseInv, TypeOK, QueryActiveLock, Start, SingleAcquirer, HoldsAdvisory
  <2>3. SingleRowWriter'
    BY <1>0, <1>3 DEF LeaseInv, TypeOK, QueryActiveLock, Start, SingleRowWriter, OwnsRow
  <2>4. AcquireFenced'
    BY <1>0, <1>3 DEF LeaseInv, TypeOK, QueryActiveLock, Start, AcquireFenced, MayTake
  <2>5. HeartbeatFenced'
    BY <1>0, <1>3 DEF LeaseInv, TypeOK, QueryActiveLock, Start, HeartbeatFenced, OwnLiveRow
  <2>6. GuaranteeBacked'
    BY <1>0, <1>3 DEF LeaseInv, TypeOK, QueryActiveLock, Start, GuaranteeBacked, Relies
  <2>7. ReleaseIntact'
    BY <1>0, <1>3 DEF LeaseInv, TypeOK, QueryActiveLock, Start, ReleaseIntact
  <2>8. AckStored'
    BY <1>0, <1>3 DEF LeaseInv, TypeOK, QueryActiveLock, Start, AckStored
  <2>9. GrantCoversAcks'
    BY <1>0, <1>3 DEF LeaseInv, TypeOK, QueryActiveLock, Start, GrantCoversAcks
  <2> QED
    BY <1>0, <2>1, <2>2, <2>3, <2>4, <2>5, <2>6, <2>7, <2>8, <2>9 DEF LeaseInv
<1>4. ASSUME NEW p \in Proc, NEW c \in Consumer, NEW h \in Holder, SubmitWithLock(p, c, h)
      PROVE  LeaseInv'
  BY <1>0, <1>4 DEF LeaseInv, TypeOK, SubmitWithLock, Start,
       TimesPast, SingleAcquirer, HoldsAdvisory, SingleRowWriter, OwnsRow,
       AcquireFenced, MayTake, HeartbeatFenced, OwnLiveRow, GuaranteeBacked, Relies,
       ReleaseIntact, AckStored, GrantCoversAcks
<1>5. ASSUME NEW p \in Proc, AdvisoryLock(p)
      PROVE  LeaseInv'
  <2>1. TimesPast'
    BY <1>0, <1>5 DEF LeaseInv, TypeOK, AdvisoryLock, Goto, AdvisoryFree, TimesPast
  <2>2. SingleAcquirer'
    BY <1>0, <1>5 DEF LeaseInv, TypeOK, AdvisoryLock, Goto, AdvisoryFree, SingleAcquirer, HoldsAdvisory
  <2>3. SingleRowWriter'
    BY <1>0, <1>5 DEF LeaseInv, TypeOK, AdvisoryLock, Goto, AdvisoryFree, SingleRowWriter, OwnsRow
  <2>4. AcquireFenced'
    BY <1>0, <1>5 DEF LeaseInv, TypeOK, AdvisoryLock, Goto, AdvisoryFree, AcquireFenced, MayTake
  <2>5. HeartbeatFenced'
    BY <1>0, <1>5 DEF LeaseInv, TypeOK, AdvisoryLock, Goto, AdvisoryFree, HeartbeatFenced, OwnLiveRow
  <2>6. GuaranteeBacked'
    BY <1>0, <1>5 DEF LeaseInv, TypeOK, AdvisoryLock, Goto, AdvisoryFree, GuaranteeBacked, Relies
  <2>7. ReleaseIntact'
    BY <1>0, <1>5 DEF LeaseInv, TypeOK, AdvisoryLock, Goto, AdvisoryFree, ReleaseIntact
  <2>8. AckStored'
    BY <1>0, <1>5 DEF LeaseInv, TypeOK, AdvisoryLock, Goto, AdvisoryFree, AckStored
  <2>9. GrantCoversAcks'
    BY <1>0, <1>5 DEF LeaseInv, TypeOK, AdvisoryLock, Goto, AdvisoryFree, GrantCoversAcks
  <2> QED
    BY <1>0, <2>1, <2>2, <2>3, <2>4, <2>5, <2>6, <2>7, <2>8, <2>9 DEF LeaseInv
<1>6. ASSUME NEW p \in Proc, UpsertLock(p)
      PROVE  LeaseInv'
  <2>1. TimesPast'
    BY <1>0, <1>6 DEF LeaseInv, TypeOK, UpsertLock, Goto, TimesPast
  <2>2. SingleAcquirer'
    BY <1>0, <1>6 DEF LeaseInv, TypeOK, UpsertLock, Goto, SingleAcquirer, HoldsAdvisory
  <2>3. SingleRowWriter'
    \* Another writer of an existing row would block the upsert; another writer of
    \* a missing row would be an acquirer holding the same advisory lock.
    <3>1. ASSUME NEW q \in Proc, q # p, OwnsRow(q, con[p]) PROVE FALSE
      <4>1. holderOf[con[p]] = None
        BY <1>6, <3>1 DEF UpsertLock, RowLocked
      <4>2. CASE pc[q] = "advance"
        BY <1>0, <3>1, <4>1, <4>2 DEF LeaseInv, TypeOK, HeartbeatFenced, OwnLiveRow, OwnsRow
      <4>3. CASE pc[q] # "advance"
        BY <1>0, <1>6, <3>1, <4>3 DEF LeaseInv, TypeOK, UpsertLock, SingleAcquirer,
           HoldsAdvisory, OwnsRow
      <4> QED
        BY <4>2, <4>3
    <3> QED
      BY <1>0, <1>6, <3>1 DEF LeaseInv, TypeOK, UpsertLock, Goto, SingleRowWriter, OwnsRow
  <2>4. AcquireFenced'
    BY <1>0, <1>6 DEF LeaseInv, TypeOK, UpsertLock, Goto, AcquireFenced, MayTake, TimesPast
  <2>5. HeartbeatFenced'
    BY <1>0, <1>6 DEF LeaseInv, TypeOK, UpsertLock, Goto, HeartbeatFenced, OwnLiveRow
  <2>6. GuaranteeBacked'
    BY <1>0, <1>6 DEF LeaseInv, TypeOK, UpsertLock, Goto, GuaranteeBacked, Relies
  <2>7. ReleaseIntact'
    BY <1>0, <1>6 DEF LeaseInv, TypeOK, UpsertLock, Goto, ReleaseIntact
  <2>8. AckStored'
    BY <1>0, <1>6 DEF LeaseInv, TypeOK, UpsertLock, Goto, AckStored
  <2>9. GrantCoversAcks'
    BY <1>0, <1>6 DEF LeaseInv, TypeOK, UpsertLock, Goto, GrantCoversAcks
  <2> QED
    BY <1>0, <2>1, <2>2, <2>3, <2>4, <2>5, <2>6, <2>7, <2>8, <2>9 DEF LeaseInv
<1>7. ASSUME NEW p \in Proc, RefuseAcquire(p)
      PROVE  LeaseInv'
  BY <1>0, <1>7 DEF LeaseInv, TypeOK, RefuseAcquire, Return,
       TimesPast, SingleAcquirer, HoldsAdvisory, SingleRowWriter, OwnsRow,
       AcquireFenced, MayTake, HeartbeatFenced, OwnLiveRow, GuaranteeBacked, Relies,
       ReleaseIntact, AckStored, GrantCoversAcks
<1>8. ASSUME NEW p \in Proc, CleanExpiredLocks(p)
      PROVE  LeaseInv'
  <2>1. TimesPast'
    BY <1>0, <1>8 DEF LeaseInv, TypeOK, CleanExpiredLocks, Goto, TimesPast
  <2>2. SingleAcquirer'
    BY <1>0, <1>8 DEF LeaseInv, TypeOK, CleanExpiredLocks, Goto, SingleAcquirer, HoldsAdvisory
  <2>3. SingleRowWriter'
    BY <1>0, <1>8 DEF LeaseInv, TypeOK, CleanExpiredLocks, Goto, SingleRowWriter, OwnsRow
  <2>4. AcquireFenced'
    BY <1>0, <1>8 DEF LeaseInv, TypeOK, CleanExpiredLocks, Goto, AcquireFenced, MayTake
  <2>5. HeartbeatFenced'
    \* A row that a heartbeat renewed is locked, so the cleanup waits for it.
    <3> SUFFICES ASSUME NEW q \in Proc, pc'[q] = "advance" PROVE OwnLiveRow(q)'
      BY DEF HeartbeatFenced
    <3>1. pc[q] = "advance" /\ con[q] \in Consumer /\ hol[q] \in Holder /\ OwnLiveRow(q)
      BY <1>0, <1>8 DEF LeaseInv, TypeOK, CleanExpiredLocks, Goto, HeartbeatFenced
    <3>2. RowLocked(con[q])
      BY <3>1 DEF RowLocked, OwnsRow, OwnLiveRow
    <3> QED
      BY <1>0, <1>8, <3>1, <3>2 DEF TypeOK, CleanExpiredLocks, Goto, OwnLiveRow
  <2>6. GuaranteeBacked'
    \* Nobody relies on a row that has expired.
    BY <1>0, <1>8 DEF LeaseInv, TypeOK, CleanExpiredLocks, Expired, GuaranteeBacked, Relies
  <2>7. ReleaseIntact'
    BY <1>0, <1>8 DEF LeaseInv, TypeOK, CleanExpiredLocks, Goto, ReleaseIntact
  <2>8. AckStored'
    BY <1>0, <1>8 DEF LeaseInv, TypeOK, CleanExpiredLocks, Goto, AckStored
  <2>9. GrantCoversAcks'
    BY <1>0, <1>8 DEF LeaseInv, TypeOK, CleanExpiredLocks, Goto, GrantCoversAcks
  <2> QED
    BY <1>0, <2>1, <2>2, <2>3, <2>4, <2>5, <2>6, <2>7, <2>8, <2>9 DEF LeaseInv
<1>9. ASSUME NEW p \in Proc, CleanupFails(p)
      PROVE  LeaseInv'
  BY <1>0, <1>9 DEF LeaseInv, TypeOK, CleanupFails, Goto,
       TimesPast, SingleAcquirer, HoldsAdvisory, SingleRowWriter, OwnsRow,
       AcquireFenced, MayTake, HeartbeatFenced, OwnLiveRow, GuaranteeBacked, Relies,
       ReleaseIntact, AckStored, GrantCoversAcks
<1>10. ASSUME NEW p \in Proc, QueryPosition(p)
      PROVE  LeaseInv'
  <2>1. TimesPast'
    BY <1>0, <1>10 DEF LeaseInv, TypeOK, QueryPosition, Goto, TimesPast
  <2>2. SingleAcquirer'
    BY <1>0, <1>10 DEF LeaseInv, TypeOK, QueryPosition, Goto, SingleAcquirer, HoldsAdvisory
  <2>3. SingleRowWriter'
    BY <1>0, <1>10 DEF LeaseInv, TypeOK, QueryPosition, Goto, SingleRowWriter, OwnsRow
  <2>4. AcquireFenced'
    BY <1>0, <1>10 DEF LeaseInv, TypeOK, QueryPosition, Goto, AcquireFenced, MayTake
  <2>5. HeartbeatFenced'
    BY <1>0, <1>10 DEF LeaseInv, TypeOK, QueryPosition, Goto, HeartbeatFenced, OwnLiveRow
  <2>6. GuaranteeBacked'
    BY <1>0, <1>10 DEF LeaseInv, TypeOK, QueryPosition, Goto, GuaranteeBacked, Relies
  <2>7. ReleaseIntact'
    BY <1>0, <1>10 DEF LeaseInv, TypeOK, QueryPosition, Goto, ReleaseIntact
  <2>8. AckStored'
    BY <1>0, <1>10 DEF LeaseInv, TypeOK, QueryPosition, Goto, AckStored
  <2>9. GrantCoversAcks'
    BY <1>0, <1>10 DEF LeaseInv, TypeOK, QueryPosition, Goto, GrantCoversAcks, AckStored
  <2> QED
    BY <1>0, <2>1, <2>2, <2>3, <2>4, <2>5, <2>6, <2>7, <2>8, <2>9 DEF LeaseInv
<1>11. ASSUME NEW p \in Proc, CommitAcquire(p)
      PROVE  LeaseInv'
  <2>0. \A r \in Proc : r # p /\ pc[r] \in {"clean", "read", "grant", "advance"} => con[r] # con[p]
    BY <1>0, <1>11 DEF LeaseInv, TypeOK, CommitAcquire, SingleRowWriter, OwnsRow
  <2>1. TimesPast'
    BY <1>0, <1>11 DEF LeaseInv, TypeOK, CommitAcquire, Return, TimesPast
  <2>2. SingleAcquirer'
    BY <1>0, <1>11 DEF LeaseInv, TypeOK, CommitAcquire, Return, SingleAcquirer, HoldsAdvisory
  <2>3. SingleRowWriter'
    BY <1>0, <1>11 DEF LeaseInv, TypeOK, CommitAcquire, Return, SingleRowWriter, OwnsRow
  <2>4. AcquireFenced'
    BY <1>0, <1>11, <2>0 DEF LeaseInv, TypeOK, CommitAcquire, Return, AcquireFenced, MayTake, OwnsRow
  <2>5. HeartbeatFenced'
    BY <1>0, <1>11, <2>0 DEF LeaseInv, TypeOK, CommitAcquire, Return, HeartbeatFenced, OwnLiveRow, OwnsRow
  <2>6. GuaranteeBacked'
    \* By MayTake the row was free, expired or the caller's own, so nobody else
    \* relies on it; if the caller's own lease shrinks, c is torn.
    <3> SUFFICES ASSUME NEW c \in Consumer \ torn', NEW h \in Holder, Relies(c, h)'
                 PROVE  (holderOf[c] = h /\ promise[c][h] <= heldUntil[c])'
      BY DEF GuaranteeBacked
    <3>1. /\ MayTake(p)
          /\ c \notin torn
          /\ c = con[p] /\ holderOf[c] = hol[p] => heldUntil[c] <= draft[p]
      BY <1>0, <1>11 DEF LeaseInv, TypeOK, AcquireFenced, CommitAcquire
    <3>2. \/ promise'[c][h] = promise[c][h]
          \/ c = con[p] /\ h = hol[p] /\ promise'[c][h] = draft[p] - (TTL - Guarantee)
      <4>1. con[p] \in Consumer /\ hol[p] \in Holder /\ draft[p] \in Nat
        BY <1>0, <1>11 DEF TypeOK, CommitAcquire
      <4>2. Tell(con[p], hol[p], draft[p])
        BY <1>11 DEF CommitAcquire
      <4> QED
        BY <1>0, <4>1, <4>2, TellEffect
    <3>3. CASE c # con[p]
      BY <1>0, <1>11, <3>1, <3>2, <3>3 DEF LeaseInv, TypeOK, CommitAcquire, GuaranteeBacked, Relies
    <3>4. CASE c = con[p] /\ promise'[c][h] = promise[c][h]
      <4>1. holderOf[c] = h /\ promise[c][h] <= heldUntil[c] /\ clock <= heldUntil[c]
        BY <1>0, <1>11, <3>1, <3>4 DEF LeaseInv, TypeOK, CommitAcquire, GuaranteeBacked, Relies
      <4>2. h = hol[p]
        BY <1>0, <1>11, <3>1, <3>4, <4>1 DEF LeaseInv, TypeOK, MayTake, TimesPast
      <4> QED
        BY <1>0, <1>11, <3>1, <3>4, <4>1, <4>2 DEF TypeOK, CommitAcquire
    <3>5. CASE c = con[p] /\ h = hol[p] /\ promise'[c][h] = draft[p] - (TTL - Guarantee)
      BY <1>0, <1>11, <3>5 DEF TypeOK, CommitAcquire
    <3> QED
      BY <3>2, <3>3, <3>4, <3>5
  <2>7. ReleaseIntact'
    BY <1>0, <1>11, ZenonT(40) DEF LeaseInv, TypeOK, CommitAcquire, Return, Tell, Disturb, ReleaseIntact
  <2>8. AckStored'
    BY <1>0, <1>11 DEF LeaseInv, TypeOK, CommitAcquire, Return, AckStored
  <2>9. GrantCoversAcks'
    BY <1>0, <1>11 DEF LeaseInv, TypeOK, CommitAcquire, Return, GrantCoversAcks
  <2> QED
    BY <1>0, <2>1, <2>2, <2>3, <2>4, <2>5, <2>6, <2>7, <2>8, <2>9 DEF LeaseInv
<1>12. ASSUME NEW p \in Proc, UpdateLockHeartbeat(p)
      PROVE  LeaseInv'
  <2>1. TimesPast'
    BY <1>0, <1>12 DEF LeaseInv, TypeOK, UpdateLockHeartbeat, Goto, RenewUntil, TimesPast
  <2>2. SingleAcquirer'
    BY <1>0, <1>12 DEF LeaseInv, TypeOK, UpdateLockHeartbeat, Goto, RenewUntil, SingleAcquirer, HoldsAdvisory
  <2>3. SingleRowWriter'
    <3>1. \A q \in Proc : ~OwnsRow(q, con[p])
      BY <1>0, <1>12 DEF TypeOK, UpdateLockHeartbeat, OwnLiveRow, RowLocked
    <3> QED
      BY <1>0, <1>12, <3>1 DEF LeaseInv, TypeOK, UpdateLockHeartbeat, Goto, SingleRowWriter,
         OwnsRow
  <2>4. AcquireFenced'
    BY <1>0, <1>12 DEF LeaseInv, TypeOK, UpdateLockHeartbeat, Goto, RenewUntil, AcquireFenced, MayTake
  <2>5. HeartbeatFenced'
    BY <1>0, <1>12 DEF LeaseInv, TypeOK, UpdateLockHeartbeat, Goto, RenewUntil, HeartbeatFenced, OwnLiveRow
  <2>6. GuaranteeBacked'
    BY <1>0, <1>12 DEF LeaseInv, TypeOK, UpdateLockHeartbeat, Goto, RenewUntil, GuaranteeBacked, Relies
  <2>7. ReleaseIntact'
    BY <1>0, <1>12 DEF LeaseInv, TypeOK, UpdateLockHeartbeat, Goto, RenewUntil, ReleaseIntact
  <2>8. AckStored'
    BY <1>0, <1>12 DEF LeaseInv, TypeOK, UpdateLockHeartbeat, Goto, RenewUntil, AckStored
  <2>9. GrantCoversAcks'
    BY <1>0, <1>12 DEF LeaseInv, TypeOK, UpdateLockHeartbeat, Goto, RenewUntil, GrantCoversAcks
  <2> QED
    BY <1>0, <2>1, <2>2, <2>3, <2>4, <2>5, <2>6, <2>7, <2>8, <2>9 DEF LeaseInv
<1>13. ASSUME NEW p \in Proc, RejectHeartbeat(p)
      PROVE  LeaseInv'
  BY <1>0, <1>13 DEF LeaseInv, TypeOK, RejectHeartbeat, Return,
       TimesPast, SingleAcquirer, HoldsAdvisory, SingleRowWriter, OwnsRow,
       AcquireFenced, MayTake, HeartbeatFenced, OwnLiveRow, GuaranteeBacked, Relies,
       ReleaseIntact, AckStored, GrantCoversAcks
<1>14. ASSUME NEW p \in Proc, CommitHeartbeat(p)
      PROVE  LeaseInv'
  <2>0. \A r \in Proc : r # p /\ pc[r] \in {"clean", "read", "grant", "advance"} => con[r] # con[p]
    BY <1>0, <1>14 DEF LeaseInv, TypeOK, CommitHeartbeat, SingleRowWriter, OwnsRow
  <2>1. TimesPast'
    BY <1>0, <1>14 DEF LeaseInv, TypeOK, CommitHeartbeat, Return, TimesPast
  <2>2. SingleAcquirer'
    BY <1>0, <1>14 DEF LeaseInv, TypeOK, CommitHeartbeat, Return, SingleAcquirer, HoldsAdvisory
  <2>3. SingleRowWriter'
    BY <1>0, <1>14 DEF LeaseInv, TypeOK, CommitHeartbeat, Return, SingleRowWriter, OwnsRow
  <2>4. AcquireFenced'
    BY <1>0, <1>14, <2>0 DEF LeaseInv, TypeOK, CommitHeartbeat, Return, AcquireFenced, MayTake, OwnsRow
  <2>5. HeartbeatFenced'
    BY <1>0, <1>14, <2>0 DEF LeaseInv, TypeOK, CommitHeartbeat, Return, HeartbeatFenced, OwnLiveRow, OwnsRow
  <2>6. GuaranteeBacked'
    \* The renewed row is the caller's own; if its lease shrinks, c is torn.
    <3> SUFFICES ASSUME NEW c \in Consumer \ torn', NEW h \in Holder, Relies(c, h)'
                 PROVE  (holderOf[c] = h /\ promise[c][h] <= heldUntil[c])'
      BY DEF GuaranteeBacked
    <3>1. c \notin torn /\ (c = con[p] => heldUntil[c] <= draft[p])
      BY <1>0, <1>14 DEF TypeOK, CommitHeartbeat
    <3>2. \/ promise'[c][h] = promise[c][h]
          \/ c = con[p] /\ h = hol[p] /\ promise'[c][h] = draft[p] - (TTL - Guarantee)
      <4>1. con[p] \in Consumer /\ hol[p] \in Holder /\ draft[p] \in Nat
        BY <1>0, <1>14 DEF TypeOK, CommitHeartbeat
      <4>2. Tell(con[p], hol[p], draft[p])
        BY <1>14 DEF CommitHeartbeat
      <4> QED
        BY <1>0, <4>1, <4>2, TellEffect
    <3>3. CASE promise'[c][h] = promise[c][h]
      <4>1. holderOf[c] = h /\ promise[c][h] <= heldUntil[c]
        BY <1>0, <1>14, <3>1, <3>3 DEF LeaseInv, TypeOK, CommitHeartbeat, GuaranteeBacked, Relies
      <4> QED
        BY <1>0, <1>14, <3>1, <3>3, <4>1 DEF TypeOK, CommitHeartbeat
    <3>4. CASE c = con[p] /\ h = hol[p] /\ promise'[c][h] = draft[p] - (TTL - Guarantee)
      BY <1>0, <1>14, <3>4 DEF LeaseInv, TypeOK, CommitHeartbeat, HeartbeatFenced, OwnLiveRow
    <3> QED
      BY <3>2, <3>3, <3>4
  <2>7. ReleaseIntact'
    BY <1>0, <1>14, ZenonT(40) DEF LeaseInv, TypeOK, CommitHeartbeat, Return, Tell, Disturb, ReleaseIntact
  <2>8. AckStored'
    BY <1>0, <1>14 DEF LeaseInv, TypeOK, CommitHeartbeat, Return, AckStored
  <2>9. GrantCoversAcks'
    BY <1>0, <1>14, <2>0 DEF LeaseInv, TypeOK, CommitHeartbeat, Return, GrantCoversAcks, OwnsRow
  <2> QED
    BY <1>0, <2>1, <2>2, <2>3, <2>4, <2>5, <2>6, <2>7, <2>8, <2>9 DEF LeaseInv
<1>15. ASSUME NEW p \in Proc, ConflictHeartbeat(p)
      PROVE  LeaseInv'
  BY <1>0, <1>15 DEF LeaseInv, TypeOK, ConflictHeartbeat, Return,
       TimesPast, SingleAcquirer, HoldsAdvisory, SingleRowWriter, OwnsRow,
       AcquireFenced, MayTake, HeartbeatFenced, OwnLiveRow, GuaranteeBacked, Relies,
       ReleaseIntact, AckStored, GrantCoversAcks
<1>16. ASSUME NEW p \in Proc, DeleteLock(p)
      PROVE  LeaseInv'
  <2>1. TimesPast'
    BY <1>0, <1>16 DEF LeaseInv, TypeOK, DeleteLock, Return, TimesPast
  <2>2. SingleAcquirer'
    BY <1>0, <1>16 DEF LeaseInv, TypeOK, DeleteLock, Return, SingleAcquirer, HoldsAdvisory
  <2>3. SingleRowWriter'
    BY <1>0, <1>16 DEF LeaseInv, TypeOK, DeleteLock, Return, SingleRowWriter, OwnsRow
  <2>4. AcquireFenced'
    BY <1>0, <1>16 DEF LeaseInv, TypeOK, DeleteLock, Return, AcquireFenced, MayTake
  <2>5. HeartbeatFenced'
    \* A row that a heartbeat renewed is locked, so the delete waits for it.
    <3> SUFFICES ASSUME NEW q \in Proc, pc'[q] = "advance" PROVE OwnLiveRow(q)'
      BY DEF HeartbeatFenced
    <3>1. q # p /\ pc[q] = "advance" /\ con[q] \in Consumer /\ hol[q] \in Holder
          /\ OwnLiveRow(q)
      BY <1>0, <1>16 DEF LeaseInv, TypeOK, DeleteLock, Return, HeartbeatFenced
    <3>2. con[q] # con[p]
      BY <1>16, <3>1, ConstAssump DEF ConstAssump, RowLocked, OwnsRow, OwnLiveRow, DeleteLock
    <3> QED
      BY <1>0, <1>16, <3>1, <3>2 DEF TypeOK, DeleteLock, Return, OwnLiveRow
  <2>6. GuaranteeBacked'
    \* If the row is the one that was validated, its holder gave up its guarantee;
    \* otherwise c is torn.
    <3> SUFFICES ASSUME NEW c \in Consumer \ torn', NEW h \in Holder, Relies(c, h)'
                 PROVE  (holderOf[c] = h /\ promise[c][h] <= heldUntil[c])'
      BY DEF GuaranteeBacked
    <3>1. c \notin torn /\ Relies(c, h)
      BY <1>0, <1>16 DEF TypeOK, DeleteLock, Relies
    <3>2. holderOf[c] = h /\ promise[c][h] <= heldUntil[c] /\ promise[c][h] # 0
      BY <1>0, <3>1 DEF LeaseInv, TypeOK, GuaranteeBacked, Relies
    <3>3. c # con[p]
      BY <1>0, <1>16, <3>2 DEF LeaseInv, TypeOK, DeleteLock, ReleaseIntact
    <3> QED
      BY <1>0, <1>16, <3>2, <3>3 DEF TypeOK, DeleteLock
  <2>7. ReleaseIntact'
    BY <1>0, <1>16 DEF LeaseInv, TypeOK, DeleteLock, Return, ReleaseIntact
  <2>8. AckStored'
    BY <1>0, <1>16 DEF LeaseInv, TypeOK, DeleteLock, Return, AckStored
  <2>9. GrantCoversAcks'
    BY <1>0, <1>16 DEF LeaseInv, TypeOK, DeleteLock, Return, GrantCoversAcks
  <2> QED
    BY <1>0, <2>1, <2>2, <2>3, <2>4, <2>5, <2>6, <2>7, <2>8, <2>9 DEF LeaseInv
<1>17. ASSUME NEW p \in Proc, ResolveAndCheckLock(p)
      PROVE  LeaseInv'
  BY <1>0, <1>17 DEF LeaseInv, TypeOK, ResolveAndCheckLock, Goto,
       TimesPast, SingleAcquirer, HoldsAdvisory, SingleRowWriter, OwnsRow,
       AcquireFenced, MayTake, HeartbeatFenced, OwnLiveRow, GuaranteeBacked, Relies,
       ReleaseIntact, AckStored, GrantCoversAcks
<1>18. ASSUME NEW p \in Proc, RejectSubmit(p)
      PROVE  LeaseInv'
  BY <1>0, <1>18 DEF LeaseInv, TypeOK, RejectSubmit, Return,
       TimesPast, SingleAcquirer, HoldsAdvisory, SingleRowWriter, OwnsRow,
       AcquireFenced, MayTake, HeartbeatFenced, OwnLiveRow, GuaranteeBacked, Relies,
       ReleaseIntact, AckStored, GrantCoversAcks
<1>19. ASSUME NEW p \in Proc, CommitSubmit(p)
      PROVE  LeaseInv'
  BY <1>0, <1>19 DEF LeaseInv, TypeOK, CommitSubmit, Return,
       TimesPast, SingleAcquirer, HoldsAdvisory, SingleRowWriter, OwnsRow,
       AcquireFenced, MayTake, HeartbeatFenced, OwnLiveRow, GuaranteeBacked, Relies,
       ReleaseIntact, AckStored, GrantCoversAcks
<1>20. ASSUME NEW p \in Proc, Abort(p)
      PROVE  LeaseInv'
  BY <1>0, <1>20 DEF LeaseInv, TypeOK, Abort, Return,
       TimesPast, SingleAcquirer, HoldsAdvisory, SingleRowWriter, OwnsRow,
       AcquireFenced, MayTake, HeartbeatFenced, OwnLiveRow, GuaranteeBacked, Relies,
       ReleaseIntact, AckStored, GrantCoversAcks
<1>21. ASSUME NEW c \in Consumer, DeletePosition(c)
      PROVE  LeaseInv'
  BY <1>0, <1>21 DEF LeaseInv, TypeOK, DeletePosition,
       TimesPast, SingleAcquirer, HoldsAdvisory, SingleRowWriter, OwnsRow,
       AcquireFenced, MayTake, HeartbeatFenced, OwnLiveRow, GuaranteeBacked, Relies,
       ReleaseIntact, AckStored, GrantCoversAcks
<1>22. ASSUME NEW c \in Consumer, NEW n \in 0..MaxPos, SetPosition(c, n)
      PROVE  LeaseInv'
  BY <1>0, <1>22 DEF LeaseInv, TypeOK, SetPosition,
       TimesPast, SingleAcquirer, HoldsAdvisory, SingleRowWriter, OwnsRow,
       AcquireFenced, MayTake, HeartbeatFenced, OwnLiveRow, GuaranteeBacked, Relies,
       ReleaseIntact, AckStored, GrantCoversAcks
<1>23. CASE Tick
  <2>1. TimesPast'
    BY <1>0, <1>23 DEF LeaseInv, TypeOK, Tick, TimesPast
  <2>2. SingleAcquirer'
    BY <1>0, <1>23 DEF LeaseInv, TypeOK, Tick, SingleAcquirer, HoldsAdvisory
  <2>3. SingleRowWriter'
    BY <1>0, <1>23 DEF LeaseInv, TypeOK, Tick, SingleRowWriter, OwnsRow
  <2>4. AcquireFenced'
    BY <1>0, <1>23 DEF LeaseInv, TypeOK, Tick, AcquireFenced, MayTake
  <2>5. HeartbeatFenced'
    BY <1>0, <1>23 DEF LeaseInv, TypeOK, Tick, HeartbeatFenced, OwnLiveRow
  <2>6. GuaranteeBacked'
    BY <1>0, <1>23 DEF LeaseInv, TypeOK, Tick, GuaranteeBacked, Relies
  <2>7. ReleaseIntact'
    BY <1>0, <1>23 DEF LeaseInv, TypeOK, Tick, ReleaseIntact
  <2>8. AckStored'
    BY <1>0, <1>23 DEF LeaseInv, TypeOK, Tick, AckStored
  <2>9. GrantCoversAcks'
    BY <1>0, <1>23 DEF LeaseInv, TypeOK, Tick, GrantCoversAcks
  <2> QED
    BY <1>0, <2>1, <2>2, <2>3, <2>4, <2>5, <2>6, <2>7, <2>8, <2>9 DEF LeaseInv
<1>24. CASE UNCHANGED vars
  BY <1>0, <1>24 DEF LeaseInv, TypeOK, vars,
       TimesPast, SingleAcquirer, HoldsAdvisory, SingleRowWriter, OwnsRow,
       AcquireFenced, MayTake, HeartbeatFenced, OwnLiveRow, GuaranteeBacked, Relies,
       ReleaseIntact, AckStored, GrantCoversAcks
<1> QED
  BY <1>1, <1>2, <1>3, <1>4, <1>5, <1>6, <1>7, <1>8, <1>9, <1>10, <1>11, <1>12,
     <1>13, <1>14, <1>15, <1>16, <1>17, <1>18, <1>19, <1>20, <1>21, <1>22, <1>23, <1>24
     DEF Next, Progress

\* The inductive invariant holds in every reachable state.
THEOREM LeaseInvariant == Spec => []LeaseInv
<1>1. Init => LeaseInv
  BY ConstAssump, TypeInit DEF Init, LeaseInv, ConstAssump, TimesPast, SingleAcquirer, HoldsAdvisory,
     SingleRowWriter, OwnsRow, AcquireFenced, HeartbeatFenced, GuaranteeBacked, Relies,
     ReleaseIntact, AckStored, GrantCoversAcks
<1> QED
  BY <1>1, LeaseInvStep, PTL DEF Spec

\* Two instances never both rely on a guarantee for the same consumer, except
\* where a late Release or a late heartbeat damaged the lease.
THEOREM ExclusiveGuarantee == Spec => []GuaranteeExclusion
<1>1. LeaseInv => GuaranteeExclusion
  BY DEF LeaseInv, GuaranteeBacked, GuaranteeExclusion
<1> QED
  BY <1>1, LeaseInvariant, PTL

\* A renewing heartbeat commits its position while its holder has the lock row.
THEOREM FencedHeartbeat == Spec => []HeartbeatFenced
<1>1. LeaseInv => HeartbeatFenced
  BY DEF LeaseInv
<1> QED
  BY <1>1, LeaseInvariant, PTL

\* A grant never hands out a position behind an acknowledged heartbeat.
THEOREM HandoffKeepsProgress == Spec => []GrantCoversAcks
<1>1. LeaseInv => GrantCoversAcks
  BY DEF LeaseInv
<1> QED
  BY <1>1, LeaseInvariant, PTL
-----------------------------------------------------------------------------
(* The refinement of module Lease *)

\* A step keeps rows and leases together, and positions within their bound.
LEMMA RowShapeStep == LeaseInv /\ RowShape /\ [Next]_vars => RowShape'
<1> SUFFICES ASSUME LeaseInv, RowShape, [Next]_vars PROVE RowShape'
  OBVIOUS
<1> USE ConstAssump DEF ConstAssump, LeaseInv, TypeOK, RowShape
<1>1. ASSUME NEW p \in Proc, NEW c \in Consumer, NEW h \in Holder, NEW n \in 0..MaxPos,
             NEW step, Start(p, c, h, n, step), UNCHANGED store
      PROVE  RowShape'
  BY <1>1 DEF Start
<1>2. ASSUME NEW p \in Proc, Return(p), UNCHANGED store
      PROVE  RowShape'
  BY <1>2 DEF Return
<1>3. ASSUME NEW p \in Proc, CleanExpiredLocks(p)
      PROVE  RowShape'
  BY <1>3 DEF CleanExpiredLocks
<1>4. ASSUME NEW p \in Proc, QueryPosition(p)
      PROVE  RowShape'
  BY <1>4 DEF QueryPosition
<1>5. ASSUME NEW p \in Proc, CommitAcquire(p)
      PROVE  RowShape'
  BY <1>5 DEF CommitAcquire, Return
<1>6. ASSUME NEW p \in Proc, CommitHeartbeat(p)
      PROVE  RowShape'
  <2>1. holderOf[con[p]] # None
    BY <1>6 DEF CommitHeartbeat, HeartbeatFenced, OwnLiveRow
  <2> QED
    BY <1>6, <2>1 DEF CommitHeartbeat, Return
<1>7. ASSUME NEW p \in Proc, DeleteLock(p)
      PROVE  RowShape'
  BY <1>7 DEF DeleteLock, Return
<1>8. ASSUME NEW c \in Consumer, NEW n \in 0..MaxPos, SetPosition(c, n)
      PROVE  RowShape'
  BY <1>8 DEF SetPosition
<1>9. ASSUME NEW c \in Consumer, DeletePosition(c)
      PROVE  RowShape'
  BY <1>9 DEF DeletePosition
<1>10. CASE UNCHANGED <<store, arg>>
  BY <1>10
<1>11. ASSUME NEW p \in Proc, Progress(p) \/ CleanupFails(p) \/ Abort(p)
       PROVE  RowShape'
  BY <1>2, <1>3, <1>4, <1>5, <1>6, <1>7, <1>10, <1>11
     DEF Progress, AdvisoryLock, UpsertLock, RefuseAcquire, UpdateLockHeartbeat,
         RejectHeartbeat, ConflictHeartbeat, ResolveAndCheckLock, RejectSubmit,
         CommitSubmit, CleanupFails, Abort
<1>12. ASSUME NEW p \in Proc, NEW c \in Consumer, NEW h \in Holder,
              \/ TryAcquire(p, c, h)
              \/ \E n \in 0..MaxPos : Heartbeat(p, c, h, n)
              \/ QueryActiveLock(p, c, h)
              \/ SubmitWithLock(p, c, h)
       PROVE  RowShape'
  <2>1. 0 \in 0..MaxPos
    OBVIOUS
  <2> QED
    BY <1>1, <1>12, <2>1 DEF TryAcquire, Heartbeat, QueryActiveLock, SubmitWithLock
<1> QED
  BY <1>8, <1>9, <1>10, <1>11, <1>12 DEF Next, Tick, vars

\* Every reachable state has the inductive invariant and well-formed rows.
LEMMA RowsWellFormed == Spec => [](LeaseInv /\ RowShape)
<1>1. Init => RowShape
  BY ConstAssump DEF Init, RowShape, ConstAssump
<1> QED
  BY <1>1, LeaseInvariant, RowShapeStep, PTL DEF Spec

\* The upsert's commit grants the lease: AcquireFenced says that what its WHERE
\* found is still so.
LEMMA CommitAcquireGrants ==
  ASSUME LeaseInv, NEW p \in Proc, CommitAcquire(p)
  PROVE  L!Grant(con[p], hol[p])
<1> USE ConstAssump DEF ConstAssump, LeaseInv, TypeOK
<1>1. MayTake(p) /\ txNow[p] <= clock /\ draft[p] \in 0..(clock + TTL)
  BY DEF CommitAcquire, AcquireFenced, TimesPast
<1>2. holderOf[con[p]] \in {None, hol[p]} \/ heldUntil[con[p]] < clock
  BY <1>1 DEF MayTake, CommitAcquire
<1> QED
  BY <1>1, <1>2 DEF CommitAcquire, Return, L!Grant, L!Lapsed

\* A heartbeat's commit renews the lease of a row that still exists.
LEMMA CommitHeartbeatRenews ==
  ASSUME LeaseInv, NEW p \in Proc, CommitHeartbeat(p)
  PROVE  L!Renew(con[p], arg[p])
<1> USE ConstAssump DEF ConstAssump, LeaseInv, TypeOK
<1>1. holderOf[con[p]] # None /\ draft[p] \in 0..(clock + TTL)
  BY DEF CommitHeartbeat, HeartbeatFenced, OwnLiveRow, TimesPast
<1> QED
  BY <1>1 DEF CommitHeartbeat, L!Renew

\* Deleting a row drops one lease, or nothing when there was none.
LEMMA DeleteLockDrops ==
  ASSUME LeaseInv, RowShape, NEW p \in Proc, DeleteLock(p)
  PROVE  L!Drop({con[p]}) \/ UNCHANGED L!lease
<1> USE ConstAssump DEF ConstAssump, LeaseInv, TypeOK
<1>1. con[p] \in Consumer
  BY DEF DeleteLock
<1>2. CASE holderOf[con[p]] = None
  BY <1>1, <1>2 DEF DeleteLock, RowShape, L!lease
<1>3. CASE holderOf[con[p]] # None
  <2>1. holderOf' = [c \in Consumer |-> IF c \in {con[p]} THEN None ELSE holderOf[c]]
    BY <1>1 DEF DeleteLock
  <2>2. heldUntil' = [c \in Consumer |-> IF c \in {con[p]} THEN 0 ELSE heldUntil[c]]
    BY <1>1 DEF DeleteLock
  <2> QED
    BY <1>1, <1>3, <2>1, <2>2 DEF DeleteLock, L!Drop
<1> QED
  BY <1>2, <1>3

\* The cleanup drops leases that have lapsed.
LEMMA CleanupDrops ==
  ASSUME LeaseInv, NEW p \in Proc, CleanExpiredLocks(p)
  PROVE  \E S \in SUBSET Consumer : L!Drop(S)
<1>1. PICK S \in SUBSET Expired(con[p]) :
        /\ holderOf' = [d \in Consumer |-> IF d \in S THEN None ELSE holderOf[d]]
        /\ heldUntil' = [d \in Consumer |-> IF d \in S THEN 0 ELSE heldUntil[d]]
  BY DEF CleanExpiredLocks
<1>2. S \in SUBSET Consumer /\ \A d \in S : holderOf[d] # None /\ heldUntil[d] < clock
  BY DEF Expired
<1>3. L!Drop(S)
  BY <1>1, <1>2 DEF CleanExpiredLocks, L!Drop, L!Lapsed
<1> QED
  BY <1>2, <1>3

\* Every statement of the store is a step of the lease service or invisible.
LEMMA LeaseStep == LeaseInv /\ RowShape /\ [Next]_vars => [L!Next]_(L!lease)
<1> SUFFICES ASSUME LeaseInv, RowShape, [Next]_vars PROVE [L!Next]_(L!lease)
  OBVIOUS
<1> USE ConstAssump DEF ConstAssump
<1>1. CASE UNCHANGED <<clock, store>>
  BY <1>1 DEF L!lease
<1>2. ASSUME NEW p \in Proc, CommitAcquire(p)
      PROVE  L!Next
  <2>1. con[p] \in Consumer /\ hol[p] \in Holder
    BY <1>2 DEF LeaseInv, TypeOK, CommitAcquire
  <2> QED
    BY <1>2, <2>1, CommitAcquireGrants DEF L!Next
<1>3. ASSUME NEW p \in Proc, CommitHeartbeat(p)
      PROVE  L!Next
  <2>1. con[p] \in Consumer /\ arg[p] \in 0..MaxPos
    BY <1>3 DEF LeaseInv, TypeOK, RowShape, CommitHeartbeat
  <2> QED
    BY <1>3, <2>1, CommitHeartbeatRenews DEF L!Next
<1>4. ASSUME NEW p \in Proc, DeleteLock(p)
      PROVE  [L!Next]_(L!lease)
  <2>1. {con[p]} \in SUBSET Consumer
    BY <1>4 DEF LeaseInv, TypeOK, DeleteLock
  <2> QED
    BY <1>4, <2>1, DeleteLockDrops DEF L!Next
<1>5. ASSUME NEW p \in Proc, CleanExpiredLocks(p)
      PROVE  L!Next
  BY <1>5, CleanupDrops DEF L!Next
<1>6. ASSUME NEW c \in Consumer, NEW n \in 0..MaxPos, SetPosition(c, n)
      PROVE  L!Next
  <2>1. L!Reposition(c, n)
    BY <1>6 DEF SetPosition, L!Reposition
  <2> QED
    BY <2>1 DEF L!Next
<1>7. ASSUME NEW c \in Consumer, DeletePosition(c)
      PROVE  L!Next
  <2>1. L!Reposition(c, 0) /\ 0 \in 0..MaxPos
    BY <1>7 DEF DeletePosition, L!Reposition
  <2> QED
    BY <2>1 DEF L!Next
<1>8. CASE Tick
  BY <1>8 DEF Tick, L!Next, L!Pass
<1>9. ASSUME NEW p \in Proc, Progress(p) \/ CleanupFails(p) \/ Abort(p)
      PROVE  [L!Next]_(L!lease)
  BY <1>1, <1>2, <1>3, <1>4, <1>5, <1>9
     DEF Progress, AdvisoryLock, UpsertLock, RefuseAcquire, QueryPosition,
         UpdateLockHeartbeat, RejectHeartbeat, ConflictHeartbeat, ResolveAndCheckLock,
         RejectSubmit, CommitSubmit, CleanupFails, Abort
<1>10. ASSUME NEW p \in Proc, NEW c \in Consumer, NEW h \in Holder,
              \/ TryAcquire(p, c, h)
              \/ \E n \in 0..MaxPos : Heartbeat(p, c, h, n)
              \/ QueryActiveLock(p, c, h)
              \/ SubmitWithLock(p, c, h)
       PROVE  [L!Next]_(L!lease)
  BY <1>1, <1>10 DEF TryAcquire, Heartbeat, QueryActiveLock, SubmitWithLock
<1> QED
  BY <1>1, <1>6, <1>7, <1>8, <1>9, <1>10 DEF Next, vars

\* The store implements the lease service: a lease changes hands only when it
\* has expired, and a position moves together with a renewal.
THEOREM StoreImplementsLease == Spec => ImplementsLease
<1>1. Init => L!Init
  BY DEF Init, L!Init
<1> QED
  BY <1>1, LeaseStep, RowsWellFormed, PTL DEF Spec, ImplementsLease, L!Spec
=============================================================================
