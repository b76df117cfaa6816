--------------------------- MODULE ConsumerLocks ---------------------------
(***************************************************************************)
(* The Postgres consumer-lock store of one (domain, stream) partition:     *)
(* TryAcquire, Release, HeartbeatWithPosition, the lock check of Submit,   *)
(* and the consumer positions.  One step is one SQL statement as its       *)
(* connection sees it under READ COMMITTED; NOW() is the start time of the *)
(* transaction, time.Now() is the current clock (both hosts are assumed to *)
(* agree on the time).  Calls that fail validation, GetLock, ListLocks,    *)
(* GetPosition and ListConsumers change nothing and are stuttering steps.  *)
(***************************************************************************)
EXTENDS Integers, FiniteSets

CONSTANTS
  Consumer,    \* consumer names of the partition
  Holder,      \* instance identities that compete for a lock
  Proc,        \* concurrently executing requests of the service
  None,        \* no holder: the lock row does not exist; also an idle request
  TTL,         \* the ttl callers ask for, in clock units
  Guarantee,   \* DefaultGuaranteeFraction of the TTL
  CleanLimit,  \* LIMIT of the cleanup statement
  PoolSize,    \* connections in the pgx pool
  Workload,    \* the requests clients make, a subset of Requests
  MaxClock,    \* bound on the clock
  MaxPos       \* bound on event positions

Requests == {"acquire", "heartbeat", "release", "submit", "position"}

ASSUME ConstAssump ==
  /\ None \notin Holder \cup Consumer
  /\ TTL \in Nat \ {0}
  /\ Guarantee \in 0..TTL
  /\ CleanLimit \in Nat \ {0}
  /\ PoolSize \in Nat \ {0}
  /\ Workload \subseteq Requests
  /\ MaxClock \in Nat \ {0}
  /\ MaxPos \in Nat

VARIABLES
  clock,       \* current time
  holderOf,    \* consumer_locks.holder, committed; None when there is no row
  heldUntil,   \* consumer_locks.held_until, committed
  pos,         \* consumer_positions.event_id, 0 when there is no row
  pc,          \* next statement of each request
  con, hol,    \* the request's consumer and holder parameters
  txNow,       \* NOW() of the request's transaction
  arg,         \* position sent by a heartbeat, or read for a grant
  draft,       \* held_until written but not yet committed
  \* what callers were told, and how it may have been undone
  promise,     \* latest guarantee_until reported to each holder
  intact,      \* the row a pending Release validated has not changed since
  torn,        \* consumers whose lease a late request removed or shortened
  ack          \* latest position a heartbeat acknowledged

store == <<holderOf, heldUntil, pos>>
call  == <<pc, con, hol, txNow, arg, draft>>
ghost == <<promise, intact, torn, ack>>
vars  == <<clock, store, call, ghost>>

AcquireSteps == {"advisory", "upsert", "clean", "read", "grant"}
TxSteps      == AcquireSteps \cup {"renew", "advance", "check", "submit"}
Steps        == TxSteps \cup {"idle", "delete"}

TypeOK ==
  /\ clock \in Nat \ {0}
  /\ holderOf \in [Consumer -> Holder \cup {None}]
  /\ heldUntil \in [Consumer -> Nat]
  /\ pos \in [Consumer -> Nat]
  /\ pc \in [Proc -> Steps]
  /\ con \in [Proc -> Consumer \cup {None}]
  /\ hol \in [Proc -> Holder \cup {None}]
  /\ \A p \in Proc : pc[p] # "idle" => con[p] \in Consumer /\ hol[p] \in Holder
  /\ txNow \in [Proc -> Nat]
  /\ arg \in [Proc -> Nat]
  /\ draft \in [Proc -> Nat]
  /\ promise \in [Consumer -> [Holder -> Nat]]
  /\ intact \in [Proc -> BOOLEAN]
  /\ torn \in SUBSET Consumer
  /\ ack \in [Consumer -> Nat]

Init ==
  /\ clock = 1
  /\ holderOf = [c \in Consumer |-> None]
  /\ heldUntil = [c \in Consumer |-> 0]
  /\ pos = [c \in Consumer |-> 0]
  /\ pc = [p \in Proc |-> "idle"]
  /\ con = [p \in Proc |-> None]
  /\ hol = [p \in Proc |-> None]
  /\ txNow = [p \in Proc |-> 0]
  /\ arg = [p \in Proc |-> 0]
  /\ draft = [p \in Proc |-> 0]
  /\ promise = [c \in Consumer |-> [h \in Holder |-> 0]]
  /\ intact = [p \in Proc |-> FALSE]
  /\ torn = {}
  /\ ack = [c \in Consumer |-> 0]
-----------------------------------------------------------------------------
(* Locks and connections.  They are held by the transactions in progress,  *)
(* so they follow from how far each request has come.                      *)

\* p's transaction holds pg_advisory_xact_lock for consumer c.
HoldsAdvisory(p, c) ==
  pc[p] \in {"upsert", "clean", "read", "grant"} /\ con[p] = c

\* The advisory lock of c can be granted.
AdvisoryFree(c) == \A q \in Proc : ~HoldsAdvisory(q, c)

\* p's transaction has written, and so row-locked, the lock row of c.
OwnsRow(p, c) ==
  pc[p] \in {"clean", "read", "grant", "advance"} /\ con[p] = c

\* A statement that modifies the committed row of c has to wait.
\* (mutant: the heartbeat's update takes no row lock)
RowLockedByAcquire(c) ==
  holderOf[c] # None /\ \E q \in Proc : OwnsRow(q, c) /\ pc[q] # "advance"
RowLocked(c) == holderOf[c] # None /\ \E q \in Proc : OwnsRow(q, c)

\* A connection is available: every open transaction occupies one.
ConnFree == Cardinality({q \in Proc : pc[q] \in TxSteps}) < PoolSize

\* Rows cleanExpiredLocks may delete on behalf of consumer c.
\* (mutants: the test of held_until is off by one tick; the consumer's own row
\* is not excluded)
ExpiredTooSoon(c) ==
  {d \in Consumer \ {c} : holderOf[d] # None /\ heldUntil[d] <= clock}
ExpiredOrOwn(c) ==
  {d \in Consumer : holderOf[d] # None /\ heldUntil[d] < clock}
Expired(c) ==
  {d \in Consumer \ {c} : holderOf[d] # None /\ heldUntil[d] < clock}

Goto(p, step) ==
  /\ pc' = [pc EXCEPT ![p] = step]
  /\ UNCHANGED <<con, hol, txNow>>

\* The request answers its caller.
Return(p) ==
  /\ pc' = [pc EXCEPT ![p] = "idle"]
  /\ con' = [con EXCEPT ![p] = None]
  /\ hol' = [hol EXCEPT ![p] = None]
  /\ txNow' = [txNow EXCEPT ![p] = 0]
  /\ arg' = [arg EXCEPT ![p] = 0]
  /\ draft' = [draft EXCEPT ![p] = 0]

\* A request for consumer c by holder h arrives, with position n if it has one.
Start(p, c, h, n, step) ==
  /\ pc[p] = "idle"
  /\ ConnFree
  /\ pc' = [pc EXCEPT ![p] = step]
  /\ con' = [con EXCEPT ![p] = c]
  /\ hol' = [hol EXCEPT ![p] = h]
  /\ txNow' = [txNow EXCEPT ![p] = clock]
  /\ arg' = [arg EXCEPT ![p] = n]
  /\ UNCHANGED draft

\* The caller h learns that consumer c is its own until u; a reply may be lost.
Tell(c, h, u) ==
  LET g == u - (TTL - Guarantee) IN
  \/ UNCHANGED promise
  \/ /\ g > promise[c][h]
     /\ promise' = [promise EXCEPT ![c][h] = g]

\* The row of c changed under every Release that already validated it.
Disturb(c) == intact' = [q \in Proc |-> intact[q] /\ con[q] # c]
-----------------------------------------------------------------------------
(* TryAcquire *)

TryAcquire(p, c, h) ==
  /\ Start(p, c, h, 0, "advisory")
  /\ UNCHANGED <<clock, store, ghost>>

\* held_until is computed next, before the upsert that may have to wait.
AdvisoryLock(p) ==
  /\ pc[p] = "advisory"
  /\ AdvisoryFree(con[p])
  /\ draft' = [draft EXCEPT ![p] = clock + TTL]
  /\ Goto(p, "upsert")
  /\ UNCHANGED <<clock, store, arg, ghost>>

\* The WHERE of the upsert, evaluated on the latest committed row.
\* (mutants: guarantee_until, or the time of the last renewal, is compared
\* instead of held_until)
MayTakeAfterGuarantee(p) ==
  \/ holderOf[con[p]] = None
  \/ heldUntil[con[p]] - (TTL - Guarantee) < txNow[p]
  \/ holderOf[con[p]] = hol[p]
MayTakeSinceRenewal(p) ==
  \/ holderOf[con[p]] = None
  \/ heldUntil[con[p]] - TTL < txNow[p]
  \/ holderOf[con[p]] = hol[p]
MayTake(p) ==
  \/ holderOf[con[p]] = None
  \/ heldUntil[con[p]] < txNow[p]
  \/ holderOf[con[p]] = hol[p]

UpsertLock(p) ==
  /\ pc[p] = "upsert"
  /\ ~RowLocked(con[p])
  /\ MayTake(p)
  /\ Goto(p, "clean")
  /\ UNCHANGED <<clock, store, arg, draft, ghost>>

\* The upsert returned no row: the caller learns who holds the lock.
RefuseAcquire(p) ==
  /\ pc[p] = "upsert"
  /\ ~RowLocked(con[p])
  /\ ~MayTake(p)
  /\ Return(p)
  /\ UNCHANGED <<clock, store, ghost>>

\* Runs on a second connection, outside the acquiring transaction: it waits
\* for rows that other transactions have locked, and it commits at once.
CleanExpiredLocks(p) ==
  /\ pc[p] = "clean"
  /\ ConnFree
  /\ \E S \in SUBSET Expired(con[p]) :
       /\ Cardinality(S) <= CleanLimit
       /\ Cardinality(S) < CleanLimit => S = Expired(con[p])
       /\ \A d \in S : ~RowLocked(d)
       /\ holderOf' = [d \in Consumer |-> IF d \in S THEN None ELSE holderOf[d]]
       /\ heldUntil' = [d \in Consumer |-> IF d \in S THEN 0 ELSE heldUntil[d]]
  /\ Goto(p, "read")
  /\ UNCHANGED <<clock, pos, arg, draft, ghost>>

\* An error of the cleanup statement does not fail the caller.
CleanupFails(p) ==
  /\ pc[p] = "clean"
  /\ Goto(p, "read")
  /\ UNCHANGED <<clock, store, arg, draft, ghost>>

\* (mutant: the position was read when the request started)
QueryPositionEarly(p) ==
  /\ pc[p] = "read"
  /\ Goto(p, "grant")
  /\ UNCHANGED <<clock, store, arg, draft, ghost>>

QueryPosition(p) ==
  /\ pc[p] = "read"
  /\ arg' = [arg EXCEPT ![p] = pos[con[p]]]
  /\ Goto(p, "grant")
  /\ UNCHANGED <<clock, store, draft, ghost>>

\* A holder's own lease, renewed by a heartbeat meanwhile, may become shorter.
CommitAcquire(p) ==
  LET c == con[p] IN
  /\ pc[p] = "grant"
  /\ holderOf' = [holderOf EXCEPT ![c] = hol[p]]
  /\ heldUntil' = [heldUntil EXCEPT ![c] = draft[p]]
  /\ torn' = IF holderOf[c] = hol[p] /\ draft[p] < heldUntil[c]
              THEN torn \cup {c} ELSE torn
  /\ Tell(c, hol[p], draft[p])
  /\ Disturb(c)
  /\ Return(p)
  /\ UNCHANGED <<clock, pos, ack>>
-----------------------------------------------------------------------------
(* HeartbeatWithPosition *)

Heartbeat(p, c, h, n) ==
  /\ Start(p, c, h, n, "renew")
  /\ UNCHANGED <<clock, store, ghost>>

\* The lock row is p's own and was live when its transaction began.
\* (mutant: the holder is not compared)
LiveRow(p) == holderOf[con[p]] # None /\ heldUntil[con[p]] > txNow[p]
OwnLiveRow(p) == holderOf[con[p]] = hol[p] /\ heldUntil[con[p]] > txNow[p]

\* held_until after a renewal.  (mutant: the interval has the wrong sign)
RenewBackwards(p) == txNow[p] - TTL
RenewUntil(p) == txNow[p] + TTL

UpdateLockHeartbeat(p) ==
  /\ pc[p] = "renew"
  /\ ~RowLocked(con[p])
  /\ OwnLiveRow(p)
  /\ draft' = [draft EXCEPT ![p] = RenewUntil(p)]
  /\ Goto(p, "advance")
  /\ UNCHANGED <<clock, store, arg, ghost>>

\* No row matched: the transaction is rolled back and the caller told why.
RejectHeartbeat(p) ==
  /\ pc[p] = "renew"
  /\ ~RowLocked(con[p])
  /\ ~OwnLiveRow(p)
  /\ Return(p)
  /\ UNCHANGED <<clock, store, ghost>>

\* updatePosition and the commit.
CommitHeartbeat(p) ==
  LET c == con[p] IN
  /\ pc[p] = "advance"
  /\ pos[c] <= arg[p]
  /\ pos' = [pos EXCEPT ![c] = arg[p]]
  /\ ack' = [ack EXCEPT ![c] = arg[p]]
  /\ heldUntil' = [heldUntil EXCEPT ![c] = draft[p]]
  /\ torn' = IF draft[p] < heldUntil[c] THEN torn \cup {c} ELSE torn
  /\ Tell(c, hol[p], draft[p])
  /\ Disturb(c)
  /\ Return(p)
  /\ UNCHANGED <<clock, holderOf>>

\* A stale position rolls the renewal back too.
ConflictHeartbeat(p) ==
  /\ pc[p] = "advance"
  /\ pos[con[p]] > arg[p]
  /\ Return(p)
  /\ UNCHANGED <<clock, store, ghost>>
-----------------------------------------------------------------------------
(* Release: two statements, each a transaction of its own *)

\* Releasing an absent or expired lock succeeds; another holder's is an error.
\* A holder that asks for the release no longer relies on its guarantee.
QueryActiveLock(p, c, h) ==
  /\ Start(p, c, h, 0, "delete")
  /\ holderOf[c] = h /\ heldUntil[c] > clock
  /\ intact' = [intact EXCEPT ![p] = TRUE]
  /\ promise' = [promise EXCEPT ![c][h] = 0]
  /\ UNCHANGED <<clock, store, torn, ack>>

\* Deletes the row of the consumer, whoever holds it by now.
DeleteLock(p) ==
  LET c == con[p] IN
  /\ pc[p] = "delete"
  /\ ConnFree
  /\ ~RowLocked(c)
  /\ holderOf' = [holderOf EXCEPT ![c] = None]
  /\ heldUntil' = [heldUntil EXCEPT ![c] = 0]
  /\ torn' = IF holderOf[c] # None /\ ~intact[p] THEN torn \cup {c} ELSE torn
  /\ intact' = [intact EXCEPT ![p] = FALSE]
  /\ Return(p)
  /\ UNCHANGED <<clock, pos, promise, ack>>
-----------------------------------------------------------------------------
(* Submit with a Lock option *)

SubmitWithLock(p, c, h) ==
  /\ Start(p, c, h, 0, "check")
  /\ UNCHANGED <<clock, store, ghost>>

\* A plain SELECT: it sees the committed row and locks nothing.
ResolveAndCheckLock(p) ==
  /\ pc[p] = "check"
  /\ OwnLiveRow(p)
  /\ Goto(p, "submit")
  /\ UNCHANGED <<clock, store, arg, draft, ghost>>

RejectSubmit(p) ==
  /\ pc[p] = "check"
  /\ ~OwnLiveRow(p)
  /\ Return(p)
  /\ UNCHANGED <<clock, store, ghost>>

\* The event is inserted and committed; module WatchStream has the events.
CommitSubmit(p) ==
  /\ pc[p] = "submit"
  /\ Return(p)
  /\ UNCHANGED <<clock, store, ghost>>
-----------------------------------------------------------------------------
(* Positions, failures and time *)

SetPosition(c, n) ==
  /\ ConnFree
  /\ pos[c] <= n
  /\ pos' = [pos EXCEPT ![c] = n]
  /\ UNCHANGED <<clock, holderOf, heldUntil, call, ghost>>

DeletePosition(c) ==
  /\ ConnFree
  /\ pos' = [pos EXCEPT ![c] = 0]
  /\ ack' = [ack EXCEPT ![c] = 0]
  /\ UNCHANGED <<clock, holderOf, heldUntil, call, promise, intact,
                 torn>>

\* The caller's context ends or its connection breaks: what the transaction
\* wrote is rolled back, what other connections committed stays.
Abort(p) ==
  /\ pc[p] # "idle"
  /\ Return(p)
  /\ intact' = [intact EXCEPT ![p] = FALSE]
  /\ UNCHANGED <<clock, store, promise, torn, ack>>

Tick ==
  /\ clock < MaxClock
  /\ clock' = clock + 1
  /\ UNCHANGED <<store, call, ghost>>

Progress(p) ==
  \/ AdvisoryLock(p) \/ UpsertLock(p) \/ RefuseAcquire(p)
  \/ CleanExpiredLocks(p) \/ QueryPosition(p) \/ CommitAcquire(p)
  \/ UpdateLockHeartbeat(p) \/ RejectHeartbeat(p)
  \/ CommitHeartbeat(p) \/ ConflictHeartbeat(p)
  \/ DeleteLock(p)
  \/ ResolveAndCheckLock(p) \/ RejectSubmit(p) \/ CommitSubmit(p)

Next ==
  \/ \E p \in Proc, c \in Consumer, h \in Holder :
       \/ "acquire" \in Workload /\ TryAcquire(p, c, h)
       \/ "heartbeat" \in Workload /\ \E n \in 0..MaxPos : Heartbeat(p, c, h, n)
       \/ "release" \in Workload /\ QueryActiveLock(p, c, h)
       \/ "submit" \in Workload /\ SubmitWithLock(p, c, h)
  \/ \E p \in Proc : Progress(p) \/ CleanupFails(p) \/ Abort(p)
  \/ \E c \in Consumer :
       /\ "position" \in Workload
       /\ DeletePosition(c) \/ \E n \in 0..MaxPos : SetPosition(c, n)
  \/ Tick

Spec == Init /\ [][Next]_vars

\* Every statement that can run eventually does.  Postgres queues waiters for
\* advisory and row locks in arrival order and pgxpool queues callers, so a
\* statement is not overtaken for ever: strong fairness.
Fairness == \A p \in Proc : SF_vars(Progress(p))

FairSpec == Spec /\ Fairness
-----------------------------------------------------------------------------
(* What the store promises *)

Relies(c, h) == clock <= promise[c][h]

\* Two instances never both rely on the guarantee_until they were given for
\* the same consumer, whatever TryAcquire, heartbeat, cleanup and release do
\* concurrently, unless a request that started earlier hit the lease late
\* (consumer.go: Release deletes without comparing the holder, and both
\* tryAcquireInTx and updateLockHeartbeat write a held_until computed before
\* they waited for the row).
GuaranteeExclusion ==
  \A c \in Consumer \ torn : \A g, h \in Holder :
    Relies(c, g) /\ Relies(c, h) => g = h

\* The position returned with a granted lock is not behind any position a
\* heartbeat of an earlier holder was acknowledged for: the row lock taken by
\* the upsert keeps heartbeats out between the read and the commit.
GrantCoversAcks ==
  \A p \in Proc : pc[p] = "grant" => ack[con[p]] <= arg[p]

\* Until a renewing heartbeat commits its position, its holder still has the
\* row it renewed: no acquire, cleanup or release gets in between.
HeartbeatFenced ==
  \A p \in Proc : pc[p] = "advance" => OwnLiveRow(p)

\* At most one open transaction has written the lock row of a consumer.
SingleRowWriter ==
  \A c \in Consumer : \A p, q \in Proc :
    OwnsRow(p, c) /\ OwnsRow(q, c) => p = q

(* The inductive strengthening of these invariants *)

\* No transaction began, and no lease was computed, in the future.
TimesPast ==
  /\ \A p \in Proc : txNow[p] <= clock /\ draft[p] <= clock + TTL
  /\ \A c \in Consumer : heldUntil[c] <= clock + TTL

\* The advisory lock of a consumer is held at most once.
SingleAcquirer ==
  \A c \in Consumer : \A p, q \in Proc :
    HoldsAdvisory(p, c) /\ HoldsAdvisory(q, c) => p = q

\* What the upsert found stays true until its transaction ends.
AcquireFenced ==
  \A p \in Proc : pc[p] \in {"clean", "read", "grant"} => MayTake(p)

\* A guarantee somebody relies on is backed by the committed row.
GuaranteeBacked ==
  \A c \in Consumer \ torn : \A h \in Holder :
    Relies(c, h) => holderOf[c] = h /\ promise[c][h] <= heldUntil[c]

\* The row a pending Release validated is its own, and nobody relies on it.
ReleaseIntact ==
  \A p \in Proc : pc[p] = "delete" /\ intact[p] =>
    promise[con[p]][hol[p]] = 0 /\ holderOf[con[p]] \in {hol[p], None}

\* Acknowledged positions are stored.
AckStored == \A c \in Consumer : ack[c] <= pos[c]

\* Where there is no row there is no lease, and no position is out of bounds.
RowShape ==
  /\ \A c \in Consumer : holderOf[c] = None => heldUntil[c] = 0
  /\ \A c \in Consumer : pos[c] <= MaxPos
  /\ \A p \in Proc : arg[p] <= MaxPos

LeaseInv ==
  /\ TypeOK
  /\ TimesPast
  /\ SingleAcquirer
  /\ SingleRowWriter
  /\ AcquireFenced
  /\ HeartbeatFenced
  /\ GuaranteeBacked
  /\ ReleaseIntact
  /\ AckStored
  /\ GrantCoversAcks
-----------------------------------------------------------------------------
(* Progress, refinement, and what the documentation says *)

\* Every TryAcquire that started returns to its caller.
AcquireCompletes ==
  \A p \in Proc : pc[p] \in AcquireSteps ~> pc[p] = "idle"

\* Two cleanups wait for each other's row.
Crossed ==
  \E p, q \in Proc : /\ p # q /\ pc[p] = "clean" /\ pc[q] = "clean"
                      /\ con[q] \in Expired(con[p]) /\ con[p] \in Expired(con[q])

\* Every TryAcquire that started returns to its caller, unless two cleanups wait
\* for each other (cleanExpiredLocks).
AcquireEnds ==
  \A p \in Proc : pc[p] \in AcquireSteps ~> (pc[p] = "idle" \/ Crossed)

\* The lock store implements the lease service of module Lease.
L == INSTANCE Lease WITH holder <- holderOf, until <- heldUntil, position <- pos
ImplementsLease == L!Spec

\* "Release releases a consumer lock.  Only the current holder can release."
ReleaseOnlyByHolder ==
  [][\A p \in Proc : DeleteLock(p) => holderOf[con[p]] \in {hol[p], None}]_vars
=============================================================================
