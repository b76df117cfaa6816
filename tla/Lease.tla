------------------------------- MODULE Lease -------------------------------
(***************************************************************************)
(* What a consumer may assume of the lock service, whichever statements it *)
(* is built from: a lease changes hands only when it has expired, a        *)
(* position moves forward together with the renewal of the lease, and no   *)
(* lease extends more than TTL beyond the present.                         *)
(***************************************************************************)
EXTENDS Integers

CONSTANTS Consumer, Holder, None, TTL, MaxPos

VARIABLES clock, holder, until, position

lease == <<clock, holder, until, position>>

Init ==
  /\ clock = 1
  /\ holder = [c \in Consumer |-> None]
  /\ until = [c \in Consumer |-> 0]
  /\ position = [c \in Consumer |-> 0]

Lapsed(c) == until[c] < clock

\* c is given to h: it was free, h's own, or left to expire.
Grant(c, h) ==
  /\ holder[c] \in {None, h} \/ Lapsed(c)
  /\ holder' = [holder EXCEPT ![c] = h]
  /\ \E u \in 0..(clock + TTL) : until' = [until EXCEPT ![c] = u]
  /\ UNCHANGED <<clock, position>>

\* The holder of c renews its lease and moves its position in one step.
Renew(c, n) ==
  /\ holder[c] # None
  /\ position[c] <= n
  /\ position' = [position EXCEPT ![c] = n]
  /\ \E u \in 0..(clock + TTL) : until' = [until EXCEPT ![c] = u]
  /\ UNCHANGED <<clock, holder>>

\* Leases end: one that is released, or some that have lapsed.
Drop(S) ==
  /\ \A c \in S : holder[c] # None
  /\ (\E c \in S : S = {c}) \/ \A c \in S : Lapsed(c)
  /\ holder' = [c \in Consumer |-> IF c \in S THEN None ELSE holder[c]]
  /\ until' = [c \in Consumer |-> IF c \in S THEN 0 ELSE until[c]]
  /\ UNCHANGED <<clock, position>>

\* An operator moves a position forward, or forgets it.
Reposition(c, n) ==
  /\ n = 0 \/ position[c] <= n
  /\ position' = [position EXCEPT ![c] = n]
  /\ UNCHANGED <<clock, holder, until>>

Pass ==
  /\ clock' = clock + 1
  /\ UNCHANGED <<holder, until, position>>

Next ==
  \/ \E c \in Consumer, h \in Holder : Grant(c, h)
  \/ \E c \in Consumer, n \in 0..MaxPos : Renew(c, n) \/ Reposition(c, n)
  \/ \E S \in SUBSET Consumer : Drop(S)
  \/ Pass

Spec == Init /\ [][Next]_lease
=============================================================================
