------------------------- MODULE WatchStreamProofs -------------------------
(***************************************************************************)
(* Proofs about submitting and watching a stream, for any number of        *)
(* writers, any clauses and pinned ids, and any number of events.          *)
(***************************************************************************)
EXTENDS WatchStream, FiniteSetTheorems, SequenceTheorems, TLAPS

USE DEF submits, watch, Looping

\* What a step does to the open transactions changes their number by one.
LEMMA AddOne ==
  ASSUME NEW S, IsFiniteSet(S), NEW x, x \notin S
  PROVE  IsFiniteSet(S \cup {x}) /\ Cardinality(S \cup {x}) = Cardinality(S) + 1
BY FS_AddElement
\* ... and taking one away.
LEMMA RemoveOne ==
  ASSUME NEW S, IsFiniteSet(S), NEW x \in S
  PROVE  /\ IsFiniteSet(S \ {x}) /\ Cardinality(S \ {x}) = Cardinality(S) - 1
         /\ Cardinality(S) \in Nat \ {0}
<1>1. Cardinality(S) \in Nat /\ IsFiniteSet(S \ {x}) /\ Cardinality(S \ {x}) = Cardinality(S) - 1
  BY FS_RemoveElement, FS_CardinalityType
<1>2. Cardinality(S \ {x}) \in Nat
  BY <1>1, FS_CardinalityType
<1> QED
  BY <1>1, <1>2

\* The numbers of open and of begun transactions are natural numbers.
LEMMA CountType ==
  ASSUME Counts
  PROVE  IsFiniteSet(Begun) /\ Cardinality(Begun) \in Nat /\ Cardinality(Open) \in Nat
<1>1. Begun \subseteq Open
  BY DEF Begun, Open
<1> QED
  BY <1>1, FS_Subset, FS_CardinalityType DEF Counts

\* Ids, timestamps and signals never outnumber the transactions begun.
LEMMA CountsStep == TypeOK /\ Counts /\ [Next]_vars => Counts'
<1> SUFFICES ASSUME TypeOK, Counts, [Next]_vars PROVE Counts'
  OBVIOUS
<1>0. /\ nextId \in Nat /\ stamp \in Nat /\ pending \in Nat
      /\ IsFiniteSet(Begun) /\ Cardinality(Begun) \in Nat
      /\ IsFiniteSet(Open) /\ Cardinality(Open) \in Nat
      /\ nextId + Cardinality(Begun) <= stamp
      /\ pending + Cardinality(Open) < stamp
  BY CountType, WatchAssump DEF WatchAssump, TypeOK, Counts
<1> USE DEF TypeOK
<1>1. ASSUME NEW w \in Writer, NEW k \in Kind, BeginSubmit(w, k)
      PROVE  Counts'
  <2>1. Begun' = Begun \cup {w} /\ w \notin Begun /\ Open' = Open \cup {w} /\ w \notin Open
    BY <1>1 DEF BeginSubmit, Begun, Open
  <2>2. /\ Cardinality(Begun') = Cardinality(Begun) + 1
        /\ IsFiniteSet(Open') /\ Cardinality(Open') = Cardinality(Open) + 1
    BY <1>0, <2>1, AddOne
  <2> QED
    BY <1>0, <1>1, <2>1, <2>2, SMTT(20) DEF BeginSubmit, Counts
<1>2. ASSUME NEW w \in Writer, UnsafeStore(w)
      PROVE  Counts'
  <2>1. Begun' = Begun \ {w} /\ w \in Begun /\ Open' = Open
    BY <1>2 DEF UnsafeStore, Begun, Open
  <2>2. Cardinality(Begun') = Cardinality(Begun) - 1
    BY <1>0, <2>1, RemoveOne
  <2> QED
    BY <1>0, <1>2, <2>1, <2>2 DEF UnsafeStore, Counts
<1>3. ASSUME NEW w \in Writer, Commit(w), pending' \in {pending, pending + 1}
      PROVE  Counts'
  <2>1. Begun' = Begun /\ Open' = Open \ {w} /\ w \in Open
    BY <1>3 DEF Commit, EndSubmit, Begun, Open
  <2>2. IsFiniteSet(Open') /\ Cardinality(Open') = Cardinality(Open) - 1
    BY <1>0, <2>1, RemoveOne
  <2>3. UNCHANGED <<nextId, stamp>>
    BY <1>3 DEF Commit, EndSubmit
  <2> QED
    BY <1>0, <1>3, <2>1, <2>2, <2>3 DEF Counts
<1>4. ASSUME NEW w \in Writer, Rollback(w)
      PROVE  Counts'
  <2>1. Open' = Open \ {w} /\ w \in Open
    BY <1>4 DEF Rollback, EndSubmit, Open
  <2>2. IsFiniteSet(Open') /\ Cardinality(Open') = Cardinality(Open) - 1
    BY <1>0, <2>1, RemoveOne
  <2>3. Cardinality(Begun') <= Cardinality(Begun) /\ Cardinality(Begun') \in Nat
    <3>1. Begun' \subseteq Begun
      BY <1>4 DEF Rollback, EndSubmit, Begun
    <3> QED
      BY <1>0, <3>1, FS_Subset, FS_CardinalityType
  <2> QED
    BY <1>0, <1>4, <2>2, <2>3, SMTT(20) DEF Rollback, EndSubmit, Counts
<1>5. CASE DispatchOnEventStored
  BY <1>0, <1>5 DEF DispatchOnEventStored, Begun, Open, Counts
<1>6. CASE UNCHANGED submits
  BY <1>6 DEF Begun, Open, Counts
<1> QED
  BY <1>1, <1>2, <1>3, <1>4, <1>5, <1>6
     DEF Next, CommitSubmit, CommitUnacknowledged, Watch, WatchStep, Seed, Wait, RunQuery,
         PushRow, EndQuery, CutOff, StopWatch, vars

\* A step hands out each id and each timestamp once.
LEMMA StampedStep == TypeOK /\ Stamped /\ Distinct /\ [Next]_vars => Stamped' /\ Distinct'
<1> SUFFICES ASSUME TypeOK, Stamped, Distinct, [Next]_vars PROVE Stamped' /\ Distinct'
  OBVIOUS
<1> USE WatchAssump DEF WatchAssump, TypeOK, Stamped, Distinct, Event, NoEvent
<1>1. ASSUME NEW w \in Writer, NEW k \in Kind, BeginSubmit(w, k)
      PROVE  Stamped' /\ Distinct'
  BY <1>1 DEF BeginSubmit
<1>2. ASSUME NEW w \in Writer, UnsafeStore(w)
      PROVE  Stamped' /\ Distinct'
  BY <1>2 DEF UnsafeStore
<1>3. ASSUME NEW w \in Writer, Commit(w)
      PROVE  Stamped' /\ Distinct'
  BY <1>3 DEF Commit, EndSubmit
<1>4. ASSUME NEW w \in Writer, Rollback(w)
      PROVE  Stamped' /\ Distinct'
  BY <1>4 DEF Rollback, EndSubmit
<1>5. CASE UNCHANGED <<stage, draft, events, nextId, stamp>>
  BY <1>5
<1> QED
  BY <1>1, <1>2, <1>3, <1>4, <1>5
     DEF Next, CommitSubmit, CommitUnacknowledged, DispatchOnEventStored, Watch, WatchStep,
         Seed, Wait, RunQuery, PushRow, EndQuery, CutOff, StopWatch, vars

\* The rows of a query: those of the clauses and those of the pinned ids.
LEMMA RowsChar ==
  ASSUME NEW r
  PROVE  r \in Rows <=> \/ \E c \in Clause : \E e \in events : InClause(c, e) /\ r = RowFor(c, e)
                        \/ \E e \in events : e.id \in Pinned /\ r = RowFor("id", e)
<1>1. ASSUME NEW c
      PROVE  r \in ClauseRows(c) <=> \E e \in events : InClause(c, e) /\ r = RowFor(c, e)
  BY DEF ClauseRows
<1>2. r \in IdRows <=> \E e \in events : e.id \in Pinned /\ r = RowFor("id", e)
  BY DEF IdRows
<1>3. r \in Rows <=> (\E c \in Clause : r \in ClauseRows(c)) \/ r \in IdRows
  <2> DEFINE U == UNION {ClauseRows(c) : c \in Clause}
  <2>1. r \in U <=> \E c \in Clause : r \in ClauseRows(c)
    BY Zenon
  <2>2. Rows = U \cup IdRows
    BY DEF Rows
  <2> HIDE DEF U
  <2> QED
    BY <2>1, <2>2
<1> QED
  BY <1>1, <1>2, <1>3

\* Every row of a query is a row of a committed event.
LEMMA RowsTyped ==
  ASSUME TypeOK, Stamped, stamp <= MaxEvents + 1
  PROVE  Rows \subseteq Row
<1> USE WatchAssump DEF WatchAssump, TypeOK, Stamped
<1>1. ASSUME NEW e \in events, NEW c \in Clause \cup {"id"}
      PROVE  RowFor(c, e) \in Row
  BY <1>1 DEF RowFor, Row, Ids, Event
<1>2. ASSUME NEW r \in Rows
      PROVE  r \in Row
  BY <1>1, <1>2, RowsChar
<1> QED
  BY <1>2

\* A step keeps the types.
LEMMA TypeStep == TypeOK /\ Counts /\ Stamped /\ [Next]_vars => TypeOK'
<1> SUFFICES ASSUME TypeOK, Counts, Stamped, [Next]_vars PROVE TypeOK'
  OBVIOUS
<1> USE WatchAssump DEF WatchAssump, TypeOK
<1>1. ASSUME NEW w \in Writer, NEW k \in Kind, BeginSubmit(w, k)
      PROVE  TypeOK'
  BY <1>1 DEF BeginSubmit, Event
<1>2. ASSUME NEW w \in Writer, UnsafeStore(w)
      PROVE  TypeOK'
  <2>1. nextId \in 1..MaxEvents
    <3>1. IsFiniteSet(Begun) /\ w \in Begun
      BY <1>2, CountType DEF UnsafeStore, Begun
    <3>2. Cardinality(Begun) \in Nat \ {0}
      BY <3>1, RemoveOne
    <3> QED
      BY <3>2 DEF Counts
  <2>2. [id |-> nextId, when |-> draft[w].when, kind |-> draft[w].kind] \in Event
    BY <2>1 DEF Event
  <2> QED
    BY <1>2, <2>1, <2>2 DEF UnsafeStore
<1>3. ASSUME NEW w \in Writer, Commit(w), pending' \in {pending, pending + 1},
             UNCHANGED watch, stale' \in BOOLEAN
      PROVE  TypeOK'
  <2>1. pending + 1 \in 0..MaxEvents
    <3>1. IsFiniteSet(Open) /\ w \in Open
      BY <1>3 DEF Commit, Open, Counts
    <3>2. Cardinality(Open) \in Nat \ {0}
      BY <3>1, RemoveOne
    <3> QED
      BY <3>2 DEF Counts
  <2> QED
    BY <1>3, <2>1 DEF Commit, EndSubmit, Event, NoEvent
<1>4. ASSUME NEW w \in Writer, Rollback(w)
      PROVE  TypeOK'
  BY <1>4 DEF Rollback, EndSubmit, Event, NoEvent
<1>5. CASE DispatchOnEventStored
  BY <1>5 DEF DispatchOnEventStored, Signal
<1>6. ASSUME NEW a \in 0..nextId - 1, Watch(a)
      PROVE  TypeOK'
  BY <1>6 DEF Watch
<1>7. CASE Seed \/ Wait \/ CutOff
  BY <1>7 DEF Seed, Wait, CutOff
<1>11. CASE EndQuery
  BY <1>11 DEF EndQuery, Advance
<1>12. CASE StopWatch
  <2>1. <<>> \in Seq(Row)
    BY EmptySeq
  <2>2. ch' \in BOOLEAN
    BY <1>12 DEF StopWatch
  <2> QED
    BY <1>12, <2>1, <2>2 DEF StopWatch
<1>8. CASE RunQuery
  <2>1. Rows \subseteq Row
    BY RowsTyped
  <2>2. stale' \in BOOLEAN
    BY <1>8 DEF RunQuery
  <2> QED
    BY <1>8, <2>1, <2>2 DEF RunQuery
<1>9. ASSUME NEW r \in batch, PushRow(r)
      PROVE  TypeOK'
  <2>1. r \in Row /\ r.id \in 1..MaxEvents
    BY DEF Row, Ids
  <2>2. Append(sent, r) \in Seq(Row)
    BY <2>1, AppendProperties
  <2>3. lastSent' \in -1..MaxEvents /\ sent' \in Seq(Row)
    BY <1>9, <2>1, <2>2, SMTT(60) DEF PushRow
  <2> QED
    BY <1>9, <2>1, <2>3 DEF PushRow
<1>10. CASE UNCHANGED vars
  BY <1>10 DEF vars
<1> QED
  BY <1>1, <1>2, <1>3, <1>4, <1>5, <1>6, <1>7, <1>8, <1>9, <1>10, <1>11, <1>12
     DEF Next, CommitSubmit, CommitUnacknowledged, WatchStep
-----------------------------------------------------------------------------
(* What is wanted and what was sent *)

\* A wanted id is that of a visible event, pinned or selected beyond AfterID.
LEMMA WantedChar ==
  ASSUME NEW i
  PROVE  i \in Wanted <=> \E e \in events :
           e.id = i /\ (i \in Pinned \/ (i > after /\ \E c \in Clause : e.kind \in Selects[c]))
<1> DEFINE P(e) == e.id \in Pinned \/ (e.id > after /\ \E c \in Clause : e.kind \in Selects[c])
<1>1. Wanted = {e.id : e \in {d \in events : P(d)}}
  BY DEF Wanted
<1>2. i \in Wanted <=> \E e \in events : e.id = i /\ P(e)
  <2> HIDE DEF P
  <2> QED
    BY <1>1
<1> QED
  BY <1>2

\* What is wanted depends only on the visible events and on AfterID, ...
LEMMA WantedSame ==
  ASSUME UNCHANGED <<events, after>> PROVE Wanted' = Wanted /\ EventIds' = EventIds
BY DEF Wanted, EventIds

\* ... and a commit adds at most its own event.
LEMMA WantedCommit ==
  ASSUME NEW w \in Writer, Commit(w), UNCHANGED watch
  PROVE  /\ Wanted \subseteq Wanted' /\ Wanted' \subseteq Wanted \cup {draft[w].id}
         /\ EventIds' = EventIds \cup {draft[w].id}
BY DEF Wanted, Commit, EventIds

\* Sending a row adds its id to the ids sent.
LEMMA SentAppend ==
  ASSUME TypeOK, NEW r \in Row, sent' = Append(sent, r)
  PROVE  SentIds' = SentIds \cup {r.id}
<1>1. DOMAIN sent = 1..Len(sent) /\ Len(sent) \in Nat
  BY DEF TypeOK
<1>2. DOMAIN sent' = 1..Len(sent) + 1 /\ sent'[Len(sent) + 1] = r
  BY <1>1 DEF TypeOK
<1>3. \A i \in 1..Len(sent) : sent'[i] = sent[i]
  BY <1>1 DEF TypeOK
<1> QED
  BY <1>1, <1>2, <1>3 DEF SentIds

\* What a wanted id that no query has sent implies for the rows of a query.
LEMMA UnsentIsRow ==
  ASSUME TypeOK, Stamped, Cursors, NoGap, ~disorder, NEW i \in Wanted, i \notin SentIds
  PROVE  \E r \in Rows : r.id = i
<1>1. PICK e \in events : e.id = i /\ (i \in Pinned \/ (i > after /\ \E c \in Clause : e.kind \in Selects[c]))
  BY WantedChar
<1>2. CASE i \in Pinned
  <2>1. RowFor("id", e) \in Rows
    BY <1>1, <1>2, RowsChar
  <2> QED
    BY <1>1, <2>1 DEF RowFor
<1>3. CASE i > after /\ \E c \in Clause : e.kind \in Selects[c]
  <2>1. PICK c \in Clause : e.kind \in Selects[c]
    BY <1>3
  <2>2. i > cursor
    BY <1>1, <1>3 DEF NoGap, TypeOK, Stamped
  <2>3. InClause(c, e)
    BY <1>1, <2>1, <2>2 DEF InClause
  <2>4. RowFor(c, e) \in Rows /\ RowFor(c, e).id = i
    BY <1>1, <2>3, RowsChar DEF RowFor
  <2> QED
    BY <2>4
<1> QED
  BY <1>1, <1>2, <1>3

\* Every row of a query is that of a wanted event.
LEMMA RowIsWanted ==
  ASSUME TypeOK, Stamped, Cursors, NEW r \in Rows
  PROVE  r.id \in Wanted /\ \E e \in events : e.id = r.id /\ e.when = r.when
<1> USE WatchAssump DEF WatchAssump, TypeOK, Stamped, Cursors
<1>1. CASE \E e \in events : e.id \in Pinned /\ r = RowFor("id", e)
  <2>1. PICK e \in events : e.id \in Pinned /\ r = RowFor("id", e)
    BY <1>1
  <2>2. r.id = e.id /\ r.when = e.when
    BY <2>1 DEF RowFor
  <2> QED
    BY <2>1, <2>2, WantedChar
<1>2. CASE \E c \in Clause : \E e \in events : InClause(c, e) /\ r = RowFor(c, e)
  <2>1. PICK c \in Clause, e \in events : InClause(c, e) /\ r = RowFor(c, e)
    BY <1>2
  <2>2. r.id = e.id /\ r.when = e.when /\ e.id > after /\ e.kind \in Selects[c]
    BY <2>1 DEF RowFor, InClause
  <2> QED
    BY <2>2, WantedChar
<1> QED
  BY <1>1, <1>2, RowsChar

\* An event that becomes visible in order is newer than all visible ones.
LEMMA CommitNewest ==
  ASSUME TypeOK, Stamped, Distinct, NEW w \in Writer, Commit(w), ~disorder'
  PROVE  /\ ~disorder
         /\ \A e \in events : e.id < draft[w].id /\ e.when < draft[w].when
<1>1. ~disorder /\ \A e \in events : ~(e.id > draft[w].id) /\ ~(e.when > draft[w].when)
  BY DEF Commit
<1>2. \A e \in events : e.id # draft[w].id /\ e.when # draft[w].when
  BY DEF Commit, Distinct
<1>3. /\ draft[w].id \in Int /\ draft[w].when \in Int
      /\ \A e \in events : e.id \in Int /\ e.when \in Int
  BY DEF Stamped, Commit
<1> QED
  BY <1>1, <1>2, <1>3

\* While there is no disorder, ids and timestamps stay in the same order.
LEMMA OrderedStep ==
  TypeOK /\ Stamped /\ Distinct /\ Ordered /\ [Next]_vars => Ordered'
<1> SUFFICES ASSUME TypeOK, Stamped, Distinct, Ordered, [Next]_vars PROVE Ordered'
  OBVIOUS
<1>1. ASSUME NEW w \in Writer, Commit(w)
      PROVE  Ordered'
  <2> SUFFICES ASSUME ~disorder', NEW d \in events', NEW e \in events', d.id < e.id
               PROVE  d.when < e.when
    BY DEF Ordered
  <2>1. /\ ~disorder
        /\ \A x \in events : x.id < draft[w].id /\ x.when < draft[w].when
    BY <1>1, CommitNewest
  <2>2. events' = events \cup {draft[w]}
    BY <1>1 DEF Commit
  <2>3. draft[w].id \in Int /\ \A x \in events : x.id \in Int
    BY <1>1 DEF Stamped, Commit
  <2> QED
    BY <2>1, <2>2, <2>3 DEF Ordered
<1>2. CASE UNCHANGED <<events, disorder>>
  BY <1>2 DEF Ordered
<1> QED
  BY <1>1, <1>2
     DEF Next, BeginSubmit, UnsafeStore, Rollback, EndSubmit, CommitSubmit,
         CommitUnacknowledged, DispatchOnEventStored, Watch, WatchStep,
         Seed, Wait, RunQuery, PushRow, EndQuery, CutOff, StopWatch, vars

\* What a watch has read and sent are rows of wanted events, in order of ids.
SentParts == NoRowsWhenOff /\ RowsCommitted /\ Cursors /\ SentIncreasing /\ SentWanted

\* No step sends out of order or what is not wanted.
LEMMA SentStep ==
  TypeOK /\ Stamped /\ SentParts /\ [Next]_vars => SentParts'
<1> SUFFICES ASSUME TypeOK, Stamped, SentParts, [Next]_vars PROVE SentParts'
  OBVIOUS
<1> USE WatchAssump DEF WatchAssump, SentParts
<1>1. ASSUME NEW w \in Writer, Commit(w), UNCHANGED watch
      PROVE  SentParts'
  <2>1. events \subseteq events' /\ Wanted \subseteq Wanted' /\ EventIds \subseteq EventIds'
    BY <1>1, WantedCommit DEF Commit
  <2>2. SentIds' = SentIds
    BY <1>1 DEF SentIds
  <2> QED
    BY <1>1, <2>1, <2>2
       DEF NoRowsWhenOff, RowsCommitted, Cursors, SentIncreasing, SentWanted
<1>2. ASSUME NEW a \in 0..nextId - 1, Watch(a)
      PROVE  SentParts'
  <2>1. batch' = {} /\ sent' = <<>> /\ high' = 0 /\ lastSent' = -1 /\ cursor' = after'
        /\ after' = a
    BY <1>2 DEF Watch, NoRowsWhenOff
  <2>2. a <= a
    BY DEF TypeOK
  <2> QED
    BY <2>1, <2>2
       DEF NoRowsWhenOff, RowsCommitted, Cursors, SentIncreasing, SentWanted, SentIds
<1>3. CASE UNCHANGED <<events, after, cursor, batch, high, lastSent, sent>>
           /\ (pc' \in {"off", "seed"} => pc \in {"off", "seed"})
  <2>1. Wanted' = Wanted /\ EventIds' = EventIds /\ SentIds' = SentIds
    BY <1>3, WantedSame DEF SentIds
  <2> QED
    BY <1>3, <2>1
       DEF NoRowsWhenOff, RowsCommitted, Cursors, SentIncreasing, SentWanted
<1>4. CASE RunQuery
  <2>1. Wanted' = Wanted /\ EventIds' = EventIds /\ SentIds' = SentIds
    BY <1>4, WantedSame DEF RunQuery, SentIds
  <2>2. RowsCommitted'
    BY <1>4, <2>1, RowIsWanted DEF RunQuery, RowsCommitted
  <2> QED
    BY <1>4, <2>1, <2>2 DEF RunQuery, NoRowsWhenOff, Cursors, SentIncreasing, SentWanted
<1>5. ASSUME NEW r \in batch, PushRow(r)
      PROVE  SentParts'
  <2>1. Wanted' = Wanted /\ EventIds' = EventIds
    BY <1>5, WantedSame DEF PushRow
  <2>2. r \in Row /\ r.id \in Int /\ r.id \in Wanted /\ r.id \in EventIds
    BY DEF TypeOK, Row, Ids, RowsCommitted, EventIds
  <2>3. NoRowsWhenOff' /\ RowsCommitted'
    BY <1>5, <2>1 DEF PushRow, NoRowsWhenOff, RowsCommitted
  <2>4. CASE Dropped(r)
    <3>1. lastSent' = lastSent /\ sent' = sent
      BY <1>5, <2>4 DEF PushRow
    <3>2. SentIds' = SentIds
      BY <3>1 DEF SentIds
    <3> QED
      BY <1>5, <2>1, <2>2, <2>3, <3>1, <3>2
         DEF PushRow, Cursors, SentIncreasing, SentWanted
  <2>5. CASE ~Dropped(r)
    <3>1. lastSent' = r.id /\ sent' = Append(sent, r) /\ r.id > lastSent
      BY <1>5, <2>2, <2>5 DEF PushRow, Dropped, TypeOK
    <3>2. SentIds' = SentIds \cup {r.id}
      BY <2>2, <3>1, SentAppend
    <3>3. /\ DOMAIN sent = 1..Len(sent) /\ Len(sent) \in Nat
          /\ DOMAIN sent' = 1..Len(sent) + 1 /\ sent'[Len(sent) + 1] = r
          /\ \A i \in 1..Len(sent) : sent'[i] = sent[i]
      BY <2>2, <3>1 DEF TypeOK
    <3>4. \A i \in 1..Len(sent) : sent[i].id \in Int /\ sent[i].id <= lastSent
      <4>1. \A i \in 1..Len(sent) : sent[i] \in Row
        BY DEF TypeOK
      <4>2. \A x \in Row : x.id \in Int
        BY DEF Row, Ids
      <4> QED
        BY <3>3, <4>1, <4>2 DEF Cursors
    <3>5. SentIncreasing' /\ \A i \in DOMAIN sent' : sent'[i].id <= lastSent'
      BY <2>2, <3>1, <3>3, <3>4 DEF SentIncreasing, TypeOK
    <3>6. Cursors'
      BY <1>5, <2>1, <2>2, <3>1, <3>5 DEF PushRow, Cursors
    <3> QED
      BY <2>1, <2>2, <2>3, <3>2, <3>5, <3>6 DEF SentWanted
  <2> QED
    BY <2>4, <2>5
<1>6. CASE EndQuery
  <2>1. Wanted' = Wanted /\ EventIds' = EventIds /\ SentIds' = SentIds
    BY <1>6, WantedSame DEF EndQuery, SentIds
  <2>2. Cursors'
    BY <1>6, <2>1 DEF EndQuery, Advance, Cursors, TypeOK
  <2> QED
    BY <1>6, <2>1, <2>2
       DEF EndQuery, NoRowsWhenOff, RowsCommitted, SentIncreasing, SentWanted
<1>7. CASE CutOff
  <2>1. Wanted' = Wanted /\ EventIds' = EventIds /\ SentIds' = SentIds
    BY <1>7, WantedSame DEF CutOff, SentIds
  <2> QED
    BY <1>7, <2>1
       DEF CutOff, NoRowsWhenOff, RowsCommitted, Cursors, SentIncreasing, SentWanted
<1>8. CASE StopWatch
  BY <1>8
     DEF StopWatch, NoRowsWhenOff, RowsCommitted, Cursors, SentIncreasing, SentWanted, SentIds
<1> QED
  BY <1>1, <1>2, <1>3, <1>4, <1>5, <1>6, <1>7, <1>8
     DEF Next, BeginSubmit, UnsafeStore, Rollback, EndSubmit, CommitSubmit,
         CommitUnacknowledged, DispatchOnEventStored, WatchStep, Seed, Wait, vars

\* The cursor and the reads of a watch leave no gap, and what a sleeping or a
\* reading watch has not sent is still announced to it.
GapParts == NoGap /\ NoGapRunning /\ BatchComplete /\ BatchIsLast /\ QuietMeansCaughtUp

\* The ids of wanted events are positive integers, so is each cursor an integer.
LEMMA WantedTyped ==
  ASSUME TypeOK, Stamped
  PROVE  /\ Wanted \subseteq EventIds
         /\ \A i \in EventIds : i \in Int /\ i > 0
         /\ after \in Int /\ cursor \in Int /\ high \in Int /\ lastSent \in Int
<1>1. Wanted \subseteq EventIds
  BY DEF Wanted, EventIds
<1>2. \A i \in EventIds : i \in Int /\ i > 0
  BY DEF EventIds, Stamped, TypeOK
<1> QED
  BY <1>1, <1>2, WatchAssump DEF TypeOK, WatchAssump

\* The oldest row not yet read has the lowest id of them.
LEMMA OldestIsLowest ==
  ASSUME TypeOK, Stamped, Distinct, Ordered, RowsCommitted, ~disorder,
         NEW r \in Oldest, NEW i \in BatchIds
  PROVE  r.id <= i
<1>1. PICK q \in batch : q.id = i
  BY DEF BatchIds
<1>2. r \in batch /\ r.when <= q.when
  BY DEF Oldest
<1>3. PICK d \in events : d.id = r.id /\ d.when = r.when
  BY <1>2 DEF RowsCommitted
<1>4. PICK e \in events : e.id = q.id /\ e.when = q.when
  BY DEF RowsCommitted
<1>5. /\ d.id \in Int /\ e.id \in Int /\ d.when \in Int /\ e.when \in Int
      /\ e.id < d.id => e.when < d.when
  BY DEF Stamped, Ordered
<1> QED
  BY <1>1, <1>2, <1>3, <1>4, <1>5

\* No step moves the cursor past an unsent event, or sleeps on one.
LEMMA GapStep ==
  TypeOK /\ Stamped /\ Distinct /\ SentParts /\ Ordered /\ GapParts /\ [Next]_vars => GapParts'
<1> SUFFICES ASSUME TypeOK, Stamped, Distinct, SentParts, Ordered, GapParts, [Next]_vars
             PROVE  GapParts'
  OBVIOUS
<1>0. /\ Wanted \subseteq EventIds
      /\ \A i \in EventIds : i \in Int /\ i > 0
      /\ after \in Int /\ cursor \in Int /\ high \in Int /\ lastSent \in Int
      /\ pending \in Nat
  BY WantedTyped DEF TypeOK
<1> USE DEF GapParts, SentParts
<1>1. ASSUME NEW w \in Writer, Commit(w), UNCHANGED watch,
             stale' = TRUE \/ pending' = pending + 1
      PROVE  GapParts'
  <2>1. SentIds' = SentIds /\ BatchIds' = BatchIds
    BY <1>1 DEF SentIds, BatchIds
  <2>2. Wanted' \subseteq Wanted \cup {draft[w].id}
    BY <1>1, WantedCommit
  <2>3. pending = 0 => pending' # 0 \/ stale'
    BY <1>0, <1>1
  <2>4. BatchIsLast' /\ QuietMeansCaughtUp'
    BY <1>0, <1>1, <2>3 DEF BatchIsLast, QuietMeansCaughtUp
  <2>5. ASSUME ~disorder'
        PROVE  /\ ~disorder
               /\ draft[w].id \in Int
               /\ \A j \in EventIds : j < draft[w].id
    BY <1>1, <2>5, CommitNewest DEF EventIds, Stamped, Commit
  <2>6. ASSUME ~disorder'
        PROVE  ~(after < draft[w].id /\ draft[w].id <= cursor)
    BY <1>0, <2>5, <2>6 DEF Cursors
  <2>7. ASSUME ~disorder'
        PROVE  draft[w].id > lastSent /\ draft[w].id > high
    <3>1. draft[w].id > 0 /\ draft[w].id \in Int
      BY <1>1 DEF Commit, Stamped
    <3> QED
      BY <1>0, <2>5, <2>7, <3>1 DEF Cursors
  <2>8. NoGap'
    BY <1>0, <1>1, <2>1, <2>2, <2>5, <2>6 DEF NoGap
  <2>9. NoGapRunning'
    BY <1>0, <1>1, <2>1, <2>2, <2>5, <2>7 DEF NoGapRunning
  <2>10. BatchComplete'
    <3> SUFFICES ASSUME ~disorder', pc' = "send", NEW i \in Wanted' \ SentIds'
                 PROVE  i \in BatchIds' \/ Ahead(i)'
      BY DEF BatchComplete
    <3>1. CASE i = draft[w].id
      <4>1. \A r \in batch : r.id \in EventIds
        BY <1>0 DEF RowsCommitted
      <4> QED
        BY <1>1, <2>5, <3>1, <4>1 DEF Ahead
    <3>2. CASE i \in Wanted
      BY <1>1, <2>1, <2>5, <3>2 DEF BatchComplete, Ahead
    <3> QED
      BY <2>2, <3>1, <3>2
  <2> QED
    BY <2>4, <2>8, <2>9, <2>10
<1>2. ASSUME NEW a \in 0..nextId - 1, Watch(a)
      PROVE  GapParts'
  <2>1. cursor' = after' /\ pc' = "seed" /\ lastSent' = -1 /\ high' = 0 /\ after' \in Int
    BY <1>2 DEF Watch, NoRowsWhenOff, TypeOK
  <2>2. \A i \in Wanted' : i \in Int /\ i > 0
    <3>1. Wanted' \subseteq EventIds'
      BY DEF Wanted, EventIds
    <3>2. EventIds' = EventIds
      BY <1>2 DEF EventIds, Watch
    <3> QED
      BY <1>0, <3>1, <3>2
  <2> QED
    BY <2>1, <2>2 DEF NoGap, NoGapRunning, BatchComplete, BatchIsLast, QuietMeansCaughtUp
<1>3. CASE UNCHANGED <<events, pc, after, cursor, batch, high, lastSent, sent, disorder, stale>>
           /\ (pc \in {"off", "seed"} \/ ch' \/ UNCHANGED <<ch, pending>>)
  <2>1. Wanted' = Wanted /\ SentIds' = SentIds /\ BatchIds' = BatchIds
    BY <1>3, WantedSame DEF SentIds, BatchIds
  <2> QED
    BY <1>3, <2>1 DEF NoGap, NoGapRunning, BatchComplete, Ahead, BatchIsLast, QuietMeansCaughtUp
<1>4. CASE Seed \/ Wait
  <2>1. Wanted' = Wanted /\ SentIds' = SentIds /\ BatchIds' = BatchIds
    BY <1>4, WantedSame DEF Seed, Wait, SentIds, BatchIds
  <2> QED
    BY <1>4, <2>1
       DEF Seed, Wait, NoGap, NoGapRunning, BatchComplete, BatchIsLast, QuietMeansCaughtUp
<1>5. CASE RunQuery
  <2>1. Wanted' = Wanted /\ SentIds' = SentIds
    BY <1>5, WantedSame DEF RunQuery, SentIds
  <2>2. ASSUME ~disorder, NEW i \in Wanted \ SentIds
        PROVE  i \in BatchIds'
    BY <1>5, <2>2, UnsentIsRow DEF RunQuery, BatchIds
  <2>3. NoGap' /\ NoGapRunning'
    BY <1>0, <1>5, <2>1 DEF RunQuery, NoGap, NoGapRunning
  <2> QED
    BY <1>5, <2>1, <2>2, <2>3 DEF RunQuery, BatchComplete, BatchIsLast, QuietMeansCaughtUp
<1>6. ASSUME NEW r \in batch, PushRow(r)
      PROVE  GapParts'
  <2>1. Wanted' = Wanted
    BY <1>6, WantedSame DEF PushRow
  <2>2. r \in Row /\ r.id \in Int /\ r.id \in Wanted /\ r.id \in BatchIds
    BY DEF TypeOK, Row, Ids, RowsCommitted, BatchIds
  \* A row that is dropped was sent before, so that every row read is sent.
  <2>3. SentIds \subseteq SentIds' /\ (~disorder => r.id \in SentIds')
    <3>1. CASE Dropped(r)
      BY <1>6, <2>2, <3>1 DEF PushRow, SentIds, Dropped, NoGapRunning
    <3>2. CASE ~Dropped(r)
      BY <1>6, <2>2, <3>2, SentAppend DEF PushRow
    <3> QED
      BY <3>1, <3>2
  \* What is not sent yet is newer than the row read.
  <2>4. ASSUME ~disorder, NEW i \in Wanted \ SentIds'
        PROVE  i > r.id
    <3>1. i \in Wanted \ SentIds /\ i # r.id /\ i \in Int
      BY <1>0, <2>3, <2>4
    <3>2. CASE i \in BatchIds
      <4>1. r \in Oldest
        BY <1>6 DEF PushRow
      <4>2. r.id <= i
        BY <2>4, <3>2, <4>1, OldestIsLowest
      <4> QED
        BY <2>2, <3>1, <4>2
    <3>3. CASE Ahead(i)
      BY <3>3 DEF Ahead
    <3> QED
      BY <1>6, <2>4, <3>1, <3>2, <3>3 DEF BatchComplete, PushRow
  <2>5. NoGap'
    BY <1>6, <2>1, <2>3 DEF PushRow, NoGap
  <2>6. NoGapRunning'
    <3> SUFFICES ASSUME ~disorder', NEW i \in Wanted', i <= lastSent' \/ i <= high',
                        i \notin SentIds'
                 PROVE  FALSE
      BY DEF NoGapRunning
    <3>1. i > r.id /\ i \in Int /\ ~disorder
      BY <1>0, <1>6, <2>1, <2>4 DEF PushRow
    <3>2. lastSent' \in {lastSent, r.id} /\ high' \in {high, r.id}
      BY <1>6 DEF PushRow
    <3> QED
      BY <1>0, <2>1, <2>2, <2>3, <3>1, <3>2 DEF NoGapRunning
  <2>7. \A i : i \in BatchIds /\ i # r.id => i \in BatchIds'
    BY <1>6 DEF BatchIds, PushRow
  <2>8. BatchComplete'
    BY <1>6, <2>1, <2>3, <2>7 DEF PushRow, BatchComplete, Ahead
  <2>9. BatchIsLast' /\ QuietMeansCaughtUp'
    BY <1>6, <2>1, <2>3, <2>7 DEF PushRow, BatchIsLast, QuietMeansCaughtUp
  <2> QED
    BY <2>5, <2>6, <2>8, <2>9
<1>7. CASE EndQuery
  <2>1. Wanted' = Wanted /\ SentIds' = SentIds /\ BatchIds' = BatchIds /\ BatchIds = {}
    BY <1>7, WantedSame DEF EndQuery, SentIds, BatchIds
  <2>2. NoGap'
    BY <1>0, <1>7, <2>1 DEF EndQuery, Advance, NoGap, NoGapRunning
  <2> QED
    BY <1>7, <2>1, <2>2
       DEF EndQuery, NoGapRunning, BatchComplete, BatchIsLast, QuietMeansCaughtUp
<1>8. CASE CutOff
  <2>1. Wanted' = Wanted /\ SentIds' = SentIds
    BY <1>8, WantedSame DEF CutOff, SentIds
  <2> QED
    BY <1>8, <2>1
       DEF CutOff, NoGap, NoGapRunning, BatchComplete, Ahead, BatchIsLast, QuietMeansCaughtUp
<1>9. CASE StopWatch
  <2>1. cursor' = 0 /\ after' = 0 /\ lastSent' = -1 /\ high' = 0 /\ pc' = "off"
    BY <1>9 DEF StopWatch
  <2>2. \A i \in Wanted' : i \in Int /\ i > 0
    <3>1. Wanted' \subseteq EventIds'
      BY DEF Wanted, EventIds
    <3>2. EventIds' = EventIds
      BY <1>9 DEF EventIds, StopWatch
    <3> QED
      BY <1>0, <3>1, <3>2
  <2> QED
    BY <2>1, <2>2 DEF NoGap, NoGapRunning, BatchComplete, BatchIsLast, QuietMeansCaughtUp
<1> QED
  BY <1>1, <1>2, <1>3, <1>4, <1>5, <1>6, <1>7, <1>8, <1>9
     DEF Next, BeginSubmit, UnsafeStore, Rollback, EndSubmit, CommitSubmit,
         CommitUnacknowledged, DispatchOnEventStored, Signal, WatchStep, vars
-----------------------------------------------------------------------------
(* The invariant, and what follows from it *)

\* At first nothing is stored, selected or sent.
LEMMA WatchInvInit == Init => WatchInv
<1> SUFFICES ASSUME Init PROVE WatchInv
  OBVIOUS
<1> USE WatchAssump DEF WatchAssump, Init
<1>1. TypeOK
  <2>1. <<>> \in Seq(Row)
    BY EmptySeq
  <2>2. ch \in BOOLEAN /\ disorder \in BOOLEAN /\ stale \in BOOLEAN
    OBVIOUS
  <2>3. draft \in [Writer -> Event]
    BY DEF Event, NoEvent
  <2> QED
    BY <2>1, <2>2, <2>3 DEF TypeOK
<1>2. Counts
  <2>1. Begun = {} /\ Open = {}
    BY DEF Begun, Open
  <2> QED
    BY <2>1, FS_EmptySet DEF Counts
<1>3. Stamped /\ Distinct /\ NoRowsWhenOff /\ RowsCommitted /\ Ordered
  BY DEF Stamped, Distinct, NoRowsWhenOff, RowsCommitted, Ordered
<1>4. Wanted = {} /\ SentIds = {}
  BY DEF Wanted, SentIds
<1>5. Cursors /\ SentIncreasing /\ SentWanted
  BY <1>4 DEF Cursors, SentIncreasing, SentWanted
<1>6. NoGap /\ NoGapRunning /\ BatchComplete /\ BatchIsLast /\ QuietMeansCaughtUp
  BY <1>4 DEF NoGap, NoGapRunning, BatchComplete, BatchIsLast, QuietMeansCaughtUp
<1> QED
  BY <1>1, <1>2, <1>3, <1>5, <1>6 DEF WatchInv

\* The inductive invariant of submitting and watching: what was selected and sent
\* is wanted and ordered, and whatever the cursor has not reached is announced
\* (grpcQuery.Watch, RequerySignal, Repository.Stream, pushTranslatorMessage).
THEOREM WatchInvariant == Spec => []WatchInv
<1>1. WatchInv /\ [Next]_vars => WatchInv'
  BY TypeStep, CountsStep, StampedStep, OrderedStep, SentStep, GapStep
     DEF WatchInv, SentParts, GapParts
<1> QED
  BY <1>1, WatchInvInit, PTL DEF Spec

\* A watch sends rows with strictly increasing ids, across all its queries
\* (pushTranslatorMessage and the AfterID cursor of Watch).
THEOREM SentInOrder == Spec => []SentInv
<1>1. WatchInv => SentInv
  BY DEF WatchInv, SentInv
<1> QED
  BY <1>1, WatchInvariant, PTL

\* A watch sends committed events that its request asks for and nothing else
\* (buildQueryOps, Repository.Stream).
THEOREM OnlyWantedSent == Spec => []SentWanted
<1>1. WatchInv => SentWanted
  BY DEF WatchInv
<1> QED
  BY <1>1, WatchInvariant, PTL

\* The cursor of a watch passes no wanted event that was not sent, while
\* events become visible in order (Watch, UpdateAfterID).
THEOREM CursorLeavesNoGap == Spec => []NoGap
<1>1. WatchInv => NoGap
  BY DEF WatchInv
<1> QED
  BY <1>1, WatchInvariant, PTL

\* A watch that sleeps with nothing announced has sent all there is, although
\* signals coalesce in a channel of capacity one (RequerySignal).
THEOREM SleepingIsCaughtUp == Spec => []QuietMeansCaughtUp
<1>1. WatchInv => QuietMeansCaughtUp
  BY DEF WatchInv
<1> QED
  BY <1>1, WatchInvariant, PTL
=============================================================================
