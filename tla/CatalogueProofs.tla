-------------------------- MODULE CatalogueProofs --------------------------
(***************************************************************************)
(* Proofs about the catalogue: positions never go backwards, and what      *)
(* SetPosition and Meta answer is explained by what happened during the    *)
(* call. The specification is the one of Queries, whose queries leave the  *)
(* catalogue alone.                                                        *)
(***************************************************************************)
EXTENDS Queries, TLAPS

\* A record of a call with all of its fields.
CallOf(op, p, key, id, previous, apps, listed, o, before, held, c) ==
  [op |-> op, pc |-> p, key |-> key, id |-> id, previous |-> previous, apps |-> apps,
   listed |-> listed, outcome |-> o, before |-> before, held |-> held, cut |-> c]

\* Whatever its fields are, it has the shape of a call.
LEMMA CallIsShaped ==
  ASSUME NEW op, NEW p, NEW key, NEW id, NEW previous, NEW apps, NEW listed, NEW o, NEW before,
         NEW held, NEW c
  PROVE  CallShape(CallOf(op, p, key, id, previous, apps, listed, o, before, held, c))
BY DEF CallOf, CallShape

\* A call that begins.
LEMMA BegunIs ==
  ASSUME NEW op, NEW key, NEW id
  PROVE  /\ CallShape(Begun(op, key, id))
         /\ Begun(op, key, id) =
              CallOf(op, "idle", key, id, NoPosition, {}, <<>>, "none",
                   IF op = "meta" THEN streams ELSE {}, IF op = "set" THEN {position[key]} ELSE {},
                   FALSE)
BY DEF Begun, CallOf, CallShape

\* A call that read the row differs from what it was in previous only.
LEMMA ReadIs ==
  ASSUME NEW r, CallShape(r), NEW v, NEW s, s = [r EXCEPT !.previous = v]
  PROVE  /\ CallShape(s) /\ s.previous = v
         /\ s.op = r.op /\ s.pc = r.pc /\ s.key = r.key /\ s.id = r.id /\ s.held = r.held
<1>1. s = CallOf(r.op, r.pc, r.key, r.id, v, r.apps, r.listed, r.outcome, r.before, r.held, r.cut)
  BY DEF CallShape, CallOf
<1>2. CallShape(s)
  BY <1>1 DEF CallShape, CallOf
<1> QED
  BY <1>1, <1>2 DEF CallOf

\* A call with its listing differs in listed only.
LEMMA ListedIs ==
  ASSUME NEW r, CallShape(r), NEW v, NEW s, s = [r EXCEPT !.listed = v]
  PROVE  /\ CallShape(s) /\ s.listed = v
         /\ s.op = r.op /\ s.pc = r.pc /\ s.before = r.before /\ s.cut = r.cut
<1>1. s = CallOf(r.op, r.pc, r.key, r.id, r.previous, r.apps, v, r.outcome, r.before, r.held, r.cut)
  BY DEF CallShape, CallOf
<1>2. CallShape(s)
  BY <1>1 DEF CallShape, CallOf
<1> QED
  BY <1>1, <1>2 DEF CallOf

\* A call that is answered keeps everything but its place and its outcome.
LEMMA AnsweredIs ==
  ASSUME NEW r, CallShape(r), NEW o, NEW s \in Answered(r, o)
  PROVE  /\ CallShape(s)
         /\ s.pc = "done" /\ s.outcome \in {o, "error"}
         /\ s.op = r.op /\ s.key = r.key /\ s.id = r.id /\ s.previous = r.previous
         /\ s.listed = r.listed /\ s.before = r.before /\ s.held = r.held /\ s.cut = r.cut
<1>1. PICK out2 \in {o, "error"} : s = [r EXCEPT !.pc = "done", !.outcome = out2]
  BY DEF Answered
<1>2. s = CallOf(r.op, "done", r.key, r.id, r.previous, r.apps, r.listed, out2, r.before, r.held, r.cut)
  BY <1>1 DEF CallOf, CallShape
<1>3. CallShape(s)
  BY <1>2, CallIsShaped
<1> QED
  BY <1>1, <1>2, <1>3, CallIsShaped DEF CallOf

\* A step of client c whose call becomes a member of next: the others keep their
\* calls, but for the record of the values of a row they are about to update.
LEMMA StepEffect ==
  ASSUME CatalogueInv, NEW c \in Client, NEW next, NEW key, NEW value,
         Step(c, next, key, value),
         \A r \in next : r.pc = "upsert" => r.key # key
  PROVE  /\ calls'[c] \in next
         /\ \A d \in Client \ {c} :
              calls'[d] = IF calls[d].pc = "upsert" /\ calls[d].key = key
                          THEN [calls[d] EXCEPT !.held = @ \cup {value}] ELSE calls[d]
         /\ position' = IF key = <<>> THEN position ELSE [position EXCEPT ![key] = value]
         /\ UNCHANGED <<transport, streams>>
<1>1. PICK r \in next :
        calls' = [d \in Client |->
                    LET now == IF d = c THEN r ELSE calls[d] IN
                    IF now.pc = "upsert" /\ now.key = key
                    THEN [now EXCEPT !.held = @ \cup {value}] ELSE now]
  BY DEF Step
<1>2. calls'[c] = r
  BY <1>1
<1>3. \A d \in Client \ {c} :
        calls'[d] = IF calls[d].pc = "upsert" /\ calls[d].key = key
                    THEN [calls[d] EXCEPT !.held = @ \cup {value}] ELSE calls[d]
  BY <1>1, Zenon
<1> QED
  BY <1>2, <1>3 DEF Step

\* The calls of the other clients stay what they were, whatever happens to the
\* row: it moves forward or is deleted.
LEMMA OtherCalls ==
  ASSUME CatalogueInv, NEW r, CallInv(r), CallShape(r), NEW key \in Key \cup {<<>>}, NEW value \in Position,
         position' = IF key = <<>> THEN position ELSE [position EXCEPT ![key] = value],
         key # <<>> => \/ value = NoPosition \/ position[key] = NoPosition
                       \/ position[key] <= value,
         UNCHANGED <<transport, streams>>,
         NEW s,
         s = IF r.pc = "upsert" /\ r.key = key THEN [r EXCEPT !.held = @ \cup {value}] ELSE r
  PROVE  CallShape(s) /\ CallInv(s)'
<1>1. CASE ~(r.pc = "upsert" /\ r.key = key)
  <2>1. s = r
    BY <1>1
  <2>2. r.pc = "upsert" => position'[r.key] = position[r.key]
    <3> SUFFICES ASSUME r.pc = "upsert" PROVE position'[r.key] = position[r.key]
      OBVIOUS
    <3>1. r.key # key /\ r.key \in Key
      BY <1>1 DEF CallInv, Upserting
    <3> QED
      BY <3>1 DEF CatalogueInv, CatalogueTypeOK
  <2> QED
    BY <2>1, <2>2 DEF CallInv, Upserting, Listing, SetAnswer, MetaAnswer
<1>2. CASE r.pc = "upsert" /\ r.key = key
  <2>1. s = [r EXCEPT !.held = @ \cup {value}]
    BY <1>2
  <2>2. /\ CallShape(s) /\ s.op = r.op /\ s.pc = r.pc /\ s.key = r.key /\ s.id = r.id
        /\ s.previous = r.previous /\ s.held = r.held \cup {value}
    <3>1. s = CallOf(r.op, r.pc, r.key, r.id, r.previous, r.apps, r.listed, r.outcome, r.before,
                   r.held \cup {value}, r.cut)
      BY <2>1 DEF CallShape, CallOf
    <3>2. CallShape(s)
      BY <3>1 DEF CallOf, CallShape
    <3> QED
      BY <3>1, <3>2 DEF CallOf
  <2>3. key \in Key /\ key # <<>>
    BY <1>2, CatalogueAssump DEF CallInv, Upserting, CatalogueAssump
  <2>4. position'[key] = value /\ position[key] \in Position
    BY <2>3 DEF CatalogueInv, CatalogueTypeOK
  <2>5. Upserting(r)
    BY DEF CallInv
  <2>6. NoPosition \in s.held \/ s.previous <= value
    BY <1>2, <2>2, <2>3, <2>4, <2>5, CatalogueAssump
       DEF Upserting, Position, CatalogueAssump, NoPosition
  <2> QED
    BY <1>2, <2>2, <2>3, <2>4, <2>5, <2>6 DEF CallInv, Upserting, Listing, SetAnswer, MetaAnswer
<1> QED
  BY <1>1, <1>2

\* A step is right when it moves the row forward or deletes it and the caller's
\* new call is right.
LEMMA StepKeeps ==
  ASSUME CatalogueInv, NEW c \in Client, NEW next, NEW key \in Key \cup {<<>>},
         NEW value \in Position, Step(c, next, key, value),
         \A r \in next : r.pc = "upsert" => r.key # key,
         key # <<>> => \/ value = NoPosition \/ position[key] = NoPosition
                       \/ position[key] <= value,
         \A r \in next : CallShape(r) /\ CallInv(r)'
  PROVE  CatalogueInv'
<1>1. /\ calls'[c] \in next
      /\ \A d \in Client \ {c} :
           calls'[d] = IF calls[d].pc = "upsert" /\ calls[d].key = key
                       THEN [calls[d] EXCEPT !.held = @ \cup {value}] ELSE calls[d]
      /\ position' = IF key = <<>> THEN position ELSE [position EXCEPT ![key] = value]
      /\ UNCHANGED <<transport, streams>>
  BY StepEffect
<1>2. position' \in [Key -> Position]
  BY <1>1 DEF CatalogueInv, CatalogueTypeOK
<1>3. ASSUME NEW d \in Client
      PROVE  CallShape(calls'[d]) /\ CallInv(calls[d])'
  <2>1. CASE d = c
    BY <1>1, <2>1 DEF CallInv, Upserting, Listing, SetAnswer, MetaAnswer
  <2>2. CASE d # c
    <3>1. CallInv(calls[d]) /\ CallShape(calls[d])
      BY DEF CatalogueInv, CatalogueTypeOK
    <3> DEFINE s == calls'[d]
    <3>2. s = IF calls[d].pc = "upsert" /\ calls[d].key = key
              THEN [calls[d] EXCEPT !.held = @ \cup {value}] ELSE calls[d]
      BY <1>1, <2>2
    <3> HIDE DEF s
    <3> QED
      BY <1>1, <3>1, <3>2, OtherCalls DEF s
  <2> QED
    BY <2>1, <2>2
<1> QED
  BY <1>1, <1>2, <1>3 DEF CatalogueInv, CatalogueTypeOK, CallShape

-----------------------------------------------------------------------------
(* The calls *)

\* NoPosition is no position that can be set, and no key is empty.
LEMMA Bottom ==
  /\ NoPosition \in Position /\ \A n \in 0..MaxPos : n \in Position /\ NoPosition < n
  /\ \A k \in Key : k # <<>>
  /\ Position \subseteq Int
BY CatalogueAssump DEF CatalogueAssump, NoPosition, Position

\* A call that is over and was neither a SetPosition nor a Meta that succeeded
\* has nothing to be checked; nor has one that has not begun.
LEMMA NothingClaimed ==
  ASSUME NEW r, r.pc \in {"idle", "done"},
         r.pc = "done" => (r.op # "set" \/ r.outcome = "error") /\ (r.op # "meta" \/ r.outcome = "error")
  PROVE  CallInv(r)'
BY DEF CallInv, Upserting, Listing, SetAnswer, MetaAnswer

\* Calls that read or delete a position, or list the consumers.
LEMMA PlainCalls ==
  ASSUME CatalogueInv, NEW c \in Client,
         \/ \E k \in Key : GetPosition(c, k) \/ DeletePosition(c, k)
         \/ \E s \in Stream : ListConsumers(c, s)
         \/ ClientReturns(c)
  PROVE  CatalogueInv'
<1>1. ASSUME NEW k \in Key, GetPosition(c, k) PROVE CatalogueInv'
  <2> DEFINE b == [Begun("get", k, NoPosition) EXCEPT !.previous = position[k]]
  <2> DEFINE n == Begun("get", k, NoPosition)
  <2>0. b = [n EXCEPT !.previous = position[k]]
    OBVIOUS
  <2>1. CallShape(n) /\ n.op = "get"
    BY BegunIs DEF CallOf
  <2> HIDE DEF b, n
  <2>2. CallShape(b) /\ b.op = "get"
    BY <2>0, <2>1, ReadIs
  <2>3. ASSUME NEW r \in Answered(b, "ok")
        PROVE  CallShape(r) /\ r.pc = "done" /\ CallInv(r)'
    BY <2>2, AnsweredIs, NothingClaimed
  <2>4. Step(c, Answered(b, "ok"), <<>>, NoPosition)
    BY <1>1 DEF GetPosition, Keeps, b
  <2> QED
    BY <2>3, <2>4, StepKeeps, Bottom
<1>2. ASSUME NEW k \in Key, DeletePosition(c, k) PROVE CatalogueInv'
  <2> DEFINE b == Begun("delete", k, NoPosition)
  <2>1. CallShape(b) /\ b.op = "delete"
    BY BegunIs DEF CallOf
  <2> HIDE DEF b
  <2>3. ASSUME NEW r \in Answered(b, "ok")
        PROVE  CallShape(r) /\ r.pc = "done" /\ CallInv(r)'
    BY <2>1, AnsweredIs, NothingClaimed
  <2>4. Step(c, Answered(b, "ok"), k, NoPosition)
    BY <1>2 DEF DeletePosition, b
  <2> QED
    BY <2>3, <2>4, StepKeeps, Bottom
<1>3. ASSUME NEW s \in Stream, ListConsumers(c, s) PROVE CatalogueInv'
  <2> DEFINE b == [Begun("list", <<>>, NoPosition) EXCEPT !.listed = ConsumersOf(s)]
  <2> DEFINE n == Begun("list", <<>>, NoPosition)
  <2>0. b = [n EXCEPT !.listed = ConsumersOf(s)]
    OBVIOUS
  <2>1. CallShape(n) /\ n.op = "list"
    BY BegunIs DEF CallOf
  <2> HIDE DEF b, n
  <2>2. CallShape(b) /\ b.op = "list"
    BY <2>0, <2>1, ListedIs
  <2>3. ASSUME NEW r \in Answered(b, "ok")
        PROVE  CallShape(r) /\ r.pc = "done" /\ CallInv(r)'
    BY <2>2, AnsweredIs, NothingClaimed
  <2>4. Step(c, Answered(b, "ok"), <<>>, NoPosition)
    BY <1>3 DEF ListConsumers, Keeps, b
  <2> QED
    BY <2>3, <2>4, StepKeeps, Bottom
<1>4. CASE ClientReturns(c)
  <2>1. CallShape(NoClientCall) /\ NoClientCall.pc = "idle"
    BY DEF NoClientCall, CallShape
  <2>2. CallInv(NoClientCall)'
    BY <2>1, NothingClaimed
  <2>3. Step(c, {NoClientCall}, <<>>, NoPosition)
    BY <1>4 DEF ClientReturns, Keeps
  <2> QED
    BY <2>1, <2>2, <2>3, StepKeeps, Bottom
<1> QED
  BY <1>1, <1>2, <1>3, <1>4

\* What an accepted or a refused SetPosition says.
LEMMA SetCall ==
  ASSUME NEW r, NEW s, r.op = "set", r.id \in 0..MaxPos, r.held \subseteq Position,
         s.op = "set", s.pc = "done", s.id = r.id, s.held = r.held,
         \/ s.outcome = "error"
         \/ s.outcome = "no stream"
         \/ s.outcome = "ok" /\ (s.previous > r.id => NoPosition \in r.held)
         \/ s.outcome = "backward" /\ \E v \in r.held : v > r.id
         \/ s.outcome = "panic" /\ transport' # "memory" /\ NoPosition \in r.held
              /\ \E v \in r.held : v > r.id
  PROVE  CallInv(s)'
<1>1. SetAnswer(s)'
  BY DEF SetAnswer
<1> QED
  BY <1>1 DEF CallInv, Upserting, Listing, MetaAnswer

\* SetPosition in memory, and up to the snapshot in Postgres.
LEMMA SetCalls ==
  ASSUME CatalogueInv, NEW c \in Client, NEW k \in Key, NEW n \in 0..MaxPos, SetPosition(c, k, n)
  PROVE  CatalogueInv'
<1> DEFINE b == Begun("set", k, n)
           row == position[k]
<1>1. /\ CallShape(b) /\ b.op = "set" /\ b.key = k /\ b.id = n /\ b.held = {row}
      /\ b.pc = "idle"
  BY BegunIs DEF CallOf
<1>2. row \in Position /\ row \in Int /\ n \in Int /\ NoPosition < n /\ n \in Position
      /\ {row} \subseteq Position /\ k # <<>>
  BY Bottom DEF CatalogueInv, CatalogueTypeOK
<1>3. UNCHANGED transport
  BY DEF SetPosition, MemorySetPosition, StoreSetPosition, Keeps, Step
<1> HIDE DEF b
<1>4. CASE transport = "memory"
  <2> DEFINE r == [b EXCEPT !.previous = row]
  <2>0. r = [b EXCEPT !.previous = row]
    OBVIOUS
  <2>1. MemorySetPosition(c, k, n)
    BY <1>4 DEF SetPosition
  <2>2. /\ Accepts(row, r) => Step(c, Answered(r, "ok"), k, n)
        /\ ~Accepts(row, r) => Step(c, Answered(r, "backward"), <<>>, NoPosition)
    BY <2>1 DEF MemorySetPosition, Keeps, b
  <2> HIDE DEF r
  <2>3. CallShape(r) /\ r.previous = row /\ r.op = "set" /\ r.id = n /\ r.held = {row}
    BY <1>1, <2>0, ReadIs
  <2> HIDE DEF row
  <2>4. CASE Accepts(row, r)
    <3>1. row = NoPosition \/ row <= n
      BY <2>3, <2>4 DEF Accepts
    <3>2. ASSUME NEW s \in Answered(r, "ok")
          PROVE  CallShape(s) /\ s.pc = "done" /\ CallInv(s)'
      <4>1. /\ CallShape(s) /\ s.pc = "done" /\ s.outcome \in {"ok", "error"} /\ s.op = "set"
            /\ s.id = n /\ s.previous = row /\ s.held = {row}
        BY <2>3, <3>2, AnsweredIs
      <4>2. s.previous > n => NoPosition \in {row}
        BY <1>2, <3>1, <4>1
      <4> QED
        BY <1>2, <2>3, <4>1, <4>2, SetCall
    <3> QED
      BY <1>2, <2>2, <2>4, <3>1, <3>2, StepKeeps DEF row
  <2>5. CASE ~Accepts(row, r)
    <3>1. row > n
      BY <1>2, <2>3, <2>5 DEF Accepts
    <3>2. ASSUME NEW s \in Answered(r, "backward")
          PROVE  CallShape(s) /\ s.pc = "done" /\ CallInv(s)'
      <4>1. /\ CallShape(s) /\ s.pc = "done" /\ s.outcome \in {"backward", "error"} /\ s.op = "set"
            /\ s.id = n /\ s.previous = row /\ s.held = {row}
        BY <2>3, <3>2, AnsweredIs
      <4>2. \E v \in {row} : v > n
        BY <3>1
      <4> QED
        BY <1>2, <2>3, <4>1, <4>2, SetCall
    <3> QED
      BY <1>2, <2>2, <2>5, <3>2, StepKeeps, Bottom
  <2> QED
    BY <2>4, <2>5
<1>5. CASE transport # "memory"
  <2> DEFINE r == [b EXCEPT !.pc = "upsert", !.previous = row]
  <2>1. StoreSetPosition(c, k, n)
    BY <1>5 DEF SetPosition
  <2>2. \/ Step(c, Answered(b, "no stream"), <<>>, NoPosition)
        \/ Step(c, {r}, <<>>, NoPosition)
    BY <2>1 DEF StoreSetPosition, Keeps, b
  <2> HIDE DEF row
  <2>3. CASE Step(c, Answered(b, "no stream"), <<>>, NoPosition)
    <3>1. ASSUME NEW s \in Answered(b, "no stream")
          PROVE  CallShape(s) /\ s.pc = "done" /\ CallInv(s)'
      <4>0. CallShape(b)
        BY <1>1
      <4>1. /\ CallShape(s) /\ s.pc = "done" /\ s.outcome \in {"no stream", "error"}
            /\ s.op = b.op /\ s.id = b.id /\ s.held = b.held
        BY <3>1, <4>0, AnsweredIs, ZenonT(40)
      <4>2. s.op = "set" /\ s.id = n /\ s.held = {row}
        BY <1>1, <4>1
      <4> QED
        BY <1>2, <4>1, <4>2, SetCall
    <3> QED
      BY <2>3, <3>1, StepKeeps, Bottom
  <2>4. CASE Step(c, {r}, <<>>, NoPosition)
    <3>1. position' = position
      BY <2>4 DEF Step
    <3>2. ASSUME NEW s \in {r}
          PROVE  CallShape(s) /\ s.pc = "upsert" /\ s.key = k /\ CallInv(s)'
      <4>1. s = CallOf(b.op, "upsert", b.key, b.id, row, b.apps, b.listed, b.outcome, b.before,
                     b.held, b.cut)
        BY <1>1, <3>2 DEF CallShape, CallOf
      <4>2. CallShape(s)
        BY <4>1 DEF CallShape, CallOf
      <4>3. s.op = "set" /\ s.pc = "upsert" /\ s.key = k /\ s.id = n /\ s.previous = row /\ s.held = {row}
        BY <1>1, <4>1 DEF CallOf
      <4>4. Upserting(s)'
        BY <1>2, <1>3, <1>5, <3>1, <4>3 DEF Upserting, row
      <4> QED
        BY <4>2, <4>3, <4>4 DEF CallInv, Listing, SetAnswer, MetaAnswer
    <3> HIDE DEF r
    <3> QED
      BY <1>2, <2>4, <3>2, StepKeeps, Bottom
  <2> QED
    BY <2>2, <2>3, <2>4
<1> QED
  BY <1>4, <1>5

\* A call that ends with an error although nobody answered it.
LEMMA FailedIs ==
  ASSUME NEW r, CallShape(r), NEW s, s = [r EXCEPT !.pc = "done", !.outcome = "error"]
  PROVE  CallShape(s) /\ s.pc = "done" /\ CallInv(s)'
<1>1. s \in Answered(r, "error")
  BY DEF Answered
<1>2. CallShape(s) /\ s.pc = "done" /\ s.outcome = "error"
  BY <1>1, AnsweredIs
<1> QED
  BY <1>2 DEF CallInv, Upserting, Listing, SetAnswer, MetaAnswer

\* The upsert, which decides on the newest row and reports the snapshot.
LEMMA UpsertCalls ==
  ASSUME CatalogueInv, NEW c \in Client, Upsert(c) \/ UpsertFails(c)
  PROVE  CatalogueInv'
<1> DEFINE b == calls[c]
           k == b.key
           row == position[k]
<1>1. /\ CallShape(b) /\ b.pc = "upsert" /\ b.op = "set" /\ transport # "memory" /\ k \in Key
      /\ b.id \in 0..MaxPos /\ b.held \subseteq Position /\ b.previous \in b.held
      /\ row \in b.held /\ (NoPosition \in b.held \/ b.previous <= row)
  BY DEF Upsert, UpsertFails, CatalogueInv, CatalogueTypeOK, CallInv, Upserting
<1>2. row \in Int /\ b.previous \in Int /\ b.id \in Int /\ NoPosition < b.id /\ b.id \in Position /\ k # <<>>
  BY <1>1, Bottom
<1>3. UNCHANGED transport
  BY DEF Upsert, UpsertFails, Keeps, Step
<1>4. CASE UpsertFails(c)
  <2> DEFINE r == [b EXCEPT !.pc = "done", !.outcome = "error"]
  <2>1. Step(c, {r}, <<>>, NoPosition)
    BY <1>4 DEF UpsertFails, Keeps
  <2>2. ASSUME NEW s \in {r}
        PROVE  CallShape(s) /\ s.pc = "done" /\ CallInv(s)'
    BY <1>1, FailedIs
  <2> HIDE DEF r
  <2> QED
    BY <2>1, <2>2, StepKeeps, Bottom
<1>5. CASE Upsert(c) /\ Accepts(row, b)
  <2> DEFINE told == [b EXCEPT !.previous = ReportedPrevious(@)]
             r == [b EXCEPT !.previous = ReportedPrevious(b.previous)]
  <2>0. told = r
    BY <1>1, Zenon
  <2>1. Step(c, Answered(r, "ok"), k, b.id)
    BY <1>5, <2>0 DEF Upsert
  <2>2. row = NoPosition \/ row <= b.id
    BY <1>5 DEF Accepts
  <2>3. r = [b EXCEPT !.previous = ReportedPrevious(b.previous)]
    OBVIOUS
  <2> HIDE DEF r, b, row, told
  <2>4. /\ CallShape(r) /\ r.op = "set" /\ r.id = b.id /\ r.held = b.held
        /\ r.previous = ReportedPrevious(b.previous)
    BY <1>1, <2>3, ReadIs
  <2>5. r.previous = NoPosition \/ r.previous = b.previous
    BY <2>4 DEF ReportedPrevious
  <2>6. r.previous > b.id => NoPosition \in b.held
    BY <1>1, <1>2, <2>2, <2>5 DEF NoPosition
  <2>7. ASSUME NEW s \in Answered(r, "ok")
        PROVE  CallShape(s) /\ s.pc = "done" /\ CallInv(s)'
    <3>1. /\ CallShape(s) /\ s.pc = "done" /\ s.outcome \in {"ok", "error"} /\ s.op = "set"
          /\ s.id = b.id /\ s.previous = r.previous /\ s.held = b.held
      BY <2>4, <2>7, AnsweredIs
    <3> QED
      BY <1>1, <2>6, <3>1, SetCall
  <2>8. position[k] = NoPosition \/ position[k] <= b.id
    BY <2>2 DEF row
  <2> HIDE DEF k
  <2> QED
    BY <1>1, <1>2, <2>1, <2>7, <2>8, StepKeeps
<1>6. CASE Upsert(c) /\ ~Accepts(row, b)
  <2> DEFINE o == IF b.previous = NoPosition THEN "panic" ELSE "backward"
  <2>1. Step(c, Answered(b, o), <<>>, NoPosition)
    BY <1>6 DEF Upsert, Keeps
  <2>2. row > b.id
    BY <1>2, <1>6 DEF Accepts
  <2> HIDE DEF b, row, k
  <2>3. \E v \in b.held : v > b.id
    BY <1>1, <2>2
  <2>4. o = "backward" \/ (o = "panic" /\ NoPosition \in b.held)
    BY <1>1
  <2> HIDE DEF o
  <2>5. ASSUME NEW s \in Answered(b, o)
        PROVE  CallShape(s) /\ s.pc = "done" /\ CallInv(s)'
    <3>1. /\ CallShape(s) /\ s.pc = "done" /\ s.outcome \in {o, "error"} /\ s.op = "set"
          /\ s.id = b.id /\ s.held = b.held
      BY <1>1, <2>5, AnsweredIs
    <3> QED
      BY <1>1, <1>3, <2>3, <2>4, <3>1, SetCall
  <2> QED
    BY <2>1, <2>5, StepKeeps, Bottom
<1> QED
  BY <1>4, <1>5, <1>6

-----------------------------------------------------------------------------
(* Meta *)

\* The pairs of a listing.
LEMMA InPairs ==
  ASSUME NEW l, NEW x
  PROVE  x \in Pairs(l) <=> \E d \in DOMAIN l : \E n \in l[d] : x = <<d, n>>
BY DEF Pairs

\* Streams and their domains.
LEMMA InDomains ==
  ASSUME NEW S, S \subseteq Stream
  PROVE  /\ \A s \in S : s[1] \in Domains(S) /\ s[2] \in InDomain(S, s[1]) /\ s = <<s[1], s[2]>>
         /\ \A d, n : n \in InDomain(S, d) => <<d, n>> \in S
<1>1. ASSUME NEW s \in S
      PROVE  s[1] \in Domains(S) /\ s[2] \in InDomain(S, s[1]) /\ s = <<s[1], s[2]>>
  BY CatalogueAssump DEF Domains, InDomain, CatalogueAssump
<1>2. ASSUME NEW d, NEW n, n \in InDomain(S, d)
      PROVE  <<d, n>> \in S
  <2>1. PICK s \in S : s[1] = d /\ s[2] = n
    BY <1>2 DEF InDomain
  <2> QED
    BY <2>1, CatalogueAssump DEF CatalogueAssump
<1> QED
  BY <1>1, <1>2

\* A listing with nothing but streams lists pairs that exist, and one whose
\* domains are whole lists all of them.
LEMMA ListedPairs ==
  ASSUME NEW l, NEW S, NEW B, S \subseteq Stream, B \subseteq S,
         \A d \in DOMAIN l : l[d] \subseteq InDomain(S, d)
  PROVE  /\ Pairs(l) \subseteq S
         /\ (Domains(B) \subseteq DOMAIN l /\ \A d \in DOMAIN l : InDomain(B, d) \subseteq l[d])
               => B \subseteq Pairs(l)
<1>1. Pairs(l) \subseteq S
  <2> SUFFICES ASSUME NEW x \in Pairs(l) PROVE x \in S
    OBVIOUS
  <2>1. PICK d \in DOMAIN l : \E n \in l[d] : x = <<d, n>>
    BY InPairs
  <2>2. PICK n \in l[d] : x = <<d, n>>
    BY <2>1
  <2> QED
    BY <2>2, InDomains
<1>2. ASSUME Domains(B) \subseteq DOMAIN l, \A d \in DOMAIN l : InDomain(B, d) \subseteq l[d],
             NEW x \in B
      PROVE  x \in Pairs(l)
  <2>1. x[1] \in Domains(B) /\ x[2] \in InDomain(B, x[1]) /\ x = <<x[1], x[2]>>
    BY InDomains
  <2>2. x[1] \in DOMAIN l /\ x[2] \in l[x[1]]
    BY <1>2, <2>1
  <2> QED
    BY <2>1, <2>2, InPairs
<1> QED
  BY <1>1, <1>2

\* The answer of a Meta in one step.
LEMMA MetaAtOnce ==
  ASSUME CatalogueInv, NEW c \in Client, NEW l,
         Step(c, Answered([Begun("meta", <<>>, NoPosition) EXCEPT !.listed = l], "ok"), <<>>, NoPosition),
         DOMAIN l = Domains(streams),
         \A d \in DOMAIN l : l[d] \subseteq InDomain(streams, d),
         transport # "memory" => \A d \in DOMAIN l : InDomain(streams, d) \subseteq l[d]
  PROVE  CatalogueInv'
<1> DEFINE n == Begun("meta", <<>>, NoPosition)
           b == [n EXCEPT !.listed = l]
<1>0. b = [n EXCEPT !.listed = l]
  OBVIOUS
<1>1. CallShape(n) /\ n.op = "meta" /\ n.before = streams /\ n.cut = FALSE
  BY BegunIs DEF CallOf
<1>2. Step(c, Answered(b, "ok"), <<>>, NoPosition)
  OBVIOUS
<1> HIDE DEF b, n
<1>3. CallShape(b) /\ b.op = "meta" /\ b.before = streams /\ b.listed = l
  BY <1>0, <1>1, ListedIs
<1>4. /\ Pairs(l) \subseteq streams
      /\ transport # "memory" => streams \subseteq Pairs(l)
  BY ListedPairs DEF CatalogueInv, CatalogueTypeOK
<1>5. UNCHANGED <<transport, streams>>
  BY DEF Step
<1>6. ASSUME NEW s \in Answered(b, "ok")
      PROVE  CallShape(s) /\ s.pc = "done" /\ CallInv(s)'
  <2>1. /\ CallShape(s) /\ s.pc = "done" /\ s.op = "meta" /\ s.before = streams /\ s.listed = l
    BY <1>3, <1>6, AnsweredIs
  <2>2. MetaAnswer(s)'
    BY <1>4, <1>5, <2>1 DEF MetaAnswer
  <2> QED
    BY <2>1, <2>2 DEF CallInv, Upserting, Listing, SetAnswer
<1> QED
  BY <1>2, <1>6, StepKeeps, Bottom

\* Meta over each transport; over REST it has the domains to ask for then.
LEMMA MetaCalls ==
  ASSUME CatalogueInv, NEW c \in Client, Meta(c)
  PROVE  CatalogueInv'
<1>1. CASE transport = "grpc" /\ ListStreams(c)
  <2> DEFINE l == Grouped(streams)
  <2>1. DOMAIN l = Domains(streams) /\ \A d \in DOMAIN l : l[d] = InDomain(streams, d)
    BY DEF Grouped
  <2>2. Step(c, Answered([Begun("meta", <<>>, NoPosition) EXCEPT !.listed = l], "ok"), <<>>, NoPosition)
    BY <1>1 DEF ListStreams, Keeps
  <2> HIDE DEF l
  <2> QED
    BY <2>1, <2>2, MetaAtOnce
<1>2. CASE transport = "memory" /\ MemoryMeta(c)
  <2> DEFINE l == [d \in Domains(streams) |-> {}]
  <2>1. DOMAIN l = Domains(streams) /\ \A d \in DOMAIN l : l[d] = {}
    OBVIOUS
  <2>2. Step(c, Answered([Begun("meta", <<>>, NoPosition) EXCEPT !.listed = l], "ok"), <<>>, NoPosition)
    BY <1>2 DEF MemoryMeta, Keeps
  <2> HIDE DEF l
  <2> QED
    BY <1>2, <2>1, <2>2, MetaAtOnce
<1>3. CASE transport = "rest" /\ ListApps(c)
  <2> DEFINE n == Begun("meta", <<>>, NoPosition)
             r == [n EXCEPT !.pc = "apps", !.apps = Domains(streams)]
  <2>1. Step(c, {r}, <<>>, NoPosition)
    BY <1>3 DEF ListApps, Keeps
  <2>2. CallShape(n) /\ n.op = "meta" /\ n.before = streams /\ n.listed = <<>>
    BY BegunIs DEF CallOf
  <2>3. UNCHANGED <<transport, streams>>
    BY <2>1 DEF Step
  <2>4. DOMAIN <<>> = {}
    OBVIOUS
  <2> HIDE DEF n
  <2>5. ASSUME NEW s \in {r}
        PROVE  CallShape(s) /\ s.pc = "apps" /\ CallInv(s)'
    <3>1. s = CallOf(n.op, "apps", n.key, n.id, n.previous, Domains(streams), n.listed, n.outcome,
                   n.before, n.held, n.cut)
      BY <2>2, <2>5 DEF CallShape, CallOf
    <3>2. CallShape(s)
      BY <3>1 DEF CallShape, CallOf
    <3>3. s.op = "meta" /\ s.pc = "apps" /\ s.before = streams /\ s.apps = Domains(streams) /\ s.listed = <<>>
      BY <2>2, <3>1 DEF CallOf
    <3>4. Listing(s)'
      BY <2>3, <2>4, <3>3 DEF Listing
    <3> QED
      BY <3>2, <3>3, <3>4 DEF CallInv, Upserting, SetAnswer, MetaAnswer
  <2> HIDE DEF r
  <2> QED
    BY <2>1, <2>5, StepKeeps, Bottom
<1> QED
  BY <1>1, <1>2, <1>3 DEF Meta

\* Meta over REST: the next domain, the answer, a failed statement.
LEMMA AppsCalls ==
  ASSUME CatalogueInv, NEW c \in Client,
         (\E d \in Domains(Stream) : QueryStreamsForApp(c, d)) \/ V1Meta(c) \/ MetaFails(c)
  PROVE  CatalogueInv'
<1> DEFINE b == calls[c]
<1>1. /\ CallShape(b) /\ b.pc = "apps" /\ b.op = "meta" /\ b.before \subseteq streams
      /\ Domains(b.before) \subseteq b.apps \cup DOMAIN b.listed
      /\ \A d \in DOMAIN b.listed :
           /\ b.listed[d] \subseteq InDomain(streams, d)
           /\ ~b.cut => InDomain(b.before, d) \subseteq b.listed[d]
  BY DEF QueryStreamsForApp, V1Meta, MetaFails, CatalogueInv, CatalogueTypeOK, CallInv, Listing
<1>2. UNCHANGED <<transport, streams>>
  BY DEF QueryStreamsForApp, V1Meta, MetaFails, Keeps, Step
<1>3. CASE MetaFails(c)
  <2> DEFINE r == [b EXCEPT !.pc = "done", !.outcome = "error"]
  <2>1. Step(c, {r}, <<>>, NoPosition)
    BY <1>3 DEF MetaFails, Keeps
  <2>2. ASSUME NEW s \in {r}
        PROVE  CallShape(s) /\ s.pc = "done" /\ CallInv(s)'
    BY <1>1, FailedIs
  <2> HIDE DEF r
  <2> QED
    BY <2>1, <2>2, StepKeeps, Bottom
<1>4. CASE V1Meta(c)
  <2>1. b.apps = {} /\ Step(c, Answered(b, "ok"), <<>>, NoPosition)
    BY <1>4 DEF V1Meta, Keeps
  <2>2. streams \subseteq Stream
    BY DEF CatalogueInv, CatalogueTypeOK
  <2> HIDE DEF b
  <2>3. Domains(b.before) \subseteq DOMAIN b.listed
    BY <1>1, <2>1
  <2>4. Pairs(b.listed) \subseteq streams /\ (~b.cut => b.before \subseteq Pairs(b.listed))
    BY <1>1, <2>2, <2>3, ListedPairs
  <2>5. ASSUME NEW s \in Answered(b, "ok")
        PROVE  CallShape(s) /\ s.pc = "done" /\ CallInv(s)'
    <3>1. /\ CallShape(s) /\ s.pc = "done" /\ s.op = "meta" /\ s.before = b.before
          /\ s.listed = b.listed /\ s.cut = b.cut
      BY <1>1, <2>5, AnsweredIs
    <3>2. MetaAnswer(s)'
      BY <1>2, <2>3, <2>4, <3>1 DEF MetaAnswer
    <3> QED
      BY <3>1, <3>2 DEF CallInv, Upserting, Listing, SetAnswer
  <2> QED
    BY <2>1, <2>5, StepKeeps, Bottom
<1>5. ASSUME NEW d \in Domains(Stream), QueryStreamsForApp(c, d)
      PROVE  CatalogueInv'
  <2>1. PICK found \in SUBSET StreamsOfApp(d) :
          Step(c, {[b EXCEPT !.apps = @ \ {d}, !.listed = With(@, d, found),
                             !.cut = @ \/ found # StreamsOfApp(d)]}, <<>>, NoPosition)
    BY <1>5 DEF QueryStreamsForApp, Keeps
  <2> DEFINE l == With(b.listed, d, found)
             short == b.cut \/ found # StreamsOfApp(d)
             r == [b EXCEPT !.apps = @ \ {d}, !.listed = With(@, d, found),
                            !.cut = @ \/ found # StreamsOfApp(d)]
  <2>2. /\ DOMAIN l = DOMAIN b.listed \cup {d} /\ l[d] = found
        /\ \A e \in DOMAIN b.listed : e # d => l[e] = b.listed[e]
    BY DEF With
  <2>3. found \subseteq InDomain(streams, d) /\ (~short => found = InDomain(streams, d))
    BY DEF StreamsOfApp
  <2>4. InDomain(b.before, d) \subseteq InDomain(streams, d)
    BY <1>1 DEF InDomain
  <2>5. ASSUME NEW s \in {r}
        PROVE  CallShape(s) /\ s.pc = "apps" /\ CallInv(s)'
    <3>1. s = CallOf(b.op, b.pc, b.key, b.id, b.previous, b.apps \ {d}, l, b.outcome, b.before,
                   b.held, short)
      BY <1>1, <2>5, Zenon DEF CallShape, CallOf
    <3> HIDE DEF l, short
    <3>2. CallShape(s)
      BY <3>1 DEF CallShape, CallOf
    <3>3. s.op = "meta" /\ s.pc = "apps" /\ s.before = b.before /\ s.apps = b.apps \ {d}
          /\ s.listed = l /\ s.cut = short
      BY <1>1, <3>1 DEF CallOf
    <3> HIDE DEF b
    <3>4. Domains(s.before) \subseteq s.apps \cup DOMAIN s.listed
      BY <1>1, <2>2, <3>3
    <3>5. ASSUME NEW e \in DOMAIN s.listed
          PROVE  /\ s.listed[e] \subseteq InDomain(streams, e)
                 /\ ~s.cut => InDomain(s.before, e) \subseteq s.listed[e]
      <4>1. ~short => ~b.cut
        BY DEF short
      <4>2. CASE e = d
        BY <2>2, <2>3, <2>4, <3>3, <4>2
      <4>3. CASE e # d
        BY <1>1, <2>2, <3>3, <3>5, <4>1, <4>3
      <4> QED
        BY <4>2, <4>3
    <3>6. Listing(s)'
      BY <1>1, <1>2, <3>3, <3>4, <3>5 DEF Listing
    <3> QED
      BY <3>2, <3>3, <3>6 DEF CallInv, Upserting, SetAnswer, MetaAnswer
  <2>6. Step(c, {r}, <<>>, NoPosition)
    BY <2>1
  <2> HIDE DEF r
  <2> QED
    BY <2>5, <2>6, StepKeeps, Bottom
<1> QED
  BY <1>3, <1>4, <1>5

\* A new stream.
LEMMA NewStream ==
  ASSUME CatalogueInv, NEW x \in Stream, EnsureStream(x)
  PROVE  CatalogueInv'
<1>1. /\ streams' = streams \cup {x} /\ UNCHANGED <<transport, position, calls>>
  BY DEF EnsureStream, Insert
<1>2. CatalogueTypeOK'
  BY <1>1 DEF CatalogueInv, CatalogueTypeOK, CallShape
<1>3. ASSUME NEW c \in Client
      PROVE  CallInv(calls[c])'
  <2>1. \A d : InDomain(streams, d) \subseteq InDomain(streams', d)
    BY <1>1 DEF InDomain
  <2>2. CallInv(calls[c])
    BY DEF CatalogueInv
  <2>3. Upserting(calls[c])' /\ SetAnswer(calls[c])'
    BY <1>1, <2>2 DEF CallInv, Upserting, SetAnswer
  <2>4. Listing(calls[c])'
    BY <1>1, <2>1, <2>2 DEF CallInv, Listing
  <2>5. MetaAnswer(calls[c])'
    BY <1>1, <2>2 DEF CallInv, MetaAnswer
  <2> QED
    BY <2>3, <2>4, <2>5 DEF CallInv
<1> QED
  BY <1>2, <1>3 DEF CatalogueInv

-----------------------------------------------------------------------------
(* Positions go forward *)

\* What a step of a client does to the positions: nothing, or it stores one that
\* the row accepts, or it deletes one.
LEMMA PositionStep ==
  ASSUME CatalogueInv, NEW c \in Client, ClientStep(c)
  PROVE  \/ position' = position
         \/ \E k \in Key : position' = [position EXCEPT ![k] = NoPosition]
         \/ \E k \in Key, n \in 0..MaxPos :
              /\ position' = [position EXCEPT ![k] = n]
              /\ position[k] = NoPosition \/ position[k] <= n
<1> USE Bottom
<1>1. ASSUME NEW next, Keeps(c, next)
      PROVE  position' = position
  BY <1>1 DEF Keeps, Step
<1>2. ASSUME NEW k \in Key, NEW n \in 0..MaxPos, SetPosition(c, k, n)
      PROVE  \/ position' = position
             \/ /\ position' = [position EXCEPT ![k] = n]
                /\ position[k] = NoPosition \/ position[k] <= n
  <2> DEFINE b == Begun("set", k, n)
             r == [b EXCEPT !.previous = position[k]]
  <2>1. CallShape(b) /\ b.id = n
    BY BegunIs DEF CallOf
  <2>2. CASE transport # "memory"
    BY <1>1, <1>2, <2>2 DEF SetPosition, StoreSetPosition
  <2>3. CASE transport = "memory"
    <3>1. \/ Accepts(position[k], r) /\ Step(c, Answered(r, "ok"), k, n)
          \/ Keeps(c, Answered(r, "backward"))
      BY <1>2, <2>3 DEF SetPosition, MemorySetPosition
    <3>2. r = [b EXCEPT !.previous = position[k]]
      OBVIOUS
    <3> HIDE DEF r, b
    <3>3. r.id = n
      BY <2>1, <3>2, ReadIs
    <3> QED
      BY <1>1, <3>1, <3>3 DEF Accepts, Step
  <2> QED
    BY <2>2, <2>3
<1>3. ASSUME Upsert(c)
      PROVE  \/ position' = position
             \/ \E k \in Key, n \in 0..MaxPos :
                  /\ position' = [position EXCEPT ![k] = n]
                  /\ position[k] = NoPosition \/ position[k] <= n
  <2> DEFINE k == calls[c].key
             n == calls[c].id
  <2>1. k \in Key /\ n \in 0..MaxPos
    BY <1>3 DEF Upsert, CatalogueInv, CallInv, Upserting
  <2>2. CASE Accepts(position[k], calls[c])
    <3>1. \E next : Step(c, next, k, n)
      BY <1>3, <2>2 DEF Upsert
    <3>2. position' = [position EXCEPT ![k] = n]
      BY <2>1, <3>1 DEF Step
    <3> QED
      BY <2>1, <2>2, <3>2 DEF Accepts
  <2>3. CASE ~Accepts(position[k], calls[c])
    BY <1>1, <1>3, <2>3 DEF Upsert
  <2> QED
    BY <2>2, <2>3
<1>4. ASSUME NEW k \in Key, DeletePosition(c, k)
      PROVE  position' = [position EXCEPT ![k] = NoPosition]
  BY <1>4 DEF DeletePosition, Step
<1>5. ASSUME \/ UpsertFails(c) \/ Meta(c) \/ V1Meta(c) \/ MetaFails(c) \/ ClientReturns(c)
             \/ \E k \in Key : GetPosition(c, k)
             \/ \E s \in Stream : ListConsumers(c, s)
             \/ \E d \in Domains(Stream) : QueryStreamsForApp(c, d)
      PROVE  position' = position
  BY <1>1, <1>5
     DEF UpsertFails, Meta, ListStreams, ListApps, MemoryMeta, V1Meta, MetaFails, ClientReturns,
         GetPosition, ListConsumers, QueryStreamsForApp
<1> QED
  BY <1>2, <1>3, <1>4, <1>5 DEF ClientStep

\* A query leaves the catalogue alone.
LEMMA QueryAside == QueryNext => UNCHANGED catalogueVars
<1>1. ASSUME NEW x, Ask(x) PROVE UNCHANGED catalogueVars
  BY <1>1 DEF Ask
<1>2. ASSUME NEW q, Perform(q) \/ StreamQuery(q) \/ StreamBatch(q) \/ WatchFirst(q)
      PROVE  UNCHANGED catalogueVars
  BY <1>1, <1>2, Zenon DEF Perform, StreamQuery, StreamBatch, WatchFirst
<1>3. ASSUME NEW ids, EnvelopesFor(ids) PROVE UNCHANGED catalogueVars
  BY <1>1, <1>3, Zenon DEF EnvelopesFor
<1>4. ASSUME NEW s, NEW k, NEW b, Submit(s, k, b) PROVE UNCHANGED catalogueVars
  BY <1>4 DEF Submit
<1>5. ASSUME FilterNext \/ LoadFails \/ Filtered PROVE UNCHANGED catalogueVars
  BY <1>5, Zenon DEF FilterNext, LoadFails, Filtered
<1>6. ASSUME Dispatch \/ AllDispatched \/ Return PROVE UNCHANGED catalogueVars
  BY <1>6, Zenon DEF Dispatch, AllDispatched, Return
<1> QED
  BY <1>2, <1>3, <1>4, <1>5, <1>6 DEF QueryNext

-----------------------------------------------------------------------------
(* The theorems *)

\* Every step keeps the invariant.
LEMMA CatalogueStep == CatalogueInv /\ [Next]_vars => CatalogueInv'
<1> SUFFICES ASSUME CatalogueInv, [Next]_vars PROVE CatalogueInv'
  OBVIOUS
<1>1. ASSUME UNCHANGED catalogueVars PROVE CatalogueInv'
  BY <1>1
     DEF catalogueVars, CatalogueInv, CatalogueTypeOK, CallShape, CallInv, Upserting, Listing,
         SetAnswer, MetaAnswer
<1>2. ASSUME NEW c \in Client, ClientStep(c) PROVE CatalogueInv'
  BY <1>2, PlainCalls, SetCalls, UpsertCalls, MetaCalls, AppsCalls DEF ClientStep
<1>3. CASE CatalogueNext
  BY <1>2, <1>3, NewStream DEF CatalogueNext
<1>4. CASE QueryNext \/ UNCHANGED vars
  BY <1>1, <1>4, QueryAside DEF vars
<1> QED
  BY <1>3, <1>4 DEF Next

\* At first there is no position, no stream and no call.
LEMMA CatalogueFirst == Init => CatalogueInv
<1> SUFFICES ASSUME Init PROVE CatalogueInv
  OBVIOUS
<1>1. CatalogueTypeOK
  BY Bottom DEF Init, CatalogueInit, CatalogueTypeOK, NoClientCall, CallShape
<1>2. ASSUME NEW c \in Client PROVE CallInv(calls[c])
  <2>1. calls[c].pc = "idle"
    BY DEF Init, CatalogueInit, NoClientCall
  <2> QED
    BY <2>1 DEF CallInv, Upserting, Listing, SetAnswer, MetaAnswer
<1> QED
  BY <1>1, <1>2 DEF CatalogueInv

\* The inductive invariant of positions and listings: what a running SetPosition
\* has seen of its row and what a running Meta has listed so far (SetPosition of
\* consumer.go, v1Meta of the REST service).
THEOREM CatalogueInvariant == Spec => []CatalogueInv
  BY CatalogueFirst, CatalogueStep, PTL DEF Spec

\* For any number of clients, streams and consumers the answer of a SetPosition is
\* explained by the values of the row during the call, on every transport
\* (ConsumerStore.SetPosition, memory.SetPosition).
THEOREM AnswersExplained == Spec => []SetAnswered
<1>1. CatalogueInv => SetAnswered
  BY DEF CatalogueInv, CallInv, SetAnswered
<1> QED
  BY <1>1, CatalogueInvariant, PTL

\* For any number of clients and streams a Meta that succeeds lists all streams
\* that existed at the call and only streams that exist, but for results cut off
\* and for the memory transport (v1Meta, ListStreams, memory.Meta).
THEOREM MetaListsAll == Spec => []MetaComplete
<1>1. CatalogueInv => MetaComplete
  BY DEF CatalogueInv, CallInv, MetaComplete
<1> QED
  BY <1>1, CatalogueInvariant, PTL

\* No step of any client moves a stored position backwards, whatever happened
\* between the snapshot and the upsert of a SetPosition (consumer.go, memory.go).
THEOREM PositionsOnlyForward == Spec => PositionForward
<1> DEFINE Forward == \A k \in Key : position[k] # NoPosition /\ position'[k] # NoPosition =>
                        position'[k] >= position[k]
<1>1. ASSUME CatalogueInv, [Next]_vars PROVE [Forward]_catalogueVars
  <2>0. position \in [Key -> Position] /\ \A k \in Key : position[k] \in Int
    BY <1>1, Bottom DEF CatalogueInv, CatalogueTypeOK
  <2>1. ASSUME position' = position PROVE Forward
    BY <2>0, <2>1
  <2>2. ASSUME NEW c \in Client, ClientStep(c) PROVE Forward
    <3>1. ASSUME NEW k \in Key, position' = [position EXCEPT ![k] = NoPosition] PROVE Forward
      BY <2>0, <3>1
    <3>2. ASSUME NEW k \in Key, NEW n \in 0..MaxPos, position' = [position EXCEPT ![k] = n],
                 position[k] = NoPosition \/ position[k] <= n
          PROVE  Forward
      BY <2>0, <3>2
    <3> HIDE DEF Forward
    <3> QED
      BY <1>1, <2>1, <2>2, <3>1, <3>2, PositionStep
  <2>3. ASSUME NEW x \in Stream, EnsureStream(x) PROVE Forward
    BY <2>1, <2>3 DEF EnsureStream
  <2> HIDE DEF Forward
  <2> QED
    BY <1>1, <2>2, <2>3, QueryAside DEF Next, CatalogueNext, vars
<1>2. CatalogueInv /\ [Next]_vars => [Forward]_catalogueVars
  BY <1>1
<1> QED
  BY <1>2, CatalogueInvariant, PTL DEF Spec, PositionForward

=============================================================================
