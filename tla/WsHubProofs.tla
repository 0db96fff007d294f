---------------------------- MODULE WsHubProofs ----------------------------
(***************************************************************************)
(* The safety properties of PushHandler on its own, for every set of       *)
(* accounts, tasks, events, requests and batches; and those of WsHub, for  *)
(* every set of accounts, devices, connections, requests and events; and   *)
(* every bound: the connection cap, the rounds of a pump and the size of a *)
(* chunk.                                                                  *)
(***************************************************************************)
EXTENDS WsHub, StoreProofs, SequenceTheorems

(***************************************************************************)
(* The push handler: its inductive invariant.  That an answer is complete  *)
(* says nothing of the way there, so the loop's index, phase and partial   *)
(* answer are tied together; PrefixSettled needs to know that the loop     *)
(* stays in the batch.                                                     *)
(***************************************************************************)
LoopSound(r) ==
    /\ Len(r.batch) \in 1 .. MaxBatch /\ r.next =< Len(r.batch) + 1
    /\ r.subject = r.acct
    /\ r.status = 0

AnswerSound(r) ==
    r.accepted \cup r.rejected = {r.batch[i].ev.eventId : i \in 1 .. (r.next - 1)}

RequestSound(r) ==
    /\ r.phase = "auth" => r.next = 1 /\ r.status = 0
    /\ r.phase = "loop" => LoopSound(r)
    /\ r.next =< Len(r.batch) + 1
    /\ r.status = 200 => r.next = Len(r.batch) + 1
    /\ AnswerSound(r)

PrefixOf(rows, r) ==
    \A i \in 1 .. (r.next - 1) : Covers(rows[r.acct][r.batch[i].ev.task], r.batch[i].ev)

PushInv ==
    /\ PushTypeOK
    /\ RowIsNewest
    /\ \A q \in Requests : req[q] # Free => RequestSound(req[q]) /\ PrefixOf(event, req[q])

\* The batch of a request is a sequence of typed items.
LEMMA BatchItems ==
    ASSUME NEW r \in Request
    PROVE  /\ r # Free /\ r.batch \in Seq([acct : Accounts, ev : Events])
           /\ Len(r.batch) \in Nat /\ r.next \in Nat \ {0}
           /\ \A i \in 1 .. Len(r.batch) :
                 /\ r.batch[i] \in [acct : Accounts, ev : Events]
                 /\ r.batch[i].ev.eventId \in EventIds
<1> DEFINE Items == [acct : Accounts, ev : Events]
<1>0. r.batch \in Seq(Items)
  <2>1. r.batch \in Batches
    BY DEF Request
  <2> QED
    BY <2>1, BatchesTyped
<1>1. Len(r.batch) \in Nat
  BY <1>0, LenProperties
<1>2. r.next \in Nat \ {0}
  BY BatchesTyped DEF Request
<1>3. ASSUME NEW i \in 1 .. Len(r.batch)
      PROVE  r.batch[i] \in Items
  <2> HIDE DEF Items
  <2> QED
    BY <1>0, ElementOfSeq
<1>4. r # Free
  <2>1. r.phase \in {"auth", "loop", "done"}
    BY DEF Request
  <2> QED
    BY <2>1 DEF Free
<1> QED
  BY <1>0, <1>1, <1>2, <1>3, <1>4 DEF EventIds

\* A step that replaces one request by a sound one and lets rows only grow
\* preserves the invariant.
LEMMA StepPushInv ==
    ASSUME PushInv, NEW q \in Requests, NEW r \in {Free} \cup Request,
           req' = [req EXCEPT ![q] = r],
           StoreTypeOK', RowIsNewest',
           \A a \in Accounts, t \in Tasks, f \in Events :
               Covers(event[a][t], f) => Covers(event'[a][t], f),
           r # Free => RequestSound(r) /\ PrefixOf(event', r)
    PROVE  PushInv'
<1>1. PushTypeOK'
  BY DEF PushInv, PushTypeOK
<1>2. ASSUME NEW p \in Requests, req'[p] # Free
      PROVE  RequestSound(req'[p]) /\ PrefixOf(event', req'[p])
  <2>1. CASE p = q
    BY <2>1, <1>2 DEF PushInv, PushTypeOK
  <2>2. CASE p # q
    <3>1. req'[p] = req[p] /\ req[p] \in Request
      BY <2>2, <1>2 DEF PushInv, PushTypeOK
    <3>2. RequestSound(req[p]) /\ PrefixOf(event, req[p])
      BY <3>1, <1>2 DEF PushInv
    <3>3. ASSUME NEW i \in 1 .. (req[p].next - 1)
          PROVE  Covers(event'[req[p].acct][req[p].batch[i].ev.task], req[p].batch[i].ev)
      <4>1. i \in 1 .. Len(req[p].batch)
        BY <3>1, <3>2, BatchItems DEF RequestSound
      <4>2. req[p].batch[i].ev \in Events /\ req[p].batch[i].ev.task \in Tasks
        BY <4>1, <3>1, BatchItems, EventsTyped
      <4>3. req[p].acct \in Accounts
        BY <3>1 DEF Request
      <4> QED
        BY <3>2, <4>2, <4>3 DEF PrefixOf
    <3> QED
      BY <3>1, <3>2, <3>3 DEF PrefixOf
  <2> QED
    BY <2>1, <2>2
<1> QED
  BY <1>1, <1>2 DEF PushInv

-----------------------------------------------------------------------------
(* Each action preserves the invariant.                                    *)

\* The initial states satisfy the invariant.
LEMMA InitPushInv == PushInit => PushInv
BY MaxSeqTyped DEF PushInit, StoreInit, PushInv, PushTypeOK, StoreTypeOK, RowIsNewest

\* A step of a request that leaves the store alone.
LEMMA QuietPushInv ==
    ASSUME PushInv, NEW q \in Requests, NEW r \in {Free} \cup Request,
           req' = [req EXCEPT ![q] = r], UNCHANGED storeVars,
           r # Free => RequestSound(r) /\ PrefixOf(event, r)
    PROVE  PushInv'
<1>1. StoreTypeOK' /\ RowIsNewest'
  BY DEF PushInv, PushTypeOK, StoreTypeOK, RowIsNewest, storeVars
<1>2. event' = event
  BY DEF storeVars
<1>3. r # Free => RequestSound(r) /\ PrefixOf(event', r)
  BY <1>2 DEF PrefixOf
<1> QED
  BY <1>1, <1>2, <1>3, StepPushInv

\* A new request has settled nothing yet.
LEMMA ReceivePushInv ==
    ASSUME PushInv, NEW q \in Requests, NEW s \in Accounts \cup {NoSubject},
           NEW a \in Accounts, NEW b \in Batches, Receive(q, s, a, b)
    PROVE  PushInv'
<1> DEFINE r == [phase |-> "auth", subject |-> s, acct |-> a, batch |-> b,
                 next |-> 1, status |-> 0, accepted |-> {}, rejected |-> {}]
<1>1. r \in Request
  BY BatchesTyped DEF Request
<1>2. RequestSound(r) /\ PrefixOf(event, r)
  BY <1>1, BatchItems DEF RequestSound, LoopSound, AnswerSound, PrefixOf
<1> QED
  BY <1>1, <1>2, QuietPushInv DEF Receive

\* The record an ended request leaves.
LEMMA RespondRecord ==
    ASSUME NEW q \in Requests, NEW status \in {200, 400, 401, 403, 500},
           req \in [Requests -> {Free} \cup Request], req[q] \in Request, Respond(q, status)
    PROVE  \E x \in Request :
              /\ req' = [req EXCEPT ![q] = x]
              /\ x.phase = "done" /\ x.status = status /\ x.next = req[q].next
              /\ x.batch = req[q].batch /\ x.acct = req[q].acct
              /\ x.accepted = req[q].accepted /\ x.rejected = req[q].rejected
<1>1. PICK mid : mid = [req EXCEPT ![q].phase = "done"]
  OBVIOUS
<1>2. PICK y : y = [req[q] EXCEPT !.phase = "done"]
  OBVIOUS
<1>3. PICK x : x = [y EXCEPT !.status = status]
  OBVIOUS
<1>4. /\ y \in Request
      /\ y.phase = "done" /\ y.next = req[q].next /\ y.batch = req[q].batch
      /\ y.acct = req[q].acct /\ y.accepted = req[q].accepted /\ y.rejected = req[q].rejected
  BY <1>2 DEF Request
<1>5. /\ x \in Request
      /\ x.phase = y.phase /\ x.status = status /\ x.next = y.next /\ x.batch = y.batch
      /\ x.acct = y.acct /\ x.accepted = y.accepted /\ x.rejected = y.rejected
  BY <1>3, <1>4 DEF Request
<1>6. mid = [req EXCEPT ![q] = y]
  BY <1>1, <1>2
<1>7. req' = [mid EXCEPT ![q].status = status]
  BY <1>1, Zenon DEF Respond
<1>8. mid[q] = y
  BY <1>6
<1>9. req' = [mid EXCEPT ![q] = x]
  BY <1>3, <1>7, <1>8
<1>10. req' = [req EXCEPT ![q] = x]
  BY <1>6, <1>9
<1>11. /\ x.phase = "done" /\ x.status = status /\ x.next = req[q].next
       /\ x.batch = req[q].batch /\ x.acct = req[q].acct
       /\ x.accepted = req[q].accepted /\ x.rejected = req[q].rejected
  BY <1>4, <1>5
<1> QED
  BY <1>5, <1>10, <1>11, Zenon

\* Ending a request with any status keeps what it has settled; a 200 must have
\* passed the whole batch.
LEMMA RespondPushInv ==
    ASSUME PushInv, NEW q \in Requests, req[q] # Free,
           NEW status \in {200, 400, 401, 403, 500},
           status = 200 => req[q].next = Len(req[q].batch) + 1,
           Respond(q, status), UNCHANGED storeVars
    PROVE  PushInv'
<1>1. req[q] \in Request /\ req \in [Requests -> {Free} \cup Request]
  BY DEF PushInv, PushTypeOK
<1>2. PICK x \in Request :
          /\ req' = [req EXCEPT ![q] = x]
          /\ x.phase = "done" /\ x.status = status /\ x.next = req[q].next
          /\ x.batch = req[q].batch /\ x.acct = req[q].acct
          /\ x.accepted = req[q].accepted /\ x.rejected = req[q].rejected
  BY <1>1, RespondRecord
<1>3. RequestSound(req[q]) /\ PrefixOf(event, req[q])
  BY DEF PushInv
<1>4. RequestSound(x) /\ PrefixOf(event, x)
  BY <1>2, <1>3 DEF RequestSound, AnswerSound, PrefixOf
<1> QED
  BY <1>2, <1>4, QuietPushInv

\* The loop is entered only by a request of the token's own account.
LEMMA AuthorisePushInv ==
    ASSUME PushInv, NEW q \in Requests, Authorise(q)
    PROVE  PushInv'
<1>1. req[q] # Free
  BY DEF Authorise, Free
<1>2. ASSUME NEW status \in {400, 401, 403}, Respond(q, status)
      PROVE  PushInv'
  BY <1>1, <1>2, RespondPushInv DEF Authorise
<1>3. CASE /\ req[q].subject = req[q].acct
           /\ Len(req[q].batch) \in 1 .. MaxBatch
           /\ req' = [req EXCEPT ![q].phase = "loop"]
  <2> DEFINE old == req[q]
             r == [old EXCEPT !.phase = "loop"]
  <2>1. old \in Request /\ r \in Request
    BY <1>1 DEF PushInv, PushTypeOK, Request
  <2>2. /\ r.phase = "loop" /\ r.status = old.status /\ r.next = old.next
        /\ r.batch = old.batch /\ r.acct = old.acct /\ r.subject = old.subject
        /\ r.accepted = old.accepted /\ r.rejected = old.rejected
    BY <2>1 DEF Request
  <2>3. RequestSound(old) /\ PrefixOf(event, old) /\ old.next = 1 /\ old.status = 0
    BY <1>1 DEF PushInv, RequestSound, Authorise
  <2>4. RequestSound(r) /\ PrefixOf(event, r)
    BY <1>3, <2>2, <2>3, <2>1, BatchItems DEF RequestSound, LoopSound, AnswerSound, PrefixOf
  <2>5. req' = [req EXCEPT ![q] = r]
    BY <1>3
  <2> HIDE DEF r
  <2> QED
    BY <2>1, <2>4, <2>5, QuietPushInv DEF Authorise
<1> QED
  BY <1>2, <1>3 DEF Authorise

\* r is old after one more event, which the answer names.
Passed(r, old, id) ==
    /\ r.phase = old.phase /\ r.status = old.status /\ r.next = old.next + 1
    /\ r.batch = old.batch /\ r.acct = old.acct /\ r.subject = old.subject
    /\ r.accepted \cup r.rejected = old.accepted \cup old.rejected \cup {id}

\* What the two updates of a step that passes an event come to.
LEMMA PassRecord ==
    ASSUME req \in [Requests -> {Free} \cup Request], NEW q \in Requests, req[q] \in Request,
           NEW id \in EventIds, req[q].next \in 1 .. MaxBatch
    PROVE  (\/ req' = [req EXCEPT ![q].next = @ + 1, ![q].accepted = @ \cup {id}]
            \/ req' = [req EXCEPT ![q].next = @ + 1, ![q].rejected = @ \cup {id}])
           => \E r \in Request : req' = [req EXCEPT ![q] = r] /\ Passed(r, req[q], id)
<1>1. PICK on : on = [req[q] EXCEPT !.next = @ + 1]
  OBVIOUS
<1>2. PICK old \in Request : old = req[q]
  OBVIOUS
<1>3. on = [old EXCEPT !.next = @ + 1] /\ old.next \in 1 .. MaxBatch
  BY <1>1, <1>2
<1>4. /\ on \in Request
      /\ on.phase = old.phase /\ on.status = old.status /\ on.next = old.next + 1
      /\ on.batch = old.batch /\ on.acct = old.acct /\ on.subject = old.subject
      /\ on.accepted = old.accepted /\ on.rejected = old.rejected
  <2>1. old.next + 1 \in 1 .. (MaxBatch + 1)
    BY <1>3, BatchesTyped
  <2> QED
    BY <2>1, <1>3 DEF Request
<1>5. ASSUME req' = [req EXCEPT ![q].next = @ + 1, ![q].accepted = @ \cup {id}]
      PROVE  \E r \in Request : req' = [req EXCEPT ![q] = r] /\ Passed(r, old, id)
  <2>1. req' = [req EXCEPT ![q] = [on EXCEPT !.accepted = @ \cup {id}]]
    BY <1>1, <1>5
  <2>2. PICK r : r = [on EXCEPT !.accepted = @ \cup {id}]
    OBVIOUS
  <2>3. r \in Request /\ Passed(r, old, id)
    BY <2>2, <1>4 DEF Request, Passed
  <2>4. req' = [req EXCEPT ![q] = r]
    BY <2>1, <2>2, Zenon
  <2> QED
    BY <2>3, <2>4
<1>6. ASSUME req' = [req EXCEPT ![q].next = @ + 1, ![q].rejected = @ \cup {id}]
      PROVE  \E r \in Request : req' = [req EXCEPT ![q] = r] /\ Passed(r, old, id)
  <2>1. req' = [req EXCEPT ![q] = [on EXCEPT !.rejected = @ \cup {id}]]
    BY <1>1, <1>6
  <2>2. PICK r : r = [on EXCEPT !.rejected = @ \cup {id}]
    OBVIOUS
  <2>3. r \in Request /\ Passed(r, old, id)
    BY <2>2, <1>4 DEF Request, Passed
  <2>4. req' = [req EXCEPT ![q] = r]
    BY <2>1, <2>2, Zenon
  <2> QED
    BY <2>3, <2>4
<1> QED
  BY <1>2, <1>5, <1>6, Zenon

\* Passing the event at the index, settled and put in the answer, preserves the
\* invariant.
LEMMA PassPushInv ==
    ASSUME PushInv, NEW q \in Requests, InLoop(q),
           NEW r \in Request, Passed(r, req[q], Item(q).ev.eventId),
           req' = [req EXCEPT ![q] = r],
           StoreTypeOK', RowIsNewest',
           \A a \in Accounts, t \in Tasks, f \in Events :
               Covers(event[a][t], f) => Covers(event'[a][t], f),
           Covers(event'[req[q].acct][Item(q).ev.task], Item(q).ev)
    PROVE  PushInv'
<1>0. req[q] # Free
  BY DEF InLoop, Free
<1>1. PICK old \in Request : old = req[q]
  BY <1>0 DEF PushInv, PushTypeOK
<1>2. /\ RequestSound(old) /\ PrefixOf(event, old) /\ LoopSound(old)
      /\ old.phase = "loop"
  BY <1>0, <1>1 DEF PushInv, RequestSound, InLoop
<1>3. old.next \in 1 .. Len(old.batch) /\ old.next \in 1 .. MaxBatch /\ Len(old.batch) \in Nat
  BY <1>1, <1>2, BatchItems, BatchesTyped DEF InLoop, LoopSound
<1>4. PICK id \in EventIds : id = Item(q).ev.eventId /\ id = old.batch[old.next].ev.eventId
  BY <1>1, <1>3, BatchItems DEF Item
<1>5. /\ r.phase = old.phase /\ r.status = old.status
      /\ r.next = old.next + 1 /\ r.batch = old.batch
      /\ r.acct = old.acct /\ r.subject = old.subject
      /\ r.accepted \cup r.rejected = old.accepted \cup old.rejected \cup {id}
  BY <1>1, <1>4 DEF Passed
<1>6. AnswerSound(r)
  <2>1. 1 .. (r.next - 1) = (1 .. (old.next - 1)) \cup {old.next}
    BY <1>3, <1>5
  <2>2. {r.batch[i].ev.eventId : i \in 1 .. (r.next - 1)}
            = {old.batch[i].ev.eventId : i \in 1 .. (old.next - 1)} \cup {id}
    BY <2>1, <1>4, <1>5
  <2> QED
    BY <2>2, <1>2, <1>5 DEF AnswerSound, RequestSound
<1>7. RequestSound(r)
  BY <1>2, <1>3, <1>5, <1>6 DEF RequestSound, LoopSound
<1>8. PrefixOf(event', r)
  <2> SUFFICES ASSUME NEW i \in 1 .. (r.next - 1)
               PROVE  Covers(event'[old.acct][old.batch[i].ev.task], old.batch[i].ev)
    BY <1>5 DEF PrefixOf
  <2>1. CASE i = old.next
    BY <2>1, <1>1 DEF Item
  <2>2. CASE i # old.next
    <3>1. i \in 1 .. (old.next - 1) /\ i \in 1 .. Len(old.batch)
      BY <2>2, <1>3, <1>5
    <3>2. old.batch[i].ev \in Events /\ old.batch[i].ev.task \in Tasks /\ old.acct \in Accounts
      BY <3>1, <1>1, BatchItems, EventsTyped DEF Request
    <3>3. Covers(event[old.acct][old.batch[i].ev.task], old.batch[i].ev)
      BY <3>1, <1>2 DEF PrefixOf
    <3> QED
      BY <3>2, <3>3
  <2> QED
    BY <2>1, <2>2
<1> QED
  BY <1>5, <1>7, <1>8, StepPushInv

\* An event that was in the batch before is settled already, whatever has been
\* written since.
LEMMA DuplicatePushInv ==
    ASSUME PushInv, NEW q \in Requests, DuplicateItem(q)
    PROVE  PushInv'
<1> DEFINE old == req[q]
<1>0. InLoop(q) /\ req[q] # Free
  BY DEF DuplicateItem, InLoop, Free
<1>1. old \in Request /\ RequestSound(old) /\ PrefixOf(event, old)
  BY <1>0 DEF PushInv, PushTypeOK
<1>2. UNCHANGED storeVars
  BY DEF DuplicateItem
<1>3. StoreTypeOK' /\ RowIsNewest' /\ event' = event
  BY <1>2 DEF PushInv, PushTypeOK, StoreTypeOK, RowIsNewest, storeVars
<1>4. PICK i \in 1 .. (old.next - 1) : old.batch[i].ev.eventId = Item(q).ev.eventId
  BY DEF DuplicateItem, Seen
<1>5. old.next \in 1 .. Len(old.batch) /\ i \in 1 .. Len(old.batch)
  BY <1>0, <1>1, BatchItems DEF InLoop
<1>6. old.batch[i].ev = Item(q).ev
  BY <1>1, <1>4, <1>5, BatchItems, EventIdsUnique DEF Item
<1>7. Covers(event'[old.acct][Item(q).ev.task], Item(q).ev)
  BY <1>1, <1>3, <1>6 DEF PrefixOf
<1>8. Item(q).ev.eventId \in EventIds /\ old.next \in 1 .. MaxBatch
  BY <1>0, <1>1, <1>5, BatchItems, BatchesTyped DEF Item, InLoop, RequestSound, LoopSound
<1>9. req' = [req EXCEPT ![q].next = @ + 1, ![q].accepted = @ \cup {Item(q).ev.eventId}]
  BY Zenon DEF DuplicateItem
<1>10. PICK r \in Request : /\ req' = [req EXCEPT ![q] = r]
                            /\ Passed(r, req[q], Item(q).ev.eventId)
  BY <1>1, <1>8, <1>9, PassRecord, Zenon DEF PushInv, PushTypeOK
<1> QED
  BY <1>0, <1>3, <1>7, <1>10, PassPushInv

\* putEvent settles its event, and what other requests have settled stays.
LEMMA PutItemPushInv ==
    ASSUME PushInv, NEW q \in Requests, PutItem(q)
    PROVE  PushInv'
<1> DEFINE old == req[q]
           e == Item(q).ev
<1>0. InLoop(q) /\ req[q] # Free
  BY DEF PutItem, InLoop, Free
<1>1. old \in Request /\ RequestSound(old)
  BY <1>0 DEF PushInv, PushTypeOK
<1>2. /\ e \in Events /\ old.acct \in Accounts
      /\ Item(q).ev.eventId \in EventIds /\ old.next \in 1 .. MaxBatch
  <2>1. old.next \in 1 .. Len(old.batch) /\ old.next \in 1 .. MaxBatch
    BY <1>0, <1>1, BatchItems, BatchesTyped DEF InLoop, RequestSound, LoopSound
  <2> QED
    BY <2>1, <1>1, BatchItems DEF Item, Request
<1>3. PutEvent(old.acct, e)
  BY DEF PutItem
<1>4. StoreTypeOK /\ RowIsNewest
  BY DEF PushInv, PushTypeOK
<1>5. StoreTypeOK' /\ RowIsNewest'
  BY <1>2, <1>3, <1>4, PutEventTyped, PutEventNewest
<1>6. /\ \A a \in Accounts, t \in Tasks, f \in Events :
            Covers(event[a][t], f) => Covers(event'[a][t], f)
      /\ Covers(event'[old.acct][e.task], e)
  BY <1>2, <1>3, <1>4, PutEventGrows
<1>7. \/ req' = [req EXCEPT ![q].next = @ + 1, ![q].accepted = @ \cup {Item(q).ev.eventId}]
      \/ req' = [req EXCEPT ![q].next = @ + 1, ![q].rejected = @ \cup {Item(q).ev.eventId}]
  BY Zenon DEF PutItem
<1>8. PICK r \in Request : /\ req' = [req EXCEPT ![q] = r]
                           /\ Passed(r, req[q], Item(q).ev.eventId)
  BY <1>1, <1>2, <1>7, PassRecord, Zenon DEF PushInv, PushTypeOK
<1> QED
  BY <1>0, <1>5, <1>6, <1>8, PassPushInv

\* Forgetting a request preserves the invariant.
LEMMA FreePushInv ==
    ASSUME PushInv, NEW q \in Requests, req' = [req EXCEPT ![q] = Free],
           UNCHANGED storeVars
    PROVE  PushInv'
BY QuietPushInv

\* Every step of the handler preserves the invariant.
LEMMA HandlerStepPushInv ==
    ASSUME PushInv, NEW q \in Requests, HandlerStep(q)
    PROVE  PushInv'
<1>1. CASE Authorise(q)
  BY <1>1, AuthorisePushInv
<1>2. CASE ForeignItem(q)
  BY <1>2, RespondPushInv DEF ForeignItem, InLoop, Free
<1>3. CASE DuplicateItem(q)
  BY <1>3, DuplicatePushInv
<1>4. CASE PutItem(q)
  BY <1>4, PutItemPushInv
<1>5. CASE PutFails(q)
  BY <1>5, RespondPushInv DEF PutFails, InLoop, Free
<1>6. CASE Finish(q)
  <2>1. req[q] # Free
    BY <1>6 DEF Finish, Free
  <2>2. req[q] \in Request /\ RequestSound(req[q])
    BY <2>1 DEF PushInv, PushTypeOK
  <2>3. req[q].next = Len(req[q].batch) + 1
    BY <1>6, <2>2, BatchItems DEF Finish, RequestSound
  <2> QED
    BY <1>6, <2>1, <2>3, RespondPushInv DEF Finish
<1> QED
  BY <1>1, <1>2, <1>3, <1>4, <1>5, <1>6 DEF HandlerStep

\* A stuttering step preserves the invariant.
LEMMA StutterPushInv ==
    ASSUME PushInv, UNCHANGED pushVars
    PROVE  PushInv'
BY DEF PushInv, pushVars, storeVars, PushTypeOK, StoreTypeOK, RowIsNewest, PrefixOf,
       RequestSound, LoopSound, AnswerSound

-----------------------------------------------------------------------------
(* What the invariant says of answers and of writes.                       *)

\* A 200 covers the whole batch, and names every event of it.
LEMMA HonestState ==
    ASSUME PushInv
    PROVE  PrefixSettled /\ AnswerComplete
<1>1. PrefixSettled
  BY DEF PushInv, PrefixSettled, RequestSound, PrefixOf
<1>2. AnswerComplete
  <2> SUFFICES ASSUME NEW q \in Requests, req[q] # Free, req[q].status = 200
               PROVE  req[q].accepted \cup req[q].rejected = Ids(req[q].batch)
    BY DEF AnswerComplete
  <2>1. req[q] \in Request /\ RequestSound(req[q])
    BY DEF PushInv, PushTypeOK
  <2>2. req[q].next - 1 = Len(req[q].batch)
    BY <2>1, BatchItems DEF RequestSound
  <2> QED
    BY <2>1, <2>2 DEF RequestSound, AnswerSound, Ids
<1> QED
  BY <1>1, <1>2

\* What WritesAuthorised says of a step.
StepAuthorised ==
    \A a \in Accounts, t \in Tasks : event'[a][t] # event[a][t] =>
        \E q \in Requests :
           /\ req[q] # Free /\ req[q].subject = a
           /\ \E i \in 1 .. Len(req[q].batch) :
                 req[q].batch[i] = [acct |-> a, ev |-> event'[a][t]]

\* The loop writes only the events of its batch, to the account of its token.
LEMMA PutItemAuthorised ==
    ASSUME PushInv, NEW q \in Requests, PutItem(q)
    PROVE  StepAuthorised
<1> SUFFICES ASSUME NEW a \in Accounts, NEW t \in Tasks, event'[a][t] # event[a][t]
             PROVE  /\ req[q] # Free /\ req[q].subject = a
                    /\ \E i \in 1 .. Len(req[q].batch) :
                          req[q].batch[i] = [acct |-> a, ev |-> event'[a][t]]
  BY DEF StepAuthorised
<1>1. InLoop(q) /\ req[q] # Free
  BY DEF PutItem, InLoop, Free
<1>2. req[q] \in Request /\ LoopSound(req[q])
  BY <1>1 DEF PushInv, PushTypeOK, RequestSound, InLoop
<1>3. req[q].next \in 1 .. Len(req[q].batch) /\ Item(q) \in [acct : Accounts, ev : Events]
  BY <1>1, <1>2, BatchItems DEF InLoop, Item
<1>4. a = req[q].acct /\ event'[a][t] = Item(q).ev
  <2>1. PutEvent(req[q].acct, Item(q).ev) /\ req[q].acct \in Accounts /\ StoreTypeOK
    BY <1>2 DEF PutItem, Request, PushInv, PushTypeOK
  <2> QED
    BY <1>3, <2>1, PutEventRows
<1>5. Item(q) = [acct |-> a, ev |-> event'[a][t]]
  BY <1>3, <1>4 DEF PutItem
<1> QED
  BY <1>1, <1>2, <1>3, <1>4, <1>5 DEF LoopSound, Item

\* It submits them to the map the store implements.
LEMMA PutItemSubmits ==
    ASSUME PushInv, NEW q \in Requests, PutItem(q)
    PROVE  Lww!Next
<1>1. req[q] # Free /\ InLoop(q)
  BY DEF PutItem, InLoop, Free
<1>2. req[q] \in Request
  BY <1>1 DEF PushInv, PushTypeOK
<1>3. req[q].acct \in Accounts /\ Item(q).ev \in Events
  BY <1>1, <1>2, BatchItems DEF InLoop, Item, Request
<1>4. event' = [event EXCEPT ![req[q].acct][Item(q).ev.task] = Latest(@, Item(q).ev)]
  BY <1>3 DEF PutItem, PutEvent, Stale, Latest, PushInv, PushTypeOK, StoreTypeOK
<1> QED
  BY <1>3, <1>4 DEF Lww!Next, Lww!Submit, Lww!Latest, Lww!Covers, Lww!Supersedes,
              Latest, Covers, Supersedes

\* No other step of a request touches a row.
LEMMA OnlyPutItemWrites ==
    ASSUME NEW q \in Requests, HandlerStep(q)
    PROVE  PutItem(q) \/ UNCHANGED storeVars
BY DEF HandlerStep, Authorise, ForeignItem, DuplicateItem, PutFails, Finish

-----------------------------------------------------------------------------
(* The theorems.                                                           *)

\* Every reachable state of the handler and the store satisfies the inductive
\* invariant.
THEOREM PushInvariance == PushSpec => []PushInv
<1>1. PushInit => PushInv
  BY InitPushInv
<1>2. PushInv /\ [PushNext]_pushVars => PushInv'
  <2> SUFFICES ASSUME PushInv, [PushNext]_pushVars
               PROVE  PushInv'
    OBVIOUS
  <2>1. ASSUME NEW q \in Requests, NEW s \in Accounts \cup {NoSubject},
               NEW a \in Accounts, NEW b \in Batches, Receive(q, s, a, b)
        PROVE  PushInv'
    BY <2>1, ReceivePushInv
  <2>2. ASSUME NEW q \in Requests, HandlerStep(q)
        PROVE  PushInv'
    BY <2>2, HandlerStepPushInv
  <2>3. ASSUME NEW q \in Requests, Answered(q) \/ Dies(q)
        PROVE  PushInv'
    BY <2>3, FreePushInv DEF Answered, Dies
  <2>4. CASE UNCHANGED pushVars
    BY <2>4, StutterPushInv
  <2> QED
    BY <2>1, <2>2, <2>3, <2>4 DEF PushNext
<1> QED
  BY <1>1, <1>2, PTL DEF PushSpec

\* Store and requests keep their types (push.ts, sqlite-store.ts).
THEOREM PushTypeCorrect == PushSpec => []PushTypeOK
BY PushInvariance, PTL DEF PushInv

\* What a request's loop has passed stays settled, whatever other requests
\* write, and a 200 covers the whole batch.
THEOREM PrefixStaysSettled == PushSpec => []PrefixSettled
<1>1. PushInv => PrefixSettled
  BY HonestState
<1> QED
  BY <1>1, PushInvariance, PTL

\* A 200 names every event of the batch.
THEOREM AnswersAreComplete == PushSpec => []AnswerComplete
<1>1. PushInv => AnswerComplete
  BY HonestState
<1> QED
  BY <1>1, PushInvariance, PTL

\* What a 200 tells a client is true, for any batches and any number of requests
\* at once.
THEOREM AnswersAreHonest == PushSpec => []AnswerHonest
BY PrefixStaysSettled, AnswersAreComplete, PTL DEF AnswerHonest

\* Rows change only on behalf of a token for their account, and only to events
\* that name it.
THEOREM WritesAreAuthorised == PushSpec => WritesAuthorised
<1>1. PushInv /\ [PushNext]_pushVars => [StepAuthorised]_pushVars
  <2> SUFFICES ASSUME PushInv, [PushNext]_pushVars
               PROVE  StepAuthorised
    OBVIOUS
  <2>1. ASSUME NEW q \in Requests, HandlerStep(q)
        PROVE  StepAuthorised
    BY <2>1, OnlyPutItemWrites, PutItemAuthorised DEF StepAuthorised, storeVars
  <2>2. CASE event' = event
    BY <2>2 DEF StepAuthorised
  <2> QED
    BY <2>1, <2>2 DEF PushNext, Receive, Answered, Dies, pushVars, storeVars
<1> QED
  BY <1>1, PushInvariance, PTL DEF PushSpec, WritesAuthorised, StepAuthorised

\* However the batches of concurrent requests interleave, and wherever they
\* break off, the row of a task holds the newest event written for it.
THEOREM PushNewestWins == PushSpec => []RowIsNewest
BY PushInvariance, PTL DEF PushInv

\* The push handler implements the last-writer-wins map.
THEOREM PushRefinement == PushSpec => ImplementsLwwMap
<1>1. PushInit => Lww!Init
  BY DEF PushInit, StoreInit, Lww!Init
<1>2. PushInv /\ [PushNext]_pushVars => [Lww!Next]_event
  <2> SUFFICES ASSUME PushInv, [PushNext]_pushVars, event' # event
               PROVE  Lww!Next
    OBVIOUS
  <2>1. PICK q \in Requests : HandlerStep(q)
    BY DEF PushNext, Receive, Answered, Dies, pushVars, storeVars
  <2> QED
    BY <2>1, OnlyPutItemWrites, PutItemSubmits DEF storeVars
<1> QED
  BY <1>1, <1>2, PushInvariance, PTL DEF PushSpec, ImplementsLwwMap, Lww!Spec

-----------------------------------------------------------------------------
(***************************************************************************)
(* The hub: its inductive invariant.  What a connection owes its device is *)
(* said of values - a Connection k, its wire w, and of one account the     *)
(* rows ev and sq, the counter n and the unannounced events un - so that   *)
(* the pump can be followed through the steps of one action.               *)
(*                                                                         *)
(* DeviceCursorComplete speaks of the cursor a device ends up with, so the *)
(* invariant has the same for every place a cursor comes from: the frames  *)
(* under way, the connection, and the read the pump is waiting for.        *)
(* NoLostWakeup speaks of connections at rest, so the invariant says what  *)
(* the read under way will leave behind.                                   *)
(***************************************************************************)
Subscribed == {"draining", "live"}

RowUpTo(ev, sq, t, k) == ev[t] # NoEvent /\ sq[t] =< k

\* The first i frames of w have the row of task t, or a newer event.
Tells(w, ev, t, i) ==
    \E j \in 1 .. i : \E e \in w[j].events : e.task = t /\ Covers(e, ev[t])

\* The device has it, or will.
Told(w, view, ev, t, i) == Covers(view[t], ev[t]) \/ Tells(w, ev, t, i)

WireSafe(w, view, ev, sq, n) ==
    \A i \in 1 .. Len(w) :
        /\ w[i].cursor =< n
        /\ w[i].type # "events" => w[i].events = {}
        /\ \A e, f \in w[i].events : e.task = f.task => e = f
        /\ \A t \in Tasks : RowUpTo(ev, sq, t, w[i].cursor) => Told(w, view, ev, t, i)

CursorSafe(k, w, view, ev, sq, n) ==
    /\ k.cursor =< n
    /\ \A t \in Tasks : RowUpTo(ev, sq, t, k.cursor) => Told(w, view, ev, t, Len(w))

\* The device has what it wrote itself.
OwnSafe(k, view) ==
    \A e \in Events : e.eventId \in k.suppress \cup k.withheld => Covers(view[e.task], e)

\* rows is what a read found.
RowsSafe(rows, last) ==
    /\ IsFiniteSet(rows)
    /\ \A x \in rows : x.seq =< last
    /\ \A x, y \in rows : x.ev.task = y.ev.task => x = y

\* The read the pump waits for, unless a subscribe has made it stale.
ReadSafe(k, w, view, ev, sq, n) ==
    /\ k.read # NoRead
    /\ k.read.nextCursor =< n
    /\ k.readGeneration =< k.generation
    /\ RowsSafe(k.read.rows, k.read.nextCursor)
    /\ k.generation = k.readGeneration =>
          \A t \in Tasks : RowUpTo(ev, sq, t, k.read.nextCursor) =>
             \/ Told(w, view, ev, t, Len(w))
             \/ [ev |-> ev[t], seq |-> sq[t]] \in k.read.rows

\* A row past the cursor has not been announced.
CaughtUp(k, ev, sq, un) ==
    \A t \in Tasks : ev[t] # NoEvent /\ sq[t] > k.cursor => ev[t] \in un

\* The same once the read under way has come back.
WillCatchUp(k, ev, sq, un) ==
    /\ k.generation # k.readGeneration => k.pending
    /\ ~k.pending =>
          \A t \in Tasks : ev[t] # NoEvent /\ sq[t] > k.cursor =>
              ev[t] \in un \/ sq[t] =< k.read.nextCursor

Quiet(k) == ~k.pumping /\ k.rounds = 0

\* Before its first subscribe.
Unused(k) == Quiet(k) /\ ~k.immediate /\ k.withheld = {}

Resting(k, ev, sq, un) ==
    /\ Quiet(k) /\ k.state = "live"
    /\ k.pending => k.immediate
    /\ ~k.pending => CaughtUp(k, ev, sq, un)

Reading(k, w, view, ev, sq, n, un) ==
    ReadSafe(k, w, view, ev, sq, n) /\ WillCatchUp(k, ev, sq, un)

ConnSafe(k, w, view, ev, sq, n, un) ==
    /\ k.state \in Subscribed =>
          /\ CursorSafe(k, w, view, ev, sq, n)
          /\ OwnSafe(k, view)
          /\ IF k.pumping THEN Reading(k, w, view, ev, sq, n, un)
                          ELSE Resting(k, ev, sq, un)
    /\ k.state \notin Subscribed \cup {"closed"} => Unused(k)

\* The rows of an account are numbered and filed under their tasks.
RowsFiled(ev, sq, n) ==
    \A t \in Tasks : /\ sq[t] =< n
                     /\ ev[t] # NoEvent => sq[t] > 0 /\ ev[t].task = t

\* The device of a push frame has applied the batch.
OriginSafe(q) ==
    req[q] # Free /\ origin[q] # "rest" =>
        \A i \in 1 .. Len(req[q].batch) :
            Covers(device[DeviceOf[origin[q]]].view[req[q].batch[i].ev.task],
                   req[q].batch[i].ev)

DeviceSafe(d) ==
    LET a == AccountOf[d] IN
    /\ device[d].cursor =< counter[a]
    /\ \A t \in Tasks : RowUpTo(event[a], seq[a], t, device[d].cursor)
                            => Covers(device[d].view[t], event[a][t])

RegistryFinite == RegistryExact /\ \A a \in Accounts : IsFiniteSet(byAccount[a])

\* Connection c may be k, with the wire w.
Safe(c, k, w) ==
    LET a == Acct(c)
        view == device[DeviceOf[c]].view
    IN  /\ WireSafe(w, view, event[a], seq[a], counter[a])
        /\ ConnSafe(k, w, view, event[a], seq[a], counter[a], unannounced[a])

ConnInv == \A c \in Conns : Safe(c, conn[c], wire[c])

HubInv ==
    /\ TypeOK
    /\ PushInv
    /\ RegistryFinite
    /\ \A a \in Accounts : RowsFiled(event[a], seq[a], counter[a])
    /\ \A q \in Requests : OriginSafe(q)
    /\ \A d \in Devices : DeviceSafe(d)
    /\ ConnInv

-----------------------------------------------------------------------------
(* Sets and sequences.                                                     *)

\* The image of a finite set under a function is finite.
LEMMA FiniteImage ==
    ASSUME NEW S, IsFiniteSet(S), NEW f, DOMAIN f = S
    PROVE  IsFiniteSet({f[x] : x \in S})
<1> DEFINE T == {f[x] : x \in S}
<1>1. f \in [S -> T] \/ \E g \in [S -> T] : \A x \in S : g[x] = f[x]
  <2> DEFINE g == [x \in S |-> f[x]]
  <2>1. g \in [S -> T] /\ \A x \in S : g[x] = f[x]
    OBVIOUS
  <2> QED
    BY <2>1
<1>2. PICK g \in [S -> T] : \A x \in S : g[x] = f[x]
  BY <1>1
<1>3. g \in Surjection(S, T)
  BY <1>2 DEF Surjection
<1> QED
  BY <1>3, FS_Surjection

\* Integer division by a positive number is monotonic, and the last of n things
\* is in the last of their chunks.
LEMMA DivMonotonic ==
    ASSUME NEW x \in Nat, NEW y \in Nat, NEW m \in Nat \ {0}, x =< y
    PROVE  x \div m \in Nat /\ x \div m =< y \div m
<1>1. /\ x \div m \in Int /\ m * (x \div m) =< x /\ x < m * ((x \div m) + 1)
      /\ y \div m \in Int /\ m * (y \div m) =< y /\ y < m * ((y \div m) + 1)
  BY Z3
<1>2. PICK u \in Int, v \in Int : u = x \div m /\ v = y \div m
  BY <1>1
<1>3. m * u =< x /\ x < m * (u + 1) /\ m * v =< y /\ y < m * (v + 1)
  BY <1>1, <1>2
<1>4. m * u < m * (v + 1) /\ 0 < m * (u + 1)
  BY <1>3
<1>5. u < v + 1 /\ 0 < u + 1
  BY <1>4, Z3
<1> QED
  BY <1>2, <1>5

LEMMA InSomeChunk ==
    ASSUME NEW x \in Nat, NEW n \in Nat, NEW m \in Nat \ {0}, x < n
    PROVE  (x \div m) + 1 \in 1 .. ((n + m - 1) \div m)
<1>1. n + m - 1 \in Nat /\ x + m \in Nat /\ x + m =< n + m - 1
  OBVIOUS
<1>2. (x + m) \div m =< (n + m - 1) \div m /\ x \div m \in Nat
  BY <1>1, DivMonotonic
<1>3. (x + m) \div m = (x \div m) + 1
  BY Z3
<1> QED
  BY <1>1, <1>2, <1>3, DivMonotonic

-----------------------------------------------------------------------------
(* What frames tell a device.                                              *)

\* More frames tell no less.
LEMMA TellsMore ==
    ASSUME NEW w, NEW ev, NEW t, NEW i \in Nat, NEW j \in Nat, i =< j, Tells(w, ev, t, i)
    PROVE  Tells(w, ev, t, j)
BY DEF Tells

\* Frames keep their place when others are appended, and those follow them.
LEMMA TellsConcat ==
    ASSUME NEW w \in Seq(Frame), NEW out \in Seq(Frame), NEW ev, NEW t, NEW i \in Nat
    PROVE  /\ i =< Len(w) /\ Tells(w, ev, t, i) => Tells(w \o out, ev, t, i)
           /\ i =< Len(out) /\ Tells(out, ev, t, i) => Tells(w \o out, ev, t, Len(w) + i)
<1>1. Len(w) \in Nat /\ Len(out) \in Nat
  BY LenProperties
<1>2. \A j \in 1 .. Len(w) + Len(out) :
         (w \o out)[j] = IF j =< Len(w) THEN w[j] ELSE out[j - Len(w)]
  BY ConcatProperties
<1>3. ASSUME i =< Len(w), Tells(w, ev, t, i)
      PROVE  Tells(w \o out, ev, t, i)
  <2>1. PICK j \in 1 .. i : \E e \in w[j].events : e.task = t /\ Covers(e, ev[t])
    BY <1>3 DEF Tells
  <2>2. (w \o out)[j] = w[j]
    BY <1>1, <1>2, <1>3
  <2> QED
    BY <2>1, <2>2 DEF Tells
<1>4. ASSUME i =< Len(out), Tells(out, ev, t, i)
      PROVE  Tells(w \o out, ev, t, Len(w) + i)
  <2>1. PICK j \in 1 .. i : \E e \in out[j].events : e.task = t /\ Covers(e, ev[t])
    BY <1>4 DEF Tells
  <2>2. Len(w) + j \in 1 .. Len(w) + Len(out) /\ ~ (Len(w) + j =< Len(w))
    BY <1>1, <1>4
  <2>3. (w \o out)[Len(w) + j] = out[(Len(w) + j) - Len(w)]
    BY <1>2, <2>2
  <2>4. (Len(w) + j) - Len(w) = j /\ Len(w) + j \in 1 .. Len(w) + i
    BY <1>1
  <2> QED
    BY <2>1, <2>3, <2>4 DEF Tells
<1> QED
  BY <1>3, <1>4

\* out may follow w: its cursors claim only what w, its own frames up to there or
\* the device have.
FollowSafe(w, out, view, ev, sq, n) ==
    \A i \in 1 .. Len(out) :
        /\ out[i].cursor =< n
        /\ out[i].type # "events" => out[i].events = {}
        /\ \A e, f \in out[i].events : e.task = f.task => e = f
        /\ \A t \in Tasks : RowUpTo(ev, sq, t, out[i].cursor)
               => Told(w, view, ev, t, Len(w)) \/ Tells(out, ev, t, i)

\* Sending frames that may follow keeps a wire safe, and tells no less.
LEMMA Sent ==
    ASSUME NEW w \in Seq(Frame), NEW out \in Seq(Frame), NEW view, NEW ev, NEW sq, NEW n,
           WireSafe(w, view, ev, sq, n), FollowSafe(w, out, view, ev, sq, n)
    PROVE  /\ w \o out \in Seq(Frame)
           /\ WireSafe(w \o out, view, ev, sq, n)
           /\ \A t : Told(w, view, ev, t, Len(w)) \/ Tells(out, ev, t, Len(out))
                        => Told(w \o out, view, ev, t, Len(w \o out))
<1>1. Len(w) \in Nat /\ Len(out) \in Nat
  BY LenProperties
<1>2. /\ w \o out \in Seq(Frame) /\ Len(w \o out) = Len(w) + Len(out)
      /\ \A j \in 1 .. Len(w) + Len(out) :
            (w \o out)[j] = IF j =< Len(w) THEN w[j] ELSE out[j - Len(w)]
  BY ConcatProperties
<1>3. ASSUME NEW t, NEW i \in 1 .. Len(w), Told(w, view, ev, t, i)
      PROVE  Told(w \o out, view, ev, t, i)
  BY <1>1, <1>3, TellsConcat DEF Told
<1>4. ASSUME NEW t, NEW i \in 0 .. Len(out),
             Told(w, view, ev, t, Len(w)) \/ Tells(out, ev, t, i)
      PROVE  Told(w \o out, view, ev, t, Len(w) + i)
  <2>1. Len(w) =< Len(w) + i /\ Len(w) + i \in Nat /\ Len(w) =< Len(w)
    BY <1>1
  <2> QED
    BY <1>1, <1>4, <2>1, TellsConcat, TellsMore DEF Told
<1>5. WireSafe(w \o out, view, ev, sq, n)
  <2> SUFFICES ASSUME NEW i \in 1 .. Len(w \o out)
               PROVE  /\ (w \o out)[i].cursor =< n
                      /\ (w \o out)[i].type # "events" => (w \o out)[i].events = {}
                      /\ \A e, f \in (w \o out)[i].events : e.task = f.task => e = f
                      /\ \A t \in Tasks : RowUpTo(ev, sq, t, (w \o out)[i].cursor)
                            => Told(w \o out, view, ev, t, i)
    BY DEF WireSafe
  <2>1. CASE i =< Len(w)
    <3>1. i \in 1 .. Len(w) /\ (w \o out)[i] = w[i]
      BY <1>1, <1>2, <2>1
    <3> QED
      BY <1>3, <3>1 DEF WireSafe
  <2>2. CASE ~ (i =< Len(w))
    <3>1. PICK j \in 1 .. Len(out) : i = Len(w) + j /\ (w \o out)[i] = out[j]
      <4>1. i - Len(w) \in 1 .. Len(out) /\ i = Len(w) + (i - Len(w))
        BY <1>1, <1>2, <2>2
      <4> QED
        BY <1>2, <2>2, <4>1
    <3>2. j \in 0 .. Len(out)
      BY <1>1
    <3> QED
      BY <1>4, <3>1, <3>2 DEF FollowSafe
  <2> QED
    BY <2>1, <2>2
<1>6. Len(out) \in 0 .. Len(out)
  BY <1>1
<1> QED
  BY <1>2, <1>4, <1>5, <1>6

-----------------------------------------------------------------------------
(* sendEvents.                                                             *)

\* The last seq of some rows, 0 if there are none.
LEMMA LastSeqIs ==
    ASSUME NEW rows \in SUBSET Row
    PROVE  /\ LastSeq(rows) \in 0 .. MaxSeq
           /\ \A x \in rows : x.seq =< LastSeq(rows)
           /\ LastSeq(rows) = 0 \/ \E x \in rows : LastSeq(rows) = x.seq
<1> DEFINE seqs == {x.seq : x \in rows} \cup {0}
<1>1. seqs \in SUBSET (0 .. MaxSeq) /\ seqs # {} /\ MaxSeq \in Nat
  BY MaxSeqTyped DEF Row
<1>2. \E n \in seqs : \A s \in seqs : s =< n
  BY <1>1, GreatestBelow
<1>3. LastSeq(rows) \in seqs /\ \A s \in seqs : s =< LastSeq(rows)
  BY <1>2 DEF LastSeq
<1> QED
  BY <1>1, <1>3

\* Every row is in one of the chunks, and a row with a smaller seq in none that
\* comes later.
LEMMA ChunkOfRow ==
    ASSUME NEW rows \in SUBSET Row, IsFiniteSet(rows), NEW x \in rows
    PROVE  /\ ChunkCount(rows) \in Nat
           /\ \E j \in 1 .. ChunkCount(rows) :
                 /\ x \in Chunk(rows, j)
                 /\ \A i \in Nat : \A y \in Chunk(rows, i) : x.seq =< y.seq => j =< i
<1> DEFINE Below(y) == {z \in rows : z.seq < y.seq}
<1>1. ASSUME NEW y \in rows
      PROVE  Place(rows, y) \in Nat /\ Place(rows, y) < Cardinality(rows)
  <2>1. Below(y) \in SUBSET rows /\ y \notin Below(y) /\ y.seq \in Nat
    BY DEF Row
  <2>2. IsFiniteSet(Below(y)) /\ Cardinality(Below(y)) =< Cardinality(rows)
        /\ Cardinality(Below(y)) # Cardinality(rows)
    BY <2>1, FS_Subset
  <2>3. Cardinality(Below(y)) \in Nat /\ Cardinality(rows) \in Nat
    BY <2>2, FS_CardinalityType
  <2> QED
    BY <2>2, <2>3 DEF Place
<1>2. ASSUME NEW y \in rows, x.seq =< y.seq
      PROVE  Place(rows, x) =< Place(rows, y)
  <2>1. x.seq \in Nat /\ y.seq \in Nat /\ \A z \in rows : z.seq \in Nat
    BY DEF Row
  <2>2. Below(x) \in SUBSET Below(y) /\ Below(y) \in SUBSET rows
    BY <1>2, <2>1
  <2> QED
    BY <2>2, FS_Subset DEF Place
<1>3. ChunkSize \in Nat \ {0} /\ Cardinality(rows) \in Nat
  BY HubTyped, FS_CardinalityType
<1>4. PICK j \in 1 .. ((Cardinality(rows) + ChunkSize - 1) \div ChunkSize) :
          j = (Place(rows, x) \div ChunkSize) + 1
  BY <1>1, <1>3, InSomeChunk
<1>5. ChunkCount(rows) \in Nat
  <2>1. Cardinality(rows) + ChunkSize - 1 \in Nat
    BY <1>3
  <2> QED
    BY <1>3, <2>1, DivMonotonic DEF ChunkCount
<1>6. x \in Chunk(rows, j)
  <2>1. Place(rows, x) \div ChunkSize \in Nat
    BY <1>1, <1>3, DivMonotonic
  <2> QED
    BY <1>4, <2>1 DEF Chunk
<1>7. ASSUME NEW i \in Nat, NEW y \in Chunk(rows, i), x.seq =< y.seq
      PROVE  j =< i
  <2>1. y \in rows /\ Place(rows, y) \div ChunkSize = i - 1
    BY DEF Chunk
  <2>2. Place(rows, x) =< Place(rows, y) /\ Place(rows, x) \in Nat /\ Place(rows, y) \in Nat
    BY <1>1, <1>2, <1>7, <2>1
  <2>3. /\ Place(rows, x) \div ChunkSize =< Place(rows, y) \div ChunkSize
        /\ Place(rows, x) \div ChunkSize \in Nat
    BY <1>3, <2>2, DivMonotonic
  <2> QED
    BY <1>4, <2>1, <2>3
<1> QED
  BY <1>4, <1>5, <1>6, <1>7 DEF ChunkCount

\* The frames of a read: each claims no row that is not in it, in one before it,
\* or told already; and together they tell all there is to tell.
LEMMA ChunksSafe ==
    ASSUME NEW rows \in SUBSET Row, NEW last \in 0 .. MaxSeq, RowsSafe(rows, last),
           NEW w \in Seq(Frame), NEW view,
           NEW ev \in [Tasks -> Events \cup {NoEvent}], NEW sq \in [Tasks -> 0 .. MaxSeq],
           NEW n \in Nat, last =< n, RowsFiled(ev, sq, n),
           \A t \in Tasks : RowUpTo(ev, sq, t, last) =>
               Told(w, view, ev, t, Len(w)) \/ [ev |-> ev[t], seq |-> sq[t]] \in rows
    PROVE  LET out == Chunks(rows, last) IN
           /\ out \in Seq(Frame)
           /\ FollowSafe(w, out, view, ev, sq, n)
           /\ \A t \in Tasks : RowUpTo(ev, sq, t, last) =>
                 Told(w, view, ev, t, Len(w)) \/ Tells(out, ev, t, Len(out))
<1> DEFINE out == Chunks(rows, last)
           count == ChunkCount(rows)
<1>1. count \in Nat
  <2>1. Cardinality(rows) + ChunkSize - 1 \in Nat /\ ChunkSize \in Nat \ {0}
    BY HubTyped, FS_CardinalityType DEF RowsSafe
  <2> QED
    BY <2>1, DivMonotonic DEF ChunkCount
<1>2. \A i \in 1 .. count :
         /\ out[i].type = "events"
         /\ out[i].events = {x.ev : x \in Chunk(rows, i)}
         /\ out[i].cursor = IF i = count THEN last ELSE LastSeq(Chunk(rows, i))
  BY DEF Chunks
<1>3. \A i : Chunk(rows, i) \in SUBSET rows /\ Chunk(rows, i) \in SUBSET Row
  BY DEF Chunk
<1>4. \A i \in 1 .. count : out[i] \in Frame
  <2> SUFFICES ASSUME NEW i \in 1 .. count PROVE out[i] \in Frame
    OBVIOUS
  <2>1. {x.ev : x \in Chunk(rows, i)} \in SUBSET Events
    BY <1>3 DEF Row
  <2>2. LastSeq(Chunk(rows, i)) \in 0 .. MaxSeq
    BY <1>3, LastSeqIs
  <2>3. out[i] = [type |-> "events", events |-> {x.ev : x \in Chunk(rows, i)},
                  cursor |-> IF i = count THEN last ELSE LastSeq(Chunk(rows, i))]
    BY DEF Chunks
  <2> QED
    BY <2>1, <2>2, <2>3 DEF Frame
<1>5. out \in Seq(Frame) /\ Len(out) = count
  <2>1. out \in [1 .. count -> Frame]
    BY <1>4 DEF Chunks
  <2> HIDE DEF out
  <2> QED
    BY <1>1, <2>1
<1>6. ASSUME NEW t \in Tasks, NEW i \in 1 .. count, RowUpTo(ev, sq, t, out[i].cursor)
      PROVE  Told(w, view, ev, t, Len(w)) \/ Tells(out, ev, t, i)
  <2> DEFINE x == [ev |-> ev[t], seq |-> sq[t]]
  <2>0. RowUpTo(ev, sq, t, last) /\ ev[t] \in Events /\ ev[t].task = t /\ sq[t] > 0
        /\ sq[t] \in Nat
    <3>1. LastSeq(Chunk(rows, i)) =< last /\ LastSeq(Chunk(rows, i)) \in Nat
      BY <1>3, LastSeqIs DEF RowsSafe
    <3>2. out[i].cursor =< last /\ out[i].cursor \in Nat
      BY <1>2, <3>1
    <3> QED
      BY <1>6, <3>2 DEF RowUpTo, RowsFiled
  <2>1. CASE x \in rows
    <3>1. PICK j \in 1 .. count :
              /\ x \in Chunk(rows, j)
              /\ \A m \in Nat : \A y \in Chunk(rows, m) : x.seq =< y.seq => j =< m
      BY <2>1, ChunkOfRow DEF RowsSafe
    <3>2. j =< i
      <4>1. CASE i = count
        BY <1>1, <4>1
      <4>2. CASE i # count
        <5>1. out[i].cursor = LastSeq(Chunk(rows, i)) /\ sq[t] =< out[i].cursor
          BY <1>2, <1>6, <4>2 DEF RowUpTo
        <5>2. PICK y \in Chunk(rows, i) : LastSeq(Chunk(rows, i)) = y.seq
          BY <1>3, <2>0, <5>1, LastSeqIs
        <5> QED
          BY <3>1, <5>1, <5>2
      <4> QED
        BY <4>1, <4>2
    <3>3. ev[t] \in out[j].events /\ Covers(ev[t], ev[t])
      BY <1>2, <2>0, <3>1, CoversReflexive
    <3> QED
      BY <2>0, <3>2, <3>3 DEF Tells
  <2> QED
    BY <2>0, <2>1
<1>7. FollowSafe(w, out, view, ev, sq, n)
  <2> SUFFICES ASSUME NEW i \in 1 .. count
               PROVE  /\ out[i].cursor =< n
                      /\ out[i].type # "events" => out[i].events = {}
                      /\ \A e, f \in out[i].events : e.task = f.task => e = f
    BY <1>5, <1>6 DEF FollowSafe
  <2>1. out[i].cursor =< n
    <3>1. LastSeq(Chunk(rows, i)) =< last /\ LastSeq(Chunk(rows, i)) \in Nat
      BY <1>3, LastSeqIs DEF RowsSafe
    <3> QED
      BY <1>2, <3>1
  <2>2. \A e, f \in out[i].events : e.task = f.task => e = f
    BY <1>2, <1>3 DEF RowsSafe
  <2> QED
    BY <1>2, <2>1, <2>2
<1>8. ASSUME NEW t \in Tasks, RowUpTo(ev, sq, t, last)
      PROVE  Told(w, view, ev, t, Len(w)) \/ Tells(out, ev, t, Len(out))
  <2>1. CASE count = 0
    <3>1. [ev |-> ev[t], seq |-> sq[t]] \notin rows
      BY <2>1, ChunkOfRow DEF RowsSafe
    <3> QED
      BY <1>8, <3>1
  <2>2. CASE count # 0
    <3>1. count \in 1 .. count /\ out[count].cursor = last
      BY <1>1, <1>2, <2>2
    <3> QED
      BY <1>5, <1>6, <1>8, <3>1
  <2> QED
    BY <2>1, <2>2
<1> QED
  BY <1>5, <1>7, <1>8

-----------------------------------------------------------------------------
(* The pump.                                                               *)

\* What a read finds: each row after the cursor, once, and up to nextCursor
\* nothing else that is after the cursor.
LEMMA ReadAfterIs ==
    ASSUME StoreTypeOK, NEW a \in Accounts, NEW c \in 0 .. MaxSeq, NEW n \in 0 .. MaxSeq,
           c =< n, RowsFiled(event[a], seq[a], n)
    PROVE  LET r == ReadAfter(a, c) IN
           /\ r \in Read /\ r # NoRead /\ r.nextCursor \in c .. n
           /\ RowsSafe(r.rows, r.nextCursor)
           /\ \A t \in Tasks : event[a][t] # NoEvent /\ seq[a][t] > c =>
                 /\ seq[a][t] =< r.nextCursor
                 /\ [ev |-> event[a][t], seq |-> seq[a][t]] \in r.rows
<1> DEFINE r == ReadAfter(a, c)
           row == [t \in TasksAfter(a, c) |-> [ev |-> event[a][t], seq |-> seq[a][t]]]
<1>1. PICK m \in c .. MaxSeq :
          /\ QueryEventsAfter(a, c) =
                {[events |-> {event[a][t] : t \in TasksAfter(a, c)}, nextCursor |-> m]}
          /\ \A t \in TasksAfter(a, c) : seq[a][t] =< m
          /\ m = c \/ \E t \in TasksAfter(a, c) : m = seq[a][t]
  BY QueryAnswer
<1>2. (CHOOSE ans \in QueryEventsAfter(a, c) : TRUE).nextCursor = m
  <2>1. PICK rec : rec = [events |-> {event[a][t] : t \in TasksAfter(a, c)}, nextCursor |-> m]
    OBVIOUS
  <2>2. QueryEventsAfter(a, c) = {rec}
    BY <1>1, <2>1
  <2>3. (CHOOSE ans \in {rec} : TRUE) = rec
    OBVIOUS
  <2>4. (CHOOSE ans \in QueryEventsAfter(a, c) : TRUE) = rec
    BY <2>2, <2>3
  <2>5. rec.nextCursor = m
    BY <2>1
  <2> QED
    BY <2>4, <2>5
<1>3. r = [rows |-> {row[t] : t \in TasksAfter(a, c)}, nextCursor |-> m]
  BY <1>2 DEF ReadAfter
<1>4. /\ TasksAfter(a, c) \in SUBSET Tasks
      /\ \A t \in TasksAfter(a, c) :
            /\ event[a][t] \in Events /\ event[a][t].task = t
            /\ seq[a][t] \in 1 .. MaxSeq /\ seq[a][t] =< n
            /\ row[t] \in Row
  BY DEF TasksAfter, StoreTypeOK, RowsFiled, Row
<1>5. m \in c .. n
  <2>1. CASE m = c
    BY <2>1
  <2>2. CASE m # c
    <3>1. PICK t \in TasksAfter(a, c) : m = seq[a][t]
      BY <1>1, <2>2
    <3>2. seq[a][t] =< n
      BY <1>4
    <3> QED
      BY <1>1, <3>1, <3>2
  <2> QED
    BY <2>1, <2>2
<1>6. IsFiniteSet({row[t] : t \in TasksAfter(a, c)})
  <2>1. IsFiniteSet(TasksAfter(a, c))
    BY <1>4, HubTyped, FS_Subset
  <2>2. DOMAIN row = TasksAfter(a, c)
    OBVIOUS
  <2> HIDE DEF row
  <2> QED
    BY <2>1, <2>2, FiniteImage
<1>7. {row[t] : t \in TasksAfter(a, c)} \in SUBSET Row
  BY <1>4
<1>8. r \in Read /\ r # NoRead
  <2>1. m \in 0 .. MaxSeq /\ m # -1
    BY <1>1
  <2> QED
    BY <1>3, <1>7, <2>1 DEF Read, NoRead
<1>9. RowsSafe(r.rows, r.nextCursor)
  <2>1. \A x \in r.rows : x.seq =< m
    BY <1>1, <1>3
  <2>2. \A x, y \in r.rows : x.ev.task = y.ev.task => x = y
    BY <1>3, <1>4
  <2> QED
    BY <1>3, <1>6, <2>1, <2>2 DEF RowsSafe
<1>10. ASSUME NEW t \in Tasks, event[a][t] # NoEvent, seq[a][t] > c
       PROVE  /\ seq[a][t] =< r.nextCursor
              /\ [ev |-> event[a][t], seq |-> seq[a][t]] \in r.rows
  BY <1>1, <1>3, <1>10 DEF TasksAfter
<1> QED
  BY <1>3, <1>5, <1>8, <1>9, <1>10

\* The two outcomes of the decision point: nothing to do, or time to let others
\* run; or another read.
Stops(k) == ~k.pending \/ k.rounds >= MaxPumpRounds

LEMMA DecideStops ==
    ASSUME NEW k \in Connection, NEW out, NEW a, Stops(k),
           NEW s, s = Decide([k |-> k, out |-> out], a)
    PROVE  /\ s.k \in Connection
           /\ s.k.state = "live" /\ Quiet(s.k)
           /\ s.k.cursor = k.cursor /\ s.k.pending = k.pending
           /\ s.k.suppress = k.suppress /\ s.k.withheld = k.withheld
           /\ k.pending => s.k.immediate
           /\ s.out = IF k.state = "draining"
                      THEN Append(out, [type |-> "live", events |-> {}, cursor |-> k.cursor])
                      ELSE out
<1>0. PICK b \in BOOLEAN : b = (k.immediate \/ k.pending)
  OBVIOUS
<1>1. PICK y : y = [k EXCEPT !.state = "live", !.pumping = FALSE, !.rounds = 0,
                          !.immediate = b]
  OBVIOUS
<1> DEFINE sent == IF k.state = "draining"
                   THEN Append(out, [type |-> "live", events |-> {}, cursor |-> k.cursor])
                   ELSE out
<1>2. Decide([k |-> k, out |-> out], a) = [k |-> y, out |-> sent]
  BY <1>0, <1>1 DEF Decide, Stops
<1> HIDE DEF sent
<1>3. /\ y \in Connection
      /\ y.state = "live" /\ ~y.pumping /\ y.rounds = 0
      /\ y.cursor = k.cursor /\ y.pending = k.pending
      /\ y.suppress = k.suppress /\ y.withheld = k.withheld
      /\ y.immediate = b
  <2>1. 0 \in 0 .. MaxPumpRounds /\ FALSE \in BOOLEAN /\ "live" \in States
    BY HubTyped DEF States
  <2>2. y \in Connection
    BY <1>1, <2>1 DEF Connection
  <2>3. y.state = "live" /\ y.rounds = 0 /\ y.pumping = FALSE
    BY <1>1 DEF Connection
  <2>4. /\ y.cursor = k.cursor /\ y.pending = k.pending
        /\ y.suppress = k.suppress /\ y.withheld = k.withheld
    BY <1>1 DEF Connection
  <2>5. y.immediate = b
    BY <1>1 DEF Connection
  <2> QED
    BY <2>2, <2>3, <2>4, <2>5
<1>4. k.pending => y.immediate
  BY <1>0, <1>3
<1>5. Quiet(y)
  BY <1>3 DEF Quiet
<1>7. s.k = y /\ s.out = sent
  BY <1>2
<1>8. Quiet(s.k) /\ s.k \in Connection /\ (k.pending => s.k.immediate)
  BY <1>3, <1>4, <1>5, <1>7, Zenon
<1>9. /\ s.k.state = "live"
      /\ s.k.cursor = k.cursor /\ s.k.pending = k.pending
      /\ s.k.suppress = k.suppress /\ s.k.withheld = k.withheld
  BY <1>3, <1>7
<1> QED
  BY <1>7, <1>8, <1>9, Zenon DEF sent

LEMMA DecideReads ==
    ASSUME NEW k \in Connection, NEW out, NEW a, ~Stops(k), ReadAfter(a, k.cursor) \in Read,
           NEW s, s = Decide([k |-> k, out |-> out], a)
    PROVE  /\ s.k \in Connection
           /\ s.k.state = k.state /\ (k.pumping => s.k.pumping)
           /\ s.k.cursor = k.cursor /\ ~s.k.pending
           /\ s.k.suppress = {} /\ s.k.withheld = k.suppress
           /\ s.k.generation = s.k.readGeneration /\ s.k.generation \in Nat
           /\ s.k.read = ReadAfter(a, k.cursor)
           /\ s.out = out
<1>1. PICK y : y = [k EXCEPT !.rounds = @ + 1, !.pending = FALSE, !.suppress = {},
                          !.withheld = k.suppress, !.readGeneration = k.generation,
                          !.read = ReadAfter(a, k.cursor)]
  OBVIOUS
<1>2. Decide([k |-> k, out |-> out], a) = [k |-> y, out |-> out]
  BY <1>1 DEF Decide, Stops
<1>3. k.rounds + 1 \in 0 .. MaxPumpRounds
  BY HubTyped DEF Stops, Connection
<1>4. /\ y \in Connection
      /\ y.state = k.state /\ (k.pumping => y.pumping)
      /\ y.cursor = k.cursor /\ ~y.pending
      /\ y.suppress = {} /\ y.withheld = k.suppress
      /\ y.generation = y.readGeneration /\ y.generation \in Nat
      /\ y.read = ReadAfter(a, k.cursor)
  BY <1>1, <1>3 DEF Connection
<1> QED
  BY <1>2, <1>4

\* A live frame may follow what the cursor it carries has behind it.
LEMMA LiveFollows ==
    ASSUME NEW w \in Seq(Frame), NEW out \in Seq(Frame), NEW view, NEW ev, NEW sq, NEW n,
           FollowSafe(w, out, view, ev, sq, n), NEW c \in 0 .. MaxSeq, c =< n,
           \A t \in Tasks : RowUpTo(ev, sq, t, c) =>
               Told(w, view, ev, t, Len(w)) \/ Tells(out, ev, t, Len(out))
    PROVE  LET more == Append(out, [type |-> "live", events |-> {}, cursor |-> c]) IN
           /\ more \in Seq(Frame)
           /\ FollowSafe(w, more, view, ev, sq, n)
           /\ \A t : Tells(out, ev, t, Len(out)) => Tells(more, ev, t, Len(more))
<1> DEFINE f == [type |-> "live", events |-> {}, cursor |-> c]
           more == Append(out, f)
<1>1. f \in Frame
  BY DEF Frame
<1>2. Len(out) \in Nat
  BY LenProperties
<1>3. /\ more \in Seq(Frame) /\ Len(more) = Len(out) + 1
      /\ \A i \in 1 .. Len(out) : more[i] = out[i]
      /\ more[Len(out) + 1] = f
  <2> HIDE DEF f
  <2> QED
    BY <1>1, AppendProperties
<1> HIDE DEF more
<1>4. ASSUME NEW t, NEW i \in 1 .. Len(out), NEW j \in Nat, i =< j, Tells(out, ev, t, i)
      PROVE  Tells(more, ev, t, j)
  <2>1. PICK l \in 1 .. i : \E e \in out[l].events : e.task = t /\ Covers(e, ev[t])
    BY <1>4 DEF Tells
  <2>2. l \in 1 .. Len(out) /\ l \in 1 .. j
    BY <1>2, <1>4
  <2>3. more[l] = out[l]
    BY <1>3, <2>2
  <2> QED
    BY <2>1, <2>2, <2>3 DEF Tells
<1>5. ASSUME NEW t, Tells(out, ev, t, Len(out))
      PROVE  Tells(more, ev, t, Len(more))
  <2>1. Len(out) \in 1 .. Len(out)
    BY <1>2, <1>5 DEF Tells
  <2> QED
    BY <1>2, <1>3, <1>4, <1>5, <2>1
<1>6. ASSUME NEW i \in 1 .. Len(more)
      PROVE  /\ more[i].cursor =< n
             /\ more[i].type # "events" => more[i].events = {}
             /\ \A e, g \in more[i].events : e.task = g.task => e = g
             /\ \A t \in Tasks : RowUpTo(ev, sq, t, more[i].cursor)
                    => Told(w, view, ev, t, Len(w)) \/ Tells(more, ev, t, i)
  <2>1. CASE i \in 1 .. Len(out)
    <3>1. more[i] = out[i] /\ i \in Nat /\ i =< i
      BY <1>3, <2>1
    <3> QED
      BY <1>4, <2>1, <3>1 DEF FollowSafe
  <2>2. CASE i = Len(more)
    <3>1. more[i].cursor = c /\ more[i].events = {}
      BY <1>3, <2>2
    <3> QED
      BY <1>5, <2>2, <3>1
  <2> QED
    BY <1>2, <1>3, <2>1, <2>2
<1>7. FollowSafe(w, more, view, ev, sq, n)
  BY <1>6 DEF FollowSafe
<1> QED
  BY <1>3, <1>5, <1>7 DEF more

\* Wherever the pump decides with a cursor that is safe, it leaves the connection
\* and the wire safe: at rest with nothing pending or put off, or with a read
\* under way that begins where the cursor is.
LEMMA DecideSafe ==
    ASSUME StoreTypeOK, NEW a \in Accounts, NEW n \in 0 .. MaxSeq,
           RowsFiled(event[a], seq[a], n), NEW view, NEW un,
           NEW k \in Connection, NEW w \in Seq(Frame), NEW out \in Seq(Frame),
           k.state \in Subscribed, k.pumping,
           WireSafe(w, view, event[a], seq[a], n),
           FollowSafe(w, out, view, event[a], seq[a], n),
           k.cursor =< n,
           \A t \in Tasks : RowUpTo(event[a], seq[a], t, k.cursor) =>
               Told(w, view, event[a], t, Len(w)) \/ Tells(out, event[a], t, Len(out)),
           OwnSafe(k, view),
           ~k.pending => CaughtUp(k, event[a], seq[a], un),
           NEW s, s = Decide([k |-> k, out |-> out], a)
    PROVE  /\ s.k \in Connection /\ s.k.state \in Subscribed
           /\ w \o s.out \in Seq(Frame)
           /\ WireSafe(w \o s.out, view, event[a], seq[a], n)
           /\ ConnSafe(s.k, w \o s.out, view, event[a], seq[a], n, un)
<1> DEFINE ev == event[a]
           sq == seq[a]
<1>1. k.cursor \in 0 .. MaxSeq
  BY DEF Connection
<1>2. /\ s.out \in Seq(Frame)
      /\ FollowSafe(w, s.out, view, ev, sq, n)
      /\ \A t \in Tasks : RowUpTo(ev, sq, t, k.cursor) =>
            Told(w, view, ev, t, Len(w)) \/ Tells(s.out, ev, t, Len(s.out))
      /\ s.k \in Connection /\ s.k.state \in Subscribed /\ s.k.cursor = k.cursor
      /\ OwnSafe(s.k, view)
      /\ \/ Resting(s.k, ev, sq, un)
         \/ /\ s.k.pumping /\ ~s.k.pending /\ s.k.read = ReadAfter(a, k.cursor)
            /\ s.k.generation = s.k.readGeneration /\ s.k.generation \in Nat
  <2>1. CASE Stops(k)
    <3>1. PICK more : more = Append(out, [type |-> "live", events |-> {}, cursor |-> k.cursor])
      OBVIOUS
    <3>2. /\ more \in Seq(Frame)
          /\ FollowSafe(w, more, view, ev, sq, n)
          /\ \A t : Tells(out, ev, t, Len(out)) => Tells(more, ev, t, Len(more))
      BY <1>1, <3>1, LiveFollows
    <3>3. /\ s.k \in Connection
          /\ s.k.state = "live" /\ Quiet(s.k)
          /\ s.k.cursor = k.cursor /\ s.k.pending = k.pending
          /\ s.k.suppress = k.suppress /\ s.k.withheld = k.withheld
          /\ k.pending => s.k.immediate
          /\ s.out = IF k.state = "draining"
                     THEN Append(out, [type |-> "live", events |-> {}, cursor |-> k.cursor])
                     ELSE out
      BY <2>1, DecideStops
    <3>6. s.out = more \/ s.out = out
      BY <3>1, <3>3, Zenon
    <3>4. Resting(s.k, ev, sq, un)
      BY <3>3 DEF Resting, CaughtUp
    <3>5. OwnSafe(s.k, view) /\ s.k.state \in Subscribed
      BY <3>3 DEF OwnSafe, Subscribed
    <3> QED
      BY <3>2, <3>3, <3>4, <3>5, <3>6
  <2>2. CASE ~Stops(k)
    <3>1. ReadAfter(a, k.cursor) \in Read
      BY <1>1, ReadAfterIs
    <3>2. /\ s.k \in Connection
          /\ s.k.state = k.state /\ (k.pumping => s.k.pumping)
          /\ s.k.cursor = k.cursor /\ ~s.k.pending
          /\ s.k.suppress = {} /\ s.k.withheld = k.suppress
          /\ s.k.generation = s.k.readGeneration /\ s.k.generation \in Nat
          /\ s.k.read = ReadAfter(a, k.cursor)
          /\ s.out = out
      BY <2>2, <3>1, DecideReads
    <3>3. OwnSafe(s.k, view)
      BY <3>2 DEF OwnSafe
    <3> QED
      BY <3>2, <3>3
  <2> QED
    BY <2>1, <2>2
<1>3. PICK v : v = w \o s.out
  OBVIOUS
<1>4. /\ v \in Seq(Frame) /\ WireSafe(v, view, ev, sq, n)
      /\ \A t : Told(w, view, ev, t, Len(w)) \/ Tells(s.out, ev, t, Len(s.out))
                    => Told(v, view, ev, t, Len(v))
  BY <1>2, <1>3, Sent
<1>5. CursorSafe(s.k, v, view, ev, sq, n)
  BY <1>2, <1>4 DEF CursorSafe
<1>6. ASSUME s.k.pumping, ~s.k.pending, s.k.read = ReadAfter(a, k.cursor),
             s.k.generation = s.k.readGeneration, s.k.generation \in Nat
      PROVE  Reading(s.k, v, view, ev, sq, n, un)
  <2>1. PICK r : r = ReadAfter(a, k.cursor)
    OBVIOUS
  <2>2. /\ r \in Read /\ r # NoRead /\ r.nextCursor \in k.cursor .. n
        /\ RowsSafe(r.rows, r.nextCursor)
        /\ \A t \in Tasks : ev[t] # NoEvent /\ sq[t] > k.cursor =>
              /\ sq[t] =< r.nextCursor
              /\ [ev |-> ev[t], seq |-> sq[t]] \in r.rows
    BY <1>1, <2>1, ReadAfterIs
  <2>3. \A t \in Tasks : sq[t] \in Nat
    BY DEF StoreTypeOK
  <2>4. ReadSafe(s.k, v, view, ev, sq, n)
    <3> SUFFICES ASSUME NEW t \in Tasks, RowUpTo(ev, sq, t, r.nextCursor)
                 PROVE  \/ Told(v, view, ev, t, Len(v))
                        \/ [ev |-> ev[t], seq |-> sq[t]] \in r.rows
      BY <1>6, <2>1, <2>2 DEF ReadSafe
    <3>1. CASE sq[t] > k.cursor
      BY <2>2, <3>1 DEF RowUpTo
    <3>2. CASE ~ (sq[t] > k.cursor)
      <4>1. RowUpTo(ev, sq, t, k.cursor)
        BY <1>1, <2>3, <3>2 DEF RowUpTo
      <4> QED
        BY <1>2, <1>5, <4>1 DEF CursorSafe
    <3> QED
      BY <3>1, <3>2
  <2>5. WillCatchUp(s.k, ev, sq, un)
    BY <1>2, <1>6, <2>1, <2>2 DEF WillCatchUp
  <2> QED
    BY <2>4, <2>5 DEF Reading
<1>7. ConnSafe(s.k, v, view, ev, sq, n, un)
  <2>1. Resting(s.k, ev, sq, un) => ~s.k.pumping
    BY DEF Resting, Quiet
  <2> QED
    BY <1>2, <1>5, <1>6, <2>1 DEF ConnSafe
<1> QED
  BY <1>2, <1>3, <1>4, <1>7

\* A call of the pump, with something pending or nothing owed.
LEMMA PumpSafe ==
    ASSUME StoreTypeOK, NEW a \in Accounts, NEW n \in 0 .. MaxSeq,
           RowsFiled(event[a], seq[a], n), NEW view, NEW un,
           NEW k \in Connection, NEW w \in Seq(Frame), k.state \in Subscribed,
           WireSafe(w, view, event[a], seq[a], n),
           CursorSafe(k, w, view, event[a], seq[a], n),
           OwnSafe(k, view),
           k.pumping => Reading(k, w, view, event[a], seq[a], n, un),
           ~k.pumping /\ ~k.pending => CaughtUp(k, event[a], seq[a], un),
           NEW s, s = Pump(k, a)
    PROVE  /\ s.k \in Connection /\ s.k.state \in Subscribed
           /\ w \o s.out \in Seq(Frame)
           /\ WireSafe(w \o s.out, view, event[a], seq[a], n)
           /\ ConnSafe(s.k, w \o s.out, view, event[a], seq[a], n, un)
<1>1. CASE k.pumping
  <2>1. s = [k |-> k, out |-> <<>>]
    BY <1>1 DEF Pump
  <2>2. s.k = k /\ s.out = <<>>
    BY <2>1
  <2>3. w \o <<>> = w
    BY ConcatProperties, ConcatEmptySeq
  <2>4. ConnSafe(k, w, view, event[a], seq[a], n, un)
    BY <1>1 DEF ConnSafe
  <2> QED
    BY <2>2, <2>3, <2>4
<1>2. CASE ~k.pumping
  <2>1. PICK y : y = [k EXCEPT !.pumping = TRUE]
    OBVIOUS
  <2>2. s = Decide([k |-> y, out |-> <<>>], a)
    BY <1>2, <2>1 DEF Pump
  <2>3. /\ y \in Connection /\ y.pumping /\ y.state = k.state /\ y.cursor = k.cursor
        /\ y.suppress = k.suppress /\ y.withheld = k.withheld
        /\ y.pending = k.pending
    BY <2>1 DEF Connection
  <2>4. OwnSafe(y, view)
    BY <2>3 DEF OwnSafe
  <2>5. ~y.pending => CaughtUp(y, event[a], seq[a], un)
    BY <1>2, <2>3 DEF CaughtUp
  <2>6. <<>> \in Seq(Frame) /\ FollowSafe(w, <<>>, view, event[a], seq[a], n)
    <3>1. <<>> \in Seq(Frame) /\ Len(<<>>) = 0
      BY EmptySeq
    <3>2. 1 .. Len(<<>>) = {}
      BY <3>1
    <3> QED
      BY <3>1, <3>2 DEF FollowSafe
  <2>7. y.cursor =< n /\ \A t \in Tasks : RowUpTo(event[a], seq[a], t, y.cursor) =>
            Told(w, view, event[a], t, Len(w)) \/ Tells(<<>>, event[a], t, Len(<<>>))
    BY <2>3 DEF CursorSafe
  <2>8. PICK none \in Seq(Frame) : none = <<>>
    BY <2>6
  <2>9. /\ y.state \in Subscribed
        /\ FollowSafe(w, none, view, event[a], seq[a], n)
        /\ \A t \in Tasks : RowUpTo(event[a], seq[a], t, y.cursor) =>
            Told(w, view, event[a], t, Len(w)) \/ Tells(none, event[a], t, Len(none))
        /\ s = Decide([k |-> y, out |-> none], a)
    BY <2>2, <2>3, <2>6, <2>7, <2>8
  <2> QED
    BY <2>3, <2>4, <2>5, <2>7, <2>9, DecideSafe
<1> QED
  BY <1>1, <1>2

-----------------------------------------------------------------------------
(* What stays true when only some of the state changes.                    *)

Registered == {"authenticated", "draining", "live"}

\* Types and invariants of what a step about c is about.
LEMMA AboutConn ==
    ASSUME HubInv, NEW c \in Conns
    PROVE  /\ Acct(c) \in Accounts /\ DeviceOf[c] \in Devices
           /\ conn[c] \in Connection /\ wire[c] \in Seq(Frame) /\ State(c) \in States
           /\ conn[c].cursor \in 0 .. MaxSeq
           /\ device[DeviceOf[c]] \in Device
           /\ StoreTypeOK /\ counter[Acct(c)] \in 0 .. MaxSeq
           /\ RowsFiled(event[Acct(c)], seq[Acct(c)], counter[Acct(c)])
           /\ Safe(c, conn[c], wire[c])
<1>1. Acct(c) \in Accounts /\ DeviceOf[c] \in Devices
  BY HubTyped DEF Acct
<1>2. StoreTypeOK /\ counter[Acct(c)] \in 0 .. MaxSeq
  BY <1>1 DEF HubInv, TypeOK, PushTypeOK, StoreTypeOK
<1>3. /\ conn[c] \in Connection /\ wire[c] \in Seq(Frame)
      /\ device[DeviceOf[c]] \in Device
  BY <1>1 DEF HubInv, TypeOK
<1>4. State(c) \in States /\ conn[c].cursor \in 0 .. MaxSeq
  BY <1>3 DEF Connection, State
<1> QED
  BY <1>1, <1>2, <1>3, <1>4 DEF HubInv, ConnInv

\* Safe is about the store, the devices and the announcements.
LEMMA SafeSame ==
    ASSUME UNCHANGED <<storeVars, device, unannounced>>,
           \A c \in Conns : Safe(c, conn'[c], wire'[c])
    PROVE  ConnInv'
BY DEF ConnInv, Safe, Acct, storeVars

\* A step that leaves the rows and the devices alone.
LEMMA ServerStep ==
    ASSUME HubInv, UNCHANGED <<storeVars, device, scope>>,
           PushInv', \A q \in Requests : OriginSafe(q)',
           origin' \in [Requests -> Conns \cup {"rest"}],
           unannounced' \in [Accounts -> SUBSET Events],
           conn' \in [Conns -> Connection], wire' \in [Conns -> Seq(Frame)], ConnInv',
           byAccount' \in [Accounts -> SUBSET Conns], RegistryFinite'
    PROVE  HubInv'
<1>1. TypeOK'
  BY DEF HubInv, TypeOK, PushInv
<1>2. /\ \A a \in Accounts : RowsFiled(event[a], seq[a], counter[a])'
      /\ \A d \in Devices : DeviceSafe(d)'
  BY DEF HubInv, RowsFiled, DeviceSafe, RowUpTo, storeVars
<1> QED
  BY <1>1, <1>2 DEF HubInv

\* A step of the connections alone.
LEMMA ConnStep ==
    ASSUME HubInv, UNCHANGED <<storeVars, req, origin, device, unannounced, scope>>,
           conn' \in [Conns -> Connection], wire' \in [Conns -> Seq(Frame)],
           byAccount' \in [Accounts -> SUBSET Conns], RegistryFinite',
           \A c \in Conns : Safe(c, conn'[c], wire'[c])
    PROVE  HubInv'
<1>1. PushInv'
  BY StutterPushInv DEF HubInv, pushVars
<1>2. ConnInv'
  BY SafeSame
<1>3. \A q \in Requests : OriginSafe(q)'
  BY DEF HubInv, OriginSafe
<1>4. /\ origin' \in [Requests -> Conns \cup {"rest"}]
      /\ unannounced' \in [Accounts -> SUBSET Events]
  BY DEF HubInv, TypeOK
<1> QED
  BY <1>1, <1>2, <1>3, <1>4, ServerStep

\* The registry stays exact when connections that are in it stay in it.
LEMMA RegistrySame ==
    ASSUME HubInv, UNCHANGED byAccount,
           \A c \in Conns : conn'[c].state \in Registered <=> conn[c].state \in Registered
    PROVE  RegistryFinite' /\ byAccount' \in [Accounts -> SUBSET Conns]
<1>1. RegistryExact'
  <2> SUFFICES ASSUME NEW a \in Accounts
               PROVE  /\ byAccount'[a] = {c \in Conns : /\ Acct(c)' = a
                                                       /\ State(c)' \in Registered}
                      /\ Cardinality(byAccount'[a]) =< MaxConnections
    BY DEF RegistryExact, Registered
  <2>1. /\ byAccount[a] = {c \in Conns : Acct(c) = a /\ State(c) \in Registered}
        /\ Cardinality(byAccount[a]) =< MaxConnections
    BY DEF HubInv, RegistryFinite, RegistryExact, Registered
  <2> QED
    BY <2>1 DEF Acct, State
<1> QED
  BY <1>1 DEF HubInv, RegistryFinite, TypeOK

\* And when those that close leave it.
LEMMA RegistryLess ==
    ASSUME HubInv, NEW cs \in SUBSET Conns,
           byAccount' = [a \in Accounts |-> byAccount[a] \ cs],
           \A c \in cs : conn'[c].state = "closed",
           \A c \in Conns \ cs : conn'[c] = conn[c]
    PROVE  RegistryFinite' /\ byAccount' \in [Accounts -> SUBSET Conns]
<1> SUFFICES ASSUME NEW a \in Accounts
             PROVE  /\ byAccount'[a] = {c \in Conns : /\ Acct(c)' = a
                                                     /\ State(c)' \in Registered}
                    /\ Cardinality(byAccount'[a]) =< MaxConnections
                    /\ IsFiniteSet(byAccount'[a])
                    /\ byAccount'[a] \in SUBSET Conns
  BY DEF RegistryFinite, RegistryExact, Registered
<1>1. /\ byAccount[a] = {c \in Conns : Acct(c) = a /\ State(c) \in Registered}
      /\ Cardinality(byAccount[a]) =< MaxConnections
      /\ IsFiniteSet(byAccount[a])
  BY DEF HubInv, RegistryFinite, RegistryExact, Registered
<1>2. byAccount'[a] = byAccount[a] \ cs
  OBVIOUS
<1>3. byAccount'[a] = {c \in Conns : Acct(c)' = a /\ State(c)' \in Registered}
  BY <1>1, <1>2 DEF Acct, State, Registered
<1>4. byAccount'[a] \in SUBSET byAccount[a]
  BY <1>2
<1>5. IsFiniteSet(byAccount'[a]) /\ Cardinality(byAccount'[a]) =< Cardinality(byAccount[a])
  BY <1>1, <1>4, FS_Subset
<1>6. Cardinality(byAccount'[a]) \in Nat /\ Cardinality(byAccount[a]) \in Nat
      /\ MaxConnections \in Nat
  BY <1>1, <1>5, FS_CardinalityType, HubTyped
<1> QED
  BY <1>1, <1>3, <1>4, <1>5, <1>6

\* What a torn down connection is.
Gone(pumping) == [NewConnection EXCEPT !.state = "closed", !.pumping = pumping]

LEMMA NewIsConnection ==
    /\ NewConnection \in Connection
    /\ \A b \in BOOLEAN : Gone(b) \in Connection /\ Gone(b).state = "closed"
    /\ [NewConnection EXCEPT !.state = "closed"] \in Connection
    /\ [NewConnection EXCEPT !.state = "closed"].state = "closed"
<1>1. /\ 0 \in 0 .. MaxSeq /\ 0 \in 0 .. MaxPumpRounds /\ NoRead \in Read
      /\ "none" \in States /\ "closed" \in States
  BY MaxSeqTyped, HubTyped DEF Read, States
<1>2. NewConnection \in Connection
  BY <1>1 DEF NewConnection, Connection
<1> QED
  BY <1>1, <1>2 DEF Connection, Gone

\* A closed connection owes nothing.
LEMMA ClosedSafe ==
    ASSUME HubInv, NEW c \in Conns, NEW k, k.state = "closed"
    PROVE  Safe(c, k, wire[c])
BY DEF HubInv, ConnInv, Safe, ConnSafe, Subscribed

\* Tearing connections down.
LEMMA TeardownSafe ==
    ASSUME HubInv, NEW cs \in SUBSET Conns, Teardown(cs),
           UNCHANGED <<storeVars, wire, device, unannounced>>
    PROVE  /\ conn' \in [Conns -> Connection] /\ wire' \in [Conns -> Seq(Frame)]
           /\ byAccount' \in [Accounts -> SUBSET Conns] /\ RegistryFinite'
           /\ \A c \in Conns : Safe(c, conn'[c], wire'[c])
<1>1. conn' = [c \in Conns |-> IF c \in cs THEN Gone(conn[c].pumping) ELSE conn[c]]
  BY DEF Teardown, Gone
<1>2. \A c \in Conns : conn[c] \in Connection /\ conn[c].pumping \in BOOLEAN
  BY DEF HubInv, TypeOK, Connection
<1>3. \A c \in Conns : conn'[c] \in Connection
  BY <1>1, <1>2, NewIsConnection
<1>4. /\ \A c \in cs : conn'[c].state = "closed"
      /\ \A c \in Conns \ cs : conn'[c] = conn[c]
  BY <1>1, <1>2, NewIsConnection
<1>5. byAccount' \in [Accounts -> SUBSET Conns] /\ RegistryFinite'
  BY <1>4, RegistryLess DEF Teardown
<1>6. \A c \in Conns : Safe(c, conn'[c], wire'[c])
  <2> SUFFICES ASSUME NEW c \in Conns PROVE Safe(c, conn'[c], wire[c])
    OBVIOUS
  <2>1. CASE c \in cs
    BY <1>4, <2>1, ClosedSafe
  <2>2. CASE c \notin cs
    BY <1>4, <2>2 DEF HubInv, ConnInv
  <2> QED
    BY <2>1, <2>2
<1>7. conn' \in [Conns -> Connection] /\ wire' \in [Conns -> Seq(Frame)]
  BY <1>1, <1>3 DEF HubInv, TypeOK
<1> QED
  BY <1>5, <1>6, <1>7

\* A change of one connection that keeps it registered or keeps it out.
LEMMA OneConn ==
    ASSUME HubInv, NEW c \in Conns, NEW k \in Connection, NEW v \in Seq(Frame),
           conn' = [conn EXCEPT ![c] = k], wire' = [wire EXCEPT ![c] = v],
           k.state \in Registered <=> conn[c].state \in Registered,
           Safe(c, k, v),
           UNCHANGED <<storeVars, req, byAccount, origin, device, unannounced, scope>>
    PROVE  HubInv'
<1>1. conn' \in [Conns -> Connection] /\ wire' \in [Conns -> Seq(Frame)]
  BY DEF HubInv, TypeOK
<1>2. \A b \in Conns : conn'[b].state \in Registered <=> conn[b].state \in Registered
  BY DEF HubInv, TypeOK
<1>3. \A b \in Conns : Safe(b, conn'[b], wire'[b])
  <2> SUFFICES ASSUME NEW b \in Conns PROVE Safe(b, conn'[b], wire'[b])
    OBVIOUS
  <2>1. CASE b = c
    BY <2>1 DEF HubInv, TypeOK
  <2>2. CASE b # c
    BY <2>2 DEF HubInv, TypeOK, ConnInv
  <2> QED
    BY <2>1, <2>2
<1> QED
  BY <1>1, <1>2, <1>3, RegistrySame, ConnStep

-----------------------------------------------------------------------------
(* The steps of a connection.                                              *)

LEMMA TeardownHubInv ==
    ASSUME HubInv, NEW c \in Conns, Teardown({c}),
           UNCHANGED <<storeVars, req, wire, origin, device, unannounced, scope>>
    PROVE  HubInv'
BY TeardownSafe, ConnStep

\* A connection that has not subscribed yet is quiet.
LEMMA EarlyState ==
    ASSUME HubInv, NEW c \in Conns, NEW st,
           State(c) \notin Subscribed \cup {"closed"}, st \in States \ (Subscribed \cup {"closed"}),
           NEW k, k = [conn[c] EXCEPT !.state = st]
    PROVE  k \in Connection /\ k.state = st /\ Safe(c, k, wire[c])
<1>1. conn[c] \in Connection /\ Safe(c, conn[c], wire[c])
  BY AboutConn
<1>2. /\ k \in Connection /\ k.state = st
      /\ k.pumping = conn[c].pumping /\ k.immediate = conn[c].immediate
      /\ k.rounds = conn[c].rounds /\ k.withheld = conn[c].withheld
  BY <1>1 DEF Connection
<1>3. Unused(conn[c])
  BY <1>1 DEF Safe, ConnSafe, State
<1>4. Unused(k)
  BY <1>2, <1>3 DEF Unused, Quiet
<1> QED
  BY <1>1, <1>2, <1>4 DEF Safe, ConnSafe

LEMMA AcceptHubInv ==
    ASSUME HubInv, NEW c \in Conns, Accept(c)
    PROVE  HubInv'
<1>1. PICK k : k = [conn[c] EXCEPT !.state = "unauthenticated"]
  OBVIOUS
<1>2. k \in Connection /\ k.state = "unauthenticated" /\ Safe(c, k, wire[c])
  BY <1>1, EarlyState DEF Accept, States, Subscribed
<1>3. conn' = [conn EXCEPT ![c] = k] /\ wire' = [wire EXCEPT ![c] = wire[c]]
  BY <1>1 DEF Accept, HubInv, TypeOK
<1>4. wire[c] \in Seq(Frame)
  BY AboutConn
<1> QED
  BY <1>2, <1>3, <1>4, OneConn DEF Accept, Registered, State

LEMMA AuthFrameHubInv ==
    ASSUME HubInv, NEW c \in Conns, AuthFrame(c)
    PROVE  HubInv'
<1>1. CASE conn' = [conn EXCEPT ![c].state = "authenticating"] /\ UNCHANGED byAccount
  <2>1. PICK k : k = [conn[c] EXCEPT !.state = "authenticating"]
    OBVIOUS
  <2>2. k \in Connection /\ k.state = "authenticating" /\ Safe(c, k, wire[c])
    BY <2>1, EarlyState DEF AuthFrame, States, Subscribed
  <2>3. conn' = [conn EXCEPT ![c] = k] /\ wire' = [wire EXCEPT ![c] = wire[c]]
    BY <1>1, <2>1 DEF AuthFrame, HubInv, TypeOK
  <2>4. wire[c] \in Seq(Frame)
    BY AboutConn
  <2> QED
    BY <1>1, <2>2, <2>3, <2>4, OneConn DEF AuthFrame, Registered, State
<1>2. CASE Teardown({c})
  BY <1>2, TeardownHubInv DEF AuthFrame
<1> QED
  BY <1>1, <1>2 DEF AuthFrame

\* Admission: the cap is tested in the step that registers.
LEMMA AuthVerifiedHubInv ==
    ASSUME HubInv, NEW c \in Conns, AuthVerified(c)
    PROVE  HubInv'
<1>1. CASE Cardinality(byAccount[Acct(c)]) >= MaxConnections
  BY <1>1, TeardownHubInv DEF AuthVerified
<1>2. CASE ~ (Cardinality(byAccount[Acct(c)]) >= MaxConnections)
  <2>0. /\ conn' = [conn EXCEPT ![c].state = "authenticated"]
        /\ byAccount' = [byAccount EXCEPT ![Acct(c)] = @ \cup {c}]
        /\ State(c) = "authenticating"
    BY <1>2 DEF AuthVerified
  <2>1. PICK k : k = [conn[c] EXCEPT !.state = "authenticated"]
    OBVIOUS
  <2>2. k \in Connection /\ k.state = "authenticated" /\ Safe(c, k, wire[c])
    BY <2>0, <2>1, EarlyState DEF States, Subscribed
  <2>3. conn' = [conn EXCEPT ![c] = k] /\ conn' \in [Conns -> Connection]
    BY <2>0, <2>1, <2>2 DEF HubInv, TypeOK
  <2>4. /\ byAccount' \in [Accounts -> SUBSET Conns] /\ Acct(c) \in Accounts
        /\ byAccount'[Acct(c)] = byAccount[Acct(c)] \cup {c}
        /\ \A a \in Accounts : a # Acct(c) => byAccount'[a] = byAccount[a]
    BY <2>0, AboutConn DEF HubInv, TypeOK
  <2>5. RegistryFinite'
    <3> SUFFICES ASSUME NEW a \in Accounts
                 PROVE  /\ byAccount'[a] = {b \in Conns : /\ Acct(b)' = a
                                                         /\ State(b)' \in Registered}
                        /\ Cardinality(byAccount'[a]) =< MaxConnections
                        /\ IsFiniteSet(byAccount'[a])
      BY DEF RegistryFinite, RegistryExact, Registered
    <3>1. /\ byAccount[a] = {b \in Conns : Acct(b) = a /\ State(b) \in Registered}
          /\ Cardinality(byAccount[a]) =< MaxConnections
          /\ IsFiniteSet(byAccount[a])
      BY DEF HubInv, RegistryFinite, RegistryExact, Registered
    <3>2. \A b \in Conns : b # c => State(b)' = State(b)
      BY <2>3 DEF State, HubInv, TypeOK
    <3>3. State(c)' = "authenticated"
      BY <2>2, <2>3 DEF State, HubInv, TypeOK
    <3>4. \A b \in Conns : Acct(b)' = Acct(b)
      BY DEF Acct
    <3>5. CASE a = Acct(c)
      <4>1. byAccount'[a] = {b \in Conns : Acct(b)' = a /\ State(b)' \in Registered}
        BY <2>4, <3>1, <3>2, <3>3, <3>4, <3>5 DEF Registered
      <4>2. IsFiniteSet(byAccount'[a]) /\ Cardinality(byAccount'[a]) =< Cardinality(byAccount[a]) + 1
        <5>1. Cardinality(byAccount[a]) \in Nat
          BY <3>1, FS_CardinalityType
        <5> QED
          BY <2>4, <3>1, <3>5, <5>1, FS_AddElement
      <4>3. Cardinality(byAccount[a]) \in Nat /\ Cardinality(byAccount'[a]) \in Nat
            /\ MaxConnections \in Nat
        BY <3>1, <4>2, FS_CardinalityType, HubTyped
      <4>4. Cardinality(byAccount[a]) < MaxConnections
        BY <1>2, <3>5, <4>3
      <4> QED
        BY <4>1, <4>2, <4>3, <4>4
    <3>6. CASE a # Acct(c)
      <4>1. byAccount'[a] = byAccount[a]
        BY <2>4, <3>6
      <4>2. byAccount'[a] = {b \in Conns : Acct(b)' = a /\ State(b)' \in Registered}
        BY <3>1, <3>2, <3>4, <3>6, <4>1
      <4> QED
        BY <3>1, <4>1, <4>2
    <3> QED
      BY <3>5, <3>6
  <2>6. \A b \in Conns : Safe(b, conn'[b], wire'[b])
    <3> SUFFICES ASSUME NEW b \in Conns PROVE Safe(b, conn'[b], wire[b])
      BY DEF AuthVerified
    <3>1. CASE b = c
      BY <2>2, <2>3, <3>1 DEF HubInv, TypeOK
    <3>2. CASE b # c
      BY <2>3, <3>2 DEF HubInv, TypeOK, ConnInv
    <3> QED
      BY <3>1, <3>2
  <2>7. wire' \in [Conns -> Seq(Frame)]
    BY DEF AuthVerified, HubInv, TypeOK
  <2> QED
    BY <2>3, <2>4, <2>5, <2>6, <2>7, ConnStep DEF AuthVerified
<1> QED
  BY <1>1, <1>2

LEMMA ReadDiscardedHubInv ==
    ASSUME HubInv, NEW c \in Conns, ReadDiscarded(c)
    PROVE  HubInv'
<1>1. PICK k : k = [conn[c] EXCEPT !.pumping = FALSE]
  OBVIOUS
<1>2. k \in Connection /\ k.state = "closed" /\ wire[c] \in Seq(Frame)
  BY <1>1, AboutConn DEF ReadDiscarded, Connection, Closed, State
<1>3. conn' = [conn EXCEPT ![c] = k] /\ wire' = [wire EXCEPT ![c] = wire[c]]
  BY <1>1 DEF ReadDiscarded, HubInv, TypeOK
<1>4. Safe(c, k, wire[c])
  BY <1>2, ClosedSafe
<1> QED
  BY <1>2, <1>3, <1>4, OneConn DEF ReadDiscarded, Registered, Closed, State

LEMMA ReadFailsHubInv ==
    ASSUME HubInv, NEW c \in Conns, ReadFails(c)
    PROVE  HubInv'
<1>1. PICK k : k = [NewConnection EXCEPT !.state = "closed"]
  OBVIOUS
<1>2. k \in Connection /\ k.state = "closed"
  BY <1>1, NewIsConnection
<1>3. conn' = [conn EXCEPT ![c] = k]
  BY <1>1 DEF ReadFails
<1>4. conn' \in [Conns -> Connection] /\ conn'[c] = k /\ \A b \in Conns \ {c} : conn'[b] = conn[b]
  BY <1>2, <1>3 DEF HubInv, TypeOK
<1>5. byAccount' \in [Accounts -> SUBSET Conns] /\ RegistryFinite'
  <2>1. byAccount' = [a \in Accounts |-> byAccount[a] \ {c}]
    BY DEF ReadFails
  <2>2. /\ \A b \in {c} : conn'[b].state = "closed"
        /\ {c} \in SUBSET Conns
    BY <1>2, <1>4
  <2> QED
    BY <1>4, <2>1, <2>2, RegistryLess
<1>6. ASSUME NEW b \in Conns PROVE Safe(b, conn'[b], wire'[b])
  <2>1. wire'[b] = wire[b]
    BY DEF ReadFails
  <2>2. CASE b = c
    BY <1>2, <1>4, <2>1, <2>2, ClosedSafe
  <2>3. CASE b # c
    BY <1>4, <2>1, <2>3 DEF HubInv, ConnInv
  <2> QED
    BY <2>2, <2>3
<1>7. wire' \in [Conns -> Seq(Frame)]
  BY DEF ReadFails, HubInv, TypeOK
<1> QED
  BY <1>4, <1>5, <1>6, <1>7, ConnStep DEF ReadFails

\* The outcome of a pump that is safe is taken over by its connection.
LEMMA EmitHubInv ==
    ASSUME HubInv, NEW c \in Conns, NEW s, Emit(c, s), State(c) \in Registered,
           s.k \in Connection, s.k.state \in Subscribed, wire[c] \o s.out \in Seq(Frame),
           Safe(c, s.k, wire[c] \o s.out),
           UNCHANGED <<storeVars, req, byAccount, origin, device, unannounced, scope>>
    PROVE  HubInv'
<1>1. PICK k \in Connection : k = s.k
  OBVIOUS
<1>2. PICK v \in Seq(Frame) : v = wire[c] \o s.out
  OBVIOUS
<1>3. conn' = [conn EXCEPT ![c] = k] /\ wire' = [wire EXCEPT ![c] = v]
  BY <1>1, <1>2 DEF Emit, HubInv, TypeOK
<1>4. k.state \in Registered /\ conn[c].state \in Registered
  BY <1>1 DEF Subscribed, Registered, State
<1>5. Safe(c, k, v)
  BY <1>1, <1>2
<1> QED
  BY <1>3, <1>4, <1>5, OneConn

\* The cursor a device subscribes with claims no more than the device has.
LEMMA SubscribeHubInv ==
    ASSUME HubInv, NEW c \in Conns, Subscribe(c)
    PROVE  HubInv'
<1> DEFINE a == Acct(c)
           d == DeviceOf[c]
           view == device[d].view
<1>1. PICK cur \in {0, device[d].cursor} :
          Emit(c, Pump([conn[c] EXCEPT !.cursor = cur, !.suppress = {},
                                       !.state = "draining", !.generation = @ + 1,
                                       !.pending = TRUE], a))
  BY DEF Subscribe
<1>2. PICK k : k = [conn[c] EXCEPT !.cursor = cur, !.suppress = {},
                                  !.state = "draining", !.generation = @ + 1,
                                  !.pending = TRUE]
  OBVIOUS
<1>3. PICK s : s = Pump(k, a)
  OBVIOUS
<1>4. Emit(c, s)
  BY <1>1, <1>2, <1>3
<1>5. /\ conn[c] \in Connection /\ wire[c] \in Seq(Frame) /\ State(c) \in {"authenticated", "live"}
      /\ a \in Accounts /\ d \in Devices /\ a = AccountOf[d]
      /\ device[d] \in Device /\ StoreTypeOK
      /\ counter[a] \in 0 .. MaxSeq /\ RowsFiled(event[a], seq[a], counter[a])
      /\ Safe(c, conn[c], wire[c])
  BY AboutConn DEF Subscribe, Acct
<1>6. cur \in 0 .. MaxSeq /\ cur =< counter[a]
  BY <1>5, MaxSeqTyped DEF Device, HubInv, DeviceSafe
<1>7. /\ k \in Connection /\ k.cursor = cur /\ k.suppress = {} /\ k.state = "draining"
      /\ k.pending = TRUE /\ k.pumping = conn[c].pumping /\ k.withheld = conn[c].withheld
      /\ k.read = conn[c].read /\ k.readGeneration = conn[c].readGeneration
      /\ k.generation = conn[c].generation + 1
      /\ conn[c].generation \in Nat /\ conn[c].readGeneration \in Nat
  <2>1. conn[c].generation \in Nat /\ conn[c].readGeneration \in Nat
    BY <1>5 DEF Connection
  <2>2. "draining" \in States /\ TRUE \in BOOLEAN /\ conn[c].generation + 1 \in Nat
    BY <2>1 DEF States
  <2>3. k \in Connection
    BY <1>2, <1>5, <1>6, <2>2 DEF Connection
  <2>4. /\ k.cursor = cur /\ k.suppress = {} /\ k.state = "draining"
        /\ k.withheld = conn[c].withheld
        /\ k.read = conn[c].read /\ k.readGeneration = conn[c].readGeneration
        /\ k.generation = conn[c].generation + 1
    BY <1>2, <1>5 DEF Connection
  <2>5. k.pending = TRUE /\ k.pumping = conn[c].pumping
    BY <1>2, <1>5 DEF Connection
  <2> QED
    BY <2>1, <2>3, <2>4, <2>5
<1>8. CursorSafe(k, wire[c], view, event[a], seq[a], counter[a])
  <2> SUFFICES ASSUME NEW t \in Tasks, RowUpTo(event[a], seq[a], t, cur)
               PROVE  Told(wire[c], view, event[a], t, Len(wire[c]))
    BY <1>6, <1>7 DEF CursorSafe
  <2>1. cur # 0
    BY <1>5 DEF RowUpTo, RowsFiled, StoreTypeOK
  <2>2. Covers(device[d].view[t], event[a][t])
    BY <1>5, <2>1 DEF HubInv, DeviceSafe
  <2> QED
    BY <2>2 DEF Told
<1>9. WireSafe(wire[c], view, event[a], seq[a], counter[a])
  BY <1>5 DEF Safe
<1>10. ConnSafe(conn[c], wire[c], view, event[a], seq[a], counter[a], unannounced[a])
  BY <1>5 DEF Safe
<1>11. OwnSafe(k, view)
  <2>1. CASE State(c) = "live"
    <3>1. OwnSafe(conn[c], view)
      BY <1>10, <2>1 DEF ConnSafe, State, Subscribed
    <3> QED
      BY <1>7, <3>1 DEF OwnSafe
  <2>2. CASE State(c) = "authenticated"
    <3>1. conn[c].withheld = {}
      BY <1>10, <2>2 DEF ConnSafe, State, Subscribed, Unused
    <3> QED
      BY <1>7, <3>1 DEF OwnSafe
  <2> QED
    BY <1>5, <2>1, <2>2
<1>12. ASSUME k.pumping
       PROVE  Reading(k, wire[c], view, event[a], seq[a], counter[a], unannounced[a])
  <2>1. State(c) = "live"
    BY <1>5, <1>7, <1>10, <1>12 DEF ConnSafe, State, Subscribed, Unused, Quiet
  <2>2. ReadSafe(conn[c], wire[c], view, event[a], seq[a], counter[a])
    BY <1>7, <1>10, <1>12, <2>1 DEF ConnSafe, State, Subscribed, Reading
  <2>3. k.generation # k.readGeneration /\ k.readGeneration =< k.generation
    BY <1>7, <2>2 DEF ReadSafe
  <2>4. ReadSafe(k, wire[c], view, event[a], seq[a], counter[a])
    BY <1>7, <2>2, <2>3 DEF ReadSafe
  <2>5. WillCatchUp(k, event[a], seq[a], unannounced[a])
    BY <1>7 DEF WillCatchUp
  <2> QED
    BY <2>4, <2>5 DEF Reading
<1>13. k.state \in Subscribed
  BY <1>7 DEF Subscribed
<1>14. /\ s.k \in Connection /\ s.k.state \in Subscribed
       /\ wire[c] \o s.out \in Seq(Frame)
       /\ WireSafe(wire[c] \o s.out, view, event[a], seq[a], counter[a])
       /\ ConnSafe(s.k, wire[c] \o s.out, view, event[a], seq[a], counter[a], unannounced[a])
  <2>1. k.pumping => Reading(k, wire[c], view, event[a], seq[a], counter[a], unannounced[a])
    BY <1>12
  <2>2. ~k.pumping /\ ~k.pending => CaughtUp(k, event[a], seq[a], unannounced[a])
    BY <1>7
  <2>3. k \in Connection
    BY <1>7
  <2> QED
    BY <1>3, <1>5, <1>8, <1>9, <1>11, <1>13, <2>1, <2>2, <2>3, PumpSafe
<1>15. Safe(c, s.k, wire[c] \o s.out) /\ State(c) \in Registered
  BY <1>5, <1>14 DEF Safe, Registered
<1> QED
  BY <1>4, <1>14, <1>15, EmitHubInv DEF Subscribe

LEMMA ImmediateHubInv ==
    ASSUME HubInv, NEW c \in Conns, Immediate(c)
    PROVE  HubInv'
<1> DEFINE a == Acct(c)
           view == device[DeviceOf[c]].view
           ev == event[a]
           sq == seq[a]
           n == counter[a]
           un == unannounced[a]
<1>1. PICK k : k = [conn[c] EXCEPT !.immediate = FALSE]
  OBVIOUS
<1>2. PICK s : s = Pump(k, a)
  OBVIOUS
<1>3. Emit(c, s)
  BY <1>1, <1>2 DEF Immediate
<1>4. /\ conn[c] \in Connection /\ wire[c] \in Seq(Frame)
      /\ a \in Accounts /\ StoreTypeOK /\ n \in 0 .. MaxSeq /\ RowsFiled(ev, sq, n)
      /\ WireSafe(wire[c], view, ev, sq, n)
      /\ ConnSafe(conn[c], wire[c], view, ev, sq, n, un)
  BY AboutConn DEF Safe
<1>5. State(c) \in Subscribed
  <2>1. conn[c].immediate /\ State(c) # "closed"
    BY DEF Immediate, Closed
  <2> QED
    BY <1>4, <2>1 DEF ConnSafe, Unused, State
<1>6. /\ k \in Connection /\ k.state = conn[c].state /\ k.cursor = conn[c].cursor
      /\ k.suppress = conn[c].suppress /\ k.withheld = conn[c].withheld
      /\ k.read = conn[c].read /\ k.readGeneration = conn[c].readGeneration
      /\ k.generation = conn[c].generation
      /\ k.pumping = conn[c].pumping /\ k.pending = conn[c].pending
  BY <1>1, <1>4 DEF Connection
<1>7. /\ CursorSafe(conn[c], wire[c], view, ev, sq, n) /\ OwnSafe(conn[c], view)
      /\ conn[c].pumping => Reading(conn[c], wire[c], view, ev, sq, n, un)
      /\ ~conn[c].pumping => Resting(conn[c], ev, sq, un)
  BY <1>4, <1>5 DEF ConnSafe, State
<1>8. CursorSafe(k, wire[c], view, ev, sq, n) /\ OwnSafe(k, view) /\ k.state \in Subscribed
  BY <1>5, <1>6, <1>7 DEF CursorSafe, OwnSafe, State
<1>9. k.pumping => Reading(k, wire[c], view, ev, sq, n, un)
  BY <1>6, <1>7 DEF Reading, ReadSafe, WillCatchUp
<1>10. ~k.pumping /\ ~k.pending => CaughtUp(k, ev, sq, un)
  BY <1>6, <1>7 DEF Resting, CaughtUp
<1>11. /\ s.k \in Connection /\ s.k.state \in Subscribed
       /\ wire[c] \o s.out \in Seq(Frame)
       /\ WireSafe(wire[c] \o s.out, view, ev, sq, n)
       /\ ConnSafe(s.k, wire[c] \o s.out, view, ev, sq, n, un)
  <2>1. k \in Connection
    BY <1>6
  <2> QED
    BY <1>2, <1>4, <1>8, <1>9, <1>10, <2>1, PumpSafe
<1>12. Safe(c, s.k, wire[c] \o s.out) /\ State(c) \in Registered
  BY <1>5, <1>11 DEF Safe, Subscribed, Registered
<1> QED
  BY <1>3, <1>11, <1>12, EmitHubInv DEF Immediate

\* What a read found is sent unless a subscribe came between; the cursor moves
\* with it, and the pump decides again.
LEMMA ReadReturnsHubInv ==
    ASSUME HubInv, NEW c \in Conns, ReadReturns(c)
    PROVE  HubInv'
<1> DEFINE a == Acct(c)
           view == device[DeviceOf[c]].view
           ev == event[a]
           sq == seq[a]
           n == counter[a]
           un == unannounced[a]
<1>1. PICK k : k = conn[c]
  OBVIOUS
<1>2. /\ k \in Connection /\ wire[c] \in Seq(Frame)
      /\ a \in Accounts /\ StoreTypeOK /\ n \in 0 .. MaxSeq /\ RowsFiled(ev, sq, n)
      /\ WireSafe(wire[c], view, ev, sq, n)
      /\ ConnSafe(k, wire[c], view, ev, sq, n, un)
  BY <1>1, AboutConn DEF Safe
<1>3. k.pumping /\ k.read # NoRead /\ k.state \in Subscribed
  <2>1. k.pumping /\ k.state # "closed" /\ k.read # NoRead
    BY <1>1 DEF ReadReturns, Closed, State
  <2> QED
    BY <1>2, <2>1 DEF ConnSafe, Unused, Quiet
<1>4. /\ CursorSafe(k, wire[c], view, ev, sq, n) /\ OwnSafe(k, view)
      /\ ReadSafe(k, wire[c], view, ev, sq, n) /\ WillCatchUp(k, ev, sq, un)
  BY <1>2, <1>3 DEF ConnSafe, Reading
<1>5. PICK rows, last : rows = k.read.rows /\ last = k.read.nextCursor
  OBVIOUS
<1>6. rows \in SUBSET Row /\ last \in 0 .. MaxSeq
  BY <1>2, <1>3, <1>5 DEF Connection, Read
<1>7. last =< n /\ RowsSafe(rows, last)
  BY <1>4, <1>5 DEF ReadSafe
<1>8. ev \in [Tasks -> Events \cup {NoEvent}] /\ sq \in [Tasks -> 0 .. MaxSeq]
  BY <1>2 DEF StoreTypeOK
<1> DEFINE outgoing == {x \in rows : x.ev.eventId \notin k.withheld}
           stale == [k EXCEPT !.read = NoRead, !.withheld = {}]
           moved == [k EXCEPT !.read = NoRead, !.withheld = {},
                              !.cursor = IF last > @ THEN last ELSE @]
           sent == IF k.generation # k.readGeneration
                   THEN [k |-> stale, out |-> <<>>]
                   ELSE [k |-> moved, out |-> Chunks(outgoing, last)]
<1>9. Emit(c, Decide(sent, a))
  BY <1>1, <1>5 DEF ReadReturns
<1>10. PICK j, out :
         /\ sent = [k |-> j, out |-> out]
         /\ j \in Connection /\ j.state \in Subscribed /\ j.pumping
         /\ out \in Seq(Frame) /\ FollowSafe(wire[c], out, view, ev, sq, n)
         /\ j.cursor =< n
         /\ \A t \in Tasks : RowUpTo(ev, sq, t, j.cursor) =>
               Told(wire[c], view, ev, t, Len(wire[c])) \/ Tells(out, ev, t, Len(out))
         /\ OwnSafe(j, view)
         /\ ~j.pending => CaughtUp(j, ev, sq, un)
  <2>1. CASE k.generation # k.readGeneration
    <3>1. PICK j : j = stale
      OBVIOUS
    <3>2. PICK out : out = <<>>
      OBVIOUS
    <3>3. sent = [k |-> j, out |-> out]
      BY <2>1, <3>1, <3>2
    <3>4. /\ j \in Connection /\ j.state = k.state /\ j.cursor = k.cursor
          /\ j.withheld = {} /\ j.suppress = k.suppress
          /\ j.pumping = k.pumping /\ j.pending = k.pending
      BY <1>2, <3>1 DEF Connection, Read
    <3>5. out \in Seq(Frame) /\ Len(out) = 0
      BY <3>2, EmptySeq
    <3>6. FollowSafe(wire[c], out, view, ev, sq, n)
      BY <3>5 DEF FollowSafe
    <3>7. j.cursor =< n /\ \A t \in Tasks : RowUpTo(ev, sq, t, j.cursor) =>
               Told(wire[c], view, ev, t, Len(wire[c])) \/ Tells(out, ev, t, Len(out))
      BY <1>4, <3>4 DEF CursorSafe
    <3>8. OwnSafe(j, view)
      BY <1>4, <3>4 DEF OwnSafe
    <3>9. j.pending
      BY <1>4, <2>1, <3>4 DEF WillCatchUp
    <3>10. j.state \in Subscribed /\ j.pumping
      BY <1>3, <3>4
    <3> QED
      BY <3>3, <3>4, <3>5, <3>6, <3>7, <3>8, <3>9, <3>10
  <2>2. CASE k.generation = k.readGeneration
    <3>1. PICK j : j = moved
      OBVIOUS
    <3>2. PICK out : out = Chunks(outgoing, last)
      OBVIOUS
    <3>3. sent = [k |-> j, out |-> out]
      BY <2>2, <3>1, <3>2
    <3>4. k.cursor \in 0 .. MaxSeq /\ k.cursor =< n
      BY <1>2, <1>4 DEF Connection, CursorSafe
    <3>5. /\ j \in Connection /\ j.state = k.state
          /\ j.withheld = {} /\ j.suppress = k.suppress
          /\ j.pumping = k.pumping /\ j.pending = k.pending
          /\ j.cursor = IF last > k.cursor THEN last ELSE k.cursor
      <4>1. PICK cur \in 0 .. MaxSeq : cur = IF last > k.cursor THEN last ELSE k.cursor
        BY <1>6, <3>4
      <4>2. j = [k EXCEPT !.read = NoRead, !.withheld = {}, !.cursor = cur]
        BY <3>1, <4>1
      <4>3. j \in Connection
        BY <1>2, <4>2 DEF Connection, Read
      <4>4. /\ j.state = k.state /\ j.withheld = {} /\ j.suppress = k.suppress
            /\ j.cursor = cur
        BY <1>2, <4>2 DEF Connection
      <4>5. j.pumping = k.pumping /\ j.pending = k.pending
        BY <1>2, <4>2 DEF Connection
      <4> QED
        BY <4>1, <4>3, <4>4, <4>5
    <3>6. outgoing \in SUBSET Row /\ RowsSafe(outgoing, last)
      <4>1. outgoing \in SUBSET rows
        OBVIOUS
      <4> QED
        BY <1>6, <1>7, <4>1, FS_Subset DEF RowsSafe
    <3>7. ASSUME NEW t \in Tasks, RowUpTo(ev, sq, t, last)
          PROVE  \/ Told(wire[c], view, ev, t, Len(wire[c]))
                 \/ [ev |-> ev[t], seq |-> sq[t]] \in outgoing
      <4>1. PICK x : x = [ev |-> ev[t], seq |-> sq[t]]
        OBVIOUS
      <4>2. Told(wire[c], view, ev, t, Len(wire[c])) \/ x \in rows
        BY <1>4, <1>5, <2>2, <3>7, <4>1 DEF ReadSafe
      <4>3. ev[t] \in Events /\ ev[t].task = t /\ x.ev = ev[t]
        BY <1>2, <1>8, <3>7, <4>1 DEF RowUpTo, RowsFiled
      <4>4. ASSUME x \in rows, x \notin outgoing
            PROVE  Covers(view[t], ev[t])
        BY <1>4, <4>3, <4>4 DEF OwnSafe
      <4> QED
        BY <4>1, <4>2, <4>4 DEF Told
    <3>8. /\ out \in Seq(Frame) /\ FollowSafe(wire[c], out, view, ev, sq, n)
          /\ \A t \in Tasks : RowUpTo(ev, sq, t, last) =>
                Told(wire[c], view, ev, t, Len(wire[c])) \/ Tells(out, ev, t, Len(out))
      <4>1. n \in Nat
        BY <1>2
      <4> HIDE DEF outgoing
      <4> QED
        BY <1>2, <1>6, <1>7, <1>8, <3>2, <3>6, <3>7, <4>1, ChunksSafe
    <3>9. j.cursor =< n /\ \A t \in Tasks : RowUpTo(ev, sq, t, j.cursor) =>
               Told(wire[c], view, ev, t, Len(wire[c])) \/ Tells(out, ev, t, Len(out))
      <4>1. CASE last > k.cursor
        BY <1>7, <3>5, <3>8, <4>1
      <4>2. CASE ~ (last > k.cursor)
        BY <1>4, <3>5, <4>2 DEF CursorSafe
      <4> QED
        BY <4>1, <4>2
    <3>10. OwnSafe(j, view)
      BY <1>4, <3>5 DEF OwnSafe
    <3>11. ~j.pending => CaughtUp(j, ev, sq, un)
      <4> SUFFICES ASSUME ~j.pending, NEW t \in Tasks, ev[t] # NoEvent, sq[t] > j.cursor
                   PROVE  ev[t] \in un
        BY DEF CaughtUp
      <4>1. j.cursor >= k.cursor /\ j.cursor >= last /\ j.cursor \in Nat /\ sq[t] \in Nat
        BY <1>6, <1>8, <3>4, <3>5
      <4>2. sq[t] > k.cursor /\ ~ (sq[t] =< last)
        BY <1>6, <3>4, <4>1
      <4>3. ~k.pending
        BY <3>5
      <4> QED
        BY <1>4, <1>5, <4>2, <4>3 DEF WillCatchUp
    <3>12. j.state \in Subscribed /\ j.pumping
      BY <1>3, <3>5
    <3> QED
      BY <3>3, <3>5, <3>8, <3>9, <3>10, <3>11, <3>12
  <2> QED
    BY <2>1, <2>2
<1> HIDE DEF sent
<1>11. PICK s : s = Decide([k |-> j, out |-> out], a)
  OBVIOUS
<1>12. Emit(c, s)
  BY <1>9, <1>10, <1>11
<1>13. /\ s.k \in Connection /\ s.k.state \in Subscribed
       /\ wire[c] \o s.out \in Seq(Frame)
       /\ WireSafe(wire[c] \o s.out, view, ev, sq, n)
       /\ ConnSafe(s.k, wire[c] \o s.out, view, ev, sq, n, un)
  BY <1>2, <1>10, <1>11, DecideSafe
<1>14. Safe(c, s.k, wire[c] \o s.out) /\ State(c) \in Registered
  BY <1>1, <1>3, <1>13 DEF Safe, Subscribed, Registered, State
<1> QED
  BY <1>12, <1>13, <1>14, EmitHubInv DEF ReadReturns

-----------------------------------------------------------------------------
(* notifyAccount.                                                          *)

\* A notification wakes every subscribed connection of the account, so nothing
\* of the account is unannounced after it.
LEMMA NotifySafe ==
    ASSUME HubInv, NEW a \in Accounts, NEW by, NEW ids \in SUBSET EventIds,
           \A c \in Conns, e \in Events :
               c = by /\ e.eventId \in ids => Covers(device[DeviceOf[c]].view[e.task], e),
           NotifyAccount(a, by, ids), UNCHANGED <<storeVars, device, byAccount>>
    PROVE  /\ conn' \in [Conns -> Connection] /\ wire' \in [Conns -> Seq(Frame)]
           /\ unannounced' \in [Accounts -> SUBSET Events]
           /\ byAccount' \in [Accounts -> SUBSET Conns] /\ RegistryFinite'
           /\ ConnInv'
<1> DEFINE n(c) == counter[Acct(c)]
           ev(c) == event[Acct(c)]
           sq(c) == seq[Acct(c)]
           view(c) == device[DeviceOf[c]].view
           un(c) == unannounced[Acct(c)]
           told(c) == IF Acct(c) = a THEN {} ELSE un(c)
           s(c) == Notified(a, by, ids)[c]
<1>1. /\ conn' = [c \in Conns |-> s(c).k]
      /\ wire' = [c \in Conns |-> wire[c] \o s(c).out]
      /\ unannounced' = [unannounced EXCEPT ![a] = {}]
  BY DEF NotifyAccount
<1>2. ASSUME NEW c \in Conns
      PROVE  /\ s(c).k \in Connection /\ wire[c] \o s(c).out \in Seq(Frame)
             /\ WireSafe(wire[c] \o s(c).out, view(c), ev(c), sq(c), n(c))
             /\ ConnSafe(s(c).k, wire[c] \o s(c).out, view(c), ev(c), sq(c), n(c), told(c))
             /\ s(c).k.state \in Registered <=> conn[c].state \in Registered
  <2>1. PICK k \in Connection, w \in Seq(Frame) : k = conn[c] /\ w = wire[c]
    BY AboutConn
  <2>2. /\ Acct(c) \in Accounts /\ StoreTypeOK
        /\ n(c) \in 0 .. MaxSeq /\ RowsFiled(ev(c), sq(c), n(c))
        /\ WireSafe(w, view(c), ev(c), sq(c), n(c))
        /\ ConnSafe(k, w, view(c), ev(c), sq(c), n(c), un(c))
    BY <2>1, AboutConn DEF Safe
  <2>3. c \in byAccount[a] <=> Acct(c) = a /\ k.state \in Registered
    BY <2>1 DEF HubInv, RegistryFinite, RegistryExact, Registered, State
  <2>4. CASE c \in byAccount[a] /\ k.state \in Subscribed
    <3>1. PICK y : y = [k EXCEPT !.pending = TRUE,
                               !.suppress = IF c = by THEN @ \cup ids ELSE @]
      OBVIOUS
    <3>2. PICK o : o = Pump(y, a)
      OBVIOUS
    <3>3. s(c) = o
      BY <2>1, <2>4, <3>1, <3>2 DEF Notified, State, Subscribed
    <3>4. k.suppress \cup ids \in SUBSET EventIds
      BY DEF Connection
    <3>5. /\ y \in Connection /\ y.state = k.state /\ y.cursor = k.cursor
          /\ y.suppress = (IF c = by THEN k.suppress \cup ids ELSE k.suppress)
          /\ y.withheld = k.withheld /\ y.read = k.read
          /\ y.generation = k.generation /\ y.readGeneration = k.readGeneration
          /\ y.pumping = k.pumping /\ y.pending = TRUE
      <4>1. PICK sup \in SUBSET EventIds :
                sup = IF c = by THEN k.suppress \cup ids ELSE k.suppress
        BY <3>4 DEF Connection
      <4>2. y = [k EXCEPT !.pending = TRUE, !.suppress = sup]
        BY <3>1, <4>1
      <4>3. y \in Connection
        BY <4>2 DEF Connection
      <4>4. /\ y.state = k.state /\ y.cursor = k.cursor
            /\ y.suppress = sup
            /\ y.withheld = k.withheld /\ y.read = k.read
            /\ y.generation = k.generation /\ y.readGeneration = k.readGeneration
        BY <4>2 DEF Connection
      <4>5. y.pumping = k.pumping /\ y.pending = TRUE
        BY <4>2 DEF Connection
      <4> QED
        BY <4>1, <4>3, <4>4, <4>5
    <3>6. /\ CursorSafe(k, w, view(c), ev(c), sq(c), n(c)) /\ OwnSafe(k, view(c))
          /\ k.pumping => Reading(k, w, view(c), ev(c), sq(c), n(c), un(c))
      BY <2>2, <2>4 DEF ConnSafe
    <3>7. CursorSafe(y, w, view(c), ev(c), sq(c), n(c)) /\ y.state \in Subscribed
      BY <2>4, <3>5, <3>6 DEF CursorSafe
    <3>8. OwnSafe(y, view(c))
      BY <3>5, <3>6 DEF OwnSafe
    <3>9. y.pumping => Reading(y, w, view(c), ev(c), sq(c), n(c), {})
      <4> SUFFICES ASSUME y.pumping
                   PROVE  Reading(y, w, view(c), ev(c), sq(c), n(c), {})
        OBVIOUS
      <4>1. ReadSafe(k, w, view(c), ev(c), sq(c), n(c))
        BY <3>5, <3>6 DEF Reading
      <4>2. ReadSafe(y, w, view(c), ev(c), sq(c), n(c))
        BY <3>5, <4>1 DEF ReadSafe
      <4>3. WillCatchUp(y, ev(c), sq(c), {})
        BY <3>5 DEF WillCatchUp
      <4> QED
        BY <4>2, <4>3 DEF Reading
    <3>10. ~y.pumping /\ ~y.pending => CaughtUp(y, ev(c), sq(c), {})
      BY <3>5
    <3>11. Acct(c) = a
      BY <2>3, <2>4
    <3>12. y \in Connection
      BY <3>5
    <3>13. /\ o.k \in Connection /\ o.k.state \in Subscribed
           /\ w \o o.out \in Seq(Frame)
           /\ WireSafe(w \o o.out, view(c), ev(c), sq(c), n(c))
           /\ ConnSafe(o.k, w \o o.out, view(c), ev(c), sq(c), n(c), {})
      BY <2>2, <3>2, <3>7, <3>8, <3>9, <3>10, <3>11, <3>12, PumpSafe
    <3>14. o.k.state \in Registered <=> k.state \in Registered
      BY <2>4, <3>13 DEF Subscribed, Registered
    <3>15. told(c) = {}
      BY <3>11
    <3> HIDE DEF s
    <3> QED
      BY <2>1, <3>3, <3>13, <3>14, <3>15
  <2>5. CASE ~ (c \in byAccount[a] /\ k.state \in Subscribed)
    <3>1. s(c) = [k |-> k, out |-> <<>>]
      BY <2>1, <2>5 DEF Notified, State, Subscribed
    <3>2. s(c).k = k /\ s(c).out = <<>>
      BY <3>1
    <3>3. w \o <<>> = w
      BY ConcatEmptySeq
    <3>4. k.state \in Subscribed => told(c) = un(c)
      BY <2>3, <2>5 DEF Subscribed, Registered
    <3>5. ConnSafe(k, w, view(c), ev(c), sq(c), n(c), told(c))
      BY <2>2, <3>4 DEF ConnSafe
    <3> HIDE DEF s
    <3> QED
      BY <2>1, <2>2, <3>2, <3>3, <3>5
  <2> QED
    BY <2>4, <2>5
<1> HIDE DEF s
<1>3. conn' \in [Conns -> Connection] /\ wire' \in [Conns -> Seq(Frame)]
  BY <1>1, <1>2
<1>4. \A c \in Conns : conn'[c].state \in Registered <=> conn[c].state \in Registered
  BY <1>1, <1>2
<1>5. byAccount' \in [Accounts -> SUBSET Conns] /\ RegistryFinite'
  BY <1>4, RegistrySame
<1>6. /\ unannounced' \in [Accounts -> SUBSET Events]
      /\ \A c \in Conns : unannounced'[Acct(c)] = told(c)
  BY <1>1, AboutConn DEF HubInv, TypeOK
<1>7. ConnInv'
  <2> SUFFICES ASSUME NEW c \in Conns
               PROVE  /\ WireSafe(wire'[c], view(c), ev(c), sq(c), n(c))
                      /\ ConnSafe(conn'[c], wire'[c], view(c), ev(c), sq(c), n(c),
                                  unannounced'[Acct(c)])
    BY DEF ConnInv, Safe, Acct, storeVars
  <2>1. conn'[c] = s(c).k /\ wire'[c] = wire[c] \o s(c).out
    BY <1>1
  <2> QED
    BY <1>2, <1>6, <2>1
<1> QED
  BY <1>3, <1>5, <1>6, <1>7

-----------------------------------------------------------------------------
(* What stays safe when devices learn more and when rows change.           *)

\* new has every event that old has, or a newer one.
Grown(old, new) == \A t \in Tasks, f \in Events : Covers(old[t], f) => Covers(new[t], f)

LEMMA ToldGrown ==
    ASSUME NEW w, NEW old, NEW new, Grown(old, new), NEW ev, NEW t \in Tasks, NEW i,
           ev[t] \in Events, Told(w, old, ev, t, i)
    PROVE  Told(w, new, ev, t, i)
BY DEF Told, Grown

LEMMA SafeGrown ==
    ASSUME NEW k, NEW w, NEW old, NEW new, Grown(old, new),
           NEW ev \in [Tasks -> Events \cup {NoEvent}], NEW sq, NEW n, NEW un,
           WireSafe(w, old, ev, sq, n), ConnSafe(k, w, old, ev, sq, n, un)
    PROVE  WireSafe(w, new, ev, sq, n) /\ ConnSafe(k, w, new, ev, sq, n, un)
<1>1. \A t \in Tasks : \A x, i : RowUpTo(ev, sq, t, x) /\ Told(w, old, ev, t, i)
                                => Told(w, new, ev, t, i)
  BY ToldGrown DEF RowUpTo
<1>2. WireSafe(w, new, ev, sq, n)
  BY <1>1 DEF WireSafe
<1>3. CursorSafe(k, w, old, ev, sq, n) => CursorSafe(k, w, new, ev, sq, n)
  BY <1>1 DEF CursorSafe
<1>4. OwnSafe(k, old) => OwnSafe(k, new)
  BY EventsTyped DEF OwnSafe, Grown
<1>5. ReadSafe(k, w, old, ev, sq, n) => ReadSafe(k, w, new, ev, sq, n)
  BY <1>1 DEF ReadSafe
<1> QED
  BY <1>2, <1>3, <1>4, <1>5 DEF ConnSafe, Reading

\* Rows change only by moving past every cursor there is, unannounced.
RowsMove(ev, sq, n, ev2, sq2, n2, un2) ==
    \A t \in Tasks : \/ ev2[t] = ev[t] /\ sq2[t] = sq[t]
                     \/ sq2[t] > n /\ ev2[t] \in un2

LEMMA SafeMoved ==
    ASSUME NEW k \in Connection, NEW w \in Seq(Frame), NEW view, NEW ev, NEW sq, NEW n \in Nat,
           NEW un, NEW ev2, NEW sq2 \in [Tasks -> 0 .. MaxSeq], NEW n2 \in Nat, NEW un2,
           n =< n2, un \subseteq un2, RowsMove(ev, sq, n, ev2, sq2, n2, un2),
           WireSafe(w, view, ev, sq, n), ConnSafe(k, w, view, ev, sq, n, un)
    PROVE  WireSafe(w, view, ev2, sq2, n2) /\ ConnSafe(k, w, view, ev2, sq2, n2, un2)
<1>1. ASSUME NEW t \in Tasks, NEW x \in 0 .. MaxSeq, x =< n, RowUpTo(ev2, sq2, t, x)
      PROVE  RowUpTo(ev, sq, t, x) /\ ev2[t] = ev[t] /\ sq2[t] = sq[t]
  <2>1. sq2[t] \in Nat /\ sq2[t] =< x
    BY <1>1 DEF RowUpTo
  <2>2. ~ (sq2[t] > n)
    BY <1>1, <2>1
  <2> QED
    BY <1>1, <2>2 DEF RowsMove, RowUpTo
<1>2. ASSUME NEW t \in Tasks, NEW x \in 0 .. MaxSeq, x =< n, RowUpTo(ev2, sq2, t, x), NEW i,
             RowUpTo(ev, sq, t, x) => Told(w, view, ev, t, i)
      PROVE  Told(w, view, ev2, t, i)
  BY <1>1, <1>2 DEF Told, Tells
<1>3. WireSafe(w, view, ev2, sq2, n2)
  <2> SUFFICES ASSUME NEW i \in 1 .. Len(w)
               PROVE  /\ w[i].cursor =< n2
                      /\ \A t \in Tasks : RowUpTo(ev2, sq2, t, w[i].cursor)
                             => Told(w, view, ev2, t, i)
    BY DEF WireSafe
  <2>1. w[i] \in Frame
    BY ElementOfSeq
  <2>2. w[i].cursor \in 0 .. MaxSeq /\ w[i].cursor =< n
    BY <2>1 DEF Frame, WireSafe
  <2> QED
    BY <1>2, <2>2 DEF WireSafe
<1>4. k.cursor \in 0 .. MaxSeq
  BY DEF Connection
<1>5. CursorSafe(k, w, view, ev, sq, n) => CursorSafe(k, w, view, ev2, sq2, n2)
  BY <1>2, <1>4 DEF CursorSafe
<1>6. ASSUME ReadSafe(k, w, view, ev, sq, n)
      PROVE  ReadSafe(k, w, view, ev2, sq2, n2)
  <2>1. k.read.nextCursor \in 0 .. MaxSeq /\ k.read.nextCursor =< n
    BY <1>6 DEF ReadSafe, Connection, Read
  <2>2. k.read.nextCursor =< n2
    BY <2>1
  <2>3. ASSUME NEW t \in Tasks, RowUpTo(ev2, sq2, t, k.read.nextCursor),
               k.generation = k.readGeneration
        PROVE  \/ Told(w, view, ev2, t, Len(w))
               \/ [ev |-> ev2[t], seq |-> sq2[t]] \in k.read.rows
    <3>1. /\ RowUpTo(ev, sq, t, k.read.nextCursor) /\ ev2[t] = ev[t] /\ sq2[t] = sq[t]
      BY <1>1, <2>1, <2>3
    <3>2. \/ Told(w, view, ev, t, Len(w))
          \/ [ev |-> ev[t], seq |-> sq[t]] \in k.read.rows
      BY <1>6, <2>3, <3>1 DEF ReadSafe
    <3>3. Told(w, view, ev, t, Len(w)) => Told(w, view, ev2, t, Len(w))
      BY <3>1 DEF Told, Tells
    <3> QED
      BY <3>1, <3>2, <3>3
  <2> QED
    BY <1>6, <2>2, <2>3 DEF ReadSafe
<1>7. CaughtUp(k, ev, sq, un) => CaughtUp(k, ev2, sq2, un2)
  BY DEF CaughtUp, RowsMove
<1>8. WillCatchUp(k, ev, sq, un) => WillCatchUp(k, ev2, sq2, un2)
  BY DEF WillCatchUp, RowsMove
<1> QED
  BY <1>3, <1>5, <1>6, <1>7, <1>8 DEF ConnSafe, Reading, Resting

-----------------------------------------------------------------------------
(* Pushes come in.                                                         *)

\* A device that pushes a batch has applied it, and forgets nothing.
LEMMA PushesGrow ==
    ASSUME HubInv, NEW d \in Devices, NEW b \in Batches, Pushes(d, b)
    PROVE  /\ device' \in [Devices -> Device]
           /\ \A x \in Devices : /\ device'[x].cursor = device[x].cursor
                                 /\ Grown(device[x].view, device'[x].view)
           /\ \A i \in 1 .. Len(b) : Covers(device'[d].view[b[i].ev.task], b[i].ev)
<1> DEFINE evs == [i \in 1 .. Len(b) |-> b[i].ev]
           mine == {b[i].ev : i \in 1 .. Len(b)}
           old == device[d].view
           Owns(t) == {e \in mine : e.task = t}
           Newest(t) == CHOOSE e \in mine : e.task = t /\ \A f \in mine :
                                                f.task = t => Covers(e, f)
           new == [t \in Tasks |->
                     IF \E e \in mine : e.task = t /\ ~Covers(old[t], e)
                     THEN CHOOSE e \in mine : e.task = t /\ \A f \in mine :
                                         f.task = t => Covers(e, f)
                     ELSE old[t]]
<1>1. device' = [device EXCEPT ![d].view = new]
  BY DEF Pushes
<1>2. device \in [Devices -> Device] /\ old \in [Tasks -> Events \cup {NoEvent}]
  BY DEF HubInv, TypeOK, Device
<1>3. /\ Len(b) \in Nat
      /\ \A i \in 1 .. Len(b) : b[i].ev \in Events /\ b[i].ev.task \in Tasks
  <2>1. b \in Seq([acct : Accounts, ev : Events])
    BY BatchesTyped
  <2>2. Len(b) \in Nat
    BY <2>1, LenProperties
  <2>3. \A i \in 1 .. Len(b) : b[i] \in [acct : Accounts, ev : Events]
    BY <2>1, ElementOfSeq
  <2> QED
    BY <2>2, <2>3, EventsTyped
<1>4. mine \in SUBSET Events /\ IsFiniteSet(mine)
  <2>1. IsFiniteSet(1 .. Len(b)) /\ DOMAIN evs = 1 .. Len(b)
    BY <1>3, FS_Interval
  <2>2. mine = {evs[i] : i \in 1 .. Len(b)}
    OBVIOUS
  <2> HIDE DEF evs
  <2>3. IsFiniteSet({evs[i] : i \in 1 .. Len(b)})
    BY <2>1, FiniteImage
  <2> QED
    BY <1>3, <2>2, <2>3
<1> HIDE DEF mine
<1>5. ASSUME NEW t \in Tasks, Owns(t) # {}
      PROVE  Newest(t) \in Owns(t) /\ \A f \in Owns(t) : Covers(Newest(t), f)
  <2>1. Owns(t) \in SUBSET mine /\ Owns(t) \in SUBSET Events
    BY <1>4
  <2>2. IsFiniteSet(Owns(t))
    BY <1>4, <2>1, FS_Subset
  <2>3. \E e \in Owns(t) : \A f \in Owns(t) : Covers(e, f)
    BY <1>5, <2>1, <2>2, NewestExists
  <2> QED
    BY <2>3
<1>6. ASSUME NEW t \in Tasks
      PROVE  /\ new[t] \in Events \cup {NoEvent}
             /\ \A f \in Events : Covers(old[t], f) => Covers(new[t], f)
             /\ \A f \in Owns(t) : Covers(new[t], f)
  <2>1. CASE \E e \in mine : e.task = t /\ ~Covers(old[t], e)
    <3>1. PICK e \in Owns(t) : ~Covers(old[t], e)
      BY <2>1
    <3>2. PICK g : g = Newest(t)
      OBVIOUS
    <3>3. new[t] = g
      BY <2>1, <3>2
    <3>4. g \in Owns(t) /\ \A f \in Owns(t) : Covers(g, f)
      BY <1>5, <3>1, <3>2
    <3>5. g \in Events /\ e \in Events /\ Covers(g, e)
      BY <1>4, <3>1, <3>4
    <3>6. ASSUME NEW f \in Events, Covers(old[t], f)
          PROVE  Covers(g, f)
      <4>1. old[t] \in Events
        BY <1>2, <3>6 DEF Covers
      <4>2. Covers(e, old[t])
        BY <3>1, <3>5, <4>1, CoversTotal
      <4> QED
        BY <3>5, <3>6, <4>1, <4>2, CoversTransitive
    <3> QED
      BY <3>3, <3>4, <3>5, <3>6
  <2>2. CASE ~ \E e \in mine : e.task = t /\ ~Covers(old[t], e)
    <3>1. new[t] = old[t]
      BY <2>2
    <3> QED
      BY <1>2, <2>2, <3>1
  <2> QED
    BY <2>1, <2>2
<1>7. new \in [Tasks -> Events \cup {NoEvent}]
  BY <1>6
<1>8. Grown(old, new)
  BY <1>6 DEF Grown
<1>9. \A i \in 1 .. Len(b) : b[i].ev \in Owns(b[i].ev.task)
  BY DEF mine
<1> HIDE DEF new, Owns, Newest
<1>10. /\ device' \in [Devices -> Device] /\ device'[d].view = new
       /\ \A x \in Devices : device'[x].cursor = device[x].cursor
       /\ \A x \in Devices : x # d => device'[x].view = device[x].view
  BY <1>1, <1>2, <1>7 DEF Device
<1>11. \A x \in Devices : Grown(device[x].view, device'[x].view)
  BY <1>8, <1>10 DEF Grown
<1> QED
  BY <1>3, <1>6, <1>9, <1>10, <1>11

\* A new request, of a device that has applied the batch or of a client whose
\* connection is not known.
LEMMA ArrivesHubInv ==
    ASSUME HubInv, NEW q \in Requests, NEW s \in Accounts \cup {NoSubject},
           NEW a \in Accounts, NEW b \in Batches, Receive(q, s, a, b),
           NEW o \in Conns \cup {"rest"}, origin' = [origin EXCEPT ![q] = o],
           device' \in [Devices -> Device],
           \A x \in Devices : /\ device'[x].cursor = device[x].cursor
                              /\ Grown(device[x].view, device'[x].view),
           o # "rest" => \A i \in 1 .. Len(b) :
               Covers(device'[DeviceOf[o]].view[b[i].ev.task], b[i].ev),
           UNCHANGED <<conn, byAccount, wire, unannounced, scope>>
    PROVE  HubInv'
<1>1. PushInv'
  BY ReceivePushInv DEF HubInv
<1>2. storeVars' = storeVars
  BY DEF Receive
<1>3. TypeOK'
  BY <1>1 DEF HubInv, TypeOK, PushInv
<1>4. RegistryFinite'
  BY RegistrySame
<1>5. \A c \in Accounts : RowsFiled(event[c], seq[c], counter[c])'
  BY <1>2 DEF HubInv, RowsFiled, storeVars
<1>6. ASSUME NEW p \in Requests PROVE OriginSafe(p)'
  <2>1. req \in [Requests -> {Free} \cup Request] /\ origin \in [Requests -> Conns \cup {"rest"}]
    BY DEF HubInv, TypeOK, PushTypeOK
  <2>2. CASE p = q
    <3>1. req'[p].batch = b /\ origin'[p] = o
      BY <2>1, <2>2 DEF Receive
    <3> QED
      BY <3>1 DEF OriginSafe
  <2>3. CASE p # q
    <3>1. req'[p] = req[p] /\ origin'[p] = origin[p]
      BY <2>1, <2>3 DEF Receive
    <3> SUFFICES ASSUME req[p] # Free, origin[p] # "rest", NEW i \in 1 .. Len(req[p].batch)
                 PROVE  Covers(device'[DeviceOf[origin[p]]].view[req[p].batch[i].ev.task],
                               req[p].batch[i].ev)
      BY <3>1 DEF OriginSafe
    <3>2. req[p] \in Request /\ origin[p] \in Conns /\ DeviceOf[origin[p]] \in Devices
      BY <2>1, HubTyped
    <3>3. req[p].batch[i].ev \in Events /\ req[p].batch[i].ev.task \in Tasks
      BY <3>2, BatchItems, EventsTyped
    <3>4. Covers(device[DeviceOf[origin[p]]].view[req[p].batch[i].ev.task],
                 req[p].batch[i].ev)
      BY DEF HubInv, OriginSafe
    <3> QED
      BY <3>2, <3>3, <3>4 DEF Grown
  <2> QED
    BY <2>2, <2>3
<1>7. ASSUME NEW x \in Devices PROVE DeviceSafe(x)'
  <2>1. AccountOf[x] \in Accounts /\ StoreTypeOK /\ DeviceSafe(x)
    BY HubTyped DEF HubInv, TypeOK, PushTypeOK
  <2>2. \A t \in Tasks : event[AccountOf[x]][t] \in Events \cup {NoEvent}
    BY <2>1 DEF StoreTypeOK
  <2> QED
    BY <1>2, <2>1, <2>2 DEF DeviceSafe, RowUpTo, Grown, storeVars
<1>8. ASSUME NEW c \in Conns PROVE Safe(c, conn[c], wire[c])'
  <2>1. /\ Acct(c) \in Accounts /\ DeviceOf[c] \in Devices /\ StoreTypeOK
        /\ Safe(c, conn[c], wire[c])
    BY AboutConn
  <2>2. event[Acct(c)] \in [Tasks -> Events \cup {NoEvent}]
    BY <2>1 DEF StoreTypeOK
  <2>3. Grown(device[DeviceOf[c]].view, device'[DeviceOf[c]].view)
    BY <2>1
  <2>4. /\ WireSafe(wire[c], device[DeviceOf[c]].view, event[Acct(c)], seq[Acct(c)],
                    counter[Acct(c)])
        /\ ConnSafe(conn[c], wire[c], device[DeviceOf[c]].view, event[Acct(c)],
                    seq[Acct(c)], counter[Acct(c)], unannounced[Acct(c)])
    BY <2>1 DEF Safe
  <2>5. /\ WireSafe(wire[c], device'[DeviceOf[c]].view, event[Acct(c)], seq[Acct(c)],
                    counter[Acct(c)])
        /\ ConnSafe(conn[c], wire[c], device'[DeviceOf[c]].view, event[Acct(c)],
                    seq[Acct(c)], counter[Acct(c)], unannounced[Acct(c)])
    <3>1. PICK k, w, old, new, ev, sq, n, un :
              /\ k = conn[c] /\ w = wire[c] /\ old = device[DeviceOf[c]].view
              /\ new = device'[DeviceOf[c]].view /\ ev = event[Acct(c)]
              /\ sq = seq[Acct(c)] /\ n = counter[Acct(c)] /\ un = unannounced[Acct(c)]
      OBVIOUS
    <3>2. /\ WireSafe(w, old, ev, sq, n) /\ ConnSafe(k, w, old, ev, sq, n, un)
          /\ Grown(old, new) /\ ev \in [Tasks -> Events \cup {NoEvent}]
      BY <2>2, <2>3, <2>4, <3>1
    <3>3. WireSafe(w, new, ev, sq, n) /\ ConnSafe(k, w, new, ev, sq, n, un)
      BY <3>2, SafeGrown
    <3> QED
      BY <3>1, <3>3
  <2> QED
    BY <1>2, <2>5 DEF Safe, Acct, storeVars
<1> QED
  BY <1>1, <1>3, <1>4, <1>5, <1>6, <1>7, <1>8 DEF HubInv, ConnInv

LEMMA PushFrameHubInv ==
    ASSUME HubInv, NEW q \in Requests, NEW c \in Conns, NEW b \in Batches, PushFrame(q, c, b)
    PROVE  HubInv'
<1>1. Acct(c) \in Accounts /\ DeviceOf[c] \in Devices
  BY AboutConn
<1>2. PICK s \in {Acct(c), NoSubject} : Receive(q, s, Acct(c), b)
  BY DEF PushFrame
<1>3. /\ device' \in [Devices -> Device]
      /\ \A x \in Devices : /\ device'[x].cursor = device[x].cursor
                            /\ Grown(device[x].view, device'[x].view)
      /\ \A i \in 1 .. Len(b) : Covers(device'[DeviceOf[c]].view[b[i].ev.task], b[i].ev)
  BY <1>1, PushesGrow DEF PushFrame
<1>4. /\ c \in Conns \cup {"rest"} /\ s \in Accounts \cup {NoSubject}
      /\ origin' = [origin EXCEPT ![q] = c]
      /\ UNCHANGED <<conn, byAccount, wire, unannounced, scope>>
  BY <1>1 DEF PushFrame
<1> QED
  BY <1>1, <1>2, <1>3, <1>4, ArrivesHubInv

LEMMA RestPushHubInv ==
    ASSUME HubInv, NEW q \in Requests, NEW d \in Devices, NEW b \in Batches, RestPush(q, d, b)
    PROVE  HubInv'
<1>1. AccountOf[d] \in Accounts
  BY HubTyped
<1>2. /\ device' \in [Devices -> Device]
      /\ \A x \in Devices : /\ device'[x].cursor = device[x].cursor
                            /\ Grown(device[x].view, device'[x].view)
  BY PushesGrow DEF RestPush
<1>3. /\ "rest" \in Conns \cup {"rest"} /\ AccountOf[d] \in Accounts \cup {NoSubject}
      /\ origin' = [origin EXCEPT ![q] = "rest"]
      /\ UNCHANGED <<conn, byAccount, wire, unannounced, scope>>
      /\ Receive(q, AccountOf[d], AccountOf[d], b)
  BY <1>1 DEF RestPush
<1> QED
  BY <1>1, <1>2, <1>3, ArrivesHubInv

LEMMA StrangerPushHubInv ==
    ASSUME HubInv, NEW q \in Requests, NEW s \in Accounts \cup {NoSubject},
           NEW a \in Accounts, NEW b \in Batches, StrangerPush(q, s, a, b)
    PROVE  HubInv'
<1>1. /\ device' \in [Devices -> Device]
      /\ \A x \in Devices : /\ device'[x].cursor = device[x].cursor
                            /\ Grown(device[x].view, device'[x].view)
  BY DEF StrangerPush, HubInv, TypeOK, Grown
<1>2. /\ "rest" \in Conns \cup {"rest"}
      /\ origin' = [origin EXCEPT ![q] = "rest"]
      /\ UNCHANGED <<conn, byAccount, wire, unannounced, scope>>
      /\ Receive(q, s, a, b)
  BY DEF StrangerPush
<1> QED
  BY <1>1, <1>2, ArrivesHubInv

-----------------------------------------------------------------------------
(* Pushes run and return.                                                  *)

\* A step of the handler keeps the batch of every request, and starts none.
LEMMA HandlerKeepsBatches ==
    ASSUME PushInv, NEW q \in Requests, HandlerStep(q), NEW p \in Requests, req'[p] # Free
    PROVE  req[p] # Free /\ req'[p].batch = req[p].batch
<1>1. req \in [Requests -> {Free} \cup Request] /\ req[q] # Free
  BY DEF PushInv, PushTypeOK, HandlerStep, Authorise, ForeignItem, DuplicateItem, PutItem,
         PutFails, Finish, InLoop, Free
<1>2. CASE p # q
  <2>1. req'[p] = req[p]
    BY <1>1, <1>2 DEF HandlerStep, Authorise, ForeignItem, DuplicateItem, PutItem,
         PutFails, Finish, Respond
  <2> QED
    BY <2>1
<1>3. CASE p = q
  <2> SUFFICES req'[q].batch = req[q].batch
    BY <1>1, <1>3
  <2>1. req[q] \in Request
    BY <1>1
  <2>2. ASSUME NEW st \in {200, 400, 401, 403, 500}, Respond(q, st)
        PROVE  req'[q].batch = req[q].batch
    BY <1>1, <2>1, <2>2, RespondRecord
  <2>3. CASE Authorise(q)
    <3>1. ASSUME req' = [req EXCEPT ![q].phase = "loop"]
          PROVE  req'[q].batch = req[q].batch
      BY <1>1, <2>1, <3>1 DEF Request
    <3> QED
      BY <2>2, <2>3, <3>1 DEF Authorise
  <2>4. ASSUME NEW id \in EventIds, req[q].next \in 1 .. MaxBatch,
               \/ req' = [req EXCEPT ![q].next = @ + 1, ![q].accepted = @ \cup {id}]
               \/ req' = [req EXCEPT ![q].next = @ + 1, ![q].rejected = @ \cup {id}]
        PROVE  req'[q].batch = req[q].batch
    <3>1. PICK r \in Request : req' = [req EXCEPT ![q] = r] /\ Passed(r, req[q], id)
      BY <1>1, <2>1, <2>4, PassRecord, Zenon
    <3> QED
      BY <1>1, <3>1 DEF Passed
  <2>5. InLoop(q) => Item(q).ev.eventId \in EventIds /\ req[q].next \in 1 .. MaxBatch
    <3> SUFFICES ASSUME InLoop(q)
                 PROVE  Item(q).ev.eventId \in EventIds /\ req[q].next \in 1 .. MaxBatch
      OBVIOUS
    <3>1. RequestSound(req[q]) /\ LoopSound(req[q])
      BY <1>1 DEF PushInv, RequestSound, InLoop
    <3>2. req[q].next \in 1 .. Len(req[q].batch) /\ req[q].next \in 1 .. MaxBatch
      BY <2>1, <3>1, BatchItems, BatchesTyped DEF LoopSound, InLoop
    <3> QED
      BY <2>1, <3>2, BatchItems DEF Item
  <2>6. CASE DuplicateItem(q)
    <3>1. req' = [req EXCEPT ![q].next = @ + 1, ![q].accepted = @ \cup {Item(q).ev.eventId}]
      BY <2>6, Zenon DEF DuplicateItem
    <3>2. InLoop(q)
      BY <2>6 DEF DuplicateItem
    <3> QED
      BY <2>4, <2>5, <3>1, <3>2, Zenon
  <2>7. CASE PutItem(q)
    <3>1. \/ req' = [req EXCEPT ![q].next = @ + 1, ![q].accepted = @ \cup {Item(q).ev.eventId}]
          \/ req' = [req EXCEPT ![q].next = @ + 1, ![q].rejected = @ \cup {Item(q).ev.eventId}]
      BY <2>7, Zenon DEF PutItem
    <3>2. InLoop(q)
      BY <2>7 DEF PutItem
    <3> QED
      BY <2>4, <2>5, <3>1, <3>2, Zenon
  <2>8. CASE ForeignItem(q) \/ PutFails(q) \/ Finish(q)
    BY <2>2, <2>8 DEF ForeignItem, PutFails, Finish
  <2> QED
    BY <2>3, <2>6, <2>7, <2>8 DEF HandlerStep
<1> QED
  BY <1>2, <1>3

\* What a step of the handler does to the rows of an account.
LEMMA HandlerRows ==
    ASSUME PushInv, NEW q \in Requests, HandlerStep(q), NEW a \in Accounts
    PROVE  /\ counter[a] \in Nat /\ counter'[a] \in Nat /\ counter[a] =< counter'[a]
           /\ \A t \in Tasks :
                 \/ event'[a][t] = event[a][t] /\ seq'[a][t] = seq[a][t]
                 \/ /\ event'[a][t] \in Events /\ event'[a][t].task = t
                    /\ event'[a][t] # event[a][t]
                    /\ seq'[a][t] = counter'[a] /\ seq'[a][t] > counter[a]
<1>0. StoreTypeOK
  BY DEF PushInv, PushTypeOK
<1>1. CASE PutItem(q)
  <2>1. InLoop(q) /\ req[q] # Free
    BY <1>1 DEF PutItem, InLoop, Free
  <2>2. req[q] \in Request /\ RequestSound(req[q]) /\ LoopSound(req[q])
    BY <2>1 DEF PushInv, PushTypeOK, RequestSound, InLoop
  <2>3. req[q].next \in 1 .. Len(req[q].batch) /\ req[q].acct \in Accounts
    BY <2>1, <2>2, BatchItems DEF InLoop, Request
  <2>4. PICK e \in Events, b \in Accounts : e = Item(q).ev /\ b = req[q].acct
    BY <2>2, <2>3, BatchItems DEF Item
  <2>5. PutEvent(b, e)
    BY <1>1, <2>4 DEF PutItem
  <2>6. /\ counter' = [counter EXCEPT ![b] = @ + 1]
        /\ counter[a] \in Nat /\ counter[a] =< counter'[a]
        /\ \A t \in Tasks :
              \/ event'[a][t] = event[a][t] /\ seq'[a][t] = seq[a][t]
              \/ /\ a = b /\ t = e.task /\ ~Stale(b, e)
                 /\ event'[a][t] = e /\ seq'[a][t] = counter'[a]
                 /\ counter'[a] = counter[a] + 1
    BY <1>0, <2>5, PutEventRows
  <2>7. counter'[a] \in Nat
    BY <1>0, <2>6 DEF StoreTypeOK
  <2>8. ~Stale(b, e) => event[b][e.task] # e
    BY CoversReflexive DEF Stale
  <2> QED
    BY <2>6, <2>7, <2>8
<1>2. CASE storeVars' = storeVars
  BY <1>0, <1>2 DEF storeVars, StoreTypeOK
<1> QED
  BY <1>1, <1>2 DEF HandlerStep, Authorise, ForeignItem, DuplicateItem, PutFails, Finish

\* What a push changes is past every cursor and unannounced.
LEMMA PushStepHubInv ==
    ASSUME HubInv, NEW q \in Requests, PushStep(q)
    PROVE  HubInv'
<1>0. HandlerStep(q) /\ UNCHANGED <<conn, byAccount, wire, origin, device, scope>>
  BY DEF PushStep
<1>1. PushInv /\ PushInv'
  BY <1>0, HandlerStepPushInv DEF HubInv
<1>2. StoreTypeOK /\ StoreTypeOK'
  BY <1>1 DEF PushInv, PushTypeOK
<1>3. ASSUME NEW a \in Accounts
      PROVE  /\ unannounced[a] \subseteq unannounced'[a]
             /\ unannounced'[a] \in SUBSET Events
             /\ RowsMove(event[a], seq[a], counter[a], event'[a], seq'[a], counter'[a],
                         unannounced'[a])
             /\ RowsFiled(event'[a], seq'[a], counter'[a])
  <2>1. unannounced'[a] = unannounced[a] \cup
            {event'[a][t] : t \in {u \in Tasks : event'[a][u] # event[a][u]}}
    BY DEF PushStep
  <2>2. unannounced[a] \in SUBSET Events
    BY DEF HubInv, TypeOK
  <2>3. \A t \in Tasks : event'[a][t] # event[a][t] => event'[a][t] \in Events
    BY <1>0, <1>1, HandlerRows
  <2>4. RowsMove(event[a], seq[a], counter[a], event'[a], seq'[a], counter'[a],
                 unannounced'[a])
    BY <1>0, <1>1, <2>1, HandlerRows DEF RowsMove
  <2>5. RowsFiled(event'[a], seq'[a], counter'[a])
    <3> SUFFICES ASSUME NEW t \in Tasks
                 PROVE  /\ seq'[a][t] =< counter'[a]
                        /\ event'[a][t] # NoEvent => seq'[a][t] > 0 /\ event'[a][t].task = t
      BY DEF RowsFiled
    <3>1. /\ counter[a] \in Nat /\ counter'[a] \in Nat /\ counter[a] =< counter'[a]
          /\ seq[a][t] \in Nat
      BY <1>0, <1>1, <1>2, HandlerRows DEF StoreTypeOK
    <3>2. RowsFiled(event[a], seq[a], counter[a])
      BY DEF HubInv
    <3>3. CASE event'[a][t] = event[a][t] /\ seq'[a][t] = seq[a][t]
      BY <3>1, <3>2, <3>3 DEF RowsFiled
    <3>4. CASE /\ event'[a][t] \in Events /\ event'[a][t].task = t
               /\ seq'[a][t] = counter'[a] /\ seq'[a][t] > counter[a]
      BY <3>1, <3>4
    <3> QED
      BY <1>0, <1>1, <3>3, <3>4, HandlerRows
  <2> QED
    BY <2>1, <2>2, <2>3, <2>4, <2>5
<1>4. unannounced' \in [Accounts -> SUBSET Events]
  <2>1. unannounced' = [a \in Accounts |-> unannounced'[a]]
    BY DEF PushStep
  <2> QED
    BY <1>3, <2>1
<1>5. TypeOK'
  BY <1>0, <1>1, <1>4 DEF HubInv, TypeOK, PushInv
<1>6. RegistryFinite'
  BY <1>0, RegistrySame
<1>7. ASSUME NEW p \in Requests PROVE OriginSafe(p)'
  BY <1>0, <1>1, HandlerKeepsBatches DEF HubInv, OriginSafe
<1>8. ASSUME NEW x \in Devices PROVE DeviceSafe(x)'
  <2> DEFINE a == AccountOf[x]
  <2>1. a \in Accounts /\ DeviceSafe(x) /\ device[x] \in Device
    BY HubTyped DEF HubInv, TypeOK
  <2>2. /\ counter[a] \in Nat /\ counter'[a] \in Nat /\ counter[a] =< counter'[a]
        /\ \A t \in Tasks : seq'[a][t] \in Nat
    BY <1>0, <1>1, <1>2, <2>1, HandlerRows DEF StoreTypeOK
  <2>3. device[x].cursor \in Nat /\ device[x].cursor =< counter[a]
    BY <2>1 DEF DeviceSafe, Device
  <2>4. ASSUME NEW t \in Tasks, RowUpTo(event'[a], seq'[a], t, device[x].cursor)
        PROVE  Covers(device[x].view[t], event'[a][t])
    <3>1. event'[a][t] = event[a][t] /\ seq'[a][t] = seq[a][t]
      BY <1>3, <2>1, <2>2, <2>3, <2>4 DEF RowsMove, RowUpTo
    <3> QED
      BY <2>1, <2>4, <3>1 DEF DeviceSafe, RowUpTo
  <2> QED
    BY <1>0, <2>2, <2>3, <2>4 DEF DeviceSafe
<1>9. ASSUME NEW c \in Conns PROVE Safe(c, conn[c], wire[c])'
  <2>1. PICK k, w, view, a :
           k = conn[c] /\ w = wire[c] /\ view = device[DeviceOf[c]].view /\ a = Acct(c)
    OBVIOUS
  <2>2. /\ a \in Accounts /\ k \in Connection /\ w \in Seq(Frame)
        /\ WireSafe(w, view, event[a], seq[a], counter[a])
        /\ ConnSafe(k, w, view, event[a], seq[a], counter[a], unannounced[a])
    BY <2>1, AboutConn DEF Safe
  <2>3. /\ counter[a] \in Nat /\ counter'[a] \in Nat /\ counter[a] =< counter'[a]
        /\ seq'[a] \in [Tasks -> 0 .. MaxSeq]
    BY <1>0, <1>1, <1>2, <2>2, HandlerRows DEF StoreTypeOK
  <2>4. PICK ev, sq, n, un, ev2, sq2, n2, un2 :
           /\ ev = event[a] /\ sq = seq[a] /\ n = counter[a] /\ un = unannounced[a]
           /\ ev2 = event'[a] /\ sq2 = seq'[a] /\ n2 = counter'[a] /\ un2 = unannounced'[a]
    OBVIOUS
  <2>5. /\ n \in Nat /\ n2 \in Nat /\ n =< n2 /\ sq2 \in [Tasks -> 0 .. MaxSeq]
        /\ un \subseteq un2 /\ RowsMove(ev, sq, n, ev2, sq2, n2, un2)
        /\ WireSafe(w, view, ev, sq, n) /\ ConnSafe(k, w, view, ev, sq, n, un)
    BY <1>3, <2>2, <2>3, <2>4
  <2>6. WireSafe(w, view, ev2, sq2, n2) /\ ConnSafe(k, w, view, ev2, sq2, n2, un2)
    BY <2>2, <2>5, SafeMoved
  <2> QED
    BY <1>0, <2>1, <2>4, <2>6 DEF Safe, Acct
<1>10. \A a \in Accounts : RowsFiled(event[a], seq[a], counter[a])'
  BY <1>3
<1> QED
  BY <1>1, <1>5, <1>6, <1>7, <1>8, <1>9, <1>10 DEF HubInv, ConnInv

\* A request that is over is forgotten.
LEMMA FreedRequest ==
    ASSUME HubInv, NEW q \in Requests, req' = [req EXCEPT ![q] = Free],
           origin' = [origin EXCEPT ![q] = "rest"], UNCHANGED <<storeVars, device>>
    PROVE  /\ PushInv' /\ \A p \in Requests : OriginSafe(p)'
           /\ origin' \in [Requests -> Conns \cup {"rest"}]
<1>1. PushInv'
  BY FreePushInv DEF HubInv
<1>2. origin' \in [Requests -> Conns \cup {"rest"}]
  BY DEF HubInv, TypeOK
<1>3. ASSUME NEW p \in Requests PROVE OriginSafe(p)'
  <2>1. req \in [Requests -> {Free} \cup Request] /\ origin \in [Requests -> Conns \cup {"rest"}]
    BY DEF HubInv, TypeOK, PushTypeOK
  <2>2. CASE p = q
    BY <2>1, <2>2 DEF OriginSafe
  <2>3. CASE p # q
    <3>1. req'[p] = req[p] /\ origin'[p] = origin[p]
      BY <2>1, <2>3
    <3> QED
      BY <3>1 DEF HubInv, OriginSafe
  <2> QED
    BY <2>2, <2>3
<1> QED
  BY <1>1, <1>2, <1>3

\* The device of a push frame has every event its push had accepted.
LEMMA AcceptedIsOwn ==
    ASSUME HubInv, NEW q \in Requests, req[q] # Free, origin[q] # "rest",
           NEW e \in Events, e.eventId \in req[q].accepted
    PROVE  Covers(device[DeviceOf[origin[q]]].view[e.task], e)
<1>1. req[q] \in Request /\ RequestSound(req[q])
  BY DEF HubInv, PushInv, PushTypeOK
<1>2. PICK i \in 1 .. (req[q].next - 1) : req[q].batch[i].ev.eventId = e.eventId
  BY <1>1 DEF RequestSound, AnswerSound
<1>3. i \in 1 .. Len(req[q].batch)
  BY <1>1, <1>2, BatchItems DEF RequestSound
<1>4. req[q].batch[i].ev \in Events
  BY <1>1, <1>3, BatchItems
<1>5. req[q].batch[i].ev = e
  BY <1>2, <1>4, EventIdsUnique
<1>6. Covers(device[DeviceOf[origin[q]]].view[req[q].batch[i].ev.task], req[q].batch[i].ev)
  BY <1>3 DEF HubInv, OriginSafe
<1> QED
  BY <1>5, <1>6

\* After a push, the connections are told, or the one it came from is closed.
LEMMA PushReturnsHubInv ==
    ASSUME HubInv, NEW q \in Requests, PushReturns(q)
    PROVE  HubInv'
<1>0. /\ req[q] # Free /\ req' = [req EXCEPT ![q] = Free]
      /\ origin' = [origin EXCEPT ![q] = "rest"] /\ UNCHANGED <<storeVars, device, scope>>
  BY DEF PushReturns
<1>1. /\ PushInv' /\ \A p \in Requests : OriginSafe(p)'
      /\ origin' \in [Requests -> Conns \cup {"rest"}]
  BY <1>0, FreedRequest
<1>2. req[q] \in Request /\ origin[q] \in Conns \cup {"rest"}
  BY <1>0 DEF HubInv, TypeOK, PushTypeOK
<1>3. req[q].acct \in Accounts /\ req[q].accepted \in SUBSET EventIds
  BY <1>2 DEF Request
<1>4. ASSUME NEW ids \in SUBSET EventIds, origin[q] # "rest" => ids = req[q].accepted,
             origin[q] = "rest" => ids = {},
             NotifyAccount(req[q].acct, origin[q], ids), UNCHANGED byAccount
      PROVE  HubInv'
  <2>1. ASSUME NEW c \in Conns, NEW e \in Events, c = origin[q], e.eventId \in ids
        PROVE  Covers(device[DeviceOf[c]].view[e.task], e)
    <3>1. origin[q] # "rest" /\ e.eventId \in req[q].accepted
      BY <1>4, <2>1
    <3> QED
      BY <1>0, <2>1, <3>1, AcceptedIsOwn
  <2>2. /\ conn' \in [Conns -> Connection] /\ wire' \in [Conns -> Seq(Frame)]
        /\ unannounced' \in [Accounts -> SUBSET Events]
        /\ byAccount' \in [Accounts -> SUBSET Conns] /\ RegistryFinite'
        /\ ConnInv'
    BY <1>0, <1>3, <1>4, <2>1, NotifySafe
  <2> QED
    BY <1>0, <1>1, <2>2, ServerStep
<1>5. ASSUME NEW c \in Conns, Teardown({c}), UNCHANGED <<wire, unannounced>>
      PROVE  HubInv'
  <2>1. /\ conn' \in [Conns -> Connection] /\ wire' \in [Conns -> Seq(Frame)]
        /\ byAccount' \in [Accounts -> SUBSET Conns] /\ RegistryFinite'
        /\ \A b \in Conns : Safe(b, conn'[b], wire'[b])
    BY <1>0, <1>5, TeardownSafe
  <2>2. ConnInv'
    BY <1>0, <1>5, <2>1, SafeSame
  <2>3. unannounced' \in [Accounts -> SUBSET Events]
    BY <1>5 DEF HubInv, TypeOK
  <2> QED
    BY <1>0, <1>1, <2>1, <2>2, <2>3, ServerStep
<1>6. ASSUME UNCHANGED <<conn, byAccount, wire, unannounced>>
      PROVE  HubInv'
  <2>1. RegistryFinite' /\ byAccount' \in [Accounts -> SUBSET Conns]
    BY <1>6, RegistrySame
  <2>2. \A c \in Conns : Safe(c, conn'[c], wire'[c])
    BY <1>6 DEF HubInv, ConnInv
  <2>3. ConnInv'
    BY <1>0, <1>6, <2>2, SafeSame
  <2>4. /\ conn' \in [Conns -> Connection] /\ wire' \in [Conns -> Seq(Frame)]
        /\ unannounced' \in [Accounts -> SUBSET Events]
    BY <1>6 DEF HubInv, TypeOK
  <2> QED
    BY <1>0, <1>1, <2>1, <2>3, <2>4, ServerStep
<1>7. \/ /\ origin[q] = "rest" /\ NotifyAccount(req[q].acct, origin[q], {})
         /\ UNCHANGED byAccount
      \/ /\ origin[q] # "rest" /\ NotifyAccount(req[q].acct, origin[q], req[q].accepted)
         /\ UNCHANGED byAccount
      \/ origin[q] # "rest" /\ Teardown({origin[q]}) /\ UNCHANGED <<wire, unannounced>>
      \/ UNCHANGED <<conn, byAccount, wire, unannounced>>
  BY DEF PushReturns
<1> QED
  BY <1>2, <1>3, <1>4, <1>5, <1>6, <1>7

-----------------------------------------------------------------------------
(* The other end, and the process.                                         *)

\* What the device makes of a frame's events is never older than what it had.
LEMMA AppliedGrow ==
    ASSUME NEW f \in Frame, \A x, y \in f.events : x.task = y.task => x = y,
           NEW old \in [Tasks -> Events \cup {NoEvent}],
           NEW new, new = [t \in Tasks |->
                              IF \E e \in f.events : e.task = t /\ ~Covers(old[t], e)
                              THEN CHOOSE e \in f.events : e.task = t
                              ELSE old[t]]
    PROVE  /\ new \in [Tasks -> Events \cup {NoEvent}] /\ Grown(old, new)
           /\ \A e \in f.events : Covers(new[e.task], e)
<1>1. f.events \in SUBSET Events
  BY DEF Frame
<1>2. ASSUME NEW t \in Tasks
      PROVE  /\ new[t] \in Events \cup {NoEvent}
             /\ \A g \in Events : Covers(old[t], g) => Covers(new[t], g)
             /\ \A e \in f.events : e.task = t => Covers(new[t], e)
  <2>1. CASE \E e \in f.events : e.task = t /\ ~Covers(old[t], e)
    <3>1. PICK e \in f.events : e.task = t /\ ~Covers(old[t], e)
      BY <2>1
    <3>2. PICK g : g = CHOOSE x \in f.events : x.task = t
      OBVIOUS
    <3>3. g \in f.events /\ g.task = t
      BY <3>1, <3>2
    <3>4. g = e /\ e \in Events
      BY <1>1, <3>1, <3>3
    <3>5. new[t] = e
      BY <2>1, <3>2, <3>4
    <3>6. \A x \in f.events : x.task = t => x = e
      BY <3>1
    <3>7. ASSUME NEW x \in Events, Covers(old[t], x)
          PROVE  Covers(e, x)
      <4>1. old[t] \in Events
        BY <3>7 DEF Covers
      <4>2. Covers(e, old[t])
        BY <3>1, <3>4, <4>1, CoversTotal
      <4> QED
        BY <3>4, <3>7, <4>1, <4>2, CoversTransitive
    <3>8. Covers(e, e)
      BY <3>4, CoversReflexive
    <3> QED
      BY <3>4, <3>5, <3>6, <3>7, <3>8
  <2>2. CASE ~ \E e \in f.events : e.task = t /\ ~Covers(old[t], e)
    <3>1. new[t] = old[t]
      BY <2>2
    <3> QED
      BY <2>2, <3>1
  <2> QED
    BY <2>1, <2>2
<1>3. \A e \in f.events : e.task \in Tasks
  BY <1>1, EventsTyped
<1>4. new \in [Tasks -> Events \cup {NoEvent}]
  BY <1>2
<1> QED
  BY <1>2, <1>3, <1>4 DEF Grown

\* What was told with the head of a wire still is, once the device has applied it.
LEMMA ToldReceived ==
    ASSUME NEW w \in Seq(Frame), w # <<>>,
           NEW old, NEW new \in [Tasks -> Events \cup {NoEvent}], Grown(old, new),
           \A e \in w[1].events : Covers(new[e.task], e),
           NEW ev, NEW t \in Tasks, ev[t] \in Events, NEW i \in 1 .. Len(w),
           Told(w, old, ev, t, i)
    PROVE  Told(Tail(w), new, ev, t, i - 1)
<1>1. CASE Covers(old[t], ev[t])
  BY <1>1 DEF Told, Grown
<1>2. CASE Tells(w, ev, t, i)
  <2>0. PICK j \in 1 .. i : \E e \in w[j].events : e.task = t /\ Covers(e, ev[t])
    BY <1>2 DEF Tells
  <2>1. PICK e \in w[j].events : e.task = t /\ Covers(e, ev[t])
    BY <2>0
  <2>2. Len(w) \in Nat /\ j \in 1 .. Len(w) /\ w[j] \in Frame
    BY LenProperties, ElementOfSeq
  <2>3. e \in Events
    BY <2>1, <2>2 DEF Frame
  <2>4. CASE j = 1
    <3>1. Covers(new[t], e) /\ new[t] \in Events
      BY <2>1, <2>4 DEF Covers
    <3>2. Covers(new[t], ev[t])
      BY <2>1, <2>3, <3>1, CoversTransitive
    <3> QED
      BY <3>2 DEF Told
  <2>5. CASE j # 1
    <3>1. Len(Tail(w)) = Len(w) - 1 /\ \A l \in 1 .. Len(Tail(w)) : Tail(w)[l] = w[l + 1]
      BY HeadTailProperties
    <3>2. j - 1 \in 1 .. Len(Tail(w)) /\ (j - 1) + 1 = j /\ j - 1 \in 1 .. (i - 1)
      BY <2>2, <2>5, <3>1
    <3>3. Tail(w)[j - 1] = w[j]
      BY <3>1, <3>2
    <3> QED
      BY <2>1, <3>2, <3>3 DEF Told, Tells
  <2> QED
    BY <2>4, <2>5
<1> QED
  BY <1>1, <1>2 DEF Told

LEMMA SafeReceived ==
    ASSUME NEW k, NEW w \in Seq(Frame), w # <<>>,
           NEW old, NEW new \in [Tasks -> Events \cup {NoEvent}], Grown(old, new),
           \A e \in w[1].events : Covers(new[e.task], e),
           NEW ev \in [Tasks -> Events \cup {NoEvent}], NEW sq, NEW n, NEW un,
           WireSafe(w, old, ev, sq, n), ConnSafe(k, w, old, ev, sq, n, un)
    PROVE  /\ WireSafe(Tail(w), new, ev, sq, n) /\ ConnSafe(k, Tail(w), new, ev, sq, n, un)
           /\ \A t \in Tasks : RowUpTo(ev, sq, t, w[1].cursor) => Covers(new[t], ev[t])
<1>1. /\ Len(w) \in Nat \ {0} /\ Tail(w) \in Seq(Frame) /\ Len(Tail(w)) = Len(w) - 1
      /\ \A l \in 1 .. Len(Tail(w)) : Tail(w)[l] = w[l + 1]
  BY HeadTailProperties, EmptySeq
<1>2. ASSUME NEW t \in Tasks, NEW x, NEW i \in 1 .. Len(w), RowUpTo(ev, sq, t, x),
             Told(w, old, ev, t, i)
      PROVE  Told(Tail(w), new, ev, t, i - 1)
  <2>1. ev[t] \in Events
    BY <1>2 DEF RowUpTo
  <2> QED
    BY <1>2, <2>1, ToldReceived
<1>3. WireSafe(Tail(w), new, ev, sq, n)
  <2> SUFFICES ASSUME NEW i \in 1 .. Len(Tail(w))
               PROVE  /\ Tail(w)[i].cursor =< n
                      /\ Tail(w)[i].type # "events" => Tail(w)[i].events = {}
                      /\ \A e, f \in Tail(w)[i].events : e.task = f.task => e = f
                      /\ \A t \in Tasks : RowUpTo(ev, sq, t, Tail(w)[i].cursor)
                                             => Told(Tail(w), new, ev, t, i)
    BY DEF WireSafe
  <2>1. i + 1 \in 1 .. Len(w) /\ Tail(w)[i] = w[i + 1] /\ (i + 1) - 1 = i
    BY <1>1
  <2>2. ASSUME NEW t \in Tasks, RowUpTo(ev, sq, t, w[i + 1].cursor)
        PROVE  Told(Tail(w), new, ev, t, i)
    <3>1. Told(w, old, ev, t, i + 1)
      BY <2>1, <2>2 DEF WireSafe
    <3>2. Told(Tail(w), new, ev, t, (i + 1) - 1)
      BY <1>2, <2>1, <2>2, <3>1
    <3> QED
      BY <2>1, <3>2
  <2> QED
    BY <2>1, <2>2 DEF WireSafe
<1>4. ASSUME NEW t \in Tasks, NEW x, RowUpTo(ev, sq, t, x), Told(w, old, ev, t, Len(w))
      PROVE  Told(Tail(w), new, ev, t, Len(Tail(w)))
  <2>1. Len(w) \in 1 .. Len(w)
    BY <1>1
  <2> QED
    BY <1>1, <1>2, <1>4, <2>1
<1>5. CursorSafe(k, w, old, ev, sq, n) => CursorSafe(k, Tail(w), new, ev, sq, n)
  BY <1>4 DEF CursorSafe
<1>6. OwnSafe(k, old) => OwnSafe(k, new)
  BY EventsTyped DEF OwnSafe, Grown
<1>7. ReadSafe(k, w, old, ev, sq, n) => ReadSafe(k, Tail(w), new, ev, sq, n)
  BY <1>4 DEF ReadSafe
<1>8. ConnSafe(k, Tail(w), new, ev, sq, n, un)
  BY <1>5, <1>6, <1>7 DEF ConnSafe, Reading
<1>9. ASSUME NEW t \in Tasks, RowUpTo(ev, sq, t, w[1].cursor)
      PROVE  Covers(new[t], ev[t])
  <2>1. 1 \in 1 .. Len(w) /\ 1 - 1 = 0
    BY <1>1
  <2>2. Told(w, old, ev, t, 1)
    BY <1>9, <2>1 DEF WireSafe
  <2>3. Told(Tail(w), new, ev, t, 0)
    BY <1>2, <1>9, <2>1, <2>2
  <2> QED
    BY <2>3 DEF Told, Tells
<1> QED
  BY <1>3, <1>8, <1>9

\* Devices that forget nothing keep what their pushes had applied.
LEMMA OriginGrown ==
    ASSUME HubInv, UNCHANGED <<req, origin>>,
           \A x \in Devices : Grown(device[x].view, device'[x].view)
    PROVE  \A p \in Requests : OriginSafe(p)'
<1> SUFFICES ASSUME NEW p \in Requests, req[p] # Free, origin[p] # "rest",
                    NEW i \in 1 .. Len(req[p].batch)
             PROVE  Covers(device'[DeviceOf[origin[p]]].view[req[p].batch[i].ev.task],
                           req[p].batch[i].ev)
  BY DEF OriginSafe
<1>1. req[p] \in Request /\ origin[p] \in Conns /\ DeviceOf[origin[p]] \in Devices
  BY HubTyped DEF HubInv, TypeOK, PushTypeOK
<1>2. req[p].batch[i].ev \in Events /\ req[p].batch[i].ev.task \in Tasks
  BY <1>1, BatchItems, EventsTyped
<1>3. Covers(device[DeviceOf[origin[p]]].view[req[p].batch[i].ev.task], req[p].batch[i].ev)
  BY DEF HubInv, OriginSafe
<1> QED
  BY <1>1, <1>2, <1>3 DEF Grown

\* A device applies the head of its wire and moves its cursor with it.
LEMMA ReceiveFrameHubInv ==
    ASSUME HubInv, NEW c \in Conns, ReceiveFrame(c)
    PROVE  HubInv'
<1> DEFINE d == DeviceOf[c]
           a == Acct(c)
<1>0. /\ wire' = [wire EXCEPT ![c] = Tail(wire[c])] /\ wire[c] # <<>>
      /\ UNCHANGED <<storeVars, req, conn, byAccount, origin, unannounced, scope>>
  BY DEF ReceiveFrame
<1>1. PICK w \in Seq(Frame), old \in [Tasks -> Events \cup {NoEvent}] :
          w = wire[c] /\ old = device[d].view
  BY AboutConn DEF Device
<1>2. /\ d \in Devices /\ a \in Accounts /\ a = AccountOf[d] /\ StoreTypeOK
      /\ WireSafe(w, old, event[a], seq[a], counter[a])
      /\ ConnSafe(conn[c], w, old, event[a], seq[a], counter[a], unannounced[a])
  BY <1>1, AboutConn DEF Safe, Acct
<1>3. device \in [Devices -> Device]
  BY DEF HubInv, TypeOK
<1>4. PICK f \in Frame : f = Head(w) /\ f = w[1]
  BY <1>0, <1>1, HeadTailProperties
<1>5. /\ Len(w) \in Nat /\ 1 \in 1 .. Len(w) /\ Tail(w) \in Seq(Frame)
  BY <1>0, <1>1, HeadTailProperties, EmptySeq
<1>6. /\ f.cursor =< counter[a] /\ f.cursor \in 0 .. MaxSeq
      /\ f.type # "events" => f.events = {}
      /\ \A x, y \in f.events : x.task = y.task => x = y
  BY <1>2, <1>4, <1>5 DEF WireSafe, Frame
<1>7. PICK new \in [Tasks -> Events \cup {NoEvent}] :
         /\ Grown(old, new) /\ \A e \in f.events : Covers(new[e.task], e)
         /\ device' \in [Devices -> Device]
         /\ device'[d].view = new /\ device'[d].cursor \in {f.cursor, device[d].cursor}
         /\ \A x \in Devices : x # d => device'[x] = device[x]
  <2>1. CASE f.type = "events"
    <3>1. PICK new : new = [t \in Tasks |->
                              IF \E e \in f.events : e.task = t /\ ~Covers(old[t], e)
                              THEN CHOOSE e \in f.events : e.task = t
                              ELSE old[t]]
      OBVIOUS
    <3>2. /\ new \in [Tasks -> Events \cup {NoEvent}] /\ Grown(old, new)
          /\ \A e \in f.events : Covers(new[e.task], e)
      BY <1>6, <3>1, AppliedGrow
    <3>3. device' = [device EXCEPT ![d] = [view |-> new, cursor |-> f.cursor]]
      BY <1>1, <1>4, <2>1, <3>1 DEF ReceiveFrame
    <3>4. [view |-> new, cursor |-> f.cursor] \in Device
      BY <1>6, <3>2 DEF Device
    <3> QED
      BY <1>2, <1>3, <3>2, <3>3, <3>4
  <2>2. CASE f.type # "events"
    <3>1. device' = device
      BY <1>1, <1>4, <2>2 DEF ReceiveFrame
    <3>2. Grown(old, old) /\ \A e \in f.events : Covers(old[e.task], e)
      BY <1>6, <2>2 DEF Grown
    <3> QED
      BY <1>1, <1>3, <3>1, <3>2
  <2> QED
    BY <2>1, <2>2
<1>8. \A x \in Devices : Grown(device[x].view, device'[x].view)
  BY <1>1, <1>7 DEF Grown
<1>9. event[a] \in [Tasks -> Events \cup {NoEvent}]
  BY <1>2 DEF StoreTypeOK
<1>10. /\ WireSafe(Tail(w), new, event[a], seq[a], counter[a])
       /\ ConnSafe(conn[c], Tail(w), new, event[a], seq[a], counter[a], unannounced[a])
       /\ \A t \in Tasks : RowUpTo(event[a], seq[a], t, w[1].cursor)
                              => Covers(new[t], event[a][t])
  BY <1>0, <1>1, <1>2, <1>4, <1>7, <1>9, SafeReceived
<1>11. ASSUME NEW x \in Devices PROVE DeviceSafe(x)'
  <2>1. DeviceSafe(x)
    BY DEF HubInv
  <2>2. CASE x # d
    BY <1>0, <1>7, <2>1, <2>2 DEF DeviceSafe, RowUpTo, storeVars
  <2>3. CASE x = d
    <3>1. device'[x].cursor =< counter[a]
      BY <1>2, <1>6, <1>7, <2>1, <2>3 DEF DeviceSafe
    <3>2. ASSUME NEW t \in Tasks, RowUpTo(event[a], seq[a], t, device'[x].cursor)
          PROVE  Covers(new[t], event[a][t])
      <4>1. CASE device'[x].cursor = f.cursor
        BY <1>4, <1>10, <3>2, <4>1
      <4>2. CASE device'[x].cursor = device[x].cursor
        <5>1. Covers(old[t], event[a][t]) /\ event[a][t] \in Events
          BY <1>1, <1>2, <1>9, <2>1, <2>3, <3>2, <4>2 DEF DeviceSafe, RowUpTo
        <5> QED
          BY <1>7, <5>1 DEF Grown
      <4> QED
        BY <1>7, <2>3, <4>1, <4>2
    <3> QED
      BY <1>0, <1>2, <1>7, <2>3, <3>1, <3>2 DEF DeviceSafe, RowUpTo, storeVars
  <2> QED
    BY <2>2, <2>3
<1>12. ASSUME NEW b \in Conns PROVE Safe(b, conn[b], wire[b])'
  <2>1. /\ Acct(b) \in Accounts /\ DeviceOf[b] \in Devices
        /\ wire[b] \in Seq(Frame) /\ wire'[b] = IF b = c THEN Tail(w) ELSE wire[b]
    BY <1>0, <1>1, AboutConn DEF HubInv, TypeOK
  <2>2. /\ WireSafe(wire'[b], device'[DeviceOf[b]].view, event[Acct(b)], seq[Acct(b)],
                    counter[Acct(b)])
        /\ ConnSafe(conn[b], wire'[b], device'[DeviceOf[b]].view, event[Acct(b)],
                    seq[Acct(b)], counter[Acct(b)], unannounced[Acct(b)])
    <3>1. CASE b = c
      BY <1>7, <1>10, <2>1, <3>1
    <3>2. CASE b # c
      <4>1. PICK k, v, was, is, ev, sq, n, un :
              /\ k = conn[b] /\ v = wire[b] /\ was = device[DeviceOf[b]].view
              /\ is = device'[DeviceOf[b]].view /\ ev = event[Acct(b)]
              /\ sq = seq[Acct(b)] /\ n = counter[Acct(b)] /\ un = unannounced[Acct(b)]
        OBVIOUS
      <4>2. WireSafe(v, was, ev, sq, n) /\ ConnSafe(k, v, was, ev, sq, n, un)
        BY <4>1, AboutConn DEF Safe
      <4>3. Grown(was, is) /\ ev \in [Tasks -> Events \cup {NoEvent}]
        BY <1>2, <1>8, <2>1, <4>1 DEF StoreTypeOK
      <4>4. WireSafe(v, is, ev, sq, n) /\ ConnSafe(k, v, is, ev, sq, n, un)
        BY <4>2, <4>3, SafeGrown
      <4> QED
        BY <2>1, <3>2, <4>1, <4>4
    <3> QED
      BY <3>1, <3>2
  <2> QED
    BY <1>0, <2>2 DEF Safe, Acct, storeVars
<1>13. PushInv'
  BY <1>0, StutterPushInv DEF HubInv, pushVars
<1>14. RegistryFinite'
  BY <1>0, RegistrySame
<1>15. wire' \in [Conns -> Seq(Frame)]
  BY <1>0, <1>1, <1>5 DEF HubInv, TypeOK
<1>16. TypeOK'
  BY <1>0, <1>7, <1>13, <1>15 DEF HubInv, TypeOK, PushInv
<1>17. \A b \in Accounts : RowsFiled(event[b], seq[b], counter[b])'
  BY <1>0 DEF HubInv, RowsFiled, storeVars
<1>18. \A p \in Requests : OriginSafe(p)'
  BY <1>0, <1>8, OriginGrown
<1> QED
  BY <1>11, <1>12, <1>13, <1>14, <1>16, <1>17, <1>18 DEF HubInv, ConnInv

\* Frames that are lost were addressed to a connection that is gone.
LEMMA LoseFramesHubInv ==
    ASSUME HubInv, NEW c \in Conns, LoseFrames(c)
    PROVE  HubInv'
<1>1. PICK k \in Connection : k = conn[c]
  BY AboutConn
<1>2. PICK none \in Seq(Frame) : none = <<>>
  BY EmptySeq
<1>3. Len(none) = 0
  BY <1>2, EmptySeq
<1>4. k.state = "closed"
  BY <1>1 DEF LoseFrames, Closed, State
<1>5. Safe(c, k, none)
  BY <1>3, <1>4 DEF Safe, WireSafe, ConnSafe, Subscribed
<1>6. conn' = [conn EXCEPT ![c] = k] /\ wire' = [wire EXCEPT ![c] = none]
  BY <1>1, <1>2 DEF LoseFrames, HubInv, TypeOK
<1> QED
  BY <1>1, <1>5, <1>6, OneConn DEF LoseFrames

\* Sockets and requests do not survive the process, and owe nothing.
LEMMA RestartHubInv ==
    ASSUME HubInv, Restart
    PROVE  HubInv'
<1> DEFINE cs == {c \in Conns : State(c) # "none"}
           gone == [NewConnection EXCEPT !.state = "closed"]
<1>1. gone \in Connection /\ gone.state = "closed"
  BY NewIsConnection
<1>2. /\ conn' = [c \in Conns |-> IF State(c) = "none" THEN conn[c] ELSE gone]
      /\ req' = [q \in Requests |-> Free] /\ origin' = [q \in Requests |-> "rest"]
      /\ byAccount' = [a \in Accounts |-> {}]
      /\ UNCHANGED <<storeVars, wire, device, unannounced, scope>>
  BY DEF Restart
<1> HIDE DEF gone
<1>3. \A a \in Accounts : byAccount[a] \subseteq cs
  BY DEF HubInv, RegistryFinite, RegistryExact
<1>4. RegistryFinite' /\ byAccount' \in [Accounts -> SUBSET Conns]
  <2>1. byAccount' = [a \in Accounts |-> byAccount[a] \ cs]
    BY <1>2, <1>3
  <2>2. /\ cs \in SUBSET Conns
        /\ \A c \in cs : conn'[c].state = "closed"
        /\ \A c \in Conns \ cs : conn'[c] = conn[c]
    BY <1>1, <1>2
  <2> HIDE DEF cs
  <2> QED
    BY <2>1, <2>2, RegistryLess
<1>5. PushInv'
  BY <1>2 DEF HubInv, PushInv, PushTypeOK, StoreTypeOK, RowIsNewest, storeVars
<1>6. \A q \in Requests : OriginSafe(q)'
  BY <1>2 DEF OriginSafe
<1>7. ASSUME NEW c \in Conns PROVE conn'[c] \in Connection /\ Safe(c, conn'[c], wire[c])
  <2>1. CASE State(c) = "none"
    BY <1>2, <2>1, AboutConn
  <2>2. CASE State(c) # "none"
    BY <1>1, <1>2, <2>2, ClosedSafe
  <2> QED
    BY <2>1, <2>2
<1>8. ConnInv'
  BY <1>2, <1>7, SafeSame
<1>9. /\ conn' \in [Conns -> Connection] /\ wire' \in [Conns -> Seq(Frame)]
      /\ unannounced' \in [Accounts -> SUBSET Events]
      /\ origin' \in [Requests -> Conns \cup {"rest"}]
  BY <1>2, <1>7 DEF HubInv, TypeOK
<1> QED
  BY <1>2, <1>4, <1>5, <1>6, <1>8, <1>9, ServerStep

LEMMA InitHubInv ==
    ASSUME Init
    PROVE  HubInv
<1>1. PushInv
  BY InitPushInv DEF Init
<1>2. NewConnection \in Connection /\ NewConnection.state = "none" /\ Unused(NewConnection)
  BY NewIsConnection DEF NewConnection, Unused, Quiet
<1>3. 0 \in 0 .. MaxSeq /\ \A c \in Conns : DeviceOf[c] \in Devices /\ Acct(c) \in Accounts
  BY MaxSeqTyped, HubTyped DEF Acct
<1>4. /\ \A a \in Accounts, t \in Tasks : event[a][t] = NoEvent /\ seq[a][t] = 0
      /\ \A a \in Accounts : counter[a] = 0
  BY DEF Init, PushInit, StoreInit
<1>5. TypeOK
  <2>1. <<>> \in Seq(Frame)
    BY EmptySeq
  <2>2. [view |-> [t \in Tasks |-> NoEvent], cursor |-> 0] \in Device
    BY <1>3 DEF Device
  <2> QED
    BY <1>1, <1>2, <2>1, <2>2 DEF Init, TypeOK, PushInv
<1>6. RegistryFinite
  <2>1. \A c \in Conns : State(c) = "none"
    BY <1>2 DEF Init, State
  <2>2. IsFiniteSet({}) /\ Cardinality({}) = 0 /\ MaxConnections \in Nat
    BY FS_EmptySet, HubTyped
  <2> QED
    BY <2>1, <2>2 DEF Init, RegistryFinite, RegistryExact
<1>7. \A a \in Accounts : RowsFiled(event[a], seq[a], counter[a])
  BY <1>4 DEF RowsFiled
<1>8. \A q \in Requests : OriginSafe(q)
  BY DEF Init, OriginSafe
<1>9. \A d \in Devices : DeviceSafe(d)
  BY <1>4, HubTyped DEF Init, DeviceSafe, RowUpTo
<1>10. ASSUME NEW c \in Conns PROVE Safe(c, conn[c], wire[c])
  <2>1. conn[c] = NewConnection /\ wire[c] = <<>> /\ Len(<<>>) = 0
    BY EmptySeq DEF Init
  <2> QED
    BY <1>2, <2>1 DEF Safe, WireSafe, ConnSafe, Subscribed
<1> QED
  BY <1>1, <1>5, <1>6, <1>7, <1>8, <1>9, <1>10 DEF HubInv, ConnInv

LEMMA StutterHubInv ==
    ASSUME HubInv, UNCHANGED vars
    PROVE  HubInv'
<1>1. UNCHANGED <<storeVars, req, conn, byAccount, wire, origin, device, unannounced, scope>>
  BY DEF vars, hubVars
<1>2. /\ conn' \in [Conns -> Connection] /\ wire' \in [Conns -> Seq(Frame)]
      /\ \A c \in Conns : Safe(c, conn'[c], wire'[c])
  BY <1>1 DEF HubInv, TypeOK, ConnInv
<1>3. RegistryFinite' /\ byAccount' \in [Accounts -> SUBSET Conns]
  BY <1>1, RegistrySame
<1> QED
  BY <1>1, <1>2, <1>3, ConnStep

-----------------------------------------------------------------------------
(* The theorems.                                                           *)

\* Who takes part is among those there are.
LEMMA ScopeTyped ==
    ASSUME TypeOK
    PROVE  /\ scope.conns \subseteq Conns /\ scope.requests \subseteq Requests
           /\ scope.accounts \subseteq Accounts /\ scope.batches \subseteq Batches
BY HubTyped DEF TypeOK

\* The steps of a connection, of a request and of the process.
ConnAction(c) ==
    \/ Accept(c) \/ AuthFrame(c) \/ AuthVerified(c) \/ AuthRefused(c) \/ Subscribe(c)
    \/ Drop(c) \/ ReadReturns(c) \/ ReadDiscarded(c) \/ ReadFails(c) \/ Immediate(c)
    \/ ReceiveFrame(c) \/ LoseFrames(c)

PushArrives(q) ==
    \E b \in Batches :
        \/ \E c \in Conns : PushFrame(q, c, b) \/ RestPush(q, DeviceOf[c], b)
        \/ \E s \in Accounts \cup {NoSubject}, a \in Accounts : StrangerPush(q, s, a, b)

LEMMA Steps ==
    ASSUME TypeOK, Next
    PROVE  \/ \E c \in Conns : ConnAction(c)
           \/ \E q \in Requests : PushArrives(q) \/ PushStep(q) \/ PushReturns(q)
           \/ Restart
BY ScopeTyped DEF Next, ConnAction, PushArrives

LEMMA ConnActionHubInv ==
    ASSUME HubInv, NEW c \in Conns, ConnAction(c)
    PROVE  HubInv'
<1>1. CASE AuthRefused(c) \/ Drop(c)
  BY <1>1, TeardownHubInv DEF AuthRefused, Drop
<1> QED
  BY <1>1, AcceptHubInv, AuthFrameHubInv, AuthVerifiedHubInv, SubscribeHubInv,
     ReadReturnsHubInv, ReadDiscardedHubInv, ReadFailsHubInv, ImmediateHubInv,
     ReceiveFrameHubInv, LoseFramesHubInv DEF ConnAction

LEMMA PushArrivesHubInv ==
    ASSUME HubInv, NEW q \in Requests, PushArrives(q)
    PROVE  HubInv'
BY HubTyped, PushFrameHubInv, RestPushHubInv, StrangerPushHubInv DEF PushArrives

\* Every reachable state of the hub, its store and its devices satisfies the
\* inductive invariant.
THEOREM SpecHubInv == Spec => []HubInv
<1>1. Init => HubInv
  BY InitHubInv
<1>2. HubInv /\ [Next]_vars => HubInv'
  <2> SUFFICES ASSUME HubInv, [Next]_vars PROVE HubInv'
    OBVIOUS
  <2>1. CASE UNCHANGED vars
    BY <2>1, StutterHubInv
  <2>2. CASE Next
    <3>1. TypeOK
      BY DEF HubInv
    <3> QED
      BY <2>2, <3>1, Steps, ConnActionHubInv, PushArrivesHubInv, PushStepHubInv,
         PushReturnsHubInv, RestartHubInv
  <2> QED
    BY <2>1, <2>2
<1> QED
  BY <1>1, <1>2, PTL DEF Spec

\* The types of the hub's state, of the store and of the requests.
THEOREM HubTypeOK == Spec => []TypeOK
BY SpecHubInv, PTL DEF HubInv

\* Whatever socket dies between whichever frames, a device's cursor has behind
\* it only rows the device has.
THEOREM HubDeviceCursorComplete == Spec => []DeviceCursorComplete
<1>1. HubInv => DeviceCursorComplete
  BY DEF HubInv, DeviceSafe, RowUpTo, DeviceCursorComplete
<1> QED
  BY <1>1, SpecHubInv, PTL

\* A subscribed connection at rest is live, has nothing pending, and has been
\* sent whatever was announced.
THEOREM HubNoLostWakeup == Spec => []NoLostWakeup
<1>1. HubInv => NoLostWakeup
  <2> SUFFICES ASSUME HubInv, NEW c \in Conns, State(c) \in Subscribed,
                      ~conn[c].pumping, ~conn[c].immediate
               PROVE  /\ State(c) = "live" /\ ~conn[c].pending
                      /\ After(Acct(c), conn[c].cursor) \subseteq unannounced[Acct(c)]
    BY DEF NoLostWakeup, Subscribed
  <2>1. Resting(conn[c], event[Acct(c)], seq[Acct(c)], unannounced[Acct(c)])
    BY DEF HubInv, ConnInv, Safe, ConnSafe, State
  <2> QED
    BY <2>1 DEF Resting, CaughtUp, After, TasksAfter, State
<1> QED
  BY <1>1, SpecHubInv, PTL

\* The registry is exact and within the cap, in whatever order verifications and
\* ends of connections come.
THEOREM HubRegistryExact == Spec => []RegistryExact
BY SpecHubInv, PTL DEF HubInv, RegistryFinite

\* No step opens a closed connection again.
LEMMA ClosedStays ==
    ASSUME HubInv, NEW b \in Conns, Closed(b), [Next]_vars
    PROVE  Closed(b)'
<1>1. conn \in [Conns -> Connection] /\ State(b) = "closed"
  BY DEF HubInv, TypeOK, Closed
<1>2. ASSUME conn' = conn PROVE Closed(b)'
  BY <1>2 DEF Closed, State
<1>3. ASSUME NEW cs \in SUBSET Conns, Teardown(cs) PROVE Closed(b)'
  <2>1. conn'[b] = IF b \in cs THEN Gone(conn[b].pumping) ELSE conn[b]
    BY <1>3 DEF Teardown, Gone
  <2>2. conn[b].pumping \in BOOLEAN
    BY <1>1 DEF Connection
  <2> QED
    BY <1>1, <2>1, <2>2, NewIsConnection DEF Closed, State
<1>4. ASSUME NEW c \in Conns, NEW s, Emit(c, s), ~Closed(c) PROVE Closed(b)'
  BY <1>1, <1>4 DEF Emit, Closed, State
<1>5. ASSUME NEW c \in Conns, ConnAction(c) PROVE Closed(b)'
  <2>1. CASE Accept(c)
    BY <1>1, <2>1 DEF Accept, Closed, State
  <2>2. CASE AuthFrame(c) \/ AuthVerified(c)
    <3>1. /\ State(c) # "closed"
          /\ \/ conn' = [conn EXCEPT ![c].state = "authenticating"]
             \/ conn' = [conn EXCEPT ![c].state = "authenticated"]
             \/ Teardown({c})
      BY <2>2 DEF AuthFrame, AuthVerified
    <3> QED
      BY <1>1, <1>3, <3>1 DEF Closed, State
  <2>3. CASE AuthRefused(c) \/ Drop(c)
    BY <1>3, <2>3 DEF AuthRefused, Drop
  <2>4. CASE Subscribe(c) \/ ReadReturns(c) \/ Immediate(c)
    <3>1. ~Closed(c) /\ \E s : Emit(c, s)
      BY <2>4 DEF Subscribe, ReadReturns, Immediate, Closed
    <3> QED
      BY <1>4, <3>1
  <2>5. CASE ReadDiscarded(c)
    <3>1. conn' = [conn EXCEPT ![c].pumping = FALSE]
      BY <2>5 DEF ReadDiscarded
    <3>2. conn'[b].state = conn[b].state
      BY <1>1, <3>1 DEF Connection
    <3> QED
      BY <1>1, <3>2 DEF Closed, State
  <2>6. CASE ReadFails(c)
    BY <1>1, <2>6 DEF ReadFails, Closed, State
  <2>7. CASE ReceiveFrame(c) \/ LoseFrames(c)
    BY <1>2, <2>7 DEF ReceiveFrame, LoseFrames
  <2> QED
    BY <1>5, <2>1, <2>2, <2>3, <2>4, <2>5, <2>6, <2>7 DEF ConnAction
<1>6. ASSUME NEW q \in Requests, PushArrives(q) \/ PushStep(q) PROVE Closed(b)'
  BY <1>2, <1>6 DEF PushArrives, PushFrame, RestPush, StrangerPush, PushStep
<1>7. ASSUME NEW q \in Requests, PushReturns(q) PROVE Closed(b)'
  <2>1. \/ \E ids : NotifyAccount(req[q].acct, origin[q], ids)
        \/ origin[q] # "rest" /\ Teardown({origin[q]})
        \/ conn' = conn
    BY <1>7 DEF PushReturns
  <2>2. origin[q] \in Conns \cup {"rest"}
    BY DEF HubInv, TypeOK
  <2>3. ASSUME NEW ids, NotifyAccount(req[q].acct, origin[q], ids) PROVE Closed(b)'
    <3>1. conn'[b] = Notified(req[q].acct, origin[q], ids)[b].k
      BY <2>3 DEF NotifyAccount
    <3>2. Notified(req[q].acct, origin[q], ids)[b] = [k |-> conn[b], out |-> <<>>]
      BY <1>1 DEF Notified
    <3> QED
      BY <1>1, <3>1, <3>2 DEF Closed, State
  <2> QED
    BY <1>2, <1>3, <2>1, <2>2, <2>3
<1>8. ASSUME Restart PROVE Closed(b)'
  BY <1>1, <1>8, NewIsConnection DEF Restart, Closed, State
<1>9. CASE UNCHANGED vars
  BY <1>2, <1>9 DEF vars, hubVars
<1> QED
  BY <1>5, <1>6, <1>7, <1>8, <1>9, Steps DEF HubInv

\* A closed connection stays closed, whatever verification or read comes back.
THEOREM HubClosedForGood == Spec => ClosedForGood
<1>1. HubInv /\ [Next]_vars => [\A c \in Conns : Closed(c) => Closed(c)']_vars
  BY ClosedStays
<1> QED
  BY <1>1, SpecHubInv, PTL DEF Spec, ClosedForGood

\* What a 200 names is settled and complete, for push frames and REST requests
\* alike, with the hub around the handler and restarts in between.
THEOREM HubAnswerHonest == Spec => []AnswerHonest
<1>1. HubInv => AnswerHonest
  BY HonestState DEF HubInv, AnswerHonest
<1> QED
  BY <1>1, SpecHubInv, PTL

\* The loop of a push is the only thing in the hub that writes.
LEMMA OnlyPushesWrite ==
    ASSUME TypeOK, [Next]_vars
    PROVE  (\E q \in Requests : PutItem(q)) \/ UNCHANGED storeVars
<1>1. \A c \in Conns : ConnAction(c) => UNCHANGED storeVars
  BY DEF ConnAction, Accept, AuthFrame, AuthVerified, AuthRefused, Subscribe, Drop,
         ReadReturns, ReadDiscarded, ReadFails, Immediate, ReceiveFrame, LoseFrames
<1>2. \A q \in Requests : PushArrives(q) \/ PushReturns(q) => UNCHANGED storeVars
  BY DEF PushArrives, PushFrame, RestPush, StrangerPush, Receive, PushReturns
<1>3. \A q \in Requests : PushStep(q) => PutItem(q) \/ UNCHANGED storeVars
  BY OnlyPutItemWrites DEF PushStep
<1>4. Restart => UNCHANGED storeVars
  BY DEF Restart
<1>5. UNCHANGED vars => UNCHANGED storeVars
  BY DEF vars
<1> QED
  BY <1>1, <1>2, <1>3, <1>4, <1>5, Steps

\* Rows change only on behalf of a token for their account, and only to events
\* that name it.
THEOREM HubWritesAuthorised == Spec => WritesAuthorised
<1>1. HubInv /\ [Next]_vars => [StepAuthorised]_pushVars
  <2> SUFFICES ASSUME HubInv, [Next]_vars PROVE StepAuthorised
    OBVIOUS
  <2>1. TypeOK /\ PushInv
    BY DEF HubInv
  <2>2. (\E q \in Requests : PutItem(q)) \/ UNCHANGED storeVars
    BY <2>1, OnlyPushesWrite
  <2>3. UNCHANGED storeVars => StepAuthorised
    BY DEF StepAuthorised, storeVars
  <2> QED
    BY <2>1, <2>2, <2>3, PutItemAuthorised
<1> QED
  BY <1>1, SpecHubInv, PTL DEF Spec, WritesAuthorised, StepAuthorised

\* The row of a task holds the newest event ever pushed for it, over whatever
\* sockets and across whatever restarts.
THEOREM HubRowIsNewest == Spec => []RowIsNewest
BY SpecHubInv, PTL DEF HubInv, PushInv

\* The server, sockets, requests and restarts included, implements the
\* last-writer-wins map.
THEOREM HubRefinement == Spec => ImplementsLwwMap
<1>1. Init => Lww!Init
  BY DEF Init, PushInit, StoreInit, Lww!Init
<1>2. HubInv /\ [Next]_vars => [Lww!Next]_event
  <2> SUFFICES ASSUME HubInv, [Next]_vars, event' # event PROVE Lww!Next
    OBVIOUS
  <2>1. TypeOK /\ PushInv
    BY DEF HubInv
  <2>2. PICK q \in Requests : PutItem(q)
    BY <2>1, OnlyPushesWrite DEF storeVars
  <2> QED
    BY <2>1, <2>2, PutItemSubmits
<1> QED
  BY <1>1, <1>2, SpecHubInv, PTL DEF Spec, ImplementsLwwMap, Lww!Spec
=============================================================================
