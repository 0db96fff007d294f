---------------------------- MODULE PushHandler ----------------------------
(***************************************************************************)
(* POST /v1/sync/push (backend/core/src/handlers/push.ts), the one write    *)
(* path of the backend: REST requests and WebSocket push frames both run   *)
(* it.  The handler awaits the token check, then one putEvent per event of *)
(* the batch, so the batches of concurrent requests interleave event by    *)
(* event, and a request can fail with part of its batch written.           *)
(***************************************************************************)
EXTENDS SqliteStore, Sequences

CONSTANTS
    Requests,       \* push requests that may be under way at once
    Batches,        \* the batches clients send: sequences of [acct, ev]
    MaxBatch,       \* PushRequestSchema: events per request (500)
    NoSubject       \* the bearer token is missing, bad or expired

\* An event carries its own accountDid, which the batch's may contradict.
ASSUME BatchesTyped ==
    /\ \A b \in Batches : b \in Seq([acct : Accounts, ev : Events])
    /\ MaxBatch \in Nat
    /\ NoSubject \notin Accounts

VARIABLE req        \* req[q]: the state of request q

Free == [phase |-> "free"]

EventIds == {e.eventId : e \in Events}

\* next is the index of the event the loop is at; accepted and rejected are the
\* answer being built, as sets of eventIds.
Request == [phase : {"auth", "loop", "done"}, subject : Accounts \cup {NoSubject},
            acct : Accounts, batch : Batches, next : 1 .. (MaxBatch + 1),
            status : {0, 200, 400, 401, 403, 500},
            accepted : SUBSET EventIds, rejected : SUBSET EventIds]

PushTypeOK == StoreTypeOK /\ req \in [Requests -> {Free} \cup Request]

PushInit == StoreInit /\ req = [q \in Requests |-> Free]

-----------------------------------------------------------------------------
\* A request comes in; subject is what verifying its token will yield.
Receive(q, subject, acct, batch) ==
    /\ req[q] = Free
    /\ req' = [req EXCEPT ![q] =
          [phase |-> "auth", subject |-> subject, acct |-> acct, batch |-> batch,
           next |-> 1, status |-> 0, accepted |-> {}, rejected |-> {}]]
    /\ UNCHANGED storeVars

Respond(q, status) ==
    req' = [req EXCEPT ![q].phase = "done", ![q].status = status]

\* The subject of the token is not compared with the account of the request.
MutAuthorise(q) ==
    /\ req[q].phase = "auth"
    /\ LET r == req[q] IN
       \/ r.subject = NoSubject /\ Respond(q, 401)
       \/ /\ r.subject # NoSubject
          /\ Len(r.batch) \notin 1 .. MaxBatch
          /\ Respond(q, 400)
       \/ /\ r.subject # NoSubject
          /\ Len(r.batch) \in 1 .. MaxBatch
          /\ req' = [req EXCEPT ![q].phase = "loop"]
    /\ UNCHANGED storeVars

\* After await requireBearer: the early returns before the loop, in order.
Authorise(q) ==
    /\ req[q].phase = "auth"
    /\ LET r == req[q] IN
       \/ r.subject = NoSubject /\ Respond(q, 401)
       \/ /\ r.subject # NoSubject
          /\ Len(r.batch) \notin 1 .. MaxBatch
          /\ Respond(q, 400)
       \/ /\ r.subject # NoSubject
          /\ Len(r.batch) \in 1 .. MaxBatch
          /\ r.subject # r.acct
          /\ Respond(q, 403)
       \/ /\ r.subject = r.acct
          /\ Len(r.batch) \in 1 .. MaxBatch
          /\ req' = [req EXCEPT ![q].phase = "loop"]
    /\ UNCHANGED storeVars

InLoop(q) == req[q].phase = "loop" /\ req[q].next =< Len(req[q].batch)

Item(q) == req[q].batch[req[q].next]

\* seen.has(ev.eventId)
Seen(q) == \E i \in 1 .. (req[q].next - 1) :
              req[q].batch[i].ev.eventId = Item(q).ev.eventId

\* An event of another account ends the request, whatever was written before it.
ForeignItem(q) ==
    /\ InLoop(q)
    /\ Item(q).acct # req[q].acct
    /\ Respond(q, 403)
    /\ UNCHANGED storeVars

\* "First wins, duplicates report as accepted."
DuplicateItem(q) ==
    /\ InLoop(q)
    /\ Item(q).acct = req[q].acct
    /\ Seen(q)
    /\ req' = [req EXCEPT ![q].next = @ + 1,
                          ![q].accepted = @ \cup {Item(q).ev.eventId}]
    /\ UNCHANGED storeVars

\* A stale event is left out of the answer.
MutPutItem(q) ==
    /\ InLoop(q)
    /\ Item(q).acct = req[q].acct
    /\ ~Seen(q)
    /\ LET e == Item(q).ev IN
       /\ PutEvent(req[q].acct, e)
       /\ req' = IF Stale(req[q].acct, e)
                 THEN [req EXCEPT ![q].next = @ + 1]
                 ELSE [req EXCEPT ![q].next = @ + 1, ![q].accepted = @ \cup {e.eventId}]

PutItem(q) ==
    /\ InLoop(q)
    /\ Item(q).acct = req[q].acct
    /\ ~Seen(q)
    /\ LET e == Item(q).ev IN
       /\ PutEvent(req[q].acct, e)
       /\ req' = IF Stale(req[q].acct, e)
                 THEN [req EXCEPT ![q].next = @ + 1, ![q].rejected = @ \cup {e.eventId}]
                 ELSE [req EXCEPT ![q].next = @ + 1, ![q].accepted = @ \cup {e.eventId}]

\* The store throws (disk full, database locked): router.ts answers 500, the
\* hub closes the socket.
PutFails(q) ==
    /\ InLoop(q)
    /\ Item(q).acct = req[q].acct
    /\ ~Seen(q)
    /\ Respond(q, 500)
    /\ UNCHANGED storeVars

\* The retention sweep that follows never finds a row and cannot fail the push.
Finish(q) ==
    /\ req[q].phase = "loop"
    /\ req[q].next > Len(req[q].batch)
    /\ Respond(q, 200)
    /\ UNCHANGED storeVars

HandlerStep(q) ==
    \/ Authorise(q)
    \/ ForeignItem(q)
    \/ DuplicateItem(q)
    \/ PutItem(q)
    \/ PutFails(q)
    \/ Finish(q)

-----------------------------------------------------------------------------
(* The handler behind the REST router.                                     *)

\* The answer reaches the client or is lost; either way the request is over,
\* and the client may send the same batch again.
Answered(q) ==
    /\ req[q].phase = "done"
    /\ req' = [req EXCEPT ![q] = Free]
    /\ UNCHANGED storeVars

\* The process dies in the middle of a request; what was written stays.
Dies(q) ==
    /\ req[q].phase \in {"auth", "loop"}
    /\ req' = [req EXCEPT ![q] = Free]
    /\ UNCHANGED storeVars

pushVars == <<storeVars, req>>

PushNext ==
    \E q \in Requests :
        \/ \E s \in Accounts \cup {NoSubject}, a \in Accounts, b \in Batches :
              Receive(q, s, a, b)
        \/ HandlerStep(q)
        \/ Answered(q)
        \/ Dies(q)

PushSpec == PushInit /\ [][PushNext]_pushVars

-----------------------------------------------------------------------------
(* Properties.                                                             *)

Ids(b) == {b[i].ev.eventId : i \in 1 .. Len(b)}

\* What the loop has passed is settled for good: its row holds that event or a
\* newer one, whatever other requests do in between; a 200 means the whole
\* batch is, so a client may drop those events (push.ts:28-53, 7.1).
PrefixSettled ==
    \A q \in Requests : req[q] # Free =>
        LET r == req[q] IN
        /\ \A i \in 1 .. (r.next - 1) :
              Covers(event[r.acct][r.batch[i].ev.task], r.batch[i].ev)
        /\ r.status = 200 => r.next = Len(r.batch) + 1

\* Every eventId of a batch that got a 200 is in the answer, once settled: a
\* client that looks for its ids in accepted and rejected finds each of them.
AnswerComplete ==
    \A q \in Requests : req[q] # Free /\ req[q].status = 200 =>
        req[q].accepted \cup req[q].rejected = Ids(req[q].batch)

\* A client may drop what a 200 names and finds everything it sent there, however
\* many requests write the same tasks at once.
AnswerHonest == PrefixSettled /\ AnswerComplete

\* An account's rows change only on behalf of a token for that account, and
\* only to events that name that account (auth.ts:85-90, push.ts:29-31).
WritesAuthorised ==
    [][\A a \in Accounts, t \in Tasks : event'[a][t] # event[a][t] =>
          \E q \in Requests :
             /\ req[q] # Free /\ req[q].subject = a
             /\ \E i \in 1 .. Len(req[q].batch) :
                   req[q].batch[i] = [acct |-> a, ev |-> event'[a][t]]]_pushVars
=============================================================================
