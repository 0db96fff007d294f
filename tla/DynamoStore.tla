---------------------------- MODULE DynamoStore ----------------------------
(***************************************************************************)
(* The AWS event store (backend/aws/src/lib/dynamo-store.ts) and a device  *)
(* reading it by cursor.                                                   *)
(*                                                                         *)
(* Unlike the SQLite store, putEvent is two awaited requests: one that     *)
(* takes the next seq of the account, one that puts the row on condition   *)
(* that it is newer than the stored one.  Each Lambda invocation runs them *)
(* on its own, so the puts of two invocations may land in either order,    *)
(* and an invocation may die in between.  A query is a series of pages,    *)
(* each read at its own time, and not of the table but of the BySeq index, *)
(* a global secondary index: DynamoDB updates it some time after the put,  *)
(* item by item in no order, and answers from replicas that may differ.    *)
(***************************************************************************)
EXTENDS SyncEvents, FiniteSets

CONSTANTS
    Writers,        \* concurrent Lambda invocations of the push handler
    Account,        \* the one account whose partition is modelled
    PageSize,       \* rows per query page (1 MB in DynamoDB)
    MaxSeq,         \* bound: seqs allocated
    IndexLags       \* the index follows the table in its own time

ASSUME AccountTyped == Accounts = {Account}
ASSUME BoundsTyped == PageSize \in Nat \ {0} /\ MaxSeq \in Nat /\ IndexLags \in BOOLEAN

\* A partition has finitely many rows: a page is told by counting them.
ASSUME TasksFinite == IsFiniteSet(Tasks)

VARIABLES
    counter,    \* the COUNTER row
    event,      \* the TASK# rows' events
    place,      \* place[e]: the seq of the TASK# row that held e, 0 for none
    shown,      \* what the index has of each task: an event its row holds or held
    submitted,  \* history: events whose conditional put was evaluated
    put,        \* per writer: the put it is about to send, or idle
    cursor,     \* the reader's cursor
    view,       \* what the reader has applied per task
    query,      \* the reader's paginated query, and what it has read per task
    late        \* history: tasks whose row came to the index where a query had been

vars == <<counter, event, place, shown, submitted, put, cursor, view, query, late>>

Idle == [phase |-> "idle"]

Init ==
    /\ counter = 0
    /\ event = [a \in Accounts |-> [t \in Tasks |-> NoEvent]]
    /\ place = [e \in Events |-> 0]
    /\ shown = [t \in Tasks |-> NoEvent]
    /\ submitted = {}
    /\ put = [w \in Writers |-> Idle]
    /\ cursor = 0
    /\ view = [t \in Tasks |-> NoEvent]
    /\ query = Idle
    /\ late = {}

-----------------------------------------------------------------------------
(* putEvent.                                                               *)

\* A counter that is read and then written back loses updates.
MutNextSeq(w, e) ==
    /\ put[w] = Idle
    /\ counter < MaxSeq
    /\ counter' \in {counter, counter + 1}
    /\ put' = [put EXCEPT ![w] = [phase |-> "put", ev |-> e, seq |-> counter + 1]]
    /\ UNCHANGED <<event, place, shown, submitted, cursor, view, query, late>>

\* await nextSeq(accountDid): ADD seq :one, returning the new value.
NextSeq(w, e) ==
    /\ put[w] = Idle
    /\ counter < MaxSeq
    /\ counter' = counter + 1
    /\ put' = [put EXCEPT ![w] = [phase |-> "put", ev |-> e, seq |-> counter + 1]]
    /\ UNCHANGED <<event, place, shown, submitted, cursor, view, query, late>>

\* Without the eventId clause; without a condition.
MutPutOnTie(e) ==
    LET cur == event[Account][e.task] IN cur = NoEvent \/ cur.updatedAt < e.updatedAt

MutPutAlways(e) == TRUE

\* The ConditionExpression of the PutCommand.
PutAllowed(e) ==
    LET cur == event[Account][e.task] IN
    \/ cur = NoEvent
    \/ cur.updatedAt < e.updatedAt
    \/ cur.updatedAt = e.updatedAt /\ cur.eventId < e.eventId

\* How far the reader's cursor or its running query has come.
Reached == IF query # Idle /\ query.nextCursor > cursor THEN query.nextCursor ELSE cursor

\* The index shows e, at n: late if that is behind, and the reader has nothing as new.
Show(e, n) ==
    /\ shown' = [shown EXCEPT ![e.task] = e]
    /\ late' = IF n =< Reached /\ ~Covers(view[e.task], e)
               THEN late \cup {e.task} ELSE late \ {e.task}

ConditionalPut(w) ==
    /\ put[w] # Idle
    /\ LET e == put[w].ev IN
       /\ submitted' = submitted \cup {e}
       /\ IF PutAllowed(e)
          THEN /\ event' = [event EXCEPT ![Account][e.task] = e]
               /\ place' = [place EXCEPT ![e] = put[w].seq]
               /\ IF IndexLags THEN UNCHANGED <<shown, late>> ELSE Show(e, put[w].seq)
          ELSE UNCHANGED <<event, place, shown, late>>
    /\ put' = [put EXCEPT ![w] = Idle]
    /\ UNCHANGED <<counter, cursor, view, query>>

\* The invocation dies after taking its seq: a gap.
WriterDies(w) ==
    /\ put[w] # Idle
    /\ put' = [put EXCEPT ![w] = Idle]
    /\ UNCHANGED <<counter, event, place, shown, submitted, cursor, view, query, late>>

\* A row reaches the index, or the replica that answers from now on is one that
\* has an older row of the task.
ReachIndex(e) ==
    /\ IndexLags
    /\ place[e] # 0 /\ shown[e.task] # e
    /\ Show(e, place[e])
    /\ UNCHANGED <<counter, event, place, submitted, put, cursor, view, query>>

\* A row that moves is taken from its old place before it is put in the new one.
LeaveIndex(t) ==
    /\ IndexLags
    /\ shown[t] # NoEvent
    /\ shown' = [shown EXCEPT ![t] = NoEvent]
    /\ late' = late \ {t}
    /\ UNCHANGED <<counter, event, place, submitted, put, cursor, view, query>>

-----------------------------------------------------------------------------
(* queryEventsAfter, page by page, and the reader that applies the result. *)

StartQuery ==
    /\ query = Idle
    /\ query' = [phase |-> "paging", results |-> [t \in Tasks |-> NoEvent],
                 nextCursor |-> cursor]
    /\ UNCHANGED <<counter, event, place, shown, submitted, put, cursor, view, late>>

\* Where the index has a task.
Seq(t) == place[shown[t]]

RowsAfter(k) == {t \in Tasks : shown[t] # NoEvent /\ Seq(t) > k}

\* The next page: the first rows after the last key evaluated, in seq order.
Page(k) ==
    {t \in RowsAfter(k) :
        Cardinality({u \in RowsAfter(k) : Seq(u) < Seq(t)}) < PageSize}

\* The greatest seq of those tasks, or k when there are none; as a set of one, so
\* that it can be reasoned about without choosing.
HighestSeq(ts, k) ==
    {n \in {Seq(t) : t \in ts} \cup {k} : \A t \in ts : Seq(t) =< n}

Paging == query.phase = "paging"

\* Each page replaces the results of the one before.
MutPageReplaces ==
    LET page == Page(query.nextCursor) IN
    {[query EXCEPT !.results = [t \in Tasks |-> IF t \in page THEN shown[t] ELSE NoEvent],
                   !.nextCursor = n] : n \in HighestSeq(page, query.nextCursor)}

\* The query with one more page added to its results.  Of a task that is met again
\* the reader keeps the newer event.
NextPage ==
    LET page == Page(query.nextCursor) IN
    {[query EXCEPT !.results = [t \in Tasks |-> IF t \in page THEN Latest(@[t], shown[t])
                                                ELSE @[t]],
                   !.nextCursor = n] : n \in HighestSeq(page, query.nextCursor)}

ReadPage ==
    /\ Paging
    /\ Page(query.nextCursor) # RowsAfter(query.nextCursor)
    /\ query' \in NextPage
    /\ late' = late \ Page(query.nextCursor)
    /\ UNCHANGED <<counter, event, place, shown, submitted, put, cursor, view>>

\* The last page has no LastEvaluatedKey: the answer is on its way.
LastPage ==
    /\ Paging
    /\ Page(query.nextCursor) = RowsAfter(query.nextCursor)
    /\ query' \in {[q EXCEPT !.phase = "answered"] : q \in NextPage}
    /\ late' = late \ Page(query.nextCursor)
    /\ UNCHANGED <<counter, event, place, shown, submitted, put, cursor, view>>

\* The events of an answer are applied in seq order, newest winning.
Newest(v, results) ==
    [t \in Tasks |-> IF results[t] = NoEvent THEN v[t] ELSE Latest(v[t], results[t])]

ReceiveAnswer ==
    /\ query.phase = "answered"
    /\ view' = Newest(view, query.results)
    /\ cursor' = query.nextCursor
    /\ query' = Idle
    /\ UNCHANGED <<counter, event, place, shown, submitted, put, late>>

\* The query fails, or its answer is lost.
LoseQuery ==
    /\ query # Idle
    /\ query' = Idle
    /\ UNCHANGED <<counter, event, place, shown, submitted, put, cursor, view, late>>

Next ==
    \/ \E w \in Writers :
          \/ \E e \in Events : NextSeq(w, e)
          \/ ConditionalPut(w)
          \/ WriterDies(w)
    \/ \E e \in Events : ReachIndex(e)
    \/ \E t \in Tasks : LeaveIndex(t)
    \/ StartQuery
    \/ ReadPage
    \/ LastPage
    \/ ReceiveAnswer
    \/ LoseQuery

Spec == Init /\ [][Next]_vars

-----------------------------------------------------------------------------
(* Properties.                                                             *)

\* Whatever the interleaving of the two steps of each put, the row of a task
\* holds the newest event whose put was evaluated (dynamo-store.ts:68-70).
RowIsNewest == \A e \in submitted : Covers(event[Account][e.task], e)

\* Two rows never share a seq, replaced ones that the index may still show among
\* them: BySeq orders them and a page boundary never splits a tie
\* (dynamo-store.ts:28-43).
SeqsDistinct ==
    \A e, f \in Events : place[e] = place[f] /\ place[e] # 0 => e = f

\* A reader never moves its cursor past a row it has not applied, except one that
\* came to the index behind a query that had already gone further, or that is not
\* there yet: whatever pages a query is cut into, whichever answers are lost,
\* wherever an invocation dies and whatever the index shows meanwhile, nothing that
\* a query could see is missed (dynamo-store.ts:81-112).
OnlyLateMissed ==
    \A t \in Tasks \ late :
        LET e == event[Account][t] IN
        e # NoEvent /\ place[e] =< cursor /\ shown[t] = e => Covers(view[t], e)

\* The store never lets a cursor pass a row the reader has not been given:
\* "gaps are harmless because pull queries seq > cursor" (dynamo-store.ts:25-27),
\* "gaps are skipped automatically and never cause a missed event" (docs/
\* sync-protocol.md 5.1).  It fails as soon as two push invocations of an account
\* overlap, though the index may follow at once: the put of the lower seq may land
\* after a reader's cursor has passed it.
CursorComplete ==
    \A t \in Tasks :
        LET e == event[Account][t] IN
        e # NoEvent /\ place[e] =< cursor => Covers(view[t], e)

\* The store is a last-writer-wins map, for any number of writers.
Lww == INSTANCE LwwMap WITH winner <- event
ImplementsLwwMap == Lww!Spec
=============================================================================
