----------------------------- MODULE SyncClient -----------------------------
(***************************************************************************)
(* The offline-first client: TaskStore (apps/web/src/storage/TaskStore.ts) *)
(* and SyncEngine (apps/web/src/sync/SyncEngine.ts) of each device, against *)
(* the event store of one account over REST.                               *)
(*                                                                         *)
(* JavaScript runs one piece at a time, but every IndexedDB transaction,   *)
(* encryption and request is awaited.  A step is what happens between two  *)
(* awaits: the write of an edit, the read of what will be queued and the   *)
(* write to the queue are three steps, and so are reading a row to compare *)
(* it with a pulled event and overwriting it.                              *)
(*                                                                         *)
(* A row is its updatedAt, its contents (the number of the edit that made  *)
(* them) and its deletedAt.  Contents whose completedAt is more than 60    *)
(* days ago are aged: such a task is not pushed.  applyRemote's cutoff, by *)
(* the updatedAt of a pulled event, is left out.                           *)
(***************************************************************************)
EXTENDS SqliteStore, FiniteSets

CONSTANTS
    Devices,
    Account,        \* the account all of them are signed in to
    PullSlots,      \* bound: pullSince calls under way per device
    PushSlots,      \* bound: flushPushes calls under way per device
    MaxBatch,       \* PushRequestSchema: events per request (500)
    MaxTime,        \* bound: the latest wall-clock reading
    MaxEdits,       \* bound: edits by all users together
    Scopes,         \* bound: in one behaviour, the edits, requests that fail, restarts
                    \* (page loads and sync toggles), contents that become 60 days old,
                    \* and whether a resync may be due at the start
    Base,           \* the events of which one may have been synced before the start
    ClocksAgree     \* clocks agree well enough that an edit is stamped later
                    \* than the version of the task that it edits

ASSUME ClientTyped ==
    /\ Accounts = {Account}
    /\ MaxBatch \in Nat /\ MaxTime \in Nat /\ MaxEdits \in Nat
    /\ Scopes \subseteq [edits : 0 .. MaxEdits, failures : Nat, restarts : Nat, aged : Nat,
                         resyncDue : BOOLEAN]
    /\ \A e \in Events : e.updatedAt \in 1 .. MaxTime /\ e.eventId # 0
    /\ Base \subseteq Events
    /\ Base # {} => MaxSeq > 0
    /\ ClocksAgree \in BOOLEAN
    /\ "resync" \notin PullSlots \cup PushSlots

VARIABLES
    row,        \* row[d][t]: the tasks table
    lastId,     \* lastId[d][t]: lastEventIdByTask, 0 for none
    edits,      \* edits[d]: edits between their write and their queue row
    queue,      \* queue[d]: the outbound queue, sent and unsent
    payload,    \* payload[e]: what event e was built to say
    aged,       \* the contents whose task was completed more than 60 days ago
    push,       \* push[d][s]: the flushPushes calls under way
    pull,       \* pull[d][s]: the pullSince and pullForResync calls under way
    cursor,     \* cursor[d]: the persisted cursor
    sync,       \* sync[d]: no engine, one being set up, or one running
    flag,       \* flag[d]: Prefs.pendingFullResync
    resync,     \* resync[d]: where performFullResync is
    scope,      \* the member of Scopes this behaviour is about
    editCount,
    failures,
    restarts,
    onScreen,   \* onScreen[d]: tasks still listed although their rows are deleted
    rowEvent,   \* history: the event a row says, NoEvent while an edit has none
    unqueued,   \* history: tasks with a change that no queue row stands for
    mismerged   \* history: tasks whose row was overwritten although it was newer, or
                \* kept for an eventId that is not the row's

localVars == <<scope, row, lastId, edits, queue, payload, aged, push, pull, cursor, sync,
               flag, resync, editCount, failures, restarts, onScreen, rowEvent, unqueued,
               mismerged>>
history == <<rowEvent, unqueued, mismerged>>
vars == <<storeVars, localVars>>

NoRow == [at |-> 0, content |-> 0, deleted |-> FALSE]
Row == [at : 0 .. MaxTime, content : 0 .. MaxEdits, deleted : BOOLEAN]

NoPayload == [op |-> "none", content |-> 0]
Payload == [op : {"none", "upsert", "delete"}, content : 0 .. MaxEdits]

Slots == PullSlots \cup {"resync"}
Flushes == PushSlots \cup {"resync"}

Idle == [phase |-> "idle"]

Edit == [n : 1 .. MaxEdits, task : Tasks, op : {"upsert", "delete"}, snap : Row]

\* "check": left has not been looked at, batch will be pushed, skipped will not.
\* "sent": left are the events of the batch the server has not looked at yet.
Push == [phase : {"check", "sent"}, batch : SUBSET Events, left : SUBSET Events,
         skipped : SUBSET Events]

\* left: the rows that have not been dealt with.  decided: the first of them beats
\* the row read for it.
Pull == [phase : {"apply"}, pulled : SUBSET Tasks,
         left : SUBSET [ev : Events, seq : 1 .. MaxSeq], decided : BOOLEAN,
         nextCursor : 0 .. MaxSeq]

Resync == [phase : {"clear", "pulling", "snapshots", "rebuild", "pushing"},
           pulled : SUBSET Tasks, snaps : SUBSET [task : Tasks, snap : Row]]

TypeOK ==
    /\ StoreTypeOK
    /\ row \in [Devices -> [Tasks -> Row]]
    /\ lastId \in [Devices -> [Tasks -> Nat]]
    /\ edits \in [Devices -> SUBSET Edit]
    /\ queue \in [Devices -> SUBSET [ev : Events, sent : BOOLEAN]]
    /\ payload \in [Events -> Payload]
    /\ aged \subseteq 1 .. MaxEdits
    /\ push \in [Devices -> [Flushes -> {Idle} \cup Push]]
    /\ pull \in [Devices -> [Slots -> {Idle} \cup Pull]]
    /\ cursor \in [Devices -> 0 .. MaxSeq]
    /\ sync \in [Devices -> {"off", "starting", "on"}]
    /\ flag \in [Devices -> BOOLEAN]
    /\ resync \in [Devices -> {Idle} \cup Resync]
    /\ scope \in Scopes
    /\ editCount \in 0 .. scope.edits
    /\ failures \in 0 .. scope.failures /\ restarts \in 0 .. scope.restarts
    /\ onScreen \in [Devices -> SUBSET Tasks]
    /\ rowEvent \in [Devices -> [Tasks -> Events \cup {NoEvent}]]
    /\ unqueued \in [Devices -> SUBSET Tasks]
    /\ mismerged \in [Devices -> SUBSET Tasks]

\* Either nothing is stored anywhere, or one event is, and the devices have had
\* it since their pages were opened.
Init ==
    /\ \/ /\ StoreInit
          /\ row = [d \in Devices |-> [t \in Tasks |-> NoRow]]
          /\ lastId = [d \in Devices |-> [t \in Tasks |-> 0]]
          /\ rowEvent = [d \in Devices |-> [t \in Tasks |-> NoEvent]]
          /\ payload = [e \in Events |-> NoPayload]
          /\ cursor = [d \in Devices |-> 0]
       \/ \E b \in Base :
          /\ counter = [a \in Accounts |-> 1]
          /\ event = [a \in Accounts |-> [t \in Tasks |-> IF t = b.task THEN b ELSE NoEvent]]
          /\ seq = [a \in Accounts |-> [t \in Tasks |-> IF t = b.task THEN 1 ELSE 0]]
          /\ submitted = [a \in Accounts |-> {b}]
          /\ row = [d \in Devices |-> [t \in Tasks |->
                       IF t = b.task THEN [NoRow EXCEPT !.at = b.updatedAt] ELSE NoRow]]
          /\ lastId = [d \in Devices |-> [t \in Tasks |-> IF t = b.task THEN b.eventId ELSE 0]]
          /\ rowEvent = [d \in Devices |-> event[Account]]
          /\ payload = [e \in Events |-> IF e = b THEN [NoPayload EXCEPT !.op = "upsert"]
                                                 ELSE NoPayload]
          /\ cursor = [d \in Devices |-> 1]
    /\ scope \in Scopes
    /\ edits = [d \in Devices |-> {}]
    /\ queue = [d \in Devices |-> {}]
    /\ aged = {}
    /\ push = [d \in Devices |-> [s \in Flushes |-> Idle]]
    /\ pull = [d \in Devices |-> [s \in Slots |-> Idle]]
    /\ sync \in [Devices -> {"off", "starting"}]
    /\ flag \in [Devices -> BOOLEAN]
    /\ \A d \in Devices : flag[d] => scope.resyncDue /\ sync[d] = "starting"
    /\ resync = [d \in Devices |-> Idle]
    /\ editCount = 0 /\ failures = 0 /\ restarts = 0
    /\ onScreen = [d \in Devices |-> {}]
    /\ unqueued = [d \in Devices |-> {}]
    /\ mismerged = [d \in Devices |-> {}]

Pending(d) == {q.ev : q \in {r \in queue[d] : ~r.sent}}

-----------------------------------------------------------------------------
(* Edits.                                                                  *)

\* No device has the task: add makes a new id.
Unknown(t) ==
    /\ \A d \in Devices : row[d][t] = NoRow
    /\ \A e \in Events : e.task = t => payload[e] = NoPayload

\* add, update, deleteArchived: the transaction on the tasks table.  The user
\* edits a task that is listed, which may be deleted by now: update does not look
\* at deletedAt.  Date.now() may read anything.
EditRow(d, t, op) ==
    /\ editCount < scope.edits
    /\ row[d][t] = NoRow => Unknown(t) /\ op = "upsert"
    /\ row[d][t].deleted => t \in onScreen[d]
    /\ \E u \in 1 .. MaxTime :
          /\ ClocksAgree => u > row[d][t].at
          /\ row' = [row EXCEPT ![d][t] =
                        [at |-> u,
                         content |-> IF op = "delete" THEN @.content ELSE editCount + 1,
                         deleted |-> op = "delete" \/ @.deleted]]
    /\ edits' = [edits EXCEPT ![d] = @ \cup
                    {[n |-> editCount + 1, task |-> t, op |-> op, snap |-> NoRow]}]
    /\ editCount' = editCount + 1
    /\ rowEvent' = [rowEvent EXCEPT ![d][t] = NoEvent]
    /\ unqueued' = [unqueued EXCEPT ![d] = @ \ {t}]
    /\ UNCHANGED <<scope, storeVars, lastId, queue, payload, aged, push, pull, cursor,
                   sync, flag, resync, failures, restarts, onScreen, mismerged>>

\* refresh in App, which every change of the store calls: the lists are read again.
Refresh(d) ==
    /\ onScreen[d] # {}
    /\ onScreen' = [onScreen EXCEPT ![d] = {}]
    /\ UNCHANGED <<scope, storeVars, row, lastId, edits, queue, payload, aged, push,
                   pull, cursor, sync, flag, resync, editCount, failures, restarts,
                   history>>

\* enqueue: nothing happens without an event builder; otherwise the row is
\* read again.
ReadSnapshot(d, x) ==
    /\ x \in edits[d] /\ x.snap = NoRow
    /\ IF sync[d] = "on"
       THEN /\ edits' = [edits EXCEPT ![d] =
                            (@ \ {x}) \cup {[x EXCEPT !.snap = row[d][x.task]]}]
            /\ UNCHANGED unqueued
       ELSE /\ edits' = [edits EXCEPT ![d] = @ \ {x}]
            /\ unqueued' = [unqueued EXCEPT ![d] = @ \cup {x.task}]
    /\ UNCHANGED <<scope, storeVars, row, lastId, queue, payload, aged, push, pull,
                   cursor, sync, flag, resync, editCount, failures, restarts, onScreen,
                   rowEvent, mismerged>>

\* The event builder: a fresh eventId, and the snapshot's updatedAt.
Built(t, snap) ==
    {e \in Events : e.task = t /\ e.updatedAt = snap.at /\ payload[e] = NoPayload}

\* The event is built and added to the queue.  It stands for the row if the row is
\* still the snapshot, and is not already told by an event that beats this one.
AddToQueue(d, t, op, snap) ==
    \E e \in Built(t, snap) :
        LET stands == /\ snap = row[d][t]
                      /\ rowEvent[d][t] # NoEvent => Supersedes(e, rowEvent[d][t])
        IN
        /\ payload' = [payload EXCEPT ![e] =
              [op |-> op, content |-> IF op = "delete" THEN 0 ELSE snap.content]]
        /\ queue' = [queue EXCEPT ![d] = @ \cup {[ev |-> e, sent |-> FALSE]}]
        /\ unqueued' = IF stands THEN [unqueued EXCEPT ![d] = @ \ {t}] ELSE unqueued
        /\ rowEvent' = IF stands /\ (op = "delete" <=> snap.deleted)
                       THEN [rowEvent EXCEPT ![d][t] = e] ELSE rowEvent

QueueEvent(d, x) ==
    /\ x \in edits[d] /\ x.snap # NoRow
    /\ AddToQueue(d, x.task, x.op, x.snap)
    /\ edits' = [edits EXCEPT ![d] = @ \ {x}]
    /\ UNCHANGED <<scope, storeVars, row, lastId, aged, push, pull, cursor, sync, flag,
                   resync, editCount, failures, restarts, onScreen, mismerged>>

-----------------------------------------------------------------------------
(* flushPushes.                                                            *)

InPush(d, s, p) == push[d][s] # Idle /\ push[d][s].phase = p

\* A completed task becomes more than 60 days old.
Age(d, t) ==
    /\ row[d][t].content \notin aged \cup {0}
    /\ Cardinality(aged) < scope.aged
    /\ aged' = aged \cup {row[d][t].content}
    /\ UNCHANGED <<scope, storeVars, row, lastId, edits, queue, payload, push, pull,
                   cursor, sync, flag, resync, editCount, failures, restarts, onScreen,
                   history>>

Aged(d, t) == row[d][t].content \in aged

\* The unsent rows are read; those of upserts are looked at one by one.
Flushing(d) ==
    IF Pending(d) = {} THEN Idle
    ELSE LET upserts == {e \in Pending(d) : payload[e].op = "upsert"} IN
         [phase |-> "check", left |-> upserts, batch |-> Pending(d) \ upserts, skipped |-> {}]

Flush(d, s) ==
    /\ s \in PushSlots /\ sync[d] = "on" /\ push[d][s] = Idle
    /\ Pending(d) # {}
    /\ push' = [push EXCEPT ![d][s] = Flushing(d)]
    /\ UNCHANGED <<scope, storeVars, row, lastId, edits, queue, payload, aged, pull,
                   cursor, sync, flag, resync, editCount, failures, restarts, onScreen,
                   history>>

\* taskCompletedAt asks the row as it is now, deleted or not, and not the event.
CheckRow(d, s) ==
    /\ InPush(d, s, "check")
    /\ \E e \in push[d][s].left :
          /\ \A f \in push[d][s].left : ~Supersedes(e, f)
          /\ push' = IF Aged(d, e.task)
                     THEN [push EXCEPT ![d][s].left = @ \ {e}, ![d][s].skipped = @ \cup {e}]
                     ELSE [push EXCEPT ![d][s].left = @ \ {e}, ![d][s].batch = @ \cup {e}]
    /\ UNCHANGED <<scope, storeVars, row, lastId, edits, queue, payload, aged, pull,
                   cursor, sync, flag, resync, editCount, failures, restarts, onScreen,
                   history>>

\* The queue of d once es are marked sent, those of them that are still there.
Marked(d, es) == {[ev |-> q.ev, sent |-> q.sent \/ q.ev \in es] : q \in queue[d]}

\* e is as new as the row of d, and the server has nothing as new.
Untold(d, e) ==
    LET f == rowEvent[d][e.task] IN
    /\ e.updatedAt = row[d][e.task].at
    /\ f # NoEvent => e.eventId >= f.eventId
    /\ ~Covers(event[Account][e.task], e)

\* The rows that will be pushed are marked sent with the others.
MutSendRest(d, s) ==
    /\ InPush(d, s, "check") /\ push[d][s].left = {}
    /\ queue' = [queue EXCEPT ![d] = Marked(d, push[d][s].skipped \cup push[d][s].batch)]
    /\ unqueued' = [unqueued EXCEPT ![d] =
          @ \cup {e.task : e \in {f \in push[d][s].skipped \cap Pending(d) : Untold(d, f)}}]
    /\ push' = [push EXCEPT ![d][s] =
          IF @.batch = {} THEN Idle
          ELSE [phase |-> "sent", batch |-> @.batch, left |-> @.batch, skipped |-> {}]]
    /\ UNCHANGED <<scope, storeVars, row, lastId, edits, payload, aged, pull, cursor,
                   sync, flag, resync, editCount, failures, restarts, onScreen,
                   rowEvent, mismerged>>

\* The skipped rows are marked sent, and the others pushed, if there are any.
SendRest(d, s) ==
    /\ InPush(d, s, "check") /\ push[d][s].left = {}
    /\ queue' = [queue EXCEPT ![d] = Marked(d, push[d][s].skipped)]
    /\ unqueued' = [unqueued EXCEPT ![d] =
          @ \cup {e.task : e \in {f \in push[d][s].skipped \cap Pending(d) : Untold(d, f)}}]
    /\ push' = [push EXCEPT ![d][s] =
          IF @.batch = {} THEN Idle
          ELSE [phase |-> "sent", batch |-> @.batch, left |-> @.batch, skipped |-> {}]]
    /\ UNCHANGED <<scope, storeVars, row, lastId, edits, payload, aged, pull, cursor,
                   sync, flag, resync, editCount, failures, restarts, onScreen,
                   rowEvent, mismerged>>

\* The server takes the next event, the oldest, unless the batch is too large.
ServePush(d, s) ==
    /\ InPush(d, s, "sent")
    /\ Cardinality(push[d][s].batch) =< MaxBatch
    /\ \E e \in push[d][s].left :
          /\ \A f \in push[d][s].left : ~Supersedes(e, f)
          /\ PutEvent(Account, e)
          /\ push' = [push EXCEPT ![d][s].left = @ \ {e}]
    /\ UNCHANGED <<scope, row, lastId, edits, queue, payload, aged, pull, cursor, sync,
                   flag, resync, editCount, failures, restarts, onScreen, history>>

\* Every row that is still there and that the answer names, accepted or
\* rejected, is marked sent.
PushAnswered(d, s) ==
    /\ InPush(d, s, "sent") /\ push[d][s].left = {}
    /\ queue' = [queue EXCEPT ![d] = Marked(d, push[d][s].batch)]
    /\ push' = [push EXCEPT ![d][s] = Idle]
    /\ UNCHANGED <<scope, storeVars, row, lastId, edits, payload, aged, pull, cursor,
                   sync, flag, resync, editCount, failures, restarts, onScreen, history>>

\* 400: no event is looked at, and the queue stays as it was.
PushRefused(d, s) ==
    /\ InPush(d, s, "sent")
    /\ Cardinality(push[d][s].batch) > MaxBatch
    /\ push' = [push EXCEPT ![d][s] = Idle]
    /\ UNCHANGED <<scope, storeVars, row, lastId, edits, queue, payload, aged, pull,
                   cursor, sync, flag, resync, editCount, failures, restarts, onScreen,
                   history>>

\* The request fails, half way or before it, or its answer is lost.
PushFails(d, s) ==
    /\ InPush(d, s, "sent") /\ failures < scope.failures
    /\ push' = [push EXCEPT ![d][s] = Idle]
    /\ failures' = failures + 1
    /\ UNCHANGED <<scope, storeVars, row, lastId, edits, queue, payload, aged, pull,
                   cursor, sync, flag, resync, editCount, restarts, onScreen, history>>

-----------------------------------------------------------------------------
(* pullSince and pullForResync.                                            *)

\* The answer to a query.
AnswerTo(c) ==
    {[phase |-> "apply", decided |-> FALSE, nextCursor |-> ans.nextCursor,
      pulled |-> TasksAfter(Account, c),
      left |-> {[ev |-> event[Account][t], seq |-> seq[Account][t]] :
                   t \in TasksAfter(Account, c)}] : ans \in QueryEventsAfter(Account, c)}

StartPull(d, s) ==
    /\ s \in PullSlots /\ sync[d] = "on" /\ pull[d][s] = Idle
    /\ \E p \in AnswerTo(cursor[d]) : pull' = [pull EXCEPT ![d][s] = p]
    /\ UNCHANGED <<scope, storeVars, row, lastId, edits, queue, payload, aged, push,
                   cursor, sync, flag, resync, editCount, failures, restarts, onScreen,
                   history>>

\* The eventId never breaks a tie.
MutShouldReplace(d, e) == e.updatedAt > row[d][e.task].at

\* shouldReplace: a row this device has not had from a remote event since it
\* was opened loses a tie; an edit of the row leaves lastEventIdByTask alone.
ShouldReplace(d, e) ==
    LET r == row[d][e.task] IN
    \/ e.updatedAt > r.at
    \/ e.updatedAt = r.at /\ (lastId[d][e.task] = 0 \/ e.eventId > lastId[d][e.task])

\* The row of d says what e says.
Says(d, e) ==
    LET r == row[d][e.task] IN
    /\ r.at = e.updatedAt
    /\ payload[e].op = IF r.deleted THEN "delete" ELSE "upsert"
    /\ ~r.deleted => r.content = payload[e].content

\* By the rule of 5 of the protocol, the row of d is at least as new as e: by its
\* updatedAt and, on a tie, by the eventId of what it says.
AtLeast(d, e) ==
    LET r == row[d][e.task]
        f == rowEvent[d][e.task] IN
    \/ r.at > e.updatedAt
    \/ r.at = e.updatedAt /\ f # NoEvent /\ f.eventId >= e.eventId

\* The user has edited the row since the remote event that lastId names.
IdOutdated(d, t) ==
    \E f \in Events : f.eventId = lastId[d][t] /\ f.updatedAt # row[d][t].at

\* The row of the answer that is dealt with next: they come in seq order.
Incoming(d, s) ==
    {x \in pull[d][s].left : \A y \in pull[d][s].left : x.seq =< y.seq}

\* applyRemoteUpsert and applyRemoteDelete up to the write: read and compare.
Compare(d, s) ==
    /\ pull[d][s] # Idle /\ ~pull[d][s].decided
    /\ \E x \in Incoming(d, s) :
       IF ShouldReplace(d, x.ev)
       THEN /\ pull' = [pull EXCEPT ![d][s].decided = TRUE]
            /\ UNCHANGED mismerged
       ELSE /\ pull' = [pull EXCEPT ![d][s].left = @ \ {x}]
            /\ mismerged' = IF ~AtLeast(d, x.ev) /\ IdOutdated(d, x.ev.task)
                            THEN [mismerged EXCEPT ![d] = @ \cup {x.ev.task}] ELSE mismerged
    /\ UNCHANGED <<scope, storeVars, row, lastId, edits, queue, payload, aged, push,
                   cursor, sync, flag, resync, editCount, failures, restarts, onScreen,
                   rowEvent, unqueued>>

\* The row now says e.  If it was newer, and said something else, it is mismerged;
\* it stops being mismerged when it is given what the server has.
Merge(d, e) ==
    LET t == e.task
        newer == AtLeast(d, e)
        current == e = event[Account][t] IN
    /\ rowEvent' = IF newer /\ Says(d, e) /\ ~current
                   THEN rowEvent ELSE [rowEvent EXCEPT ![d][t] = e]
    /\ unqueued' = IF newer /\ ~(Says(d, e) /\ current)
                   THEN unqueued ELSE [unqueued EXCEPT ![d] = @ \ {t}]
    /\ mismerged' = IF newer /\ ~Says(d, e) THEN [mismerged EXCEPT ![d] = @ \cup {t}]
                    ELSE IF current THEN [mismerged EXCEPT ![d] = @ \ {t}]
                    ELSE mismerged

\* The write, whatever the row has become since it was read.
Replace(d, s) ==
    /\ pull[d][s] # Idle /\ pull[d][s].decided
    /\ \E x \in Incoming(d, s) :
       LET e == x.ev
           del == payload[e].op = "delete" IN
       /\ row' = [row EXCEPT ![d][e.task] =
                     [at |-> e.updatedAt, deleted |-> del,
                      content |-> IF del THEN @.content ELSE payload[e].content]]
       /\ lastId' = [lastId EXCEPT ![d][e.task] = e.eventId]
       /\ onScreen' = [onScreen EXCEPT ![d] =
              IF ~del THEN @ \ {e.task}
              ELSE IF row[d][e.task] = NoRow \/ row[d][e.task].deleted THEN @
              ELSE @ \cup {e.task}]
       /\ Merge(d, e)
       /\ pull' = [pull EXCEPT ![d][s].decided = FALSE, ![d][s].left = @ \ {x}]
    /\ UNCHANGED <<scope, storeVars, edits, queue, payload, aged, push, cursor, sync,
                   flag, resync, editCount, failures, restarts>>

\* Any pull moves the resync on.
MutPullEnds(d, s) ==
    /\ pull[d][s] # Idle /\ pull[d][s].left = {}
    /\ cursor' = [cursor EXCEPT ![d] = pull[d][s].nextCursor]
    /\ pull' = [pull EXCEPT ![d][s] = Idle]
    /\ resync' = [resync EXCEPT ![d] = [phase |-> "snapshots"]]
    /\ UNCHANGED <<scope, storeVars, row, lastId, edits, queue, payload, aged, push,
                   sync, flag, editCount, failures, restarts, onScreen, history>>

PullEnds(d, s) ==
    /\ pull[d][s] # Idle /\ pull[d][s].left = {}
    /\ cursor' = [cursor EXCEPT ![d] = pull[d][s].nextCursor]
    /\ pull' = [pull EXCEPT ![d][s] = Idle]
    /\ resync' = IF s = "resync"
                 THEN [resync EXCEPT ![d].phase = "snapshots", ![d].pulled = pull[d][s].pulled]
                 ELSE resync
    /\ UNCHANGED <<scope, storeVars, row, lastId, edits, queue, payload, aged, push,
                   sync, flag, editCount, failures, restarts, onScreen, history>>

\* The cursor is stored before the events are applied.
MutPullFails(d, s) ==
    /\ pull[d][s] # Idle /\ failures < scope.failures
    /\ pull' = [pull EXCEPT ![d][s] = Idle]
    /\ cursor' = [cursor EXCEPT ![d] = pull[d][s].nextCursor]
    /\ failures' = failures + 1
    /\ resync' = IF s = "resync" THEN [resync EXCEPT ![d].phase = "snapshots"] ELSE resync
    /\ UNCHANGED <<scope, storeVars, row, lastId, edits, queue, payload, aged, push,
                   sync, flag, editCount, restarts, onScreen, history>>

\* The request fails, or applying an event throws: the cursor stays.
PullFails(d, s) ==
    /\ pull[d][s] # Idle /\ failures < scope.failures
    /\ pull' = [pull EXCEPT ![d][s] = Idle]
    /\ failures' = failures + 1
    /\ resync' = IF s = "resync" THEN [resync EXCEPT ![d].phase = "snapshots"] ELSE resync
    /\ UNCHANGED <<scope, storeVars, row, lastId, edits, queue, payload, aged, push,
                   cursor, sync, flag, editCount, restarts, onScreen, history>>

-----------------------------------------------------------------------------
(* performFullResync.                                                      *)

InResync(d, p) == resync[d] # Idle /\ resync[d].phase = p

\* clearSyncQueue has ended: the cursor is reset and pullForResync asks.
ResyncPull(d) ==
    /\ InResync(d, "clear")
    /\ cursor' = [cursor EXCEPT ![d] = 0]
    /\ \E p \in AnswerTo(0) : pull' = [pull EXCEPT ![d]["resync"] = p]
    /\ resync' = [resync EXCEPT ![d].phase = "pulling"]
    /\ UNCHANGED <<scope, storeVars, row, lastId, edits, queue, payload, aged, push,
                   sync, flag, editCount, failures, restarts, onScreen, history>>

\* liveSnapshots, less the tasks the server returned and those that are aged.
TakeSnapshots(d) ==
    /\ InResync(d, "snapshots")
    /\ resync' = [resync EXCEPT ![d].phase = "rebuild", ![d].snaps =
          {[task |-> t, snap |-> row[d][t]] :
              t \in {u \in Tasks \ resync[d].pulled : /\ row[d][u] # NoRow
                                                   /\ ~row[d][u].deleted
                                                   /\ ~Aged(d, u)}}]
    /\ UNCHANGED <<scope, storeVars, row, lastId, edits, queue, payload, aged, push,
                   pull, cursor, sync, flag, editCount, failures, restarts, onScreen,
                   history>>

EnqueueSnapshot(d, x) ==
    /\ InResync(d, "rebuild") /\ x \in resync[d].snaps
    /\ \/ sync[d] = "on" /\ AddToQueue(d, x.task, "upsert", x.snap)
       \/ sync[d] # "on" /\ UNCHANGED <<payload, queue, rowEvent, unqueued>>
    /\ resync' = [resync EXCEPT ![d].snaps = @ \ {x}]
    /\ UNCHANGED <<scope, storeVars, row, lastId, edits, aged, push, pull, cursor, sync,
                   flag, editCount, failures, restarts, onScreen, mismerged>>

\* The flush at the end, of an engine that may have been stopped.
ResyncFlush(d) ==
    /\ InResync(d, "rebuild") /\ resync[d].snaps = {}
    /\ push' = [push EXCEPT ![d]["resync"] = Flushing(d)]
    /\ resync' = [resync EXCEPT ![d].phase = "pushing"]
    /\ UNCHANGED <<scope, storeVars, row, lastId, edits, queue, payload, aged, pull,
                   cursor, sync, flag, editCount, failures, restarts, onScreen, history>>

\* It has been answered or has failed; the flag goes.
ResyncEnds(d) ==
    /\ InResync(d, "pushing") /\ push[d]["resync"] = Idle
    /\ resync' = [resync EXCEPT ![d] = Idle]
    /\ flag' = [flag EXCEPT ![d] = FALSE]
    /\ UNCHANGED <<scope, storeVars, row, lastId, edits, queue, payload, aged, push,
                   pull, cursor, sync, editCount, failures, restarts, onScreen, history>>

-----------------------------------------------------------------------------
(* The app around the engine.                                              *)

\* onEnabled in SettingsPanel: every enable asks for a full resync.
Enable(d) ==
    /\ sync[d] = "off" /\ restarts < scope.restarts
    /\ sync' = [sync EXCEPT ![d] = "starting"]
    /\ flag' = [flag EXCEPT ![d] = TRUE]
    /\ restarts' = restarts + 1
    /\ UNCHANGED <<scope, storeVars, row, lastId, edits, queue, payload, aged, push,
                   pull, cursor, resync, editCount, failures, onScreen, history>>

\* The engine stops; calls of it that are under way carry on.
Disable(d) ==
    /\ sync[d] # "off" /\ restarts < scope.restarts
    /\ sync' = [sync EXCEPT ![d] = "off"]
    /\ restarts' = restarts + 1
    /\ UNCHANGED <<scope, storeVars, row, lastId, edits, queue, payload, aged, push,
                   pull, cursor, flag, resync, editCount, failures, onScreen, history>>

\* startIfEnabled has its keys: SyncEngine.start.  A full resync opens the
\* transaction of clearSyncQueue at once; what was unsent is left to the steps
\* above.  (Bound: a full resync does not start while one of an earlier engine is
\* still running.)
StartEngine(d) ==
    /\ sync[d] = "starting"
    /\ flag[d] => resync[d] = Idle
    /\ sync' = [sync EXCEPT ![d] = "on"]
    /\ IF flag[d]
       THEN /\ resync' = [resync EXCEPT ![d] = [phase |-> "clear", pulled |-> {}, snaps |-> {}]]
            /\ queue' = [queue EXCEPT ![d] = {}]
            /\ unqueued' = [unqueued EXCEPT ![d] = @ \cup {e.task : e \in Pending(d)}]
       ELSE UNCHANGED <<resync, queue, unqueued>>
    /\ UNCHANGED <<scope, storeVars, row, lastId, edits, payload, aged, push, pull,
                   cursor, flag, editCount, failures, restarts, onScreen, rowEvent,
                   mismerged>>

\* The page is closed or reloaded: what is in memory is gone.
Restart(d) ==
    /\ restarts < scope.restarts
    /\ lastId' = [lastId EXCEPT ![d] = [t \in Tasks |-> 0]]
    /\ edits' = [edits EXCEPT ![d] = {}]
    /\ unqueued' = [unqueued EXCEPT ![d] = @ \cup {x.task : x \in edits[d]}]
    /\ push' = [push EXCEPT ![d] = [s \in Flushes |-> Idle]]
    /\ pull' = [pull EXCEPT ![d] = [s \in Slots |-> Idle]]
    /\ resync' = [resync EXCEPT ![d] = Idle]
    /\ onScreen' = [onScreen EXCEPT ![d] = {}]
    /\ sync' = [sync EXCEPT ![d] = IF @ = "off" THEN "off" ELSE "starting"]
    /\ restarts' = restarts + 1
    /\ UNCHANGED <<scope, storeVars, row, queue, payload, aged, cursor, flag, editCount,
                   failures, rowEvent, mismerged>>

-----------------------------------------------------------------------------
\* A device that is not in Devices edits a task and pushes it.
OtherDevice(e, op) ==
    /\ editCount < scope.edits
    /\ payload[e] = NoPayload
    /\ event[Account][e.task] = NoEvent => Unknown(e.task) /\ op = "upsert"
    /\ PutEvent(Account, e)
    /\ payload' = [payload EXCEPT ![e] =
                      [op |-> op, content |-> IF op = "delete" THEN 0 ELSE editCount + 1]]
    /\ editCount' = editCount + 1
    /\ UNCHANGED <<scope, row, lastId, edits, queue, aged, push, pull, cursor, sync,
                   flag, resync, failures, restarts, onScreen, history>>

Next ==
    \/ \E e \in Events, op \in {"upsert", "delete"} : OtherDevice(e, op)
    \/ \E d \in Devices :
          \/ \E t \in Tasks, op \in {"upsert", "delete"} : EditRow(d, t, op)
          \/ \E x \in edits[d] : ReadSnapshot(d, x) \/ QueueEvent(d, x)
          \/ Refresh(d)
          \/ \E t \in Tasks : Age(d, t)
          \/ \E s \in Flushes : \/ Flush(d, s)
                                \/ CheckRow(d, s)
                                \/ SendRest(d, s)
                                \/ ServePush(d, s)
                                \/ PushAnswered(d, s)
                                \/ PushRefused(d, s)
                                \/ PushFails(d, s)
          \/ \E s \in Slots : \/ StartPull(d, s)
                              \/ Compare(d, s)
                              \/ Replace(d, s)
                              \/ PullEnds(d, s)
                              \/ PullFails(d, s)
          \/ ResyncPull(d)
          \/ TakeSnapshots(d)
          \/ \E t \in Tasks, r \in Row : EnqueueSnapshot(d, [task |-> t, snap |-> r])
          \/ ResyncFlush(d)
          \/ ResyncEnds(d)
          \/ Enable(d)
          \/ Disable(d)
          \/ StartEngine(d)
          \/ Restart(d)

Spec == Init /\ [][Next]_vars

\* A device that stays open: the steps of an edit, a push and each pull go on
\* whatever the others do, the timers of scheduleTimers keep starting pushes and
\* pulls, and the server answers.
EditStep(d) == \E x \in edits[d] : ReadSnapshot(d, x) \/ QueueEvent(d, x)
PushStep(d, s) ==
    Flush(d, s) \/ CheckRow(d, s) \/ SendRest(d, s) \/ ServePush(d, s)
    \/ PushAnswered(d, s) \/ PushRefused(d, s)
PullStep(d, s) == StartPull(d, s) \/ Compare(d, s) \/ Replace(d, s) \/ PullEnds(d, s)

FairSpec ==
    /\ Spec
    /\ \A d \in Devices : /\ WF_vars(StartEngine(d))
                          /\ WF_vars(EditStep(d))
                          /\ \A s \in PushSlots : WF_vars(PushStep(d, s))
                          /\ \A s \in PullSlots : WF_vars(PullStep(d, s))

-----------------------------------------------------------------------------
(* Properties.                                                             *)

\* Nothing is on its way between device d and the server about task t.
Settled(d, t) ==
    /\ sync[d] = "on" /\ resync[d] = Idle
    /\ \A x \in edits[d] : x.task # t
    /\ \A e \in Pending(d) : e.task # t
    /\ \A s \in Flushes : push[d][s] = Idle
    /\ \A s \in Slots : pull[d][s] = Idle
    /\ cursor[d] >= seq[Account][t]

\* The row of d is what the server has.
Agrees(d, t) ==
    LET e == event[Account][t] IN
    IF e = NoEvent THEN row[d][t] = NoRow ELSE Says(d, e)

\* A device that is up to date has what the server has: the queue, the cursor,
\* the two tie-breaks and the merge of pulled events with the user's own edits,
\* of tasks deleted elsewhere too, fit together, except for tasks with a change
\* that never got into the queue or that are mismerged.
Converged ==
    \A d \in Devices, t \in Tasks :
        Settled(d, t) /\ t \notin unqueued[d] \cup mismerged[d] => Agrees(d, t)

Skipped(d, s) == IF push[d][s] = Idle THEN {} ELSE push[d][s].skipped

\* A queued change leaves the queue only once the server has it or has something
\* newer, however pushes fail, repeat and overlap with edits and each other
\* (SyncEngine.ts:293-301, 7.1 of docs/sync-protocol.md), with two exceptions: a
\* full resync discards the queue, and a flush skips an upsert, never a delete,
\* having found the task completed more than 60 days ago (SyncEngine.ts:277-290,
\* docs/sync-protocol.md:100).
QueueKept ==
    [][\A d \in Devices :
          /\ \A e \in Pending(d) \ Pending(d)' :
                \/ Covers(event[Account][e.task], e)
                \/ flag[d] /\ sync[d] = "starting" /\ sync'[d] = "on" /\ queue'[d] = {}
                \/ \E s \in Flushes : e \in Skipped(d, s)
          /\ \A s \in Flushes : \A e \in Skipped(d, s)' \ Skipped(d, s) :
                payload[e].op = "upsert" /\ Aged(d, e.task)]_vars

\* "Every local change is queued and pushed" (README.md:52): a queued change leaves
\* the queue in the end.  A server that takes at most MaxBatch events a request
\* refuses a longer queue as a whole, and the engine sends the same again.
QueueDrains ==
    \A d \in Devices, e \in Events : (e \in Pending(d)) ~> (e \notin Pending(d))

\* As long as the queue fits a request it drains, and once the users stop editing, a
\* device that stays open ends up showing what the server has.
EventuallyAgrees ==
    /\ QueueDrains
    /\ \A d \in Devices, t \in Tasks :
          <>[](sync[d] = "on" /\ t \notin unqueued[d] \cup mismerged[d]
                  => Agrees(d, t))

\* Clients "replace the local row whose taskId matches if the incoming event has a
\* strictly newer updatedAt, or equal updatedAt and a lexicographically greater
\* eventId" (docs/sync-protocol.md:86).  The code compares in one transaction and
\* writes in another, and the row may have become newer in between; and on a tie
\* it compares with the eventId of the last remote event, also where the user has
\* edited the row since.
MergesByRule == \A d \in Devices : mismerged[d] = {}

\* "After this runs, the cloud holds an up-to-date copy of every live local task",
\* except those completed more than 60 days ago (SyncEngine.ts:306-309).  A task the
\* server returned in an older form is taken for uploaded, and the queue rows that
\* held the newer form are gone.
ResyncUploads ==
    [][\A d \in Devices : flag[d] /\ ~flag'[d] /\ sync[d] = "on" =>
          \A t \in unqueued'[d] : row[d][t].deleted \/ Aged(d, t)]_vars
=============================================================================
