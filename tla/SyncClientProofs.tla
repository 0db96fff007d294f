-------------------------- MODULE SyncClientProofs --------------------------
(***************************************************************************)
(* The safety properties of SyncClient, for every set of devices, tasks    *)
(* and events, any number of pulls at once, and every bound.               *)
(*                                                                         *)
(* Types and the queue need nothing but the store.  That a device which is *)
(* up to date shows what the server has needs the whole merge, and clocks  *)
(* that agree.                                                             *)
(***************************************************************************)
EXTENDS SyncClient, StoreProofs

(* Types.  The end of a resync's pull writes to the record of the resync,  *)
(* which is there as long as the pull is.                                  *)
ResyncPulling ==
    \A d \in Devices : pull[d]["resync"] # Idle => InResync(d, "pulling")

TypeInv == TypeOK /\ ResyncPulling

\* The account is one, and the constants have the types the steps use.
LEMMA Constants ==
    /\ Account \in Accounts
    /\ MaxTime \in Nat /\ MaxEdits \in Nat /\ MaxSeq \in Nat
    /\ \A b \in Scopes : /\ b.edits \in 0 .. MaxEdits
                         /\ b.failures \in Nat /\ b.restarts \in Nat
    /\ NoEvent \notin Events
    /\ \A e \in Events : /\ e.task \in Tasks
                         /\ e.updatedAt \in 1 .. MaxTime
                         /\ e.eventId \in Nat \ {0}
    /\ "resync" \in Slots /\ PullSlots \subseteq Slots /\ "resync" \notin PullSlots
    /\ "resync" \in Flushes /\ PushSlots \subseteq Flushes
    /\ NoRow \in Row
BY ClientTyped, EventsTyped, MaxSeqTyped DEF Slots, Flushes, NoRow, Row

\* No record of work under way is Idle.
LEMMA NotIdle ==
    /\ \A p \in Push : p # Idle
    /\ \A p \in Pull : p # Idle
    /\ \A r \in Resync : r # Idle
BY DEF Push, Pull, Resync, Idle

LEMMA InitTypes == Init => TypeInv
<1> SUFFICES ASSUME Init PROVE TypeInv
  OBVIOUS
<1> DEFINE Synced ==
             /\ StoreTypeOK
             /\ row \in [Devices -> [Tasks -> Row]]
             /\ lastId \in [Devices -> [Tasks -> Nat]]
             /\ payload \in [Events -> Payload]
             /\ cursor \in [Devices -> 0 .. MaxSeq]
             /\ rowEvent \in [Devices -> [Tasks -> Events \cup {NoEvent}]]
<1>1. Synced
  <2>0. NoPayload \in Payload
    BY Constants DEF NoPayload, Payload
  <2>1. ASSUME StoreInit, row = [d \in Devices |-> [t \in Tasks |-> NoRow]],
               lastId = [d \in Devices |-> [t \in Tasks |-> 0]],
               payload = [e \in Events |-> NoPayload],
               cursor = [d \in Devices |-> 0],
               rowEvent = [d \in Devices |-> [t \in Tasks |-> NoEvent]]
        PROVE  Synced
    BY <2>0, <2>1, Constants DEF StoreTypeOK, StoreInit
  <2>2. ASSUME NEW b \in Base,
               counter = [a \in Accounts |-> 1],
               event = [a \in Accounts |-> [t \in Tasks |-> IF t = b.task THEN b ELSE NoEvent]],
               seq = [a \in Accounts |-> [t \in Tasks |-> IF t = b.task THEN 1 ELSE 0]],
               submitted = [a \in Accounts |-> {b}],
               row = [d \in Devices |-> [t \in Tasks |->
                        IF t = b.task THEN [NoRow EXCEPT !.at = b.updatedAt] ELSE NoRow]],
               lastId = [d \in Devices |-> [t \in Tasks |-> IF t = b.task THEN b.eventId ELSE 0]],
               rowEvent = [d \in Devices |-> event[Account]],
               payload = [e \in Events |-> IF e = b THEN [NoPayload EXCEPT !.op = "upsert"]
                                                    ELSE NoPayload],
               cursor = [d \in Devices |-> 1]
        PROVE  Synced
    <3>1. b \in Events /\ 1 \in 0 .. MaxSeq
      BY <2>2, ClientTyped, MaxSeqTyped
    <3>2. b.updatedAt \in 0 .. MaxTime /\ b.eventId \in Nat
      BY <3>1, Constants
    <3>20. [NoRow EXCEPT !.at = b.updatedAt] \in Row
      BY <3>2, Constants DEF Row
    <3>3. [NoPayload EXCEPT !.op = "upsert"] \in Payload
      BY Constants DEF NoPayload, Payload
    <3>4. StoreTypeOK
      <4>1. counter \in [Accounts -> 0 .. MaxSeq]
        BY <2>2, <3>1
      <4>2. event \in [Accounts -> [Tasks -> Events \cup {NoEvent}]]
        BY <2>2, <3>1
      <4>3. seq \in [Accounts -> [Tasks -> 0 .. MaxSeq]]
        <5>1. \A t \in Tasks : (IF t = b.task THEN 1 ELSE 0) \in 0 .. MaxSeq
          BY <3>1, MaxSeqTyped
        <5> QED
          BY <2>2, <5>1
      <4>4. submitted \in [Accounts -> SUBSET Events]
        BY <2>2, <3>1
      <4> QED
        BY <4>1, <4>2, <4>3, <4>4 DEF StoreTypeOK
    <3>5. event[Account] \in [Tasks -> Events \cup {NoEvent}]
      BY <3>4, Constants DEF StoreTypeOK
    <3> QED
      BY <2>0, <2>2, <3>1, <3>2, <3>20, <3>3, <3>4, <3>5, Constants
  <2> QED
    BY <2>1, <2>2 DEF Init
<1>2. /\ edits \in [Devices -> SUBSET Edit]
      /\ queue \in [Devices -> SUBSET [ev : Events, sent : BOOLEAN]]
      /\ aged \subseteq 1 .. MaxEdits
      /\ push \in [Devices -> [Flushes -> {Idle} \cup Push]]
      /\ pull \in [Devices -> [Slots -> {Idle} \cup Pull]]
      /\ sync \in [Devices -> {"off", "starting", "on"}]
      /\ flag \in [Devices -> BOOLEAN]
      /\ resync \in [Devices -> {Idle} \cup Resync]
      /\ scope \in Scopes
      /\ editCount \in 0 .. scope.edits
      /\ failures \in 0 .. scope.failures /\ restarts \in 0 .. scope.restarts
      /\ onScreen \in [Devices -> SUBSET Tasks]
      /\ unqueued \in [Devices -> SUBSET Tasks]
      /\ mismerged \in [Devices -> SUBSET Tasks]
  BY Constants DEF Init
<1>3. ResyncPulling
  BY Constants DEF Init, ResyncPulling
<1> QED
  BY <1>1, <1>2, <1>3 DEF TypeInv, TypeOK

-----------------------------------------------------------------------------
(* What the helpers of the steps return.                                   *)

\* The answer to a query is typed.
LEMMA AnswerTyped ==
    ASSUME TypeOK, NEW c \in 0 .. MaxSeq, NEW p \in AnswerTo(c)
    PROVE  /\ p \in Pull
           /\ p.nextCursor \in c .. MaxSeq
           /\ p.left = {[ev |-> event[Account][t], seq |-> seq[Account][t]] :
                           t \in TasksAfter(Account, c)}
           /\ p.nextCursor = c \/ \E t \in Tasks : p.nextCursor = seq[Account][t]
<1>1. Account \in Accounts /\ StoreTypeOK
  BY Constants DEF TypeOK
<1>2. PICK n \in c .. MaxSeq :
         /\ QueryEventsAfter(Account, c) =
               {[events |-> {event[Account][t] : t \in TasksAfter(Account, c)}, nextCursor |-> n]}
         /\ n = c \/ \E t \in TasksAfter(Account, c) : n = seq[Account][t]
  BY <1>1, QueryAnswer
<1> DEFINE left == {[ev |-> event[Account][t], seq |-> seq[Account][t]] :
                       t \in TasksAfter(Account, c)}
<1>3. p = [phase |-> "apply", decided |-> FALSE, nextCursor |-> n,
           pulled |-> TasksAfter(Account, c), left |-> left]
  BY <1>2 DEF AnswerTo
<1>4. TasksAfter(Account, c) \subseteq Tasks
  BY DEF TasksAfter
<1>5. left \subseteq [ev : Events, seq : 1 .. MaxSeq]
  <2> SUFFICES ASSUME NEW t \in TasksAfter(Account, c)
               PROVE  event[Account][t] \in Events /\ seq[Account][t] \in 1 .. MaxSeq
    OBVIOUS
  <2> QED
    BY <1>1, Constants DEF TasksAfter, StoreTypeOK
<1>6. n \in 0 .. MaxSeq
  BY Constants
<1> HIDE DEF left
<1>7. p \in Pull
  BY <1>3, <1>4, <1>5, <1>6 DEF Pull
<1>8. p.left = left /\ p.nextCursor = n
  BY <1>3
<1> QED
  BY <1>2, <1>4, <1>7, <1>8 DEF left

\* A built event is new, and goes into the queue unsent.
LEMMA AddToQueueTyped ==
    ASSUME TypeOK, NEW d \in Devices, NEW t \in Tasks, NEW op \in {"upsert", "delete"},
           NEW snap \in Row, AddToQueue(d, t, op, snap)
    PROVE  /\ payload' \in [Events -> Payload]
           /\ queue' \in [Devices -> SUBSET [ev : Events, sent : BOOLEAN]]
           /\ rowEvent' \in [Devices -> [Tasks -> Events \cup {NoEvent}]]
           /\ unqueued' \in [Devices -> SUBSET Tasks]
<1> DEFINE said == [op |-> op, content |-> IF op = "delete" THEN 0 ELSE snap.content]
<1>1. PICK e \in Events :
         /\ payload' = [payload EXCEPT ![e] = said]
         /\ queue' = [queue EXCEPT ![d] = @ \cup {[ev |-> e, sent |-> FALSE]}]
         /\ unqueued' = unqueued \/ unqueued' = [unqueued EXCEPT ![d] = @ \ {t}]
         /\ rowEvent' = rowEvent \/ rowEvent' = [rowEvent EXCEPT ![d][t] = e]
  BY Zenon DEF AddToQueue, Built
<1>2. said \in Payload
  BY Constants DEF Payload, Row
<1> HIDE DEF said
<1>3. payload' \in [Events -> Payload]
  BY <1>1, <1>2 DEF TypeOK
<1>4. queue' \in [Devices -> SUBSET [ev : Events, sent : BOOLEAN]]
  <2>1. queue \in [Devices -> SUBSET [ev : Events, sent : BOOLEAN]]
    BY DEF TypeOK
  <2>2. queue' = [queue EXCEPT ![d] = @ \cup {[ev |-> e, sent |-> FALSE]}]
    BY <1>1
  <2>3. [ev |-> e, sent |-> FALSE] \in [ev : Events, sent : BOOLEAN]
    OBVIOUS
  <2> QED
    BY <2>1, <2>2, <2>3
<1>5. rowEvent' \in [Devices -> [Tasks -> Events \cup {NoEvent}]]
  <2>1. rowEvent \in [Devices -> [Tasks -> Events \cup {NoEvent}]]
    BY DEF TypeOK
  <2> QED
    BY <1>1, <2>1
<1>6. unqueued' \in [Devices -> SUBSET Tasks]
  <2>1. unqueued \in [Devices -> SUBSET Tasks]
    BY DEF TypeOK
  <2>2. unqueued' = unqueued \/ unqueued' = [unqueued EXCEPT ![d] = @ \ {t}]
    BY <1>1
  <2> QED
    BY <2>1, <2>2
<1> QED
  BY <1>3, <1>4, <1>5, <1>6

\* Merging touches the history of one task of one device.
LEMMA MergeTyped ==
    ASSUME TypeOK, NEW d \in Devices, NEW e \in Events, Merge(d, e)
    PROVE  /\ rowEvent' \in [Devices -> [Tasks -> Events \cup {NoEvent}]]
           /\ unqueued' \in [Devices -> SUBSET Tasks]
           /\ mismerged' \in [Devices -> SUBSET Tasks]
<1>1. e.task \in Tasks
  BY Constants
<1>2. rowEvent' \in [Devices -> [Tasks -> Events \cup {NoEvent}]]
  BY <1>1 DEF TypeOK, Merge
<1>3. unqueued' \in [Devices -> SUBSET Tasks]
  BY <1>1 DEF TypeOK, Merge
<1>4. mismerged' \in [Devices -> SUBSET Tasks]
  BY <1>1 DEF TypeOK, Merge
<1> QED
  BY <1>2, <1>3, <1>4

-----------------------------------------------------------------------------
(* Every step keeps the types.                                             *)

LEMMA EditTypes ==
    ASSUME TypeInv, NEW d \in Devices, NEW t \in Tasks, NEW op \in {"upsert", "delete"},
           EditRow(d, t, op)
    PROVE  TypeInv'
<1>0. /\ row \in [Devices -> [Tasks -> Row]] /\ edits \in [Devices -> SUBSET Edit]
      /\ rowEvent \in [Devices -> [Tasks -> Events \cup {NoEvent}]]
      /\ unqueued \in [Devices -> SUBSET Tasks]
      /\ scope \in Scopes /\ scope' = scope
      /\ editCount \in 0 .. scope.edits /\ editCount < scope.edits
  BY DEF TypeInv, TypeOK, EditRow
<1>1. editCount' \in 0 .. scope.edits /\ editCount + 1 \in 1 .. MaxEdits
  BY <1>0, Constants DEF EditRow
<1>2. row' \in [Devices -> [Tasks -> Row]]
  <2> DEFINE r(u) == [at |-> u,
                      content |-> IF op = "delete" THEN row[d][t].content ELSE editCount + 1,
                      deleted |-> op = "delete" \/ row[d][t].deleted]
  <2>1. PICK u \in 1 .. MaxTime : row' = [row EXCEPT ![d][t] = r(u)]
    BY DEF EditRow
  <2>2. r(u) \in Row
    BY <1>0, <1>1, Constants DEF Row
  <2> HIDE DEF r
  <2> QED
    BY <1>0, <2>1, <2>2
<1>3. edits' \in [Devices -> SUBSET Edit]
  <2> DEFINE x == [n |-> editCount + 1, task |-> t, op |-> op, snap |-> NoRow]
  <2>1. x \in Edit
    BY <1>1, Constants DEF Edit
  <2>2. edits' = [edits EXCEPT ![d] = @ \cup {x}]
    BY DEF EditRow
  <2> HIDE DEF x
  <2> QED
    BY <1>0, <2>1, <2>2
<1>4. rowEvent' \in [Devices -> [Tasks -> Events \cup {NoEvent}]]
  BY <1>0 DEF EditRow
<1>5. unqueued' \in [Devices -> SUBSET Tasks]
  BY <1>0 DEF EditRow
<1>6. TypeOK'
  BY <1>1, <1>2, <1>3, <1>4, <1>5
     DEF TypeInv, TypeOK, EditRow, storeVars, StoreTypeOK
<1>7. ResyncPulling'
  BY DEF TypeInv, EditRow, ResyncPulling, InResync
<1> QED
  BY <1>6, <1>7 DEF TypeInv

LEMMA RefreshTypes ==
    ASSUME TypeInv, NEW d \in Devices, Refresh(d)
    PROVE  TypeInv'
<1>1. onScreen' \in [Devices -> SUBSET Tasks]
  BY DEF TypeInv, TypeOK, Refresh
<1>2. TypeOK'
  BY <1>1 DEF TypeInv, TypeOK, Refresh, storeVars, history, StoreTypeOK
<1>3. ResyncPulling'
  BY DEF TypeInv, Refresh, ResyncPulling, InResync
<1> QED
  BY <1>2, <1>3 DEF TypeInv

LEMMA ReadTypes ==
    ASSUME TypeInv, NEW d \in Devices, NEW x \in edits[d], ReadSnapshot(d, x)
    PROVE  TypeInv'
<1>0. /\ row \in [Devices -> [Tasks -> Row]] /\ edits \in [Devices -> SUBSET Edit]
      /\ unqueued \in [Devices -> SUBSET Tasks]
  BY DEF TypeInv, TypeOK
<1>1. x \in Edit /\ x.task \in Tasks
  BY <1>0 DEF Edit
<1>2. [x EXCEPT !.snap = row[d][x.task]] \in Edit
  BY <1>0, <1>1 DEF Edit
<1>3. edits' \in [Devices -> SUBSET Edit]
  <2>1. \/ edits' = [edits EXCEPT ![d] = @ \ {x}]
        \/ edits' = [edits EXCEPT ![d] = (@ \ {x}) \cup {[x EXCEPT !.snap = row[d][x.task]]}]
    BY Zenon DEF ReadSnapshot
  <2> DEFINE y == [x EXCEPT !.snap = row[d][x.task]]
  <2> HIDE DEF y
  <2>2. CASE edits' = [edits EXCEPT ![d] = @ \ {x}]
    BY <1>0, <2>2
  <2>3. CASE edits' = [edits EXCEPT ![d] = (@ \ {x}) \cup {y}]
    <3>1. y \in Edit
      BY <1>2 DEF y
    <3> QED
      BY <1>0, <2>3, <3>1
  <2> QED
    BY <2>1, <2>2, <2>3 DEF y
<1>4. unqueued' \in [Devices -> SUBSET Tasks]
  <2>1. unqueued' = unqueued \/ unqueued' = [unqueued EXCEPT ![d] = @ \cup {x.task}]
    BY DEF ReadSnapshot
  <2> QED
    BY <1>0, <1>1, <2>1
<1>5. TypeOK'
  BY <1>3, <1>4 DEF TypeInv, TypeOK, ReadSnapshot, storeVars, StoreTypeOK
<1>6. ResyncPulling'
  BY DEF TypeInv, ReadSnapshot, ResyncPulling, InResync
<1> QED
  BY <1>5, <1>6 DEF TypeInv

LEMMA QueueTypes ==
    ASSUME TypeInv, NEW d \in Devices, NEW x \in edits[d], QueueEvent(d, x)
    PROVE  TypeInv'
<1>0. edits \in [Devices -> SUBSET Edit]
  BY DEF TypeInv, TypeOK
<1>1. x.task \in Tasks /\ x.op \in {"upsert", "delete"} /\ x.snap \in Row
  BY <1>0 DEF Edit
<1>2. AddToQueue(d, x.task, x.op, x.snap)
  BY DEF QueueEvent
<1>3. /\ payload' \in [Events -> Payload]
      /\ queue' \in [Devices -> SUBSET [ev : Events, sent : BOOLEAN]]
      /\ rowEvent' \in [Devices -> [Tasks -> Events \cup {NoEvent}]]
      /\ unqueued' \in [Devices -> SUBSET Tasks]
  BY <1>1, <1>2, AddToQueueTyped DEF TypeInv
<1>4. edits' \in [Devices -> SUBSET Edit]
  BY <1>0 DEF QueueEvent
<1>5. TypeOK'
  BY <1>3, <1>4 DEF TypeInv, TypeOK, QueueEvent, storeVars, StoreTypeOK
<1>6. ResyncPulling'
  BY DEF TypeInv, QueueEvent, ResyncPulling, InResync
<1> QED
  BY <1>5, <1>6 DEF TypeInv

LEMMA AgeTypes ==
    ASSUME TypeInv, NEW d \in Devices, NEW t \in Tasks, Age(d, t)
    PROVE  TypeInv'
<1>1. row[d][t].content \in 1 .. MaxEdits
  <2>1. row[d][t] \in Row
    BY DEF TypeInv, TypeOK
  <2> QED
    BY <2>1, Constants DEF Row, Age
<1>2. aged' \subseteq 1 .. MaxEdits
  BY <1>1 DEF TypeInv, TypeOK, Age
<1>3. TypeOK'
  BY <1>2 DEF TypeInv, TypeOK, Age, storeVars, history, StoreTypeOK
<1>4. ResyncPulling'
  BY DEF TypeInv, Age, ResyncPulling, InResync
<1> QED
  BY <1>3, <1>4 DEF TypeInv

\* A flush starts with what is pending.
LEMMA FlushingTyped ==
    ASSUME TypeOK, NEW d \in Devices
    PROVE  /\ Pending(d) \subseteq Events
           /\ Flushing(d) \in {Idle} \cup Push
<1>1. Pending(d) \subseteq Events
  BY DEF TypeOK, Pending
<1> DEFINE ups == {e \in Pending(d) : payload[e].op = "upsert"}
           p == [phase |-> "check", left |-> ups, batch |-> Pending(d) \ ups, skipped |-> {}]
<1>2. p \in Push
  BY <1>1 DEF Push
<1>3. Flushing(d) \in {Idle, p}
  BY DEF Flushing
<1> QED
  BY <1>1, <1>2, <1>3

\* One call moves on.
LEMMA PushMoves ==
    ASSUME TypeOK, NEW d \in Devices, NEW s \in Flushes, NEW p \in {Idle} \cup Push,
           push' = [push EXCEPT ![d][s] = p]
    PROVE  /\ push' \in [Devices -> [Flushes -> {Idle} \cup Push]]
           /\ push'[d][s] = p
           /\ \A c \in Devices, r \in Flushes : c # d \/ r # s => push'[c][r] = push[c][r]
BY DEF TypeOK

LEMMA FlushTypes ==
    ASSUME TypeInv, NEW d \in Devices, NEW s \in Flushes, Flush(d, s)
    PROVE  TypeInv'
<1>1. push' \in [Devices -> [Flushes -> {Idle} \cup Push]]
  BY FlushingTyped, PushMoves DEF TypeInv, Flush
<1>2. TypeOK'
  BY <1>1 DEF TypeInv, TypeOK, Flush, storeVars, history, StoreTypeOK
<1>3. ResyncPulling'
  BY DEF TypeInv, Flush, ResyncPulling, InResync
<1> QED
  BY <1>2, <1>3 DEF TypeInv

\* The row of an upsert is looked at: the event is skipped or goes into the batch.
LEMMA CheckRowStep ==
    ASSUME TypeOK, NEW d \in Devices, NEW s \in Flushes, CheckRow(d, s)
    PROVE  \E e \in Events, p \in Push :
              /\ push[d][s] \in Push /\ push[d][s].phase = "check" /\ e \in push[d][s].left
              /\ push' = [push EXCEPT ![d][s] = p]
              /\ p.phase = "check" /\ p.left = push[d][s].left \ {e}
              /\ \/ /\ Aged(d, e.task)
                    /\ p.batch = push[d][s].batch /\ p.skipped = push[d][s].skipped \cup {e}
                 \/ /\ ~Aged(d, e.task)
                    /\ p.batch = push[d][s].batch \cup {e} /\ p.skipped = push[d][s].skipped
<1>0. push[d][s] \in Push /\ push[d][s].phase = "check"
  BY DEF TypeOK, CheckRow, InPush
<1>1. PICK e \in push[d][s].left :
         push' = IF Aged(d, e.task)
                 THEN [push EXCEPT ![d][s].left = @ \ {e}, ![d][s].skipped = @ \cup {e}]
                 ELSE [push EXCEPT ![d][s].left = @ \ {e}, ![d][s].batch = @ \cup {e}]
  BY DEF CheckRow
<1>2. e \in Events
  BY <1>0 DEF Push
<1> DEFINE a == [push[d][s] EXCEPT !.left = @ \ {e}, !.skipped = @ \cup {e}]
           b == [push[d][s] EXCEPT !.left = @ \ {e}, !.batch = @ \cup {e}]
<1>3. /\ a \in Push /\ a.phase = "check" /\ a.left = push[d][s].left \ {e}
      /\ a.batch = push[d][s].batch /\ a.skipped = push[d][s].skipped \cup {e}
  BY <1>0, <1>2 DEF Push
<1>4. /\ b \in Push /\ b.phase = "check" /\ b.left = push[d][s].left \ {e}
      /\ b.batch = push[d][s].batch \cup {e} /\ b.skipped = push[d][s].skipped
  BY <1>0, <1>2 DEF Push
<1>5. CASE Aged(d, e.task)
  <2>1. push' = [push EXCEPT ![d][s] = a]
    BY <1>1, <1>5 DEF TypeOK
  <2> HIDE DEF a
  <2> QED
    BY <1>0, <1>1, <1>2, <1>3, <1>5, <2>1
<1>6. CASE ~Aged(d, e.task)
  <2>1. push' = [push EXCEPT ![d][s] = b]
    BY <1>1, <1>6 DEF TypeOK
  <2> HIDE DEF b
  <2> QED
    BY <1>0, <1>1, <1>2, <1>4, <1>6, <2>1
<1> QED
  BY <1>5, <1>6

LEMMA CheckTypes ==
    ASSUME TypeInv, NEW d \in Devices, NEW s \in Flushes, CheckRow(d, s)
    PROVE  TypeInv'
<1>1. push' \in [Devices -> [Flushes -> {Idle} \cup Push]]
  BY CheckRowStep, PushMoves DEF TypeInv
<1>2. TypeOK'
  BY <1>1 DEF TypeInv, TypeOK, CheckRow, storeVars, history, StoreTypeOK
<1>3. ResyncPulling'
  BY DEF TypeInv, CheckRow, ResyncPulling, InResync
<1> QED
  BY <1>2, <1>3 DEF TypeInv

\* Marking rows sent keeps the queue typed.
LEMMA MarkedTyped ==
    ASSUME TypeOK, NEW d \in Devices, NEW es,
           queue' = [queue EXCEPT ![d] = Marked(d, es)]
    PROVE  queue' \in [Devices -> SUBSET [ev : Events, sent : BOOLEAN]]
<1>0. queue \in [Devices -> SUBSET [ev : Events, sent : BOOLEAN]]
  BY DEF TypeOK
<1>1. Marked(d, es) \subseteq [ev : Events, sent : BOOLEAN]
  <2> SUFFICES ASSUME NEW q \in queue[d]
               PROVE  [ev |-> q.ev, sent |-> q.sent \/ q.ev \in es]
                          \in [ev : Events, sent : BOOLEAN]
    BY DEF Marked
  <2>1. q.ev \in Events
    BY <1>0
  <2>2. (q.sent \/ q.ev \in es) \in BOOLEAN
    OBVIOUS
  <2> QED
    BY <2>1, <2>2
<1> QED
  BY <1>0, <1>1

\* What is sent once the rows have been looked at.
LEMMA SendRestStep ==
    ASSUME TypeOK, NEW d \in Devices, NEW s \in Flushes, SendRest(d, s)
    PROVE  /\ push[d][s] \in Push /\ push[d][s].phase = "check"
           /\ \E p \in {Idle} \cup Push :
                 /\ push' = [push EXCEPT ![d][s] = p]
                 /\ p \in Push => /\ p.phase = "sent" /\ p.left = push[d][s].batch
                                  /\ p.batch = push[d][s].batch /\ p.skipped = {}
<1>0. push[d][s] \in Push /\ push[d][s].phase = "check"
  BY DEF TypeOK, SendRest, InPush
<1> DEFINE r == [phase |-> "sent", batch |-> push[d][s].batch,
                 left |-> push[d][s].batch, skipped |-> {}]
<1>1. r \in Push /\ Idle \notin Push
  BY <1>0, NotIdle DEF Push
<1>2. push' = [push EXCEPT ![d][s] = Idle] \/ push' = [push EXCEPT ![d][s] = r]
  BY DEF SendRest, TypeOK
<1> QED
  BY <1>0, <1>1, <1>2

LEMMA SendRestTypes ==
    ASSUME TypeInv, NEW d \in Devices, NEW s \in Flushes, SendRest(d, s)
    PROVE  TypeInv'
<1>1. push' \in [Devices -> [Flushes -> {Idle} \cup Push]]
  BY SendRestStep, PushMoves DEF TypeInv
<1>2. queue' \in [Devices -> SUBSET [ev : Events, sent : BOOLEAN]]
  BY MarkedTyped DEF TypeInv, SendRest
<1>3. unqueued' \in [Devices -> SUBSET Tasks]
  <2> DEFINE lost == {e.task : e \in {f \in push[d][s].skipped \cap Pending(d) : Untold(d, f)}}
  <2>1. lost \subseteq Tasks
    BY FlushingTyped, Constants DEF TypeInv
  <2>2. unqueued' = [unqueued EXCEPT ![d] = @ \cup lost]
    BY DEF SendRest
  <2> HIDE DEF lost
  <2> QED
    BY <2>1, <2>2 DEF TypeInv, TypeOK
<1>4. TypeOK'
  BY <1>1, <1>2, <1>3 DEF TypeInv, TypeOK, SendRest, storeVars, StoreTypeOK
<1>5. ResyncPulling'
  BY DEF TypeInv, SendRest, ResyncPulling, InResync
<1> QED
  BY <1>4, <1>5 DEF TypeInv

\* Serving one event takes it off what is left.
LEMMA ServePushStep ==
    ASSUME TypeOK, NEW d \in Devices, NEW s \in Flushes, ServePush(d, s)
    PROVE  \E e \in Events, p \in Push :
              /\ PutEvent(Account, e)
              /\ push[d][s] \in Push /\ push[d][s].phase = "sent" /\ e \in push[d][s].left
              /\ push' = [push EXCEPT ![d][s] = p]
              /\ p.phase = "sent" /\ p.left = push[d][s].left \ {e}
              /\ p.batch = push[d][s].batch /\ p.skipped = push[d][s].skipped
<1>1. push[d][s] \in Push /\ push[d][s].phase = "sent"
  BY DEF TypeOK, ServePush, InPush
<1>2. PICK e \in push[d][s].left : /\ PutEvent(Account, e)
                                   /\ push' = [push EXCEPT ![d][s].left = @ \ {e}]
  BY DEF ServePush
<1> DEFINE p == [push[d][s] EXCEPT !.left = @ \ {e}]
<1>3. /\ e \in Events /\ p \in Push /\ p.phase = "sent" /\ p.left = push[d][s].left \ {e}
      /\ p.batch = push[d][s].batch /\ p.skipped = push[d][s].skipped
  BY <1>1 DEF Push
<1>4. push' = [push EXCEPT ![d][s] = p]
  BY <1>2 DEF TypeOK
<1> HIDE DEF p
<1> QED
  BY <1>1, <1>2, <1>3, <1>4

LEMMA ServeTypes ==
    ASSUME TypeInv, NEW d \in Devices, NEW s \in Flushes, ServePush(d, s)
    PROVE  TypeInv'
<1>0. StoreTypeOK
  BY DEF TypeInv, TypeOK
<1>1. PICK e \in Events, p \in Push :
         PutEvent(Account, e) /\ push' = [push EXCEPT ![d][s] = p]
  BY ServePushStep DEF TypeInv
<1>2. push' \in [Devices -> [Flushes -> {Idle} \cup Push]]
  BY <1>1, PushMoves DEF TypeInv
<1>3. StoreTypeOK'
  BY <1>0, <1>1, Constants, PutEventTyped
<1>4. TypeOK'
  BY <1>2, <1>3 DEF TypeInv, TypeOK, ServePush, history
<1>5. ResyncPulling'
  BY DEF TypeInv, ServePush, ResyncPulling, InResync
<1> QED
  BY <1>4, <1>5 DEF TypeInv

LEMMA AnsweredTypes ==
    ASSUME TypeInv, NEW d \in Devices, NEW s \in Flushes, PushAnswered(d, s)
    PROVE  TypeInv'
<1>1. queue' \in [Devices -> SUBSET [ev : Events, sent : BOOLEAN]]
  BY MarkedTyped DEF TypeInv, PushAnswered
<1>2. push' \in [Devices -> [Flushes -> {Idle} \cup Push]]
  BY PushMoves DEF TypeInv, PushAnswered
<1>3. TypeOK'
  BY <1>1, <1>2 DEF TypeInv, TypeOK, PushAnswered, storeVars, history, StoreTypeOK
<1>4. ResyncPulling'
  BY DEF TypeInv, PushAnswered, ResyncPulling, InResync
<1> QED
  BY <1>3, <1>4 DEF TypeInv

LEMMA PushEndTypes ==
    ASSUME TypeInv, NEW d \in Devices, NEW s \in Flushes, PushRefused(d, s) \/ PushFails(d, s)
    PROVE  TypeInv'
<1>1. push' \in [Devices -> [Flushes -> {Idle} \cup Push]]
  BY PushMoves DEF TypeInv, PushRefused, PushFails
<1>2. failures' \in 0 .. scope.failures
  BY Constants DEF TypeInv, TypeOK, PushRefused, PushFails
<1>3. TypeOK'
  BY <1>1, <1>2 DEF TypeInv, TypeOK, PushRefused, PushFails, storeVars, history, StoreTypeOK
<1>4. ResyncPulling'
  BY DEF TypeInv, PushRefused, PushFails, ResyncPulling, InResync
<1> QED
  BY <1>3, <1>4 DEF TypeInv

LEMMA StartPullTypes ==
    ASSUME TypeInv, NEW d \in Devices, NEW s \in Slots, StartPull(d, s)
    PROVE  TypeInv'
<1>0. pull \in [Devices -> [Slots -> {Idle} \cup Pull]] /\ cursor[d] \in 0 .. MaxSeq
  BY DEF TypeInv, TypeOK
<1>1. PICK p \in AnswerTo(cursor[d]) : pull' = [pull EXCEPT ![d][s] = p]
  BY DEF StartPull
<1>2. p \in Pull
  BY <1>0, AnswerTyped DEF TypeInv
<1>3. pull' \in [Devices -> [Slots -> {Idle} \cup Pull]]
  BY <1>0, <1>1, <1>2
<1>4. TypeOK'
  BY <1>3 DEF TypeInv, TypeOK, StartPull, storeVars, history, StoreTypeOK
<1>5. s # "resync" /\ resync' = resync
  BY Constants DEF StartPull
<1>6. \A c \in Devices : pull'[c]["resync"] = pull[c]["resync"]
  BY <1>0, <1>1, <1>5, Constants
<1>7. ResyncPulling'
  BY <1>5, <1>6 DEF TypeInv, ResyncPulling, InResync
<1> QED
  BY <1>4, <1>7 DEF TypeInv

\* The row of an answer that is dealt with next is one of those left.
LEMMA NextRow ==
    ASSUME TypeOK, NEW d \in Devices, NEW s \in Slots, pull[d][s] # Idle,
           NEW x \in Incoming(d, s)
    PROVE  /\ pull[d][s] \in Pull
           /\ x \in pull[d][s].left
           /\ x.ev \in Events /\ x.ev.task \in Tasks
           /\ [pull[d][s] EXCEPT !.left = @ \ {x}] \in Pull
           /\ [pull[d][s] EXCEPT !.decided = FALSE, !.left = @ \ {x}] \in Pull
           /\ [pull[d][s] EXCEPT !.decided = TRUE] \in Pull
<1>1. pull[d][s] \in Pull
  BY DEF TypeOK
<1>2. x \in pull[d][s].left
  BY DEF Incoming
<1>3. x.ev \in Events /\ x.ev.task \in Tasks
  BY <1>1, <1>2, Constants DEF Pull
<1>4. /\ [pull[d][s] EXCEPT !.left = @ \ {x}] \in Pull
      /\ [pull[d][s] EXCEPT !.decided = FALSE, !.left = @ \ {x}] \in Pull
      /\ [pull[d][s] EXCEPT !.decided = TRUE] \in Pull
  BY <1>1 DEF Pull
<1> QED
  BY <1>1, <1>2, <1>3, <1>4

\* Comparing decides about the next row, or passes it over.
LEMMA CompareStep ==
    ASSUME TypeOK, NEW d \in Devices, NEW s \in Slots, Compare(d, s)
    PROVE  \E p \in Pull :
              /\ pull' = [pull EXCEPT ![d][s] = p]
              /\ pull[d][s] \in Pull
              /\ p.nextCursor = pull[d][s].nextCursor
              /\ \/ p.left = pull[d][s].left /\ mismerged' = mismerged
                 \/ \E x \in pull[d][s].left :
                       /\ p.left = pull[d][s].left \ {x}
                       /\ x.ev \in Events /\ x.ev.task \in Tasks
                       /\ ~ShouldReplace(d, x.ev)
                       /\ mismerged' = IF ~AtLeast(d, x.ev) /\ IdOutdated(d, x.ev.task)
                                       THEN [mismerged EXCEPT ![d] = @ \cup {x.ev.task}]
                                       ELSE mismerged
<1>1. PICK x \in Incoming(d, s) :
         IF ShouldReplace(d, x.ev)
         THEN /\ pull' = [pull EXCEPT ![d][s].decided = TRUE]
              /\ UNCHANGED mismerged
         ELSE /\ pull' = [pull EXCEPT ![d][s].left = @ \ {x}]
              /\ mismerged' = IF ~AtLeast(d, x.ev) /\ IdOutdated(d, x.ev.task)
                              THEN [mismerged EXCEPT ![d] = @ \cup {x.ev.task}] ELSE mismerged
  BY DEF Compare
<1>2. pull[d][s] # Idle
  BY DEF Compare
<1>3. /\ pull[d][s] \in Pull
      /\ x \in pull[d][s].left
      /\ x.ev \in Events /\ x.ev.task \in Tasks
      /\ [pull[d][s] EXCEPT !.left = @ \ {x}] \in Pull
      /\ [pull[d][s] EXCEPT !.decided = TRUE] \in Pull
  BY <1>2, NextRow
<1>4. CASE ShouldReplace(d, x.ev)
  <2> DEFINE p == [pull[d][s] EXCEPT !.decided = TRUE]
  <2>1. pull' = [pull EXCEPT ![d][s] = p] /\ mismerged' = mismerged
    BY <1>1, <1>4
  <2>2. p.left = pull[d][s].left /\ p.nextCursor = pull[d][s].nextCursor
    BY <1>3 DEF Pull
  <2> QED
    BY <1>3, <2>1, <2>2
<1>5. CASE ~ShouldReplace(d, x.ev)
  <2> DEFINE p == [pull[d][s] EXCEPT !.left = @ \ {x}]
  <2>1. /\ pull' = [pull EXCEPT ![d][s] = p]
        /\ mismerged' = IF ~AtLeast(d, x.ev) /\ IdOutdated(d, x.ev.task)
                        THEN [mismerged EXCEPT ![d] = @ \cup {x.ev.task}] ELSE mismerged
    BY <1>1, <1>5
  <2>2. p.left = pull[d][s].left \ {x} /\ p.nextCursor = pull[d][s].nextCursor
    BY <1>3 DEF Pull
  <2>3. p \in Pull
    BY <1>3
  <2> HIDE DEF p
  <2> QED
    BY <1>3, <1>5, <2>1, <2>2, <2>3
<1> QED
  BY <1>4, <1>5

\* The write gives one row what the event says.
LEMMA ReplaceStep ==
    ASSUME TypeOK, NEW d \in Devices, NEW s \in Slots, Replace(d, s)
    PROVE  \E x \in pull[d][s].left, p \in Pull, r \in Row :
              /\ x.ev \in Events /\ x.ev.task \in Tasks
              /\ pull[d][s] \in Pull
              /\ pull' = [pull EXCEPT ![d][s] = p]
              /\ p.nextCursor = pull[d][s].nextCursor
              /\ p.left = pull[d][s].left \ {x}
              /\ r.at = x.ev.updatedAt
              /\ r.deleted = (payload[x.ev].op = "delete")
              /\ ~r.deleted => r.content = payload[x.ev].content
              /\ row' = [row EXCEPT ![d][x.ev.task] = r]
              /\ lastId' = [lastId EXCEPT ![d][x.ev.task] = x.ev.eventId]
              /\ onScreen' \in [Devices -> SUBSET Tasks]
              /\ Merge(d, x.ev)
<1>1. PICK x \in Incoming(d, s) :
         LET e == x.ev
             del == payload[e].op = "delete" IN
         /\ row' = [row EXCEPT ![d][e.task] =
                       [at |-> e.updatedAt, deleted |-> del,
                        content |-> IF del THEN @.content ELSE payload[e].content]]
         /\ lastId' = [lastId EXCEPT ![d][e.task] = e.eventId]
         /\ onScreen' = [onScreen EXCEPT ![d] =
                IF ~del THEN @ \ {e.task}
                ELSE IF row[d][e.task] = NoRow \/ row[d][e.task].deleted THEN @
                ELSE @ \cup {e.task}]
         /\ Merge(d, e)
         /\ pull' = [pull EXCEPT ![d][s].decided = FALSE, ![d][s].left = @ \ {x}]
  BY DEF Replace
<1>2. pull[d][s] # Idle
  BY DEF Replace
<1>3. /\ pull[d][s] \in Pull
      /\ x \in pull[d][s].left
      /\ x.ev \in Events /\ x.ev.task \in Tasks
      /\ [pull[d][s] EXCEPT !.decided = FALSE, !.left = @ \ {x}] \in Pull
  BY <1>2, NextRow
<1> DEFINE p == [pull[d][s] EXCEPT !.decided = FALSE, !.left = @ \ {x}]
           del == payload[x.ev].op = "delete"
           r == [at |-> x.ev.updatedAt, deleted |-> del,
                 content |-> IF del THEN row[d][x.ev.task].content ELSE payload[x.ev].content]
<1>4. /\ row \in [Devices -> [Tasks -> Row]] /\ payload \in [Events -> Payload]
      /\ onScreen \in [Devices -> SUBSET Tasks]
      /\ pull \in [Devices -> [Slots -> {Idle} \cup Pull]]
  BY DEF TypeOK
<1>5. r \in Row
  <2>1. x.ev.updatedAt \in 0 .. MaxTime
    BY <1>3, Constants
  <2>2. row[d][x.ev.task].content \in 0 .. MaxEdits /\ payload[x.ev].content \in 0 .. MaxEdits
    BY <1>3, <1>4 DEF Row, Payload
  <2> QED
    BY <2>1, <2>2 DEF Row
<1>6. row' = [row EXCEPT ![d][x.ev.task] = r]
  BY <1>1
<1>7. onScreen' \in [Devices -> SUBSET Tasks]
  <2>1. \/ onScreen' = onScreen
        \/ onScreen' = [onScreen EXCEPT ![d] = @ \ {x.ev.task}]
        \/ onScreen' = [onScreen EXCEPT ![d] = @ \cup {x.ev.task}]
    BY <1>1, <1>4
  <2> QED
    BY <1>3, <1>4, <2>1
<1>8. p \in Pull /\ p.nextCursor = pull[d][s].nextCursor /\ p.left = pull[d][s].left \ {x}
  BY <1>3 DEF Pull
<1>9. pull' = [pull EXCEPT ![d][s] = p]
  BY <1>1, <1>4
<1>10. /\ r.at = x.ev.updatedAt /\ r.deleted = (payload[x.ev].op = "delete")
       /\ ~r.deleted => r.content = payload[x.ev].content
  OBVIOUS
<1>11. lastId' = [lastId EXCEPT ![d][x.ev.task] = x.ev.eventId] /\ Merge(d, x.ev)
  BY <1>1
<1> HIDE DEF p, r, del
<1> QED
  BY <1>3, <1>5, <1>6, <1>7, <1>8, <1>9, <1>10, <1>11

LEMMA CompareTypes ==
    ASSUME TypeInv, NEW d \in Devices, NEW s \in Slots, Compare(d, s)
    PROVE  TypeInv'
<1>0. /\ pull \in [Devices -> [Slots -> {Idle} \cup Pull]]
      /\ mismerged \in [Devices -> SUBSET Tasks]
  BY DEF TypeInv, TypeOK
<1>1. PICK p \in Pull :
         /\ pull' = [pull EXCEPT ![d][s] = p]
         /\ pull[d][s] \in Pull
         /\ \/ mismerged' = mismerged
            \/ \E x \in pull[d][s].left :
                  /\ x.ev.task \in Tasks
                  /\ mismerged' = IF ~AtLeast(d, x.ev) /\ IdOutdated(d, x.ev.task)
                                  THEN [mismerged EXCEPT ![d] = @ \cup {x.ev.task}]
                                  ELSE mismerged
  BY CompareStep DEF TypeInv
<1>2. pull' \in [Devices -> [Slots -> {Idle} \cup Pull]]
  BY <1>0, <1>1
<1>3. mismerged' \in [Devices -> SUBSET Tasks]
  <2>1. \/ mismerged' = mismerged
        \/ \E t \in Tasks : mismerged' = [mismerged EXCEPT ![d] = @ \cup {t}]
    BY <1>1
  <2> QED
    BY <1>0, <2>1
<1>4. TypeOK'
  BY <1>2, <1>3 DEF TypeInv, TypeOK, Compare, storeVars, StoreTypeOK
<1>5. \A c \in Devices : pull'[c]["resync"] # Idle => pull[c]["resync"] # Idle
  BY <1>0, <1>1, Constants, NotIdle
<1>6. ResyncPulling'
  BY <1>5 DEF TypeInv, Compare, ResyncPulling, InResync
<1> QED
  BY <1>4, <1>6 DEF TypeInv

LEMMA ReplaceTypes ==
    ASSUME TypeInv, NEW d \in Devices, NEW s \in Slots, Replace(d, s)
    PROVE  TypeInv'
<1>0. /\ pull \in [Devices -> [Slots -> {Idle} \cup Pull]]
      /\ row \in [Devices -> [Tasks -> Row]]
      /\ lastId \in [Devices -> [Tasks -> Nat]]
  BY DEF TypeInv, TypeOK
<1>1. PICK e \in Events, p \in Pull, r \in Row :
         /\ e.task \in Tasks
         /\ pull[d][s] \in Pull
         /\ pull' = [pull EXCEPT ![d][s] = p]
         /\ row' = [row EXCEPT ![d][e.task] = r]
         /\ lastId' = [lastId EXCEPT ![d][e.task] = e.eventId]
         /\ onScreen' \in [Devices -> SUBSET Tasks]
         /\ Merge(d, e)
  BY ReplaceStep DEF TypeInv
<1>2. pull' \in [Devices -> [Slots -> {Idle} \cup Pull]]
  BY <1>0, <1>1
<1>3. row' \in [Devices -> [Tasks -> Row]]
  BY <1>0, <1>1
<1>4. lastId' \in [Devices -> [Tasks -> Nat]]
  BY <1>0, <1>1, Constants
<1>5. /\ rowEvent' \in [Devices -> [Tasks -> Events \cup {NoEvent}]]
      /\ unqueued' \in [Devices -> SUBSET Tasks]
      /\ mismerged' \in [Devices -> SUBSET Tasks]
  BY <1>1, MergeTyped DEF TypeInv
<1>6. TypeOK'
  BY <1>1, <1>2, <1>3, <1>4, <1>5 DEF TypeInv, TypeOK, Replace, storeVars, StoreTypeOK
<1>7. \A c \in Devices : pull'[c]["resync"] # Idle => pull[c]["resync"] # Idle
  BY <1>0, <1>1, Constants, NotIdle
<1>8. ResyncPulling'
  BY <1>7 DEF TypeInv, Replace, ResyncPulling, InResync
<1> QED
  BY <1>6, <1>8 DEF TypeInv

\* A pull of a resync has the record of the resync.
LEMMA PullingRecord ==
    ASSUME TypeInv, NEW d \in Devices, pull[d]["resync"] # Idle
    PROVE  resync[d] \in Resync /\ resync[d].phase = "pulling"
BY DEF TypeInv, TypeOK, ResyncPulling, InResync

\* A pull that ends, and where it leaves the resync.
LEMMA PullOverTypes ==
    ASSUME TypeInv, NEW d \in Devices, NEW s \in Slots, pull[d][s] # Idle,
           pull' = [pull EXCEPT ![d][s] = Idle],
           \/ s # "resync" /\ resync' = resync
           \/ s = "resync" /\ \E r \in Resync : resync' = [resync EXCEPT ![d] = r]
    PROVE  /\ pull' \in [Devices -> [Slots -> {Idle} \cup Pull]]
           /\ resync' \in [Devices -> {Idle} \cup Resync]
           /\ ResyncPulling'
<1>0. /\ pull \in [Devices -> [Slots -> {Idle} \cup Pull]]
      /\ resync \in [Devices -> {Idle} \cup Resync]
      /\ ResyncPulling
  BY DEF TypeInv, TypeOK
<1>1. pull' \in [Devices -> [Slots -> {Idle} \cup Pull]]
  BY <1>0
<1>2. resync' \in [Devices -> {Idle} \cup Resync]
  BY <1>0
<1>3. ASSUME NEW c \in Devices, pull'[c]["resync"] # Idle
      PROVE  InResync(c, "pulling")'
  <2>1. pull[c]["resync"] # Idle /\ ~(c = d /\ s = "resync")
    BY <1>0, <1>3, Constants
  <2>2. resync'[c] = resync[c]
    BY <1>0, <2>1
  <2> QED
    BY <1>0, <2>1, <2>2 DEF ResyncPulling, InResync
<1> QED
  BY <1>1, <1>2, <1>3 DEF ResyncPulling

LEMMA PullEndsTypes ==
    ASSUME TypeInv, NEW d \in Devices, NEW s \in Slots, PullEnds(d, s)
    PROVE  TypeInv'
<1>0. /\ pull \in [Devices -> [Slots -> {Idle} \cup Pull]]
      /\ cursor \in [Devices -> 0 .. MaxSeq]
      /\ pull[d][s] \in Pull
  BY DEF TypeInv, TypeOK, PullEnds
<1>1. cursor' \in [Devices -> 0 .. MaxSeq]
  BY <1>0 DEF PullEnds, Pull
<1>2. \/ s # "resync" /\ resync' = resync
      \/ s = "resync" /\ \E r \in Resync : resync' = [resync EXCEPT ![d] = r]
  <2>1. CASE s # "resync"
    BY <2>1 DEF PullEnds
  <2>2. CASE s = "resync"
    <3>1. resync[d] \in Resync
      BY <2>2, PullingRecord DEF PullEnds
    <3> DEFINE r == [resync[d] EXCEPT !.phase = "snapshots", !.pulled = pull[d][s].pulled]
    <3>2. r \in Resync
      BY <1>0, <3>1 DEF Resync, Pull
    <3>3. resync' = [resync EXCEPT ![d] = r]
      BY <2>2 DEF PullEnds, TypeInv, TypeOK
    <3> HIDE DEF r
    <3> QED
      BY <2>2, <3>2, <3>3
  <2> QED
    BY <2>1, <2>2
<1>3. /\ pull' \in [Devices -> [Slots -> {Idle} \cup Pull]]
      /\ resync' \in [Devices -> {Idle} \cup Resync]
      /\ ResyncPulling'
  BY <1>2, PullOverTypes DEF PullEnds
<1>4. TypeOK'
  BY <1>1, <1>3 DEF TypeInv, TypeOK, PullEnds, storeVars, history, StoreTypeOK
<1> QED
  BY <1>3, <1>4 DEF TypeInv

LEMMA PullFailsTypes ==
    ASSUME TypeInv, NEW d \in Devices, NEW s \in Slots, PullFails(d, s)
    PROVE  TypeInv'
<1>1. failures' \in 0 .. scope.failures
  BY Constants DEF TypeInv, TypeOK, PullFails
<1>2. \/ s # "resync" /\ resync' = resync
      \/ s = "resync" /\ \E r \in Resync : resync' = [resync EXCEPT ![d] = r]
  <2>1. CASE s # "resync"
    BY <2>1 DEF PullFails
  <2>2. CASE s = "resync"
    <3>1. resync[d] \in Resync
      BY <2>2, PullingRecord DEF PullFails
    <3> DEFINE r == [resync[d] EXCEPT !.phase = "snapshots"]
    <3>2. r \in Resync
      BY <3>1 DEF Resync
    <3>3. resync' = [resync EXCEPT ![d] = r]
      BY <2>2 DEF PullFails
    <3> HIDE DEF r
    <3> QED
      BY <2>2, <3>2, <3>3
  <2> QED
    BY <2>1, <2>2
<1>3. /\ pull' \in [Devices -> [Slots -> {Idle} \cup Pull]]
      /\ resync' \in [Devices -> {Idle} \cup Resync]
      /\ ResyncPulling'
  BY <1>2, PullOverTypes DEF PullFails
<1>4. TypeOK'
  BY <1>1, <1>3 DEF TypeInv, TypeOK, PullFails, storeVars, history, StoreTypeOK
<1> QED
  BY <1>3, <1>4 DEF TypeInv

\* The other steps of a resync find no pull of it under way.
LEMMA ResyncMoves ==
    ASSUME TypeInv, NEW d \in Devices, NEW r \in {Idle} \cup Resync,
           resync[d] = Idle \/ resync[d].phase # "pulling",
           resync' = [resync EXCEPT ![d] = r], pull' = pull
    PROVE  resync' \in [Devices -> {Idle} \cup Resync] /\ ResyncPulling'
<1>0. resync \in [Devices -> {Idle} \cup Resync] /\ ResyncPulling
  BY DEF TypeInv, TypeOK
<1>1. pull[d]["resync"] = Idle
  BY <1>0 DEF ResyncPulling, InResync
<1>2. \A c \in Devices : c # d => resync'[c] = resync[c]
  BY <1>0
<1>3. ResyncPulling'
  BY <1>0, <1>1, <1>2 DEF ResyncPulling, InResync
<1> QED
  BY <1>0, <1>3

LEMMA ResyncPullTypes ==
    ASSUME TypeInv, NEW d \in Devices, ResyncPull(d)
    PROVE  TypeInv'
<1>0. /\ pull \in [Devices -> [Slots -> {Idle} \cup Pull]]
      /\ cursor \in [Devices -> 0 .. MaxSeq]
      /\ resync \in [Devices -> {Idle} \cup Resync]
      /\ resync[d] \in Resync
      /\ ResyncPulling
  BY DEF TypeInv, TypeOK, ResyncPull, InResync
<1>1. PICK p \in AnswerTo(0) : pull' = [pull EXCEPT ![d]["resync"] = p]
  BY DEF ResyncPull
<1>2. p \in Pull /\ 0 \in 0 .. MaxSeq
  BY <1>1, AnswerTyped, Constants DEF TypeInv
<1>3. pull' \in [Devices -> [Slots -> {Idle} \cup Pull]]
  BY <1>0, <1>1, <1>2, Constants
<1>4. cursor' \in [Devices -> 0 .. MaxSeq]
  BY <1>0, <1>2 DEF ResyncPull
<1> DEFINE r == [resync[d] EXCEPT !.phase = "pulling"]
<1>5. r \in Resync /\ r.phase = "pulling" /\ r # Idle
  BY <1>0, NotIdle DEF Resync
<1>6. resync' = [resync EXCEPT ![d] = r]
  BY DEF ResyncPull
<1> HIDE DEF r
<1>7. resync' \in [Devices -> {Idle} \cup Resync]
  BY <1>0, <1>5, <1>6
<1>8. ASSUME NEW c \in Devices, pull'[c]["resync"] # Idle
      PROVE  InResync(c, "pulling")'
  <2>1. CASE c = d
    BY <1>0, <1>5, <1>6, <2>1 DEF InResync
  <2>2. CASE c # d
    <3>1. pull'[c] = pull[c] /\ resync'[c] = resync[c]
      BY <1>0, <1>1, <1>6, <2>2
    <3> QED
      BY <1>0, <1>8, <3>1 DEF ResyncPulling, InResync
  <2> QED
    BY <2>1, <2>2
<1>9. TypeOK'
  BY <1>3, <1>4, <1>7 DEF TypeInv, TypeOK, ResyncPull, storeVars, history, StoreTypeOK
<1> QED
  BY <1>8, <1>9 DEF TypeInv, ResyncPulling

LEMMA SnapshotsTypes ==
    ASSUME TypeInv, NEW d \in Devices, TakeSnapshots(d)
    PROVE  TypeInv'
<1>0. /\ resync[d] \in Resync /\ resync[d].phase = "snapshots"
      /\ row \in [Devices -> [Tasks -> Row]]
      /\ resync \in [Devices -> {Idle} \cup Resync]
  BY DEF TypeInv, TypeOK, TakeSnapshots, InResync
<1> DEFINE taken == {[task |-> t, snap |-> row[d][t]] :
              t \in {u \in Tasks \ resync[d].pulled : /\ row[d][u] # NoRow
                                                   /\ ~row[d][u].deleted
                                                   /\ ~Aged(d, u)}}
           r == [resync[d] EXCEPT !.phase = "rebuild", !.snaps = taken]
<1>1. taken \subseteq [task : Tasks, snap : Row]
  BY <1>0
<1>2. resync' = [resync EXCEPT ![d] = r]
  BY <1>0 DEF TakeSnapshots
<1> HIDE DEF taken
<1>3. r \in Resync
  BY <1>0, <1>1 DEF Resync
<1> HIDE DEF r
<1>4. resync' \in [Devices -> {Idle} \cup Resync] /\ ResyncPulling'
  BY <1>0, <1>2, <1>3, ResyncMoves DEF TakeSnapshots
<1>5. TypeOK'
  BY <1>4 DEF TypeInv, TypeOK, TakeSnapshots, storeVars, history, StoreTypeOK
<1> QED
  BY <1>4, <1>5 DEF TypeInv

LEMMA EnqueueTypes ==
    ASSUME TypeInv, NEW d \in Devices, NEW t \in Tasks, NEW snap \in Row,
           EnqueueSnapshot(d, [task |-> t, snap |-> snap])
    PROVE  TypeInv'
<1> DEFINE x == [task |-> t, snap |-> snap]
<1>0. resync[d] \in Resync /\ resync[d].phase = "rebuild"
  BY DEF TypeInv, TypeOK, EnqueueSnapshot, InResync
<1>1. /\ payload' \in [Events -> Payload]
      /\ queue' \in [Devices -> SUBSET [ev : Events, sent : BOOLEAN]]
      /\ rowEvent' \in [Devices -> [Tasks -> Events \cup {NoEvent}]]
      /\ unqueued' \in [Devices -> SUBSET Tasks]
  <2>1. CASE AddToQueue(d, t, "upsert", snap)
    BY <2>1, AddToQueueTyped DEF TypeInv
  <2>2. CASE UNCHANGED <<payload, queue, rowEvent, unqueued>>
    BY <2>2 DEF TypeInv, TypeOK
  <2> QED
    BY <2>1, <2>2 DEF EnqueueSnapshot
<1>2. resync' \in [Devices -> {Idle} \cup Resync] /\ ResyncPulling'
  <2>1. [resync[d] EXCEPT !.snaps = @ \ {x}] \in Resync
    BY <1>0 DEF Resync
  <2>2. resync' = [resync EXCEPT ![d] = [resync[d] EXCEPT !.snaps = @ \ {x}]] /\ pull' = pull
    BY DEF EnqueueSnapshot
  <2> QED
    BY <1>0, <2>1, <2>2, ResyncMoves
<1>3. TypeOK'
  BY <1>1, <1>2 DEF TypeInv, TypeOK, EnqueueSnapshot, storeVars, StoreTypeOK
<1> QED
  BY <1>2, <1>3 DEF TypeInv

LEMMA ResyncFlushTypes ==
    ASSUME TypeInv, NEW d \in Devices, ResyncFlush(d)
    PROVE  TypeInv'
<1>0. resync[d] \in Resync /\ resync[d].phase = "rebuild"
  BY DEF TypeInv, TypeOK, ResyncFlush, InResync
<1>1. push' \in [Devices -> [Flushes -> {Idle} \cup Push]]
  BY FlushingTyped, PushMoves, Constants DEF TypeInv, ResyncFlush
<1>2. resync' \in [Devices -> {Idle} \cup Resync] /\ ResyncPulling'
  <2>1. [resync[d] EXCEPT !.phase = "pushing"] \in Resync
    BY <1>0 DEF Resync
  <2>2. resync' = [resync EXCEPT ![d] = [resync[d] EXCEPT !.phase = "pushing"]] /\ pull' = pull
    BY DEF ResyncFlush
  <2> QED
    BY <1>0, <2>1, <2>2, ResyncMoves
<1>3. TypeOK'
  BY <1>1, <1>2 DEF TypeInv, TypeOK, ResyncFlush, storeVars, history, StoreTypeOK
<1> QED
  BY <1>2, <1>3 DEF TypeInv

LEMMA ResyncEndsTypes ==
    ASSUME TypeInv, NEW d \in Devices, ResyncEnds(d)
    PROVE  TypeInv'
<1>1. flag' \in [Devices -> BOOLEAN]
  BY DEF TypeInv, TypeOK, ResyncEnds
<1>2. resync' \in [Devices -> {Idle} \cup Resync] /\ ResyncPulling'
  BY ResyncMoves DEF ResyncEnds, InResync
<1>3. TypeOK'
  BY <1>1, <1>2 DEF TypeInv, TypeOK, ResyncEnds, storeVars, history, StoreTypeOK
<1> QED
  BY <1>2, <1>3 DEF TypeInv

\* Sync is switched on or off.
LEMMA ToggleTypes ==
    ASSUME TypeInv, NEW d \in Devices, Enable(d) \/ Disable(d)
    PROVE  TypeInv'
<1>1. sync' \in [Devices -> {"off", "starting", "on"}] /\ flag' \in [Devices -> BOOLEAN]
  BY DEF TypeInv, TypeOK, Enable, Disable
<1>2. restarts' \in 0 .. scope.restarts
  BY Constants DEF TypeInv, TypeOK, Enable, Disable
<1>3. TypeOK'
  BY <1>1, <1>2 DEF TypeInv, TypeOK, Enable, Disable, storeVars, history, StoreTypeOK
<1>4. ResyncPulling'
  BY DEF TypeInv, Enable, Disable, ResyncPulling, InResync
<1> QED
  BY <1>3, <1>4 DEF TypeInv

LEMMA StartEngineTypes ==
    ASSUME TypeInv, NEW d \in Devices, StartEngine(d)
    PROVE  TypeInv'
<1>1. sync' \in [Devices -> {"off", "starting", "on"}]
  BY DEF TypeInv, TypeOK, StartEngine
<1>2. resync' \in [Devices -> {Idle} \cup Resync] /\ ResyncPulling'
  <2>1. CASE flag[d]
    <3> DEFINE r == [phase |-> "clear", pulled |-> {}, snaps |-> {}]
    <3>1. r \in Resync
      BY DEF Resync
    <3>2. resync[d] = Idle /\ resync' = [resync EXCEPT ![d] = r] /\ pull' = pull
      BY <2>1 DEF StartEngine
    <3> HIDE DEF r
    <3> QED
      BY <3>1, <3>2, ResyncMoves
  <2>2. CASE ~flag[d]
    BY <2>2 DEF StartEngine, TypeInv, TypeOK, ResyncPulling, InResync
  <2> QED
    BY <2>1, <2>2
<1>3. queue' \in [Devices -> SUBSET [ev : Events, sent : BOOLEAN]]
  BY DEF TypeInv, TypeOK, StartEngine
<1>4. unqueued' \in [Devices -> SUBSET Tasks]
  <2> DEFINE dropped == {e.task : e \in Pending(d)}
  <2>1. dropped \subseteq Tasks
    BY FlushingTyped, Constants DEF TypeInv
  <2>2. unqueued' = unqueued \/ unqueued' = [unqueued EXCEPT ![d] = @ \cup dropped]
    BY DEF StartEngine
  <2>3. unqueued \in [Devices -> SUBSET Tasks]
    BY DEF TypeInv, TypeOK
  <2> HIDE DEF dropped
  <2> QED
    BY <2>1, <2>2, <2>3
<1>5. TypeOK'
  BY <1>1, <1>2, <1>3, <1>4 DEF TypeInv, TypeOK, StartEngine, storeVars, StoreTypeOK
<1> QED
  BY <1>2, <1>5 DEF TypeInv

LEMMA RestartTypes ==
    ASSUME TypeInv, NEW d \in Devices, Restart(d)
    PROVE  TypeInv'
<1>0. /\ edits \in [Devices -> SUBSET Edit] /\ unqueued \in [Devices -> SUBSET Tasks]
      /\ lastId \in [Devices -> [Tasks -> Nat]]
      /\ push \in [Devices -> [Flushes -> {Idle} \cup Push]]
      /\ pull \in [Devices -> [Slots -> {Idle} \cup Pull]]
      /\ resync \in [Devices -> {Idle} \cup Resync]
      /\ onScreen \in [Devices -> SUBSET Tasks]
      /\ sync \in [Devices -> {"off", "starting", "on"}]
      /\ scope \in Scopes /\ restarts \in 0 .. scope.restarts
      /\ ResyncPulling
  BY DEF TypeInv, TypeOK
<1>1. lastId' \in [Devices -> [Tasks -> Nat]]
  BY <1>0 DEF Restart
<1>2. edits' \in [Devices -> SUBSET Edit]
  BY <1>0 DEF Restart
<1>3. unqueued' \in [Devices -> SUBSET Tasks]
  <2> DEFINE lost == {x.task : x \in edits[d]}
  <2>1. lost \subseteq Tasks
    BY <1>0 DEF Edit
  <2>2. unqueued' = [unqueued EXCEPT ![d] = @ \cup lost]
    BY DEF Restart
  <2> HIDE DEF lost
  <2> QED
    BY <1>0, <2>1, <2>2
<1>4. push' \in [Devices -> [Flushes -> {Idle} \cup Push]]
  BY <1>0 DEF Restart
<1>5. pull' \in [Devices -> [Slots -> {Idle} \cup Pull]]
  BY <1>0 DEF Restart
<1>6. resync' \in [Devices -> {Idle} \cup Resync]
  BY <1>0 DEF Restart
<1>7. onScreen' \in [Devices -> SUBSET Tasks]
  BY <1>0 DEF Restart
<1>8. sync' \in [Devices -> {"off", "starting", "on"}]
  BY <1>0 DEF Restart
<1>9. restarts' \in 0 .. scope.restarts
  BY <1>0, Constants DEF Restart
<1>10. TypeOK'
  BY <1>1, <1>2, <1>3, <1>4, <1>5, <1>6, <1>7, <1>8, <1>9
     DEF TypeInv, TypeOK, Restart, storeVars, StoreTypeOK
<1>11. ASSUME NEW c \in Devices, pull'[c]["resync"] # Idle
       PROVE  InResync(c, "pulling")'
  <2>1. c # d
    BY <1>0, <1>11, Constants DEF Restart
  <2>2. pull'[c] = pull[c] /\ resync'[c] = resync[c]
    BY <1>0, <2>1 DEF Restart
  <2> QED
    BY <1>0, <1>11, <2>2 DEF ResyncPulling, InResync
<1> QED
  BY <1>10, <1>11 DEF TypeInv, ResyncPulling

LEMMA OtherTypes ==
    ASSUME TypeInv, NEW e \in Events, NEW op \in {"upsert", "delete"}, OtherDevice(e, op)
    PROVE  TypeInv'
<1>0. /\ StoreTypeOK /\ payload \in [Events -> Payload]
      /\ scope \in Scopes /\ editCount \in 0 .. scope.edits
  BY DEF TypeInv, TypeOK
<1>1. StoreTypeOK'
  BY <1>0, Constants, PutEventTyped DEF OtherDevice
<1>2. editCount' \in 0 .. scope.edits /\ editCount + 1 \in 0 .. MaxEdits
  BY <1>0, Constants DEF OtherDevice
<1>3. payload' \in [Events -> Payload]
  <2> DEFINE said == [op |-> op, content |-> IF op = "delete" THEN 0 ELSE editCount + 1]
  <2>1. said \in Payload
    BY <1>2, Constants DEF Payload
  <2>2. payload' = [payload EXCEPT ![e] = said]
    BY DEF OtherDevice
  <2> HIDE DEF said
  <2> QED
    BY <1>0, <2>1, <2>2
<1>4. TypeOK'
  BY <1>1, <1>2, <1>3 DEF TypeInv, TypeOK, OtherDevice, history
<1>5. ResyncPulling'
  BY DEF TypeInv, OtherDevice, ResyncPulling, InResync
<1> QED
  BY <1>4, <1>5 DEF TypeInv

LEMMA StutterTypes == ASSUME TypeInv, UNCHANGED vars PROVE TypeInv'
<1>1. TypeOK'
  BY DEF TypeInv, TypeOK, vars, localVars, storeVars, StoreTypeOK
<1>2. ResyncPulling'
  BY DEF TypeInv, vars, localVars, ResyncPulling, InResync
<1> QED
  BY <1>1, <1>2 DEF TypeInv

LEMMA StepTypes == TypeInv /\ [Next]_vars => TypeInv'
<1> SUFFICES ASSUME TypeInv, [Next]_vars PROVE TypeInv'
  OBVIOUS
<1>1. ASSUME NEW e \in Events, NEW op \in {"upsert", "delete"}, OtherDevice(e, op)
      PROVE  TypeInv'
  BY <1>1, OtherTypes
<1>2. ASSUME NEW d \in Devices,
             \/ \E t \in Tasks, op \in {"upsert", "delete"} : EditRow(d, t, op)
             \/ \E x \in edits[d] : ReadSnapshot(d, x) \/ QueueEvent(d, x)
             \/ Refresh(d)
      PROVE  TypeInv'
  BY <1>2, EditTypes, ReadTypes, QueueTypes, RefreshTypes
<1>3. ASSUME NEW d \in Devices,
             \/ \E t \in Tasks : Age(d, t)
             \/ \E s \in Flushes :
                   \/ Flush(d, s) \/ CheckRow(d, s) \/ SendRest(d, s) \/ ServePush(d, s)
                   \/ PushAnswered(d, s) \/ PushRefused(d, s) \/ PushFails(d, s)
      PROVE  TypeInv'
  BY <1>3, AgeTypes, FlushTypes, CheckTypes, SendRestTypes, ServeTypes, AnsweredTypes,
     PushEndTypes
<1>4. ASSUME NEW d \in Devices, NEW s \in Slots,
             \/ StartPull(d, s) \/ Compare(d, s) \/ Replace(d, s)
             \/ PullEnds(d, s) \/ PullFails(d, s)
      PROVE  TypeInv'
  BY <1>4, StartPullTypes, CompareTypes, ReplaceTypes, PullEndsTypes, PullFailsTypes
<1>5. ASSUME NEW d \in Devices,
             ResyncPull(d) \/ TakeSnapshots(d) \/ ResyncFlush(d) \/ ResyncEnds(d)
      PROVE  TypeInv'
  BY <1>5, ResyncPullTypes, SnapshotsTypes, ResyncFlushTypes, ResyncEndsTypes
<1>6. ASSUME NEW d \in Devices, NEW t \in Tasks, NEW r \in Row,
             EnqueueSnapshot(d, [task |-> t, snap |-> r])
      PROVE  TypeInv'
  BY <1>6, EnqueueTypes
<1>7. ASSUME NEW d \in Devices, Enable(d) \/ Disable(d) \/ StartEngine(d) \/ Restart(d)
      PROVE  TypeInv'
  BY <1>7, ToggleTypes, StartEngineTypes, RestartTypes
<1>8. CASE UNCHANGED vars
  BY <1>8, StutterTypes
<1> QED
  BY <1>1, <1>2, <1>3, <1>4, <1>5, <1>6, <1>7, <1>8 DEF Next

\* Rows, queues and the calls under way keep their types, and a resync whose pull
\* is under way is there when the pull ends (SyncEngine.ts:323-354).
THEOREM TypesInvariant == Spec => []TypeInv
BY InitTypes, StepTypes, PTL DEF Spec

\* What the devices and the server store stays typed.
THEOREM TypeCorrect == Spec => []TypeOK
BY TypesInvariant, PTL DEF TypeInv

-----------------------------------------------------------------------------
(* The queue.  A row is marked sent when the push that took it is answered, *)
(* so the invariant says of a push under way what the server has dealt with. *)

\* What the server has of a task.
Now(t) == event[Account][t]

PushCovered ==
    \A d \in Devices, s \in Flushes : InPush(d, s, "sent") =>
        \A e \in push[d][s].batch \ push[d][s].left : Covers(Now(e.task), e)

\* What the server has only moves up.
LEMMA NowGrows ==
    ASSUME TypeInv, NEW e \in Events, PutEvent(Account, e)
    PROVE  /\ \A t \in Tasks, f \in Events : Covers(Now(t), f) => Covers(Now(t)', f)
           /\ Covers(Now(e.task)', e)
<1>1. StoreTypeOK /\ Account \in Accounts
  BY Constants DEF TypeInv, TypeOK
<1> QED
  BY <1>1, PutEventGrows DEF Now

\* A flush that has been read, has been sent or is over.
Fresh(p) ==
    \/ p = Idle
    \/ p \in Push /\ p.skipped = {} /\ (p.phase = "sent" => p.left = p.batch)

FreshPush(d, s, p) == Fresh(p) /\ push' = [push EXCEPT ![d][s] = p]

LEMMA FreshSteps ==
    ASSUME TypeOK, NEW d \in Devices
    PROVE  /\ \A s \in Flushes :
                 (\/ Flush(d, s) \/ SendRest(d, s) \/ PushAnswered(d, s)
                  \/ PushRefused(d, s) \/ PushFails(d, s))
                 => \E p \in {Idle} \cup Push : FreshPush(d, s, p)
           /\ ResyncFlush(d) => \E p \in {Idle} \cup Push : FreshPush(d, "resync", p)
<1>1. Flushing(d) \in {Idle} \cup Push /\ Fresh(Flushing(d))
  <2>1. \/ Flushing(d) = Idle
        \/ Flushing(d).phase = "check" /\ Flushing(d).skipped = {}
    BY DEF Flushing
  <2> QED
    BY <2>1, FlushingTyped DEF Fresh
<1>2. ASSUME NEW s \in Flushes, Flush(d, s)
      PROVE  \E p \in {Idle} \cup Push : FreshPush(d, s, p)
  BY <1>1, <1>2 DEF Flush, FreshPush
<1>3. ASSUME NEW s \in Flushes, SendRest(d, s)
      PROVE  \E p \in {Idle} \cup Push : FreshPush(d, s, p)
  BY <1>3, SendRestStep DEF FreshPush, Fresh
<1>4. ASSUME NEW s \in Flushes, PushAnswered(d, s) \/ PushRefused(d, s) \/ PushFails(d, s)
      PROVE  \E p \in {Idle} \cup Push : FreshPush(d, s, p)
  BY <1>4 DEF PushAnswered, PushRefused, PushFails, FreshPush, Fresh
<1>5. ResyncFlush(d) => \E p \in {Idle} \cup Push : FreshPush(d, "resync", p)
  BY <1>1 DEF ResyncFlush, FreshPush
<1> QED
  BY <1>2, <1>3, <1>4, <1>5

\* Which steps touch a push or the store.
LEMMA PushSteps ==
    ASSUME TypeInv, [Next]_vars
    PROVE  \/ UNCHANGED <<push, event>>
           \/ /\ event' = event
              /\ \E d \in Devices, s \in Flushes, p \in {Idle} \cup Push : FreshPush(d, s, p)
           \/ event' = event /\ \E d \in Devices, s \in Flushes : CheckRow(d, s)
           \/ \E d \in Devices, s \in Flushes : ServePush(d, s)
           \/ /\ event' = event
              /\ \E d \in Devices : push' = [push EXCEPT ![d] = [s \in Flushes |-> Idle]]
           \/ push' = push /\ \E e \in Events : PutEvent(Account, e)
<1>1. ASSUME NEW d \in Devices,
             \/ \E t \in Tasks, op \in {"upsert", "delete"} : EditRow(d, t, op)
             \/ \E x \in edits[d] : ReadSnapshot(d, x) \/ QueueEvent(d, x)
             \/ Refresh(d)
             \/ \E t \in Tasks : Age(d, t)
      PROVE  UNCHANGED <<push, event>>
  BY <1>1 DEF EditRow, ReadSnapshot, QueueEvent, Refresh, Age, storeVars
<1>2. ASSUME NEW d \in Devices, NEW s \in Flushes,
             \/ Flush(d, s) \/ SendRest(d, s) \/ PushAnswered(d, s)
             \/ PushRefused(d, s) \/ PushFails(d, s)
      PROVE  event' = event /\ \E p \in {Idle} \cup Push : FreshPush(d, s, p)
  <2>1. event' = event
    BY <1>2 DEF Flush, SendRest, PushAnswered, PushRefused, PushFails, storeVars
  <2> QED
    BY <1>2, <2>1, FreshSteps DEF TypeInv
<1>3. ASSUME NEW d \in Devices, ResyncFlush(d)
      PROVE  event' = event /\ \E p \in {Idle} \cup Push : FreshPush(d, "resync", p)
  <2>1. event' = event
    BY <1>3 DEF ResyncFlush, storeVars
  <2> QED
    BY <1>3, <2>1, FreshSteps DEF TypeInv
<1>4. ASSUME NEW d \in Devices, NEW s \in Flushes, CheckRow(d, s)
      PROVE  event' = event
  BY <1>4 DEF CheckRow, storeVars
<1>5. ASSUME NEW d \in Devices, Restart(d)
      PROVE  event' = event /\ push' = [push EXCEPT ![d] = [s \in Flushes |-> Idle]]
  BY <1>5 DEF Restart, storeVars
<1>6. ASSUME NEW d \in Devices, NEW s \in Slots,
             \/ StartPull(d, s) \/ Compare(d, s) \/ Replace(d, s)
             \/ PullEnds(d, s) \/ PullFails(d, s)
      PROVE  UNCHANGED <<push, event>>
  BY <1>6 DEF StartPull, Compare, Replace, PullEnds, PullFails, storeVars
<1>7. ASSUME NEW d \in Devices,
             \/ ResyncPull(d) \/ TakeSnapshots(d) \/ ResyncEnds(d)
             \/ \E t \in Tasks, r \in Row : EnqueueSnapshot(d, [task |-> t, snap |-> r])
             \/ Enable(d) \/ Disable(d) \/ StartEngine(d)
      PROVE  UNCHANGED <<push, event>>
  BY <1>7 DEF ResyncPull, TakeSnapshots, ResyncEnds, EnqueueSnapshot, Enable,
              Disable, StartEngine, storeVars
<1>8. ASSUME NEW e \in Events, NEW op \in {"upsert", "delete"}, OtherDevice(e, op)
      PROVE  push' = push /\ PutEvent(Account, e)
  BY <1>8 DEF OtherDevice
<1>9. CASE UNCHANGED vars
  BY <1>9 DEF vars, localVars, storeVars
<1> QED
  BY <1>1, <1>2, <1>3, <1>4, <1>5, <1>6, <1>7, <1>8, <1>9, Constants DEF Next

LEMMA StepPushCovered == TypeInv /\ PushCovered /\ [Next]_vars => PushCovered'
<1> SUFFICES ASSUME TypeInv, PushCovered, [Next]_vars,
                    NEW c \in Devices, NEW r \in Flushes,
                    push'[c][r] # Idle, push'[c][r].phase = "sent",
                    NEW f \in push'[c][r].batch \ push'[c][r].left
             PROVE  Covers(Now(f.task)', f)
  BY DEF PushCovered, InPush
<1>0. push \in [Devices -> [Flushes -> {Idle} \cup Push]]
      /\ push' \in [Devices -> [Flushes -> {Idle} \cup Push]]
  BY StepTypes DEF TypeInv, TypeOK
<1>1. f \in Events /\ f.task \in Tasks
  BY <1>0, Constants DEF Push
<1>2. ASSUME push'[c][r] = push[c][r], event' = event
      PROVE  Covers(Now(f.task)', f)
  BY <1>2 DEF PushCovered, InPush, Now
<1>3. ASSUME NEW d \in Devices, NEW s \in Flushes, NEW p \in {Idle} \cup Push,
             FreshPush(d, s, p), event' = event
      PROVE  Covers(Now(f.task)', f)
  <2>1. CASE c = d /\ r = s
    <3>1. push'[c][r] = p
      BY <1>3, <2>1, PushMoves DEF FreshPush, TypeInv
    <3> QED
      BY <1>3, <3>1 DEF FreshPush, Fresh
  <2>2. CASE c # d \/ r # s
    <3>1. push'[c][r] = push[c][r]
      BY <1>3, <2>2, PushMoves DEF FreshPush, TypeInv
    <3> QED
      BY <1>2, <1>3, <3>1
  <2> QED
    BY <2>1, <2>2
<1>4. ASSUME NEW d \in Devices, NEW s \in Flushes, CheckRow(d, s), event' = event
      PROVE  Covers(Now(f.task)', f)
  <2>1. PICK p \in Push : push' = [push EXCEPT ![d][s] = p] /\ p.phase = "check"
    BY <1>4, CheckRowStep DEF TypeInv
  <2>2. c # d \/ r # s
    BY <2>1, PushMoves DEF TypeInv
  <2>3. push'[c][r] = push[c][r]
    BY <2>1, <2>2, PushMoves DEF TypeInv
  <2> QED
    BY <1>2, <1>4, <2>3
<1>5. ASSUME NEW d \in Devices, NEW s \in Flushes, ServePush(d, s)
      PROVE  Covers(Now(f.task)', f)
  <2>1. PICK e \in Events, p \in Push :
           /\ PutEvent(Account, e)
           /\ push[d][s] \in Push /\ push[d][s].phase = "sent"
           /\ push' = [push EXCEPT ![d][s] = p]
           /\ p.left = push[d][s].left \ {e} /\ p.batch = push[d][s].batch
    BY <1>5, ServePushStep DEF TypeInv
  <2>2. \/ f = e
        \/ InPush(c, r, "sent") /\ f \in push[c][r].batch \ push[c][r].left
    <3>1. CASE c = d /\ r = s
      <4>1. push'[c][r] = p
        BY <2>1, <3>1, PushMoves DEF TypeInv
      <4> QED
        BY <2>1, <3>1, <4>1, NotIdle DEF InPush
    <3>2. CASE c # d \/ r # s
      <4>1. push'[c][r] = push[c][r]
        BY <2>1, <3>2, PushMoves DEF TypeInv
      <4> QED
        BY <4>1 DEF InPush
    <3> QED
      BY <3>1, <3>2
  <2>3. CASE f = e
    BY <2>1, <2>3, NowGrows
  <2>4. CASE InPush(c, r, "sent") /\ f \in push[c][r].batch \ push[c][r].left
    BY <1>1, <2>1, <2>4, NowGrows DEF PushCovered
  <2> QED
    BY <2>2, <2>3, <2>4
<1>6. ASSUME NEW d \in Devices, push' = [push EXCEPT ![d] = [s \in Flushes |-> Idle]],
             event' = event
      PROVE  Covers(Now(f.task)', f)
  <2>1. push'[c] = push[c]
    BY <1>0, <1>6
  <2> QED
    BY <1>2, <1>6, <2>1
<1>7. ASSUME push' = push, NEW e \in Events, PutEvent(Account, e)
      PROVE  Covers(Now(f.task)', f)
  BY <1>1, <1>7, NowGrows DEF PushCovered, InPush
<1> QED
  BY <1>2, <1>3, <1>4, <1>5, <1>6, <1>7, PushSteps

\* Whatever a push under way has had served, the server has or has something newer.
THEOREM ServedIsCovered == Spec => []PushCovered
<1>1. Init => PushCovered
  BY DEF Init, PushCovered, InPush
<1> QED
  BY <1>1, StepPushCovered, TypesInvariant, PTL DEF Spec

-----------------------------------------------------------------------------
(* Whatever is queued, pushed, stored or pulled was built by a device.       *)

\* What event e says is known.
Said(e) == payload[e].op # "none"

QueueSaid == \A d \in Devices : \A q \in queue[d] : Said(q.ev)

\* What is looked at for its age is an upsert.
PushSaid ==
    \A d \in Devices, s \in Flushes : push[d][s] # Idle =>
        /\ \A e \in push[d][s].left \cup push[d][s].batch : Said(e)
        /\ push[d][s].phase = "check" => \A e \in push[d][s].left : payload[e].op = "upsert"

StoreSaid == \A t \in Tasks : Now(t) # NoEvent => Said(Now(t))

PullSaid ==
    \A d \in Devices, s \in Slots : pull[d][s] # Idle =>
        \A x \in pull[d][s].left : Said(x.ev)

AllSaid == QueueSaid /\ PushSaid /\ StoreSaid /\ PullSaid

\* A part survives a step that leaves its variable alone.
LEMMA QuietSaid ==
    ASSUME TypeInv, AllSaid, \A e \in Events : Said(e) => payload'[e] = payload[e]
    PROVE  /\ UNCHANGED queue => QueueSaid'
           /\ UNCHANGED push => PushSaid'
           /\ UNCHANGED event => StoreSaid'
           /\ UNCHANGED pull => PullSaid'
<1>0. \A e \in Events : Said(e) => Said(e)'
  BY DEF Said
<1>1. UNCHANGED queue => QueueSaid'
  BY <1>0 DEF TypeInv, TypeOK, AllSaid, QueueSaid
<1>2. UNCHANGED push => PushSaid'
  BY <1>0 DEF TypeInv, TypeOK, Push, AllSaid, PushSaid
<1>3. UNCHANGED event => StoreSaid'
  <2> SUFFICES ASSUME UNCHANGED event, NEW t \in Tasks, Now(t) # NoEvent
               PROVE  \E f \in Events : f = Now(t) /\ Said(f)'
    BY DEF StoreSaid, Now, Said
  <2>1. Now(t) \in Events
    BY Constants DEF TypeInv, TypeOK, StoreTypeOK, Now
  <2> QED
    BY <1>0, <2>1 DEF AllSaid, StoreSaid
<1>4. UNCHANGED pull => PullSaid'
  BY <1>0 DEF TypeInv, TypeOK, Pull, AllSaid, PullSaid
<1> QED
  BY <1>1, <1>2, <1>3, <1>4

\* A queued event is built before it is queued.
LEMMA AddToQueueSaid ==
    ASSUME TypeInv, AllSaid, NEW d \in Devices, NEW t, NEW op \in {"upsert", "delete"},
           NEW snap, AddToQueue(d, t, op, snap), UNCHANGED <<push, event, pull>>
    PROVE  AllSaid'
<1>0. /\ queue \in [Devices -> SUBSET [ev : Events, sent : BOOLEAN]]
      /\ payload \in [Events -> Payload]
  BY DEF TypeInv, TypeOK
<1> DEFINE said == [op |-> op, content |-> IF op = "delete" THEN 0 ELSE snap.content]
<1>1. PICK e \in Events :
         /\ payload[e] = NoPayload
         /\ payload' = [payload EXCEPT ![e] = said]
         /\ queue' = [queue EXCEPT ![d] = @ \cup {[ev |-> e, sent |-> FALSE]}]
  BY Zenon DEF AddToQueue, Built
<1>2. said.op # "none"
  OBVIOUS
<1> HIDE DEF said
<1>30. \A f \in Events : Said(f) => payload'[f] = payload[f]
  BY <1>0, <1>1 DEF Said, NoPayload
<1>3. Said(e)' /\ \A f \in Events : Said(f) => Said(f)'
  BY <1>0, <1>1, <1>2, <1>30 DEF Said
<1>4. QueueSaid'
  <2> SUFFICES ASSUME NEW c \in Devices, NEW q \in queue'[c] PROVE Said(q.ev)'
    BY DEF QueueSaid
  <2>1. q \in queue[c] \/ q = [ev |-> e, sent |-> FALSE]
    BY <1>0, <1>1
  <2>2. CASE q \in queue[c]
    BY <1>0, <1>3, <2>2 DEF AllSaid, QueueSaid
  <2>3. CASE q = [ev |-> e, sent |-> FALSE]
    BY <1>3, <2>3
  <2> QED
    BY <2>1, <2>2, <2>3
<1> QED
  BY <1>30, <1>4, QuietSaid DEF AllSaid

\* A step of the queue or of a push passes on what was there.
LEMMA PushSaidSteps ==
    ASSUME TypeInv, AllSaid, NEW d \in Devices,
           \/ ResyncFlush(d) \/ StartEngine(d)
           \/ \E s \in Flushes :
                 \/ Flush(d, s) \/ CheckRow(d, s) \/ SendRest(d, s) \/ ServePush(d, s)
                 \/ PushAnswered(d, s) \/ PushRefused(d, s) \/ PushFails(d, s)
    PROVE  AllSaid'
<1>0. queue \in [Devices -> SUBSET [ev : Events, sent : BOOLEAN]]
  BY DEF TypeInv, TypeOK
<1>1. UNCHANGED <<payload, pull>>
  BY DEF Flush, CheckRow, SendRest, ServePush, PushAnswered, PushRefused, PushFails,
         ResyncFlush, StartEngine
<1>2. PullSaid' /\ (UNCHANGED event => StoreSaid')
  BY <1>1, QuietSaid
<1>3. QueueSaid'
  <2>1. ASSUME NEW es, queue' = [queue EXCEPT ![d] = Marked(d, es)] PROVE QueueSaid'
    <3>1. \A c \in Devices : \A q \in queue'[c] : \E r \in queue[c] : r.ev = q.ev
      BY <1>0, <2>1 DEF Marked
    <3> QED
      BY <1>1, <3>1 DEF AllSaid, QueueSaid, Said
  <2>2. ASSUME \A c \in Devices : queue'[c] \subseteq queue[c] PROVE QueueSaid'
    BY <1>1, <2>2 DEF AllSaid, QueueSaid, Said
  <2>3. CASE StartEngine(d)
    <3>1. \A c \in Devices : queue'[c] \subseteq queue[c]
      BY <1>0, <2>3 DEF StartEngine
    <3> QED
      BY <2>2, <3>1
  <2>4. CASE ResyncFlush(d) \/ \E s \in Flushes : \/ Flush(d, s) \/ CheckRow(d, s)
                                                  \/ ServePush(d, s) \/ PushRefused(d, s)
                                                  \/ PushFails(d, s)
    <3>1. queue' = queue
      BY <2>4 DEF ResyncFlush, Flush, CheckRow, ServePush, PushRefused, PushFails
    <3> QED
      BY <2>2, <3>1
  <2>5. CASE \E s \in Flushes : SendRest(d, s) \/ PushAnswered(d, s)
    BY <2>1, <2>5 DEF SendRest, PushAnswered
  <2> QED
    BY <2>3, <2>4, <2>5
<1>4. ASSUME NEW s \in Flushes, NEW p \in {Idle} \cup Push,
             push' = [push EXCEPT ![d][s] = p],
             p # Idle => /\ \A e \in p.left \cup p.batch : Said(e)
                         /\ p.phase = "check" => \A e \in p.left : payload[e].op = "upsert"
      PROVE  PushSaid'
  <2> SUFFICES ASSUME NEW c \in Devices, NEW r \in Flushes, push'[c][r] # Idle
               PROVE  /\ \A e \in push'[c][r].left \cup push'[c][r].batch : Said(e)
                      /\ push'[c][r].phase = "check" =>
                            \A e \in push'[c][r].left : payload[e].op = "upsert"
    BY <1>1 DEF PushSaid, Said
  <2>1. CASE c = d /\ r = s
    <3>1. push'[c][r] = p
      BY <1>4, <2>1, PushMoves DEF TypeInv
    <3> QED
      BY <1>4, <3>1
  <2>2. CASE c # d \/ r # s
    <3>1. push'[c][r] = push[c][r]
      BY <1>4, <2>2, PushMoves DEF TypeInv
    <3> QED
      BY <3>1 DEF AllSaid, PushSaid
  <2> QED
    BY <2>1, <2>2
<1>5. /\ \A e \in Flushing(d).left \cup Flushing(d).batch : Flushing(d) # Idle => Said(e)
      /\ \A e \in Flushing(d).left : Flushing(d) # Idle => payload[e].op = "upsert"
  <2>1. \A e \in Pending(d) : Said(e)
    BY DEF AllSaid, QueueSaid, Pending
  <2> QED
    BY <2>1 DEF Flushing
<1>6. ASSUME NEW s \in Flushes, push' = [push EXCEPT ![d][s] = Flushing(d)] PROVE PushSaid'
  BY <1>4, <1>5, <1>6, FlushingTyped DEF TypeInv
<1>7. CASE StartEngine(d)
  <2>1. UNCHANGED <<push, event>>
    BY <1>7 DEF StartEngine, storeVars
  <2> QED
    BY <1>1, <1>2, <1>3, <2>1, QuietSaid DEF AllSaid
<1>8. ASSUME NEW s \in Flushes, Flush(d, s) \/ (s = "resync" /\ ResyncFlush(d)) PROVE AllSaid'
  <2>1. UNCHANGED event /\ push' = [push EXCEPT ![d][s] = Flushing(d)]
    BY <1>8 DEF Flush, ResyncFlush, storeVars
  <2> QED
    BY <1>2, <1>3, <1>6, <2>1 DEF AllSaid
<1>9. ASSUME NEW s \in Flushes, CheckRow(d, s) PROVE AllSaid'
  <2>1. PICK e \in Events, p \in Push :
           /\ push[d][s] \in Push /\ push[d][s].phase = "check" /\ e \in push[d][s].left
           /\ push' = [push EXCEPT ![d][s] = p]
           /\ p.left = push[d][s].left \ {e}
           /\ p.batch \subseteq push[d][s].batch \cup {e}
    BY <1>9, CheckRowStep DEF TypeInv
  <2>2. /\ \A f \in p.left \cup p.batch : Said(f)
        /\ \A f \in p.left : payload[f].op = "upsert"
    BY <2>1, NotIdle DEF AllSaid, PushSaid
  <2>3. PushSaid'
    BY <1>4, <2>1, <2>2
  <2>4. UNCHANGED event
    BY <1>9 DEF CheckRow, storeVars
  <2> QED
    BY <1>2, <1>3, <2>3, <2>4 DEF AllSaid
<1>10. ASSUME NEW s \in Flushes, SendRest(d, s) PROVE AllSaid'
  <2>1. PICK p \in {Idle} \cup Push :
           /\ push' = [push EXCEPT ![d][s] = p]
           /\ p \in Push => p.phase = "sent" /\ p.left = push[d][s].batch
                            /\ p.batch = push[d][s].batch
    BY <1>10, SendRestStep DEF TypeInv
  <2>2. push[d][s] # Idle
    BY <1>10 DEF SendRest, InPush
  <2>3. PushSaid'
    BY <1>4, <2>1, <2>2 DEF AllSaid, PushSaid
  <2>4. UNCHANGED event
    BY <1>10 DEF SendRest, storeVars
  <2> QED
    BY <1>2, <1>3, <2>3, <2>4 DEF AllSaid
<1>11. ASSUME NEW s \in Flushes, ServePush(d, s) PROVE AllSaid'
  <2>1. PICK e \in Events, p \in Push :
           /\ PutEvent(Account, e)
           /\ push[d][s] \in Push /\ e \in push[d][s].left
           /\ push' = [push EXCEPT ![d][s] = p]
           /\ p.phase = "sent" /\ p.left = push[d][s].left \ {e}
           /\ p.batch = push[d][s].batch
    BY <1>11, ServePushStep DEF TypeInv
  <2>2. Said(e) /\ \A f \in p.left \cup p.batch : Said(f)
    BY <2>1, NotIdle DEF AllSaid, PushSaid
  <2>3. PushSaid'
    BY <1>4, <2>1, <2>2
  <2>4. StoreSaid'
    <3> SUFFICES ASSUME NEW t \in Tasks, Now(t)' # NoEvent
                 PROVE  payload[Now(t)'].op # "none"
      BY <1>1 DEF StoreSaid, Said, Now
    <3>1. Now(t)' = Now(t) \/ Now(t)' = e
      BY <2>1, PutEventRows, Constants DEF Now, TypeInv, TypeOK
    <3> QED
      BY <2>2, <3>1 DEF AllSaid, StoreSaid, Said
  <2> QED
    BY <1>2, <1>3, <2>3, <2>4 DEF AllSaid
<1>12. ASSUME NEW s \in Flushes, PushAnswered(d, s) \/ PushRefused(d, s) \/ PushFails(d, s)
       PROVE  AllSaid'
  <2>1. event' = event /\ push' = [push EXCEPT ![d][s] = Idle]
    BY <1>12 DEF PushAnswered, PushRefused, PushFails, storeVars
  <2>2. PushSaid'
    BY <1>4, <2>1
  <2> QED
    BY <1>2, <1>3, <2>1, <2>2 DEF AllSaid
<1> QED
  BY <1>7, <1>8, <1>9, <1>10, <1>11, <1>12, Constants

\* An answer has what the store has.
LEMMA AnswerSaid ==
    ASSUME TypeInv, AllSaid, NEW c \in 0 .. MaxSeq, NEW p \in AnswerTo(c), NEW x \in p.left
    PROVE  Said(x.ev)
<1>1. PICK t \in TasksAfter(Account, c) : x = [ev |-> event[Account][t], seq |-> seq[Account][t]]
  BY AnswerTyped DEF TypeInv
<1>2. t \in Tasks /\ Now(t) # NoEvent /\ x.ev = Now(t)
  BY <1>1 DEF TasksAfter, Now
<1> QED
  BY <1>2 DEF AllSaid, StoreSaid

LEMMA PullSaidSteps ==
    ASSUME TypeInv, AllSaid, NEW d \in Devices,
           \/ ResyncPull(d)
           \/ \E s \in Slots : \/ StartPull(d, s) \/ Compare(d, s) \/ Replace(d, s)
                               \/ PullEnds(d, s) \/ PullFails(d, s)
    PROVE  AllSaid'
<1>0. pull \in [Devices -> [Slots -> {Idle} \cup Pull]] /\ cursor[d] \in 0 .. MaxSeq
      /\ 0 \in 0 .. MaxSeq
  BY Constants DEF TypeInv, TypeOK
<1>1. UNCHANGED <<payload, queue, push, event>>
  BY DEF ResyncPull, StartPull, Compare, Replace, PullEnds, PullFails, storeVars
<1>2. ASSUME NEW s \in Slots, NEW p \in {Idle} \cup Pull,
             pull' = [pull EXCEPT ![d][s] = p],
             p # Idle => \A x \in p.left : Said(x.ev)
      PROVE  AllSaid'
  <2>1. PullSaid'
    BY <1>0, <1>1, <1>2 DEF AllSaid, PullSaid, Said
  <2> QED
    BY <1>1, <2>1, QuietSaid DEF AllSaid, Said
<1>3. CASE ResyncPull(d)
  <2>1. PICK p \in AnswerTo(0) : pull' = [pull EXCEPT ![d]["resync"] = p]
    BY <1>3 DEF ResyncPull
  <2> QED
    BY <1>0, <1>2, <2>1, AnswerSaid, AnswerTyped, Constants DEF TypeInv
<1>4. ASSUME NEW s \in Slots, StartPull(d, s) PROVE AllSaid'
  <2>1. PICK p \in AnswerTo(cursor[d]) : pull' = [pull EXCEPT ![d][s] = p]
    BY <1>4 DEF StartPull
  <2> QED
    BY <1>0, <1>2, <2>1, AnswerSaid, AnswerTyped DEF TypeInv
<1>5. ASSUME NEW s \in Slots, Compare(d, s) \/ Replace(d, s) PROVE AllSaid'
  <2>1. PICK p \in Pull : /\ pull' = [pull EXCEPT ![d][s] = p]
                          /\ p.left \subseteq pull[d][s].left
    BY <1>5, CompareStep, ReplaceStep DEF TypeInv
  <2>2. pull[d][s] # Idle
    BY <1>5 DEF Compare, Replace
  <2> QED
    BY <1>2, <2>1, <2>2 DEF AllSaid, PullSaid
<1>6. ASSUME NEW s \in Slots, PullEnds(d, s) \/ PullFails(d, s) PROVE AllSaid'
  <2>1. pull' = [pull EXCEPT ![d][s] = Idle]
    BY <1>6 DEF PullEnds, PullFails
  <2> QED
    BY <1>2, <2>1
<1> QED
  BY <1>3, <1>4, <1>5, <1>6

LEMMA OtherSaid ==
    ASSUME TypeInv, AllSaid, NEW e \in Events, NEW op \in {"upsert", "delete"},
           OtherDevice(e, op)
    PROVE  AllSaid'
<1>0. payload \in [Events -> Payload]
  BY DEF TypeInv, TypeOK
<1> DEFINE said == [op |-> op, content |-> IF op = "delete" THEN 0 ELSE editCount + 1]
<1>1. payload' = [payload EXCEPT ![e] = said] /\ said.op # "none" /\ payload[e] = NoPayload
  BY DEF OtherDevice
<1> HIDE DEF said
<1>20. \A f \in Events : Said(f) => payload'[f] = payload[f]
  BY <1>0, <1>1 DEF Said, NoPayload
<1>2. Said(e)' /\ \A f \in Events : Said(f) => Said(f)'
  BY <1>0, <1>1, <1>20 DEF Said
<1>3. StoreSaid'
  <2> SUFFICES ASSUME NEW t \in Tasks, Now(t)' # NoEvent
               PROVE  \E f \in Events : f = Now(t)' /\ Said(f)'
    BY DEF StoreSaid, Said, Now
  <2>1. Now(t)' = Now(t) \/ Now(t)' = e
    BY PutEventRows, Constants DEF OtherDevice, Now, TypeInv, TypeOK
  <2>2. Now(t) # NoEvent => Now(t) \in Events
    BY Constants DEF TypeInv, TypeOK, StoreTypeOK, Now
  <2> QED
    BY <1>2, <2>1, <2>2 DEF AllSaid, StoreSaid
<1> QED
  BY <1>20, <1>3, QuietSaid DEF AllSaid, OtherDevice

LEMMA StepSaid == TypeInv /\ AllSaid /\ [Next]_vars => AllSaid'
<1> SUFFICES ASSUME TypeInv, AllSaid, [Next]_vars PROVE AllSaid'
  OBVIOUS
<1>0. UNCHANGED <<payload, queue, push, event, pull>> => AllSaid'
  BY QuietSaid DEF AllSaid, Said
<1>1. ASSUME NEW d \in Devices,
             \/ \E t \in Tasks, op \in {"upsert", "delete"} : EditRow(d, t, op)
             \/ \E x \in edits[d] : ReadSnapshot(d, x)
             \/ \E t \in Tasks : Age(d, t)
             \/ Refresh(d) \/ TakeSnapshots(d) \/ ResyncEnds(d)
             \/ Enable(d) \/ Disable(d)
      PROVE  AllSaid'
  BY <1>0, <1>1 DEF EditRow, ReadSnapshot, Refresh, Age, TakeSnapshots, ResyncEnds, Enable,
                    Disable, storeVars
<1>2. ASSUME NEW d \in Devices, NEW x \in edits[d], QueueEvent(d, x)
      PROVE  AllSaid'
  <2>1. x.op \in {"upsert", "delete"}
    BY DEF TypeInv, TypeOK, Edit
  <2> QED
    BY <1>2, <2>1, AddToQueueSaid DEF QueueEvent, storeVars
<1>3. ASSUME NEW d \in Devices, NEW t \in Tasks, NEW r \in Row,
             EnqueueSnapshot(d, [task |-> t, snap |-> r])
      PROVE  AllSaid'
  <2>1. UNCHANGED <<push, event, pull>>
    BY <1>3 DEF EnqueueSnapshot, storeVars
  <2>2. AddToQueue(d, t, "upsert", r) \/ UNCHANGED <<payload, queue>>
    BY <1>3 DEF EnqueueSnapshot
  <2> QED
    BY <1>0, <2>1, <2>2, AddToQueueSaid
<1>4. ASSUME NEW d \in Devices, Restart(d)
      PROVE  AllSaid'
  <2>1. UNCHANGED <<payload, queue, event>>
    BY <1>4 DEF Restart, storeVars
  <2>2. /\ \A c \in Devices, s \in Flushes : push'[c][s] = Idle \/ push'[c][s] = push[c][s]
        /\ \A c \in Devices, s \in Slots : pull'[c][s] = Idle \/ pull'[c][s] = pull[c][s]
    BY <1>4 DEF TypeInv, TypeOK, Restart
  <2>3. PushSaid' /\ PullSaid'
    BY <2>1, <2>2 DEF AllSaid, PushSaid, PullSaid, Said
  <2> QED
    BY <2>1, <2>3, QuietSaid DEF AllSaid, Said
<1>5. CASE UNCHANGED vars
  BY <1>0, <1>5 DEF vars, localVars, storeVars
<1> QED
  BY <1>1, <1>2, <1>3, <1>4, <1>5, PushSaidSteps, PullSaidSteps, OtherSaid DEF Next

\* No event is queued, pushed, stored or pulled that no device has built.
THEOREM EventsAreBuilt == Spec => []AllSaid
<1>1. Init => AllSaid
  <2> SUFFICES ASSUME Init PROVE AllSaid
    OBVIOUS
  <2>1. QueueSaid /\ PushSaid /\ PullSaid
    BY DEF Init, QueueSaid, PushSaid, PullSaid
  <2>2. StoreSaid
    <3>1. CASE StoreInit
      BY <3>1, Constants DEF StoreInit, StoreSaid, Now
    <3>2. ASSUME NEW b \in Base,
                 event = [a \in Accounts |-> [t \in Tasks |->
                             IF t = b.task THEN b ELSE NoEvent]],
                 payload = [e \in Events |-> IF e = b THEN [NoPayload EXCEPT !.op = "upsert"]
                                                      ELSE NoPayload]
          PROVE  StoreSaid
      <4>1. b \in Events
        BY ClientTyped
      <4>2. \A t \in Tasks : Now(t) # NoEvent => Now(t) = b
        BY <3>2, Constants DEF Now
      <4>3. Said(b)
        BY <3>2, <4>1 DEF Said, NoPayload
      <4> QED
        BY <4>2, <4>3 DEF StoreSaid
    <3> QED
      BY <3>1, <3>2 DEF Init
  <2> QED
    BY <2>1, <2>2 DEF AllSaid
<1> QED
  BY <1>1, StepSaid, TypesInvariant, PTL DEF Spec

-----------------------------------------------------------------------------
(* What leaves the queue.                                                   *)

\* Rows that are marked sent, and no others, stop being pending.
LEMMA MarkedPending ==
    ASSUME TypeInv, NEW d \in Devices, NEW es, queue' = [queue EXCEPT ![d] = Marked(d, es)]
    PROVE  /\ \A c \in Devices : c # d => Pending(c)' = Pending(c)
           /\ Pending(d) \ Pending(d)' \subseteq es
           /\ Pending(d)' \subseteq Pending(d)
<1>0. queue \in [Devices -> SUBSET [ev : Events, sent : BOOLEAN]]
  BY DEF TypeInv, TypeOK
<1>1. queue'[d] = Marked(d, es) /\ \A c \in Devices : c # d => queue'[c] = queue[c]
  BY <1>0
<1>2. ASSUME NEW f \in Pending(d), f \notin es PROVE f \in Pending(d)'
  <2>1. PICK q \in queue[d] : ~q.sent /\ q.ev = f
    BY DEF Pending
  <2> DEFINE r == [ev |-> q.ev, sent |-> q.sent \/ q.ev \in es]
  <2>2. r \in queue'[d]
    BY <1>1 DEF Marked
  <2>3. r.ev = f /\ ~r.sent
    BY <1>2, <2>1
  <2> HIDE DEF r
  <2> QED
    BY <2>2, <2>3 DEF Pending
<1>3. ASSUME NEW f \in Pending(d)' PROVE f \in Pending(d)
  <2>1. PICK r \in Marked(d, es) : ~r.sent /\ r.ev = f
    BY <1>1 DEF Pending
  <2>2. PICK q \in queue[d] : r = [ev |-> q.ev, sent |-> q.sent \/ q.ev \in es]
    BY <2>1 DEF Marked
  <2> QED
    BY <2>1, <2>2 DEF Pending
<1> QED
  BY <1>1, <1>2, <1>3 DEF Pending

\* Which steps touch a queue.
LEMMA QueueSteps ==
    ASSUME [Next]_vars
    PROVE  \/ queue' = queue
           \/ \E d \in Devices, s \in Flushes : SendRest(d, s) \/ PushAnswered(d, s)
           \/ \E d \in Devices : StartEngine(d)
           \/ \E d \in Devices : \E t, op, snap : AddToQueue(d, t, op, snap)
<1>1. ASSUME NEW d \in Devices,
             \/ \E t \in Tasks, op \in {"upsert", "delete"} : EditRow(d, t, op)
             \/ \E x \in edits[d] : ReadSnapshot(d, x)
             \/ \E t \in Tasks : Age(d, t)
             \/ Refresh(d)
             \/ \E s \in Flushes : \/ Flush(d, s) \/ CheckRow(d, s) \/ ServePush(d, s)
                                   \/ PushRefused(d, s) \/ PushFails(d, s)
      PROVE  queue' = queue
  BY <1>1 DEF EditRow, ReadSnapshot, Age, Refresh, Flush, CheckRow, ServePush, PushRefused,
              PushFails
<1>2. ASSUME NEW d \in Devices, NEW x \in edits[d], QueueEvent(d, x)
      PROVE  \E t, op, snap : AddToQueue(d, t, op, snap)
  BY <1>2 DEF QueueEvent
<1>3. ASSUME NEW d \in Devices, NEW s \in Slots,
             \/ StartPull(d, s) \/ Compare(d, s) \/ Replace(d, s)
             \/ PullEnds(d, s) \/ PullFails(d, s)
      PROVE  queue' = queue
  BY <1>3 DEF StartPull, Compare, Replace, PullEnds, PullFails
<1>4. ASSUME NEW d \in Devices, NEW t \in Tasks, NEW r \in Row,
             EnqueueSnapshot(d, [task |-> t, snap |-> r])
      PROVE  queue' = queue \/ \E u, op, snap : AddToQueue(d, u, op, snap)
  BY <1>4 DEF EnqueueSnapshot
<1>5. ASSUME NEW d \in Devices,
             \/ ResyncPull(d) \/ TakeSnapshots(d) \/ ResyncFlush(d) \/ ResyncEnds(d)
             \/ Enable(d) \/ Disable(d) \/ Restart(d)
      PROVE  queue' = queue
  BY <1>5 DEF ResyncPull, TakeSnapshots, ResyncFlush, ResyncEnds, Enable, Disable, Restart
<1>6. ASSUME NEW e \in Events, NEW op \in {"upsert", "delete"}, OtherDevice(e, op)
      PROVE  queue' = queue
  BY <1>6 DEF OtherDevice
<1>7. CASE UNCHANGED vars
  BY <1>7 DEF vars, localVars
<1> QED
  BY <1>1, <1>2, <1>3, <1>4, <1>5, <1>6, <1>7 DEF Next

\* A flush skips upserts of tasks whose row it found aged.
LEMMA SkippedSteps ==
    ASSUME TypeInv, AllSaid, [Next]_vars, NEW c \in Devices, NEW r \in Flushes,
           NEW f \in Skipped(c, r)' \ Skipped(c, r)
    PROVE  payload[f].op = "upsert" /\ Aged(c, f.task)
<1>0. /\ push \in [Devices -> [Flushes -> {Idle} \cup Push]]
      /\ push'[c][r] # Idle /\ f \in push'[c][r].skipped /\ push'[c][r] # push[c][r]
  BY DEF TypeInv, TypeOK, Skipped
<1>1. ASSUME NEW d \in Devices, NEW s \in Flushes, NEW p \in {Idle} \cup Push,
             push' = [push EXCEPT ![d][s] = p]
      PROVE  c = d /\ r = s /\ p = push'[c][r]
  BY <1>0, <1>1, PushMoves DEF TypeInv
<1>2. ASSUME NEW d \in Devices, NEW s \in Flushes, NEW p \in {Idle} \cup Push,
             FreshPush(d, s, p)
      PROVE  FALSE
  BY <1>0, <1>1, <1>2 DEF FreshPush, Fresh
<1>3. ASSUME NEW d \in Devices, NEW s \in Flushes, CheckRow(d, s)
      PROVE  payload[f].op = "upsert" /\ Aged(c, f.task)
  <2>1. PICK e \in Events, p \in Push :
           /\ push[d][s] \in Push /\ push[d][s].phase = "check" /\ e \in push[d][s].left
           /\ push' = [push EXCEPT ![d][s] = p]
           /\ \/ Aged(d, e.task) /\ p.skipped = push[d][s].skipped \cup {e}
              \/ p.skipped = push[d][s].skipped
    BY <1>3, CheckRowStep DEF TypeInv
  <2>2. c = d /\ r = s /\ f \in p.skipped
    BY <1>0, <1>1, <2>1
  <2>3. f \notin push[d][s].skipped /\ push[d][s] # Idle
    BY <2>1, <2>2, NotIdle DEF Skipped
  <2>4. f = e /\ Aged(d, e.task)
    BY <2>1, <2>2, <2>3
  <2>5. payload[e].op = "upsert"
    BY <2>1, <2>3 DEF AllSaid, PushSaid
  <2> QED
    BY <2>2, <2>4, <2>5
<1>4. ASSUME NEW d \in Devices, NEW s \in Flushes, ServePush(d, s)
      PROVE  FALSE
  <2>1. PICK p \in Push : /\ push[d][s] \in Push
                          /\ push' = [push EXCEPT ![d][s] = p]
                          /\ p.skipped = push[d][s].skipped
    BY <1>4, ServePushStep DEF TypeInv
  <2>2. c = d /\ r = s /\ f \in push[c][r].skipped /\ push[c][r] # Idle
    BY <1>0, <1>1, <2>1, NotIdle
  <2> QED
    BY <2>2 DEF Skipped
<1>5. ASSUME NEW d \in Devices, push' = [push EXCEPT ![d] = [s \in Flushes |-> Idle]]
      PROVE  FALSE
  BY <1>0, <1>5
<1> QED
  BY <1>0, <1>2, <1>3, <1>4, <1>5, PushSteps

\* A queued change leaves the queue only once the server has it or has something
\* newer, however pushes fail, repeat and overlap with edits and each other, except
\* that a full resync discards the queue and a flush skips an upsert of a task that
\* it has found completed more than 60 days ago (SyncEngine.ts:267-302, 311).
THEOREM QueueIsKept == Spec => QueueKept
<1> DEFINE Kept == \A d \in Devices :
                      /\ \A e \in Pending(d) \ Pending(d)' :
                            \/ Covers(event[Account][e.task], e)
                            \/ flag[d] /\ sync[d] = "starting" /\ sync'[d] = "on" /\ queue'[d] = {}
                            \/ \E s \in Flushes : e \in Skipped(d, s)
                      /\ \A s \in Flushes : \A e \in Skipped(d, s)' \ Skipped(d, s) :
                            payload[e].op = "upsert" /\ Aged(d, e.task)
<1>1. TypeInv /\ PushCovered /\ AllSaid /\ [Next]_vars => [Kept]_vars
  <2> DEFINE Leaves(d) == \A e \in Pending(d) \ Pending(d)' :
                            \/ Covers(event[Account][e.task], e)
                            \/ flag[d] /\ sync[d] = "starting" /\ sync'[d] = "on" /\ queue'[d] = {}
                            \/ \E s \in Flushes : e \in Skipped(d, s)
  <2> SUFFICES ASSUME TypeInv, PushCovered, AllSaid, [Next]_vars, NEW c \in Devices
               PROVE  Leaves(c)
    BY SkippedSteps
  <2>0. queue \in [Devices -> SUBSET [ev : Events, sent : BOOLEAN]]
    BY DEF TypeInv, TypeOK
  <2>1. ASSUME Pending(c)' = Pending(c) PROVE Leaves(c)
    BY <2>1
  <2>2. CASE queue' = queue
    BY <2>1, <2>2 DEF Pending
  <2>3. ASSUME NEW d \in Devices, NEW s \in Flushes, SendRest(d, s) PROVE Leaves(c)
    <3>1. /\ c # d => Pending(c)' = Pending(c)
          /\ Pending(d) \ Pending(d)' \subseteq push[d][s].skipped
      BY <2>3, MarkedPending DEF SendRest
    <3>2. push[d][s] # Idle
      BY <2>3 DEF SendRest, InPush
    <3> QED
      BY <2>1, <3>1, <3>2 DEF Skipped
  <2>4. ASSUME NEW d \in Devices, NEW s \in Flushes, PushAnswered(d, s) PROVE Leaves(c)
    <3>1. /\ c # d => Pending(c)' = Pending(c)
          /\ Pending(d) \ Pending(d)' \subseteq push[d][s].batch
      BY <2>4, MarkedPending DEF PushAnswered
    <3>2. \A e \in push[d][s].batch : Covers(event[Account][e.task], e)
      BY <2>4 DEF PushAnswered, PushCovered, Now
    <3> QED
      BY <2>1, <3>1, <3>2
  <2>5. ASSUME NEW d \in Devices, StartEngine(d) PROVE Leaves(c)
    <3>1. CASE c # d \/ ~flag[d]
      <4>1. queue'[c] = queue[c]
        BY <2>0, <2>5, <3>1 DEF StartEngine
      <4> QED
        BY <2>1, <4>1 DEF Pending
    <3>2. CASE c = d /\ flag[d]
      <4>1. flag[d] /\ sync[d] = "starting" /\ sync'[d] = "on" /\ queue'[d] = {}
        BY <2>0, <2>5, <3>2 DEF StartEngine, TypeInv, TypeOK
      <4> QED
        BY <3>2, <4>1
    <3> QED
      BY <3>1, <3>2
  <2>6. ASSUME NEW d \in Devices, NEW t, NEW op, NEW snap, AddToQueue(d, t, op, snap)
        PROVE  Leaves(c)
    <3>1. PICK e : queue' = [queue EXCEPT ![d] = @ \cup {[ev |-> e, sent |-> FALSE]}]
      BY <2>6, Zenon DEF AddToQueue
    <3>2. queue[c] \subseteq queue'[c]
      BY <2>0, <3>1
    <3> QED
      BY <3>2 DEF Pending
  <2> QED
    BY <2>2, <2>3, <2>4, <2>5, <2>6, QueueSteps
<1> QED
  BY <1>1, TypesInvariant, ServedIsCovered, EventsAreBuilt, PTL DEF Spec, QueueKept

-----------------------------------------------------------------------------
(***************************************************************************)
(* Convergence.  Converged speaks of a device that is at rest; the         *)
(* invariant says, of every place a version of a task can be in, what it   *)
(* owes the row it will meet:                                              *)
(*                                                                         *)
(*   - a row that has an event says it, and lastEventIdByTask is never the *)
(*     id of something newer than the row (RowTold, IdKnown);              *)
(*   - what a pull has left to apply is covered by the server, and what it *)
(*     has dealt with, or a cursor has passed, is in the row (PullCovered, *)
(*     PullMerged, CursorMerged);                                          *)
(*   - a row that is newer than the server has an edit on its way to the   *)
(*     queue, or a queue row (Accounted).                                  *)
(***************************************************************************)
StoreFiled ==
    \A t \in Tasks : /\ seq[Account][t] =< counter[Account]
                     /\ Now(t) # NoEvent => seq[Account][t] > 0 /\ Now(t).task = t

CursorsFiled ==
    \A d \in Devices :
        /\ cursor[d] =< counter[Account]
        /\ \A s \in Slots : pull[d][s] # Idle => pull[d][s].nextCursor =< counter[Account]

ToldAt(d, t) ==
    /\ rowEvent[d][t] # NoEvent => rowEvent[d][t].task = t /\ Says(d, rowEvent[d][t])
    /\ row[d][t] = NoRow => rowEvent[d][t] = NoEvent

RowTold == \A d \in Devices, t \in Tasks : ToldAt(d, t)

KnownAt(d, t) ==
    lastId[d][t] # 0 =>
        \E g \in Events :
            /\ g.eventId = lastId[d][t] /\ g.task = t
            /\ \/ g.updatedAt < row[d][t].at
               \/ /\ g.updatedAt = row[d][t].at
                  /\ rowEvent[d][t] # NoEvent /\ g.eventId =< rowEvent[d][t].eventId

IdKnown == \A d \in Devices, t \in Tasks : KnownAt(d, t)

PullCovered ==
    \A d \in Devices, s \in Slots : pull[d][s] # Idle =>
        \A x \in pull[d][s].left : Covers(Now(x.ev.task), x.ev)

\* The row is at least as new as what the server has.
UpTo(d, t) ==
    LET r == row[d][t]
        f == rowEvent[d][t]
        e == Now(t) IN
    \/ r.at > e.updatedAt
    \/ r.at = e.updatedAt /\ f # NoEvent /\ f.eventId >= e.eventId

Has(d, t) == t \in mismerged[d] \/ UpTo(d, t)

Filed(t, k) == Now(t) # NoEvent /\ seq[Account][t] =< k

CursorMerged == \A d \in Devices, t \in Tasks : Filed(t, cursor[d]) => Has(d, t)

HasOrWill(d, s, t) == Has(d, t) \/ \E x \in pull[d][s].left : x.ev = Now(t)

PullMerged ==
    \A d \in Devices, s \in Slots, t \in Tasks :
        pull[d][s] # Idle /\ Filed(t, pull[d][s].nextCursor) => HasOrWill(d, s, t)

\* An edit of the row as it is has yet to be queued.
Editing(d, t) ==
    /\ rowEvent[d][t] = NoEvent
    /\ \E x \in edits[d] : x.task = t /\ (x.snap = NoRow \/ x.snap = row[d][t])

\* An event as new as the row is queued, or the server has had it.
Vouched(d, t) ==
    \E f \in Events :
        /\ f.task = t /\ f.updatedAt = row[d][t].at
        /\ rowEvent[d][t] # NoEvent => f.eventId >= rowEvent[d][t].eventId
        /\ f \in Pending(d) \/ Covers(Now(t), f)

AccountedFor(d, t) ==
    \/ t \in unqueued[d] \cup mismerged[d]
    \/ row[d][t] = NoRow
    \/ Editing(d, t)
    \/ Vouched(d, t)

Accounted == \A d \in Devices, t \in Tasks : AccountedFor(d, t)

DataInv ==
    /\ StoreFiled
    /\ CursorsFiled
    /\ RowTold
    /\ IdKnown
    /\ PullCovered
    /\ CursorMerged
    /\ PullMerged
    /\ Accounted

\* What the invariant compares are naturals.
LEMMA Readings ==
    ASSUME TypeInv, NEW d \in Devices, NEW t \in Tasks
    PROVE  /\ row[d][t] \in Row /\ row[d][t].at \in Nat
           /\ rowEvent[d][t] # NoEvent => /\ rowEvent[d][t] \in Events
                                          /\ rowEvent[d][t].eventId \in Nat
                                          /\ rowEvent[d][t].updatedAt \in Nat
           /\ Now(t) # NoEvent => /\ Now(t) \in Events
                                  /\ Now(t).eventId \in Nat
                                  /\ Now(t).updatedAt \in Nat
           /\ seq[Account][t] \in Nat /\ counter[Account] \in Nat
           /\ cursor[d] \in Nat /\ lastId[d][t] \in Nat
<1>1. row[d][t] \in Row /\ row[d][t].at \in Nat
  BY Constants DEF TypeInv, TypeOK, Row
<1>2. /\ rowEvent[d][t] # NoEvent => rowEvent[d][t] \in Events
      /\ cursor[d] \in Nat /\ lastId[d][t] \in Nat
  BY Constants DEF TypeInv, TypeOK
<1>3. /\ Now(t) # NoEvent => Now(t) \in Events
      /\ seq[Account][t] \in Nat /\ counter[Account] \in Nat
  BY Constants DEF TypeInv, TypeOK, StoreTypeOK, Now
<1>4. \A e \in Events : e.eventId \in Nat /\ e.updatedAt \in Nat
  BY EventsTyped
<1> QED
  BY <1>1, <1>2, <1>3, <1>4

\* UpTo is AtLeast, of the event the server has.
LEMMA UpToAtLeast ==
    ASSUME NEW d \in Devices, NEW t \in Tasks, StoreFiled, Now(t) # NoEvent
    PROVE  UpTo(d, t) <=> AtLeast(d, Now(t))
BY DEF UpTo, AtLeast, StoreFiled

(* Each part of the invariant survives a step that leaves its variables alone. *)

LEMMA QuietStore ==
    ASSUME StoreFiled, UNCHANGED storeVars PROVE StoreFiled'
BY DEF StoreFiled, Now, storeVars

LEMMA QuietCursors ==
    ASSUME CursorsFiled, UNCHANGED <<counter, cursor, pull>> PROVE CursorsFiled'
BY DEF CursorsFiled

LEMMA QuietRowTold ==
    ASSUME RowTold, UNCHANGED <<row, rowEvent, payload>> PROVE RowTold'
BY DEF RowTold, ToldAt, Says

LEMMA QuietIdKnown ==
    ASSUME IdKnown, UNCHANGED <<row, rowEvent, lastId>> PROVE IdKnown'
BY DEF IdKnown, KnownAt

LEMMA QuietPullCovered ==
    ASSUME PullCovered, UNCHANGED <<pull, event>> PROVE PullCovered'
BY DEF PullCovered, Now

LEMMA QuietMerged ==
    ASSUME CursorMerged, PullMerged,
           UNCHANGED <<event, seq, cursor, pull, row, rowEvent, mismerged>>
    PROVE  CursorMerged' /\ PullMerged'
BY DEF CursorMerged, PullMerged, HasOrWill, Filed, Has, UpTo, Now

LEMMA QuietAccounted ==
    ASSUME Accounted, UNCHANGED <<event, row, rowEvent, edits, queue, unqueued, mismerged>>
    PROVE  Accounted'
BY DEF Accounted, AccountedFor, Editing, Vouched, Pending, Now

LEMMA QuietData ==
    ASSUME DataInv,
           UNCHANGED <<storeVars, row, lastId, edits, queue, payload, pull, cursor, history>>
    PROVE  DataInv'
BY QuietStore, QuietCursors, QuietRowTold, QuietIdKnown, QuietPullCovered, QuietMerged,
   QuietAccounted DEF DataInv, storeVars, history

(* And at one task of one device, if the step leaves that row alone.         *)

LEMMA KeptTold ==
    ASSUME TypeInv, NEW d \in Devices, NEW t \in Tasks, ToldAt(d, t),
           row'[d][t] = row[d][t], rowEvent'[d][t] = rowEvent[d][t],
           \A f \in Events : payload[f] # NoPayload => payload'[f] = payload[f]
    PROVE  ToldAt(d, t)'
<1>1. CASE rowEvent[d][t] = NoEvent
  BY <1>1 DEF ToldAt
<1>2. CASE rowEvent[d][t] # NoEvent
  <2>0. PICK f \in Events : rowEvent[d][t] = f
    BY <1>2, Readings
  <2>1. f.task = t /\ Says(d, f)
    BY <1>2, <2>0 DEF ToldAt
  <2>2. payload[f] # NoPayload
    BY <2>1 DEF Says, NoPayload
  <2>3. payload'[f] = payload[f]
    BY <2>2
  <2>4. rowEvent'[d][t] = f /\ row[d][t] # NoRow
    BY <1>2, <2>0 DEF ToldAt
  <2>5. Says(d, f)'
    BY <2>1, <2>3 DEF Says
  <2> QED
    BY <2>1, <2>4, <2>5 DEF ToldAt, Says
<1> QED
  BY <1>1, <1>2

LEMMA KeptKnown ==
    ASSUME NEW d \in Devices, NEW t \in Tasks, KnownAt(d, t),
           row'[d][t] = row[d][t], rowEvent'[d][t] = rowEvent[d][t],
           lastId'[d][t] = lastId[d][t]
    PROVE  KnownAt(d, t)'
BY DEF KnownAt

LEMMA KeptHas ==
    ASSUME NEW d \in Devices, NEW t \in Tasks, Has(d, t),
           row'[d][t] = row[d][t], rowEvent'[d][t] = rowEvent[d][t],
           Now(t)' = Now(t), t \in mismerged[d] => t \in mismerged'[d]
    PROVE  Has(d, t)'
BY DEF Has, UpTo

LEMMA KeptAccounted ==
    ASSUME NEW d \in Devices, NEW t \in Tasks, AccountedFor(d, t),
           row'[d][t] = row[d][t], rowEvent'[d][t] = rowEvent[d][t],
           t \in unqueued[d] \cup mismerged[d] => t \in unqueued'[d] \cup mismerged'[d],
           \A x \in edits[d] : x.task = t => x \in edits'[d],
           \A f \in Events : f.task = t =>
              /\ f \in Pending(d) => f \in Pending(d)' \/ Covers(Now(t)', f)
              /\ Covers(Now(t), f) => Covers(Now(t)', f)
    PROVE  AccountedFor(d, t)'
<1>1. CASE t \in unqueued[d] \cup mismerged[d] \/ row[d][t] = NoRow
  BY <1>1 DEF AccountedFor
<1>2. CASE Editing(d, t)
  <2>1. Editing(d, t)'
    BY <1>2 DEF Editing
  <2> QED
    BY <2>1 DEF AccountedFor
<1>3. CASE Vouched(d, t)
  <2>1. Vouched(d, t)'
    BY <1>3 DEF Vouched
  <2> QED
    BY <2>1 DEF AccountedFor
<1> QED
  BY <1>1, <1>2, <1>3 DEF AccountedFor

\* An edit is stamped later than the row, and is on its way to the queue.
LEMMA EditData ==
    ASSUME ClocksAgree, TypeInv, DataInv, NEW d \in Devices, NEW t \in Tasks,
           NEW op \in {"upsert", "delete"}, EditRow(d, t, op)
    PROVE  DataInv'
<1>0. /\ row \in [Devices -> [Tasks -> Row]] /\ edits \in [Devices -> SUBSET Edit]
      /\ rowEvent \in [Devices -> [Tasks -> Events \cup {NoEvent}]]
      /\ unqueued \in [Devices -> SUBSET Tasks]
  BY DEF TypeInv, TypeOK
<1>1. /\ row'[d][t].at > row[d][t].at
      /\ rowEvent'[d][t] = NoEvent
      /\ \A c \in Devices, u \in Tasks : ~(c = d /\ u = t) =>
            /\ row'[c][u] = row[c][u] /\ rowEvent'[c][u] = rowEvent[c][u]
            /\ u \in unqueued[c] => u \in unqueued'[c]
  BY <1>0 DEF EditRow
<1>2. /\ \A c \in Devices : edits[c] \subseteq edits'[c]
      /\ \E x \in edits'[d] : x.task = t /\ x.snap = NoRow
  <2> DEFINE x == [n |-> editCount + 1, task |-> t, op |-> op, snap |-> NoRow]
  <2>1. edits' = [edits EXCEPT ![d] = @ \cup {x}]
    BY DEF EditRow
  <2>2. x.task = t /\ x.snap = NoRow
    OBVIOUS
  <2> HIDE DEF x
  <2> QED
    BY <1>0, <2>1, <2>2
<1>3. UNCHANGED <<storeVars, lastId, queue, payload, pull, cursor, mismerged>>
  BY DEF EditRow
<1>4. StoreFiled' /\ CursorsFiled' /\ PullCovered' /\ \A u \in Tasks : Now(u)' = Now(u)
  BY <1>3, QuietStore, QuietCursors, QuietPullCovered DEF DataInv, Now, storeVars
<1>5. ASSUME NEW c \in Devices, NEW u \in Tasks PROVE ToldAt(c, u)' /\ KnownAt(c, u)'
  <2>1. CASE c = d /\ u = t
    <3>1. ToldAt(d, t)'
      BY <1>1 DEF ToldAt
    <3>2. KnownAt(d, t)'
      <4> SUFFICES ASSUME lastId[d][t] # 0
                   PROVE  \E g \in Events : /\ g.eventId = lastId[d][t] /\ g.task = t
                                            /\ g.updatedAt < row'[d][t].at
        BY <1>3 DEF KnownAt
      <4>1. PICK g \in Events : /\ g.eventId = lastId[d][t] /\ g.task = t
                                /\ g.updatedAt =< row[d][t].at
        BY EventsTyped, Readings DEF DataInv, IdKnown, KnownAt
      <4>2. row'[d][t].at \in Nat /\ row[d][t].at \in Nat /\ g.updatedAt \in Nat
        BY EventsTyped, Readings, StepTypes, EditTypes, Constants DEF TypeInv, TypeOK, Row
      <4>3. g.updatedAt < row'[d][t].at
        BY <1>1, <4>1, <4>2
      <4> QED
        BY <4>1, <4>3
    <3> QED
      BY <2>1, <3>1, <3>2
  <2>2. CASE ~(c = d /\ u = t)
    <3>1. ToldAt(c, u) /\ KnownAt(c, u)
      BY DEF DataInv, RowTold, IdKnown
    <3> QED
      BY <1>1, <1>3, <2>2, <3>1, KeptTold, KeptKnown
  <2> QED
    BY <2>1, <2>2
<1>6. ASSUME NEW c \in Devices, NEW u \in Tasks, Now(u) # NoEvent, Has(c, u) PROVE Has(c, u)'
  <2>1. CASE c = d /\ u = t /\ UpTo(d, t)
    <3>1. row'[d][t].at \in Nat /\ row[d][t].at \in Nat /\ Now(t).updatedAt \in Nat
      BY <1>6, <2>1, Readings, EditTypes, Constants DEF TypeInv, TypeOK, Row
    <3>2. row'[d][t].at > Now(t).updatedAt
      BY <1>1, <2>1, <3>1 DEF UpTo
    <3> QED
      BY <1>4, <2>1, <3>2 DEF Has, UpTo
  <2>2. CASE u \in mismerged[c]
    BY <1>3, <2>2 DEF Has
  <2>3. CASE ~(c = d /\ u = t)
    BY <1>1, <1>3, <1>4, <1>6, <2>3, KeptHas
  <2> QED
    BY <1>6, <2>1, <2>2, <2>3 DEF Has
<1>7. CursorMerged' /\ PullMerged'
  BY <1>3, <1>4, <1>6 DEF DataInv, CursorMerged, PullMerged, HasOrWill, Filed, storeVars
<1>8. ASSUME NEW c \in Devices, NEW u \in Tasks PROVE AccountedFor(c, u)'
  <2>1. CASE c = d /\ u = t
    <3>1. Editing(d, t)'
      BY <1>1, <1>2 DEF Editing
    <3> QED
      BY <2>1, <3>1 DEF AccountedFor
  <2>2. CASE ~(c = d /\ u = t)
    <3>1. AccountedFor(c, u) /\ Pending(c)' = Pending(c)
      BY <1>3 DEF DataInv, Accounted, Pending
    <3> QED
      BY <1>1, <1>2, <1>3, <1>4, <2>2, <3>1, KeptAccounted
  <2> QED
    BY <2>1, <2>2
<1> QED
  BY <1>4, <1>5, <1>7, <1>8 DEF DataInv, RowTold, IdKnown, Accounted

\* Without an event builder the change is given up; otherwise it goes on with the
\* row as it now is.
LEMMA ReadData ==
    ASSUME TypeInv, DataInv, NEW d \in Devices, NEW x \in edits[d], ReadSnapshot(d, x)
    PROVE  DataInv'
<1>0. /\ edits \in [Devices -> SUBSET Edit] /\ unqueued \in [Devices -> SUBSET Tasks]
      /\ x \in Edit /\ x.task \in Tasks
  BY DEF TypeInv, TypeOK, Edit
<1>1. UNCHANGED <<storeVars, row, lastId, queue, payload, pull, cursor, rowEvent, mismerged>>
  BY DEF ReadSnapshot
<1>2. /\ StoreFiled' /\ CursorsFiled' /\ RowTold' /\ IdKnown' /\ PullCovered'
      /\ CursorMerged' /\ PullMerged'
  BY <1>1, QuietStore, QuietCursors, QuietRowTold, QuietIdKnown, QuietPullCovered, QuietMerged
     DEF DataInv, storeVars
<1> DEFINE y == [x EXCEPT !.snap = row[d][x.task]]
<1>3. \/ /\ edits' = [edits EXCEPT ![d] = (@ \ {x}) \cup {y}]
         /\ unqueued' = unqueued
      \/ /\ edits' = [edits EXCEPT ![d] = @ \ {x}]
         /\ unqueued' = [unqueued EXCEPT ![d] = @ \cup {x.task}]
  BY Zenon DEF ReadSnapshot
<1>4. y.task = x.task /\ y.snap = row[d][x.task]
  BY <1>0 DEF Edit
<1> HIDE DEF y
<1>5. /\ \A c \in Devices : unqueued[c] \subseteq unqueued'[c]
      /\ \A c \in Devices : \A z \in edits[c] : ~(c = d /\ z.task = x.task) => z \in edits'[c]
      /\ x.task \in unqueued'[d] \/ y \in edits'[d]
  BY <1>0, <1>3
<1>6. ASSUME NEW c \in Devices, NEW u \in Tasks PROVE AccountedFor(c, u)'
  <2>0. AccountedFor(c, u) /\ Pending(c)' = Pending(c) /\ Now(u)' = Now(u)
    BY <1>1 DEF DataInv, Accounted, Pending, Now, storeVars
  <2>1. CASE c = d /\ u = x.task /\ Editing(c, u)
    <3>1. CASE u \in unqueued'[d]
      BY <2>1, <3>1 DEF AccountedFor
    <3>2. CASE y \in edits'[d]
      <4>1. Editing(c, u)'
        BY <1>1, <1>4, <2>1, <3>2 DEF Editing
      <4> QED
        BY <4>1 DEF AccountedFor
    <3> QED
      BY <1>5, <2>1, <3>1, <3>2
  <2>2. CASE c = d /\ u = x.task /\ ~Editing(c, u)
    BY <1>1, <1>5, <2>0, <2>2 DEF AccountedFor, Vouched
  <2>3. CASE ~(c = d /\ u = x.task)
    BY <1>1, <1>5, <2>0, <2>3, KeptAccounted
  <2> QED
    BY <2>1, <2>2, <2>3
<1> QED
  BY <1>2, <1>6 DEF DataInv, Accounted

\* What adding an event to the queue does to the task it is about.
LEMMA AddToQueueStep ==
    ASSUME TypeInv, NEW d \in Devices, NEW t \in Tasks, NEW op \in {"upsert", "delete"},
           NEW snap \in Row, AddToQueue(d, t, op, snap)
    PROVE  \E e \in Events, stands \in BOOLEAN :
              /\ e.task = t /\ e.updatedAt = snap.at /\ payload[e] = NoPayload
              /\ payload'[e].op = op
              /\ op = "upsert" => payload'[e].content = snap.content
              /\ \A f \in Events : f # e => payload'[f] = payload[f]
              /\ \A c \in Devices : Pending(c) \subseteq Pending(c)'
              /\ e \in Pending(d)'
              /\ stands <=> /\ snap = row[d][t]
                            /\ rowEvent[d][t] # NoEvent => Supersedes(e, rowEvent[d][t])
              /\ rowEvent'[d][t] = IF stands /\ (op = "delete" <=> snap.deleted)
                                   THEN e ELSE rowEvent[d][t]
              /\ ~stands => unqueued' = unqueued
              /\ \A c \in Devices, u \in Tasks : ~(c = d /\ u = t) =>
                    /\ rowEvent'[c][u] = rowEvent[c][u]
                    /\ u \in unqueued[c] => u \in unqueued'[c]
<1>0. /\ queue \in [Devices -> SUBSET [ev : Events, sent : BOOLEAN]]
      /\ rowEvent \in [Devices -> [Tasks -> Events \cup {NoEvent}]]
      /\ unqueued \in [Devices -> SUBSET Tasks]
      /\ payload \in [Events -> Payload]
  BY DEF TypeInv, TypeOK
<1> DEFINE said == [op |-> op, content |-> IF op = "delete" THEN 0 ELSE snap.content]
           Stands(e) == /\ snap = row[d][t]
                        /\ rowEvent[d][t] # NoEvent => Supersedes(e, rowEvent[d][t])
<1>1. PICK e \in Events :
         /\ e.task = t /\ e.updatedAt = snap.at /\ payload[e] = NoPayload
         /\ payload' = [payload EXCEPT ![e] = said]
         /\ queue' = [queue EXCEPT ![d] = @ \cup {[ev |-> e, sent |-> FALSE]}]
         /\ unqueued' = IF Stands(e) THEN [unqueued EXCEPT ![d] = @ \ {t}] ELSE unqueued
         /\ rowEvent' = IF Stands(e) /\ (op = "delete" <=> snap.deleted)
                        THEN [rowEvent EXCEPT ![d][t] = e] ELSE rowEvent
  BY Zenon DEF AddToQueue, Built
<1> DEFINE stands == Stands(e)
<1>2. stands \in BOOLEAN
  OBVIOUS
<1>3. /\ payload'[e].op = op
      /\ op = "upsert" => payload'[e].content = snap.content
      /\ \A f \in Events : f # e => payload'[f] = payload[f]
  <2>1. payload'[e] = said /\ \A f \in Events : f # e => payload'[f] = payload[f]
    BY <1>0, <1>1
  <2>2. said.op = op /\ (op = "upsert" => said.content = snap.content)
    OBVIOUS
  <2> HIDE DEF said
  <2> QED
    BY <2>1, <2>2
<1>4. /\ \A c \in Devices : Pending(c) \subseteq Pending(c)'
      /\ e \in Pending(d)'
  <2> DEFINE q == [ev |-> e, sent |-> FALSE]
  <2>1. queue' = [queue EXCEPT ![d] = @ \cup {q}]
    BY <1>1
  <2>2. q.ev = e /\ ~q.sent
    OBVIOUS
  <2> HIDE DEF q
  <2>3. q \in queue'[d] /\ \A c \in Devices : queue[c] \subseteq queue'[c]
    BY <1>0, <2>1
  <2> QED
    BY <2>2, <2>3 DEF Pending
<1>5. /\ rowEvent'[d][t] = IF stands /\ (op = "delete" <=> snap.deleted)
                           THEN e ELSE rowEvent[d][t]
      /\ \A c \in Devices, u \in Tasks : ~(c = d /\ u = t) => rowEvent'[c][u] = rowEvent[c][u]
  <2> HIDE DEF Stands
  <2>1. CASE rowEvent' = rowEvent /\ ~(stands /\ (op = "delete" <=> snap.deleted))
    BY <2>1
  <2>2. CASE /\ rowEvent' = [rowEvent EXCEPT ![d][t] = e]
             /\ stands /\ (op = "delete" <=> snap.deleted)
    BY <1>0, <2>2
  <2> QED
    BY <1>1, <2>1, <2>2
<1>6. /\ ~stands => unqueued' = unqueued
      /\ \A c \in Devices, u \in Tasks :
            ~(c = d /\ u = t) /\ u \in unqueued[c] => u \in unqueued'[c]
  <2> HIDE DEF Stands
  <2>1. CASE unqueued' = unqueued
    BY <2>1
  <2>2. CASE unqueued' = [unqueued EXCEPT ![d] = @ \ {t}] /\ stands
    BY <1>0, <2>2
  <2> QED
    BY <1>1, <2>1, <2>2
<1> QED
  BY <1>1, <1>2, <1>3, <1>4, <1>5, <1>6, Zenon

\* The event that is queued says the row, or is one more that the row is no newer than.
LEMMA AddToQueueData ==
    ASSUME TypeInv, DataInv, NEW d \in Devices, NEW t \in Tasks,
           NEW op \in {"upsert", "delete"}, NEW snap \in Row, AddToQueue(d, t, op, snap),
           UNCHANGED <<storeVars, row, lastId, pull, cursor, mismerged>>,
           \A c \in Devices : \A x \in edits[c] :
              x \in edits'[c] \/ (c = d /\ x.task = t /\ x.snap = snap)
    PROVE  DataInv'
<1>1. PICK e \in Events, stands \in BOOLEAN :
              /\ e.task = t /\ e.updatedAt = snap.at /\ payload[e] = NoPayload
              /\ payload'[e].op = op
              /\ op = "upsert" => payload'[e].content = snap.content
              /\ \A f \in Events : f # e => payload'[f] = payload[f]
              /\ \A c \in Devices : Pending(c) \subseteq Pending(c)'
              /\ e \in Pending(d)'
              /\ stands <=> /\ snap = row[d][t]
                            /\ rowEvent[d][t] # NoEvent => Supersedes(e, rowEvent[d][t])
              /\ rowEvent'[d][t] = IF stands /\ (op = "delete" <=> snap.deleted)
                                   THEN e ELSE rowEvent[d][t]
              /\ ~stands => unqueued' = unqueued
              /\ \A c \in Devices, u \in Tasks : ~(c = d /\ u = t) =>
                    /\ rowEvent'[c][u] = rowEvent[c][u]
                    /\ u \in unqueued[c] => u \in unqueued'[c]
  BY AddToQueueStep
<1>2. e.updatedAt \in Nat /\ e.eventId \in Nat /\ e.updatedAt > 0 /\ e # NoEvent /\ snap # NoRow
  BY <1>1, Constants DEF NoRow
<1>3. StoreFiled' /\ CursorsFiled' /\ PullCovered' /\ \A u \in Tasks : Now(u)' = Now(u)
  BY QuietStore, QuietCursors, QuietPullCovered DEF DataInv, Now, storeVars
<1>4. \A f \in Events : payload[f] # NoPayload => payload'[f] = payload[f]
  BY <1>1
\* An event that takes the place of another beats it.
<1>5. stands /\ rowEvent[d][t] # NoEvent =>
         /\ rowEvent[d][t].updatedAt = row[d][t].at
         /\ e.eventId > rowEvent[d][t].eventId
  <2> SUFFICES ASSUME stands, rowEvent[d][t] # NoEvent
               PROVE  /\ rowEvent[d][t].updatedAt = row[d][t].at
                      /\ e.eventId > rowEvent[d][t].eventId
    OBVIOUS
  <2>1. Says(d, rowEvent[d][t]) /\ rowEvent[d][t].task = t
    BY DEF DataInv, RowTold, ToldAt
  <2>2. rowEvent[d][t].updatedAt = row[d][t].at
    BY <2>1 DEF Says
  <2>3. Supersedes(e, rowEvent[d][t]) /\ e.updatedAt = row[d][t].at
    BY <1>1
  <2>4. rowEvent[d][t].updatedAt \in Nat
    BY Readings
  <2> QED
    BY <1>2, <2>2, <2>3, <2>4 DEF Supersedes
<1>6. \/ rowEvent'[d][t] = rowEvent[d][t]
      \/ /\ rowEvent'[d][t] = e /\ snap = row[d][t] /\ stands
         /\ op = "delete" <=> snap.deleted
  BY <1>1
<1>7. ToldAt(d, t)'
  <2>1. CASE rowEvent'[d][t] = rowEvent[d][t]
    BY <1>4, <2>1, KeptTold DEF DataInv, RowTold
  <2>2. CASE rowEvent'[d][t] = e /\ snap = row[d][t] /\ (op = "delete" <=> snap.deleted)
    <3>1. Says(d, e)'
      BY <1>1, <2>2 DEF Says
    <3> QED
      BY <1>1, <1>2, <2>2, <3>1 DEF ToldAt, Says
  <2> QED
    BY <1>6, <2>1, <2>2
<1>8. KnownAt(d, t)'
  <2>0. KnownAt(d, t)
    BY DEF DataInv, IdKnown
  <2>1. CASE rowEvent'[d][t] = rowEvent[d][t]
    BY <2>0, <2>1, KeptKnown
  <2>2. CASE rowEvent'[d][t] = e /\ stands
    <3> SUFFICES ASSUME lastId[d][t] # 0
                 PROVE  \E g \in Events : /\ g.eventId = lastId[d][t] /\ g.task = t
                                          /\ \/ g.updatedAt < row[d][t].at
                                             \/ /\ g.updatedAt = row[d][t].at
                                                /\ g.eventId =< e.eventId
      BY <1>2, <2>2 DEF KnownAt
    <3>1. PICK g \in Events :
             /\ g.eventId = lastId[d][t] /\ g.task = t
             /\ \/ g.updatedAt < row[d][t].at
                \/ /\ g.updatedAt = row[d][t].at
                   /\ rowEvent[d][t] # NoEvent /\ g.eventId =< rowEvent[d][t].eventId
      BY <2>0 DEF KnownAt
    <3>2. g.eventId \in Nat /\ rowEvent[d][t] # NoEvent => rowEvent[d][t].eventId \in Nat
      BY EventsTyped, Readings
    <3>3. rowEvent[d][t] # NoEvent /\ g.eventId =< rowEvent[d][t].eventId => g.eventId =< e.eventId
      BY <1>2, <1>5, <2>2, <3>2, EventsTyped
    <3> QED
      BY <3>1, <3>3
  <2> QED
    BY <1>6, <2>1, <2>2
<1>9. Now(t) # NoEvent /\ Has(d, t) => Has(d, t)'
  <2>1. CASE rowEvent'[d][t] = rowEvent[d][t]
    BY <1>3, <2>1, KeptHas
  <2>2. CASE rowEvent'[d][t] = e /\ stands
    <3> SUFFICES ASSUME Now(t) # NoEvent, UpTo(d, t) PROVE UpTo(d, t)'
      BY DEF Has
    <3>1. Now(t).eventId \in Nat /\ (rowEvent[d][t] # NoEvent => rowEvent[d][t].eventId \in Nat)
      BY Readings
    <3>2. \/ row[d][t].at > Now(t).updatedAt
          \/ row[d][t].at = Now(t).updatedAt /\ e.eventId >= Now(t).eventId
      BY <1>2, <1>5, <2>2, <3>1 DEF UpTo
    <3> QED
      BY <1>2, <1>3, <2>2, <3>2 DEF UpTo
  <2> QED
    BY <1>6, <2>1, <2>2
<1>10. AccountedFor(d, t)'
  <2>1. CASE stands
    <3>1. rowEvent'[d][t] # NoEvent => e.eventId >= rowEvent'[d][t].eventId
      BY <1>2, <1>5, <1>6, <2>1, Readings
    <3>2. e.updatedAt = row'[d][t].at
      BY <1>1, <2>1
    <3>3. Vouched(d, t)'
      BY <1>1, <3>1, <3>2 DEF Vouched
    <3> QED
      BY <3>3 DEF AccountedFor
  <2>2. CASE ~stands
    <3>0. /\ rowEvent'[d][t] = rowEvent[d][t] /\ unqueued' = unqueued /\ AccountedFor(d, t)
          /\ Pending(d) \subseteq Pending(d)'
      BY <1>1, <2>2 DEF DataInv, Accounted
    <3>1. CASE Editing(d, t)
      <4>1. PICK x \in edits[d] : x.task = t /\ (x.snap = NoRow \/ x.snap = row[d][t])
        BY <3>1 DEF Editing
      <4>2. x \in edits'[d]
        BY <1>1, <1>2, <2>2, <3>1, <4>1 DEF Editing
      <4>3. Editing(d, t)'
        BY <3>0, <3>1, <4>1, <4>2 DEF Editing
      <4> QED
        BY <4>3 DEF AccountedFor
    <3>2. CASE Vouched(d, t)
      <4>1. Vouched(d, t)'
        BY <1>3, <3>0, <3>2 DEF Vouched
      <4> QED
        BY <4>1 DEF AccountedFor
    <3> QED
      BY <3>0, <3>1, <3>2 DEF AccountedFor
  <2> QED
    BY <2>1, <2>2
<1>11. ASSUME NEW c \in Devices, NEW u \in Tasks, ~(c = d /\ u = t)
       PROVE  /\ ToldAt(c, u)' /\ KnownAt(c, u)' /\ AccountedFor(c, u)'
              /\ Has(c, u) => Has(c, u)'
  <2>0. rowEvent'[c][u] = rowEvent[c][u] /\ (u \in unqueued[c] => u \in unqueued'[c])
    BY <1>1, <1>11
  <2>1. ToldAt(c, u)'
    BY <1>4, <2>0, KeptTold DEF DataInv, RowTold
  <2>2. KnownAt(c, u)'
    BY <2>0, KeptKnown DEF DataInv, IdKnown
  <2>3. Has(c, u) => Has(c, u)'
    BY <1>3, <2>0, KeptHas
  <2>4. \A x \in edits[c] : x.task = u => x \in edits'[c]
    BY <1>11
  <2>5. AccountedFor(c, u) /\ Pending(c) \subseteq Pending(c)'
    BY <1>1 DEF DataInv, Accounted
  <2>6. AccountedFor(c, u)'
    BY <1>3, <2>0, <2>4, <2>5, KeptAccounted
  <2> QED
    BY <2>1, <2>2, <2>3, <2>6
<1>12. \A c \in Devices, u \in Tasks : Now(u) # NoEvent /\ Has(c, u) => Has(c, u)'
  BY <1>9, <1>11
<1>13. CursorMerged' /\ PullMerged'
  BY <1>3, <1>12 DEF DataInv, CursorMerged, PullMerged, HasOrWill, Filed, storeVars
<1> QED
  BY <1>3, <1>7, <1>8, <1>10, <1>11, <1>13 DEF DataInv, RowTold, IdKnown, Accounted

LEMMA QueueData ==
    ASSUME TypeInv, DataInv, NEW d \in Devices, NEW x \in edits[d], QueueEvent(d, x)
    PROVE  DataInv'
<1>0. edits \in [Devices -> SUBSET Edit]
  BY DEF TypeInv, TypeOK
<1>1. x.task \in Tasks /\ x.op \in {"upsert", "delete"} /\ x.snap \in Row
  BY <1>0 DEF Edit
<1>2. \A c \in Devices : \A y \in edits[c] : y \in edits'[c] \/ (c = d /\ y = x)
  BY <1>0 DEF QueueEvent
<1>3. \A c \in Devices : \A y \in edits[c] :
         y \in edits'[c] \/ (c = d /\ y.task = x.task /\ y.snap = x.snap)
  BY <1>2
<1> QED
  BY <1>1, <1>3, AddToQueueData DEF QueueEvent

LEMMA EnqueueData ==
    ASSUME TypeInv, DataInv, NEW d \in Devices, NEW t \in Tasks, NEW snap \in Row,
           EnqueueSnapshot(d, [task |-> t, snap |-> snap])
    PROVE  DataInv'
<1>1. UNCHANGED <<storeVars, row, lastId, edits, pull, cursor, mismerged>>
  BY DEF EnqueueSnapshot
<1>2. CASE AddToQueue(d, t, "upsert", snap)
  BY <1>1, <1>2, AddToQueueData
<1>3. CASE UNCHANGED <<payload, queue, rowEvent, unqueued>>
  BY <1>1, <1>3, QuietData DEF history
<1> QED
  BY <1>2, <1>3 DEF EnqueueSnapshot

\* The server has a task under the seq it had, or under one that no cursor has
\* reached.
LEMMA PutEventData ==
    ASSUME TypeInv, DataInv, NEW e \in Events, PutEvent(Account, e),
           UNCHANGED <<row, lastId, edits, queue, pull, cursor, history>>,
           \A f \in Events : payload[f] # NoPayload => payload'[f] = payload[f]
    PROVE  DataInv'
<1>0. StoreTypeOK /\ Account \in Accounts
  BY Constants DEF TypeInv, TypeOK
<1>1. /\ counter[Account] \in Nat /\ counter[Account] =< counter'[Account]
      /\ \A t \in Tasks :
            \/ Now(t)' = Now(t) /\ seq'[Account][t] = seq[Account][t]
            \/ /\ t = e.task /\ Now(t)' = e /\ seq'[Account][t] = counter'[Account]
               /\ counter'[Account] = counter[Account] + 1
  BY <1>0, PutEventRows DEF Now
<1>2. counter'[Account] \in Nat
  BY <1>0, PutEventTyped, Constants DEF StoreTypeOK
<1>3. StoreFiled'
  <2> SUFFICES ASSUME NEW t \in Tasks
               PROVE  /\ seq'[Account][t] =< counter'[Account]
                      /\ Now(t)' # NoEvent => seq'[Account][t] > 0 /\ Now(t)'.task = t
    BY DEF StoreFiled
  <2>1. seq[Account][t] \in Nat
    BY <1>0, Constants DEF StoreTypeOK
  <2> QED
    BY <1>1, <1>2, <2>1 DEF DataInv, StoreFiled
<1>4. CursorsFiled'
  <2> SUFFICES ASSUME NEW d \in Devices
               PROVE  /\ cursor[d] =< counter'[Account]
                      /\ \A s \in Slots : pull[d][s] # Idle =>
                            pull[d][s].nextCursor =< counter'[Account]
    BY DEF CursorsFiled
  <2>1. cursor[d] \in Nat
    BY Constants DEF TypeInv, TypeOK
  <2>2. \A s \in Slots : pull[d][s] # Idle => pull[d][s].nextCursor \in Nat
    BY Constants DEF TypeInv, TypeOK, Pull
  <2> QED
    BY <1>1, <1>2, <2>1, <2>2 DEF DataInv, CursorsFiled
<1>5. ASSUME NEW d \in Devices, NEW t \in Tasks
      PROVE  ToldAt(d, t)' /\ KnownAt(d, t)' /\ AccountedFor(d, t)'
  <2>1. ToldAt(d, t)'
    BY KeptTold DEF DataInv, RowTold, history
  <2>2. KnownAt(d, t)'
    BY KeptKnown DEF DataInv, IdKnown, history
  <2>3. AccountedFor(d, t) /\ Pending(d)' = Pending(d)
    BY DEF DataInv, Accounted, Pending
  <2>4. \A f \in Events : Covers(Now(t), f) => Covers(Now(t)', f)
    BY NowGrows
  <2>5. AccountedFor(d, t)'
    BY <2>3, <2>4, KeptAccounted DEF history
  <2> QED
    BY <2>1, <2>2, <2>5
<1>6. PullCovered'
  <2> SUFFICES ASSUME NEW d \in Devices, NEW s \in Slots, pull[d][s] # Idle,
                      NEW x \in pull[d][s].left
               PROVE  Covers(Now(x.ev.task)', x.ev)
    BY DEF PullCovered, Now
  <2>1. x.ev \in Events /\ x.ev.task \in Tasks
    BY Constants DEF TypeInv, TypeOK, Pull
  <2>2. Covers(Now(x.ev.task), x.ev)
    BY DEF DataInv, PullCovered
  <2> QED
    BY <2>1, <2>2, NowGrows
\* What a cursor below the old counter has reached is what it had reached.
<1>7. ASSUME NEW t \in Tasks, NEW k \in Nat, k =< counter[Account],
             Now(t)' # NoEvent, seq'[Account][t] =< k
      PROVE  Filed(t, k) /\ Now(t)' = Now(t)
  BY <1>1, <1>2, <1>7 DEF Filed
<1>8. \A d \in Devices, t \in Tasks : Now(t)' = Now(t) /\ Has(d, t) => Has(d, t)'
  BY KeptHas DEF history
<1>9. CursorMerged'
  <2> SUFFICES ASSUME NEW d \in Devices, NEW t \in Tasks, Now(t)' # NoEvent,
                      seq'[Account][t] =< cursor[d]
               PROVE  Has(d, t)'
    BY DEF CursorMerged, Filed
  <2>1. cursor[d] \in Nat /\ cursor[d] =< counter[Account]
    BY Readings DEF DataInv, CursorsFiled
  <2>2. Filed(t, cursor[d]) /\ Now(t)' = Now(t)
    BY <1>7, <2>1
  <2> QED
    BY <1>8, <2>2 DEF DataInv, CursorMerged
<1>10. PullMerged'
  <2> SUFFICES ASSUME NEW d \in Devices, NEW s \in Slots, NEW t \in Tasks,
                      pull[d][s] # Idle, Now(t)' # NoEvent,
                      seq'[Account][t] =< pull[d][s].nextCursor
               PROVE  HasOrWill(d, s, t)'
    BY DEF PullMerged, Filed
  <2>1. pull[d][s].nextCursor \in Nat /\ pull[d][s].nextCursor =< counter[Account]
    BY Constants DEF TypeInv, TypeOK, Pull, DataInv, CursorsFiled
  <2>2. Filed(t, pull[d][s].nextCursor) /\ Now(t)' = Now(t)
    BY <1>7, <2>1
  <2>3. HasOrWill(d, s, t)
    BY <2>2 DEF DataInv, PullMerged
  <2> QED
    BY <1>8, <2>2, <2>3 DEF HasOrWill
<1> QED
  BY <1>3, <1>4, <1>5, <1>6, <1>9, <1>10 DEF DataInv, RowTold, IdKnown, Accounted

LEMMA ServeData ==
    ASSUME TypeInv, DataInv, NEW d \in Devices, NEW s \in Flushes, ServePush(d, s)
    PROVE  DataInv'
<1>1. PICK e \in Events : PutEvent(Account, e)
  BY ServePushStep DEF TypeInv
<1> QED
  BY <1>1, PutEventData DEF ServePush

LEMMA OtherData ==
    ASSUME TypeInv, DataInv, NEW e \in Events, NEW op \in {"upsert", "delete"},
           OtherDevice(e, op)
    PROVE  DataInv'
<1>1. \A f \in Events : payload[f] # NoPayload => payload'[f] = payload[f]
  BY DEF TypeInv, TypeOK, OtherDevice
<1> QED
  BY <1>1, PutEventData DEF OtherDevice

\* Rows leave a queue: those that vouch for a row are the server's, or their task is
\* unqueued.
LEMMA LeavingData ==
    ASSUME TypeInv, DataInv,
           UNCHANGED <<storeVars, row, lastId, edits, payload, pull, cursor, rowEvent,
                       mismerged>>,
           \A c \in Devices : unqueued[c] \subseteq unqueued'[c],
           \A c \in Devices : \A f \in Pending(c) \ Pending(c)' :
              f.task \in unqueued'[c] \/ ~Untold(c, f)
    PROVE  DataInv'
<1>1. /\ StoreFiled' /\ CursorsFiled' /\ RowTold' /\ IdKnown' /\ PullCovered'
      /\ CursorMerged' /\ PullMerged'
  BY QuietStore, QuietCursors, QuietRowTold, QuietIdKnown, QuietPullCovered, QuietMerged
     DEF DataInv, storeVars
<1>2. ASSUME NEW c \in Devices, NEW t \in Tasks PROVE AccountedFor(c, t)'
  <2>1. AccountedFor(c, t) /\ Now(t)' = Now(t)
    BY DEF DataInv, Accounted, Now, storeVars
  <2>2. CASE t \in unqueued[c] \cup mismerged[c] \/ row[c][t] = NoRow \/ Editing(c, t)
    BY <2>2 DEF AccountedFor, Editing
  <2>3. CASE Vouched(c, t)
    <3>1. PICK f \in Events :
             /\ f.task = t /\ f.updatedAt = row[c][t].at
             /\ rowEvent[c][t] # NoEvent => f.eventId >= rowEvent[c][t].eventId
             /\ f \in Pending(c) \/ Covers(Now(t), f)
      BY <2>3 DEF Vouched
    <3>2. CASE f \in Pending(c)' \/ Covers(Now(t), f)
      <4>1. Vouched(c, t)'
        BY <2>1, <3>1, <3>2 DEF Vouched
      <4> QED
        BY <4>1 DEF AccountedFor
    <3>3. CASE f \in Pending(c) \ Pending(c)' /\ ~Covers(Now(t), f)
      <4>1. Untold(c, f)
        BY <3>1, <3>3 DEF Untold, Now
      <4> QED
        BY <3>1, <3>3, <4>1 DEF AccountedFor
    <3> QED
      BY <3>1, <3>2, <3>3
  <2> QED
    BY <2>1, <2>2, <2>3 DEF AccountedFor
<1> QED
  BY <1>1, <1>2 DEF DataInv, Accounted

\* What an answer takes off the queue, the server has.
LEMMA AnsweredData ==
    ASSUME TypeInv, PushCovered, DataInv, NEW d \in Devices, NEW s \in Flushes,
           PushAnswered(d, s)
    PROVE  DataInv'
<1>1. UNCHANGED <<storeVars, row, lastId, edits, payload, pull, cursor, history>>
  BY DEF PushAnswered
<1>2. ASSUME NEW c \in Devices, NEW f \in Pending(c) \ Pending(c)' PROVE ~Untold(c, f)
  <2>1. c = d /\ f \in push[d][s].batch
    BY <1>2, MarkedPending DEF PushAnswered
  <2>2. Covers(Now(f.task), f)
    BY <2>1 DEF PushAnswered, PushCovered
  <2> QED
    BY <2>2 DEF Untold, Now
<1> QED
  BY <1>1, <1>2, LeavingData DEF history

\* What a flush skips is unqueued, if it is not on the server and was the last word
\* on its task.
LEMMA SendRestData ==
    ASSUME TypeInv, DataInv, NEW d \in Devices, NEW s \in Flushes, SendRest(d, s)
    PROVE  DataInv'
<1> DEFINE given == {e.task : e \in {f \in push[d][s].skipped \cap Pending(d) : Untold(d, f)}}
<1>0. unqueued \in [Devices -> SUBSET Tasks]
  BY DEF TypeInv, TypeOK
<1>1. /\ UNCHANGED <<storeVars, row, lastId, edits, payload, pull, cursor, rowEvent, mismerged>>
      /\ unqueued' = [unqueued EXCEPT ![d] = @ \cup given]
  BY DEF SendRest
<1>2. ASSUME NEW c \in Devices, NEW f \in Pending(c) \ Pending(c)'
      PROVE  c = d /\ f \in push[d][s].skipped \cap Pending(d)
  BY <1>2, MarkedPending DEF SendRest
<1>3. ASSUME NEW f \in push[d][s].skipped \cap Pending(d), Untold(d, f) PROVE f.task \in given
  BY <1>3
<1> HIDE DEF given
<1>4. \A c \in Devices : unqueued[c] \subseteq unqueued'[c]
  BY <1>0, <1>1
<1>5. ASSUME NEW c \in Devices, NEW f \in Pending(c) \ Pending(c)'
      PROVE  f.task \in unqueued'[c] \/ ~Untold(c, f)
  BY <1>0, <1>1, <1>2, <1>3, <1>5
<1> QED
  BY <1>1, <1>4, <1>5, LeavingData

\* A full resync gives up the queue; what was on it is unqueued.
LEMMA StartEngineData ==
    ASSUME TypeInv, DataInv, NEW d \in Devices, StartEngine(d)
    PROVE  DataInv'
<1>0. /\ queue \in [Devices -> SUBSET [ev : Events, sent : BOOLEAN]]
      /\ unqueued \in [Devices -> SUBSET Tasks]
  BY DEF TypeInv, TypeOK
<1>1. UNCHANGED <<storeVars, row, lastId, edits, payload, pull, cursor, rowEvent, mismerged>>
  BY DEF StartEngine
<1>2. CASE ~flag[d]
  BY <1>1, <1>2, QuietData DEF StartEngine, history
<1>3. CASE flag[d]
  <2> DEFINE dropped == {e.task : e \in Pending(d)}
  <2>1. unqueued' = [unqueued EXCEPT ![d] = @ \cup dropped]
    BY <1>3 DEF StartEngine
  <2>2. \A c \in Devices : c # d => Pending(c)' = Pending(c)
    <3>1. \A c \in Devices : c # d => queue'[c] = queue[c]
      BY <1>0, <1>3 DEF StartEngine
    <3> QED
      BY <3>1 DEF Pending
  <2>3. \A f \in Pending(d) : f.task \in dropped
    OBVIOUS
  <2> HIDE DEF dropped
  <2>4. \A c \in Devices : unqueued[c] \subseteq unqueued'[c]
    BY <1>0, <2>1
  <2>5. \A c \in Devices : \A f \in Pending(c) \ Pending(c)' : f.task \in unqueued'[c]
    BY <1>0, <2>1, <2>2, <2>3
  <2> QED
    BY <1>1, <2>4, <2>5, LeavingData
<1> QED
  BY <1>2, <1>3

\* An answer has every task whose row lies after its cursor, and the row of the
\* others is known to be what it should be.
LEMMA OpenData ==
    ASSUME TypeInv, DataInv, NEW d \in Devices, NEW s \in Slots,
           NEW c \in 0 .. MaxSeq, c = cursor[d] \/ c = 0, NEW p \in AnswerTo(c),
           pull' = [pull EXCEPT ![d][s] = p], cursor' = [cursor EXCEPT ![d] = c],
           UNCHANGED <<storeVars, row, lastId, edits, queue, payload, history>>
    PROVE  DataInv'
<1>0. /\ pull \in [Devices -> [Slots -> {Idle} \cup Pull]]
      /\ cursor \in [Devices -> 0 .. MaxSeq]
  BY DEF TypeInv, TypeOK
<1>1. /\ p \in Pull
      /\ p.left = {[ev |-> event[Account][t], seq |-> seq[Account][t]] :
                      t \in TasksAfter(Account, c)}
      /\ p.nextCursor = c \/ \E t \in Tasks : p.nextCursor = seq[Account][t]
  BY AnswerTyped DEF TypeInv
<1>2. /\ pull'[d][s] = p /\ cursor'[d] = c
      /\ \A e \in Devices, u \in Slots : ~(e = d /\ u = s) => pull'[e][u] = pull[e][u]
      /\ \A e \in Devices : e # d => cursor'[e] = cursor[e]
  BY <1>0
<1>3. StoreFiled' /\ RowTold' /\ IdKnown' /\ Accounted'
  BY QuietStore, QuietRowTold, QuietIdKnown, QuietAccounted DEF DataInv, history, storeVars
<1>4. \A t \in Tasks : Now(t)' = Now(t) /\ seq'[Account][t] = seq[Account][t]
  BY DEF Now, storeVars
<1>5. c =< counter[Account]
  <2>1. counter[Account] \in Nat
    BY Constants DEF TypeInv, TypeOK, StoreTypeOK
  <2> QED
    BY <2>1 DEF DataInv, CursorsFiled
<1>6. p.nextCursor =< counter[Account]
  BY <1>1, <1>5 DEF DataInv, StoreFiled
<1>7. CursorsFiled'
  BY <1>2, <1>5, <1>6 DEF DataInv, CursorsFiled, storeVars
<1>8. ASSUME NEW t \in Tasks, Now(t) # NoEvent, seq[Account][t] > c
      PROVE  \E x \in p.left : x.ev = Now(t)
  <2>1. t \in TasksAfter(Account, c)
    BY <1>8 DEF TasksAfter, Now
  <2> DEFINE x == [ev |-> event[Account][t], seq |-> seq[Account][t]]
  <2>2. x \in p.left
    BY <1>1, <2>1
  <2>3. x.ev = Now(t)
    BY DEF Now
  <2> QED
    BY <2>2, <2>3
<1>9. ASSUME NEW x \in p.left PROVE Covers(Now(x.ev.task), x.ev)
  <2>1. PICK t \in TasksAfter(Account, c) :
           x = [ev |-> event[Account][t], seq |-> seq[Account][t]]
    BY <1>1
  <2>2. t \in Tasks /\ x.ev = Now(t) /\ Now(t) # NoEvent
    BY <2>1 DEF TasksAfter, Now
  <2>3. Now(t).task = t /\ Now(t) \in Events
    BY <2>2, Readings DEF DataInv, StoreFiled
  <2> QED
    BY <2>2, <2>3, CoversReflexive
<1>10. PullCovered'
  <2> SUFFICES ASSUME NEW e \in Devices, NEW u \in Slots, pull'[e][u] # Idle,
                      NEW x \in pull'[e][u].left
               PROVE  Covers(Now(x.ev.task)', x.ev)
    BY DEF PullCovered, Now
  <2>1. Covers(Now(x.ev.task), x.ev)
    BY <1>2, <1>9 DEF DataInv, PullCovered
  <2> QED
    BY <2>1 DEF Now, storeVars
\* At cursor 0, nothing counts as merged.
<1>11. ASSUME NEW t \in Tasks, Filed(t, c) PROVE Has(d, t)
  <2>1. CASE c = 0
    BY <1>11, <2>1, Readings DEF Filed, DataInv, StoreFiled
  <2>2. CASE c = cursor[d]
    BY <1>11, <2>2 DEF DataInv, CursorMerged
  <2> QED
    BY <2>1, <2>2
<1>12. \A e \in Devices, t \in Tasks : Has(e, t) => Has(e, t)'
  BY <1>4, KeptHas DEF history
<1>13. CursorMerged'
  <2> SUFFICES ASSUME NEW e \in Devices, NEW t \in Tasks, Filed(t, cursor'[e])
               PROVE  Has(e, t)
    BY <1>4, <1>12 DEF CursorMerged, Filed
  <2> QED
    BY <1>2, <1>11 DEF DataInv, CursorMerged
<1>14. PullMerged'
  <2> SUFFICES ASSUME NEW e \in Devices, NEW u \in Slots, NEW t \in Tasks,
                      pull'[e][u] # Idle, Filed(t, pull'[e][u].nextCursor)
               PROVE  Has(e, t) \/ \E x \in pull'[e][u].left : x.ev = Now(t)
    BY <1>4, <1>12 DEF PullMerged, HasOrWill, Filed
  <2>1. CASE e = d /\ u = s
    <3>1. seq[Account][t] \in Nat /\ c \in Nat
      BY Readings, Constants
    <3> QED
      BY <1>2, <1>8, <1>11, <2>1, <3>1 DEF Filed
  <2>2. CASE ~(e = d /\ u = s)
    BY <1>2, <2>2 DEF DataInv, PullMerged, HasOrWill
  <2> QED
    BY <2>1, <2>2
<1> QED
  BY <1>3, <1>7, <1>10, <1>13, <1>14 DEF DataInv

LEMMA StartPullData ==
    ASSUME TypeInv, DataInv, NEW d \in Devices, NEW s \in Slots, StartPull(d, s)
    PROVE  DataInv'
<1>0. cursor \in [Devices -> 0 .. MaxSeq]
  BY DEF TypeInv, TypeOK
<1>1. cursor[d] \in 0 .. MaxSeq /\ cursor' = [cursor EXCEPT ![d] = cursor[d]]
  BY <1>0 DEF StartPull
<1>2. UNCHANGED <<storeVars, row, lastId, edits, queue, payload, history>>
  BY DEF StartPull
<1>3. PICK p \in AnswerTo(cursor[d]) : pull' = [pull EXCEPT ![d][s] = p]
  BY DEF StartPull
<1> QED
  BY <1>1, <1>2, <1>3, OpenData

LEMMA ResyncPullData ==
    ASSUME TypeInv, DataInv, NEW d \in Devices, ResyncPull(d)
    PROVE  DataInv'
<1>1. 0 \in 0 .. MaxSeq /\ "resync" \in Slots
  BY Constants
<1>2. /\ cursor' = [cursor EXCEPT ![d] = 0]
      /\ UNCHANGED <<storeVars, row, lastId, edits, queue, payload, history>>
  BY DEF ResyncPull
<1>3. PICK p \in AnswerTo(0) : pull' = [pull EXCEPT ![d]["resync"] = p]
  BY DEF ResyncPull
<1> QED
  BY <1>1, <1>2, <1>3, OpenData

\* A pull that is over leaves the rows as they are; the cursor may stay, or move to
\* that of an answer of which nothing is left.
LEMMA PullOverData ==
    ASSUME TypeInv, DataInv, NEW d \in Devices, NEW s \in Slots, pull[d][s] # Idle,
           pull' = [pull EXCEPT ![d][s] = Idle],
           \/ cursor' = cursor
           \/ pull[d][s].left = {} /\ cursor' = [cursor EXCEPT ![d] = pull[d][s].nextCursor],
           UNCHANGED <<storeVars, row, lastId, edits, queue, payload, history>>
    PROVE  DataInv'
<1>0. /\ pull \in [Devices -> [Slots -> {Idle} \cup Pull]]
      /\ cursor \in [Devices -> 0 .. MaxSeq]
  BY DEF TypeInv, TypeOK
<1>1. /\ \A e \in Devices, u \in Slots :
            pull'[e][u] = Idle \/ pull'[e][u] = pull[e][u]
      /\ \A e \in Devices :
            \/ cursor'[e] = cursor[e]
            \/ e = d /\ pull[d][s].left = {} /\ cursor'[e] = pull[d][s].nextCursor
  BY <1>0
<1>2. /\ StoreFiled' /\ RowTold' /\ IdKnown' /\ Accounted'
      /\ \A t \in Tasks : Now(t)' = Now(t)
  BY QuietStore, QuietRowTold, QuietIdKnown, QuietAccounted
     DEF DataInv, history, storeVars, Now
<1>3. CursorsFiled'
  BY <1>1 DEF DataInv, CursorsFiled, storeVars
<1>4. PullCovered'
  BY <1>1 DEF DataInv, PullCovered, Now, storeVars
<1>5. \A e \in Devices, t \in Tasks : Has(e, t) => Has(e, t)'
  BY <1>2, KeptHas DEF history
<1>6. CursorMerged'
  <2> SUFFICES ASSUME NEW e \in Devices, NEW t \in Tasks, Filed(t, cursor'[e])
               PROVE  Has(e, t)
    BY <1>2, <1>5 DEF CursorMerged, Filed, storeVars
  <2>1. CASE cursor'[e] = cursor[e]
    BY <2>1 DEF DataInv, CursorMerged
  <2>2. CASE e = d /\ pull[d][s].left = {} /\ cursor'[e] = pull[d][s].nextCursor
    BY <2>2 DEF DataInv, PullMerged, HasOrWill
  <2> QED
    BY <1>1, <2>1, <2>2
<1>7. PullMerged'
  BY <1>1, <1>2, <1>5 DEF DataInv, PullMerged, HasOrWill, Filed, storeVars
<1> QED
  BY <1>2, <1>3, <1>4, <1>6, <1>7 DEF DataInv

LEMMA PullEndsData ==
    ASSUME TypeInv, DataInv, NEW d \in Devices, NEW s \in Slots,
           PullEnds(d, s) \/ PullFails(d, s)
    PROVE  DataInv'
<1>1. /\ pull[d][s] # Idle /\ pull' = [pull EXCEPT ![d][s] = Idle]
      /\ UNCHANGED <<storeVars, row, lastId, edits, queue, payload, history>>
      /\ \/ cursor' = cursor
         \/ pull[d][s].left = {} /\ cursor' = [cursor EXCEPT ![d] = pull[d][s].nextCursor]
  BY DEF PullEnds, PullFails
<1> QED
  BY <1>1, PullOverData

\* A reload gives up what is in memory: edits that are not in the queue are
\* unqueued, and nothing is known of remote events.
LEMMA RestartData ==
    ASSUME TypeInv, DataInv, NEW d \in Devices, Restart(d)
    PROVE  DataInv'
<1>0. /\ pull \in [Devices -> [Slots -> {Idle} \cup Pull]]
      /\ lastId \in [Devices -> [Tasks -> Nat]]
      /\ edits \in [Devices -> SUBSET Edit]
      /\ unqueued \in [Devices -> SUBSET Tasks]
  BY DEF TypeInv, TypeOK
<1>1. UNCHANGED <<storeVars, row, queue, payload, cursor, rowEvent, mismerged>>
  BY DEF Restart
<1>2. /\ StoreFiled' /\ RowTold' /\ \A t \in Tasks : Now(t)' = Now(t)
  BY <1>1, QuietStore, QuietRowTold DEF DataInv, storeVars, Now
<1>3. \A c \in Devices, s \in Slots : pull'[c][s] = Idle \/ pull'[c][s] = pull[c][s]
  BY <1>0 DEF Restart
<1>4. CursorsFiled' /\ PullCovered'
  BY <1>1, <1>3 DEF DataInv, CursorsFiled, PullCovered, Now, storeVars
<1>5. \A c \in Devices, t \in Tasks : Has(c, t) => Has(c, t)'
  BY <1>1, <1>2, KeptHas
<1>6. CursorMerged' /\ PullMerged'
  BY <1>1, <1>2, <1>3, <1>5
     DEF DataInv, CursorMerged, PullMerged, HasOrWill, Filed, storeVars
<1>7. IdKnown'
  <2> SUFFICES ASSUME NEW c \in Devices, NEW t \in Tasks PROVE KnownAt(c, t)'
    BY DEF IdKnown
  <2>1. CASE c = d
    BY <1>0, <2>1 DEF Restart, KnownAt
  <2>2. CASE c # d
    <3>1. lastId'[c][t] = lastId[c][t]
      BY <1>0, <2>2 DEF Restart
    <3> QED
      BY <1>1, <3>1, KeptKnown DEF DataInv, IdKnown
  <2> QED
    BY <2>1, <2>2
<1> DEFINE lost == {x.task : x \in edits[d]}
<1>8. /\ \A c \in Devices : unqueued[c] \subseteq unqueued'[c]
      /\ lost \subseteq unqueued'[d]
      /\ \A c \in Devices : c # d => edits'[c] = edits[c]
  <2>1. unqueued' = [unqueued EXCEPT ![d] = @ \cup lost]
    BY DEF Restart
  <2>2. lost \subseteq Tasks
    BY <1>0 DEF Edit
  <2> HIDE DEF lost
  <2> QED
    BY <1>0, <2>1, <2>2 DEF Restart
<1>9. ASSUME NEW c \in Devices, NEW t \in Tasks PROVE AccountedFor(c, t)'
  <2>1. AccountedFor(c, t) /\ Pending(c)' = Pending(c)
    BY <1>1 DEF DataInv, Accounted, Pending
  <2>2. CASE c = d /\ t \in lost
    BY <1>8, <2>2 DEF AccountedFor
  <2>3. CASE ~(c = d /\ t \in lost)
    <3>1. \A x \in edits[c] : x.task = t => x \in edits'[c]
      BY <1>8, <2>3
    <3> QED
      BY <1>1, <1>2, <1>8, <2>1, <3>1, KeptAccounted
  <2> QED
    BY <2>2, <2>3
<1> QED
  BY <1>2, <1>4, <1>6, <1>7, <1>9 DEF DataInv, Accounted

\* An event that is passed over is no newer than the row, or counted as mismerged.
LEMMA PassedOver ==
    ASSUME TypeInv, DataInv, NEW d \in Devices, NEW e \in Events, ~ShouldReplace(d, e)
    PROVE  AtLeast(d, e) \/ IdOutdated(d, e.task)
<1> DEFINE t == e.task
<1>1. t \in Tasks /\ e.updatedAt \in Nat /\ e.eventId \in Nat
  BY Constants
<1>2. /\ row[d][t].at \in Nat /\ lastId[d][t] \in Nat
      /\ rowEvent[d][t] # NoEvent => rowEvent[d][t].eventId \in Nat
  BY <1>1, Readings
<1>3. CASE e.updatedAt # row[d][t].at
  <2>1. row[d][t].at > e.updatedAt
    BY <1>1, <1>2, <1>3 DEF ShouldReplace
  <2> QED
    BY <2>1 DEF AtLeast
<1>4. CASE e.updatedAt = row[d][t].at
  <2>1. lastId[d][t] # 0 /\ e.eventId =< lastId[d][t]
    BY <1>1, <1>2, <1>4 DEF ShouldReplace
  <2>2. PICK g \in Events :
           /\ g.eventId = lastId[d][t]
           /\ \/ g.updatedAt < row[d][t].at
              \/ /\ g.updatedAt = row[d][t].at
                 /\ rowEvent[d][t] # NoEvent /\ g.eventId =< rowEvent[d][t].eventId
    BY <1>1, <2>1 DEF DataInv, IdKnown, KnownAt
  <2>3. CASE g.updatedAt < row[d][t].at
    <3>1. g.updatedAt # row[d][t].at
      BY <1>2, <2>3, EventsTyped
    <3> QED
      BY <2>2, <3>1 DEF IdOutdated
  <2>4. CASE rowEvent[d][t] # NoEvent /\ g.eventId =< rowEvent[d][t].eventId
    <3>1. rowEvent[d][t].eventId >= e.eventId
      BY <1>1, <1>2, <2>1, <2>2, <2>4
    <3> QED
      BY <1>4, <2>4, <3>1 DEF AtLeast
  <2> QED
    BY <2>2, <2>3, <2>4
<1> QED
  BY <1>3, <1>4

LEMMA CompareData ==
    ASSUME TypeInv, DataInv, NEW d \in Devices, NEW s \in Slots, Compare(d, s)
    PROVE  DataInv'
<1>0. /\ pull \in [Devices -> [Slots -> {Idle} \cup Pull]]
      /\ mismerged \in [Devices -> SUBSET Tasks]
      /\ pull[d][s] # Idle
  BY DEF TypeInv, TypeOK, Compare
<1>1. PICK p \in Pull :
              /\ pull' = [pull EXCEPT ![d][s] = p]
              /\ pull[d][s] \in Pull
              /\ p.nextCursor = pull[d][s].nextCursor
              /\ \/ p.left = pull[d][s].left /\ mismerged' = mismerged
                 \/ \E x \in pull[d][s].left :
                       /\ p.left = pull[d][s].left \ {x}
                       /\ x.ev \in Events /\ x.ev.task \in Tasks
                       /\ ~ShouldReplace(d, x.ev)
                       /\ mismerged' = IF ~AtLeast(d, x.ev) /\ IdOutdated(d, x.ev.task)
                                       THEN [mismerged EXCEPT ![d] = @ \cup {x.ev.task}]
                                       ELSE mismerged
  BY CompareStep DEF TypeInv
<1>2. UNCHANGED <<storeVars, row, lastId, edits, queue, payload, cursor, rowEvent, unqueued>>
  BY DEF Compare
<1>3. /\ StoreFiled' /\ RowTold' /\ IdKnown'
      /\ \A t \in Tasks : Now(t)' = Now(t) /\ seq'[Account][t] = seq[Account][t]
  BY <1>2, QuietStore, QuietRowTold, QuietIdKnown DEF DataInv, storeVars, Now
<1>4. pull'[d][s] = p /\ \A c \in Devices, u \in Slots :
         ~(c = d /\ u = s) => pull'[c][u] = pull[c][u]
  BY <1>0, <1>1
<1>5. p.left \subseteq pull[d][s].left
  BY <1>1
<1>6. CursorsFiled'
  BY <1>0, <1>1, <1>2, <1>4 DEF DataInv, CursorsFiled, storeVars
<1>7. PullCovered'
  <2> SUFFICES ASSUME NEW c \in Devices, NEW u \in Slots, pull'[c][u] # Idle,
                      NEW x \in pull'[c][u].left
               PROVE  Covers(Now(x.ev.task), x.ev)
    BY <1>2 DEF PullCovered, Now, storeVars
  <2>1. pull[c][u] # Idle /\ x \in pull[c][u].left
    BY <1>0, <1>4, <1>5
  <2> QED
    BY <2>1 DEF DataInv, PullCovered
<1>8. \A c \in Devices : mismerged[c] \subseteq mismerged'[c]
  <2>1. mismerged' = mismerged \/ \E t \in Tasks : mismerged' = [mismerged EXCEPT ![d] = @ \cup {t}]
    BY <1>1
  <2> QED
    BY <1>0, <2>1
<1>9. \A c \in Devices, t \in Tasks : Has(c, t) => Has(c, t)'
  BY <1>2, <1>3, <1>8, KeptHas
<1>10. CursorMerged' /\ Accounted'
  <2>1. CursorMerged'
    BY <1>2, <1>3, <1>9 DEF DataInv, CursorMerged, Filed
  <2>2. ASSUME NEW c \in Devices, NEW t \in Tasks PROVE AccountedFor(c, t)'
    <3>1. AccountedFor(c, t) /\ Pending(c)' = Pending(c)
      BY <1>2 DEF DataInv, Accounted, Pending
    <3> QED
      BY <1>2, <1>3, <1>8, <3>1, KeptAccounted
  <2> QED
    BY <2>1, <2>2 DEF Accounted
\* If what is passed over is what the server has, the row has it.
<1>11. ASSUME NEW t \in Tasks, Filed(t, pull[d][s].nextCursor), ~Has(d, t)'
       PROVE  \E x \in p.left : x.ev = Now(t)
  <2>1. PICK x \in pull[d][s].left : x.ev = Now(t)
    BY <1>0, <1>9, <1>11 DEF DataInv, PullMerged, HasOrWill
  <2>2. Now(t) # NoEvent /\ Now(t) \in Events /\ Now(t).task = t
    BY <1>11, Readings DEF Filed, DataInv, StoreFiled
  <2>3. CASE x \in p.left
    BY <2>1, <2>3
  <2>4. CASE x \notin p.left
    <3>1. /\ ~ShouldReplace(d, x.ev)
          /\ mismerged' = IF ~AtLeast(d, x.ev) /\ IdOutdated(d, x.ev.task)
                          THEN [mismerged EXCEPT ![d] = @ \cup {x.ev.task}] ELSE mismerged
      BY <1>1, <2>4
    <3>2. AtLeast(d, Now(t)) \/ IdOutdated(d, t)
      BY <2>1, <2>2, <3>1, PassedOver
    <3>3. CASE AtLeast(d, Now(t))
      <4>1. UpTo(d, t)
        BY <2>2, <3>3, UpToAtLeast DEF DataInv
      <4> QED
        BY <1>9, <1>11, <4>1 DEF Has
    <3>4. CASE ~AtLeast(d, Now(t)) /\ IdOutdated(d, t)
      <4>1. t \in mismerged'[d]
        BY <1>0, <2>1, <2>2, <3>1, <3>4
      <4> QED
        BY <1>11, <4>1 DEF Has
    <3> QED
      BY <3>2, <3>3, <3>4
  <2> QED
    BY <2>3, <2>4
<1>12. PullMerged'
  <2> SUFFICES ASSUME NEW c \in Devices, NEW u \in Slots, NEW t \in Tasks,
                      pull'[c][u] # Idle, Filed(t, pull'[c][u].nextCursor)
               PROVE  Has(c, t)' \/ \E x \in pull'[c][u].left : x.ev = Now(t)
    BY <1>3 DEF PullMerged, HasOrWill, Filed
  <2>1. CASE c = d /\ u = s
    BY <1>1, <1>4, <1>11, <2>1
  <2>2. CASE ~(c = d /\ u = s)
    <3>1. HasOrWill(c, u, t) /\ pull'[c][u] = pull[c][u]
      BY <1>4, <2>2 DEF DataInv, PullMerged
    <3> QED
      BY <1>9, <3>1 DEF HasOrWill
  <2> QED
    BY <2>1, <2>2
<1> QED
  BY <1>3, <1>6, <1>7, <1>10, <1>12 DEF DataInv

\* What merging does to the task, and what it leaves alone.
LEMMA MergeStep ==
    ASSUME TypeInv, NEW d \in Devices, NEW e \in Events, Merge(d, e)
    PROVE  /\ rowEvent'[d][e.task] = IF AtLeast(d, e) /\ Says(d, e) /\ e # Now(e.task)
                                     THEN rowEvent[d][e.task] ELSE e
           /\ AtLeast(d, e) /\ ~Says(d, e) => e.task \in mismerged'[d]
           /\ e # Now(e.task) /\ e.task \in mismerged[d] => e.task \in mismerged'[d]
           /\ AtLeast(d, e) /\ e # Now(e.task) => unqueued' = unqueued
           /\ \A c \in Devices, u \in Tasks : ~(c = d /\ u = e.task) =>
                 /\ rowEvent'[c][u] = rowEvent[c][u]
                 /\ u \in unqueued[c] => u \in unqueued'[c]
                 /\ u \in mismerged[c] => u \in mismerged'[c]
<1>0. /\ rowEvent \in [Devices -> [Tasks -> Events \cup {NoEvent}]]
      /\ unqueued \in [Devices -> SUBSET Tasks]
      /\ mismerged \in [Devices -> SUBSET Tasks]
      /\ e.task \in Tasks
  BY Constants DEF TypeInv, TypeOK
<1> DEFINE t == e.task
           newer == AtLeast(d, e)
           says == Says(d, e)
           current == e = Now(t)
<1>1. /\ rowEvent' = IF newer /\ says /\ ~current
                     THEN rowEvent ELSE [rowEvent EXCEPT ![d][t] = e]
      /\ unqueued' = IF newer /\ ~(says /\ current)
                     THEN unqueued ELSE [unqueued EXCEPT ![d] = @ \ {t}]
      /\ mismerged' = IF newer /\ ~says THEN [mismerged EXCEPT ![d] = @ \cup {t}]
                      ELSE IF current THEN [mismerged EXCEPT ![d] = @ \ {t}]
                      ELSE mismerged
  BY DEF Merge, Now
<1> HIDE DEF t, newer, says, current
<1>2. t = e.task /\ t \in Tasks
  BY <1>0 DEF t
<1>3. /\ rowEvent'[d][t] = IF newer /\ says /\ ~current THEN rowEvent[d][t] ELSE e
      /\ \A c \in Devices, u \in Tasks :
            ~(c = d /\ u = t) => rowEvent'[c][u] = rowEvent[c][u]
  <2>1. CASE newer /\ says /\ ~current
    BY <1>1, <2>1
  <2>2. CASE ~(newer /\ says /\ ~current)
    BY <1>0, <1>1, <1>2, <2>2
  <2> QED
    BY <2>1, <2>2
<1>4. /\ newer /\ ~current => unqueued' = unqueued
      /\ \A c \in Devices, u \in Tasks :
            ~(c = d /\ u = t) /\ u \in unqueued[c] => u \in unqueued'[c]
  <2>1. CASE unqueued' = unqueued
    BY <2>1
  <2>2. CASE unqueued' = [unqueued EXCEPT ![d] = @ \ {t}] /\ ~(newer /\ ~current)
    BY <1>0, <2>2
  <2> QED
    BY <1>1, <2>1, <2>2
<1>5. /\ newer /\ ~says => t \in mismerged'[d]
      /\ ~current /\ t \in mismerged[d] => t \in mismerged'[d]
      /\ \A c \in Devices, u \in Tasks :
            ~(c = d /\ u = t) /\ u \in mismerged[c] => u \in mismerged'[c]
  <2>1. CASE newer /\ ~says
    <3>1. mismerged' = [mismerged EXCEPT ![d] = @ \cup {t}]
      BY <1>1, <2>1
    <3> QED
      BY <1>0, <1>2, <3>1
  <2>2. CASE ~(newer /\ ~says) /\ current
    <3>1. mismerged' = [mismerged EXCEPT ![d] = @ \ {t}]
      BY <1>1, <2>2
    <3> QED
      BY <1>0, <1>2, <2>2, <3>1
  <2>3. CASE ~(newer /\ ~says) /\ ~current
    BY <1>1, <2>3
  <2> QED
    BY <2>1, <2>2, <2>3
<1> QED
  BY <1>2, <1>3, <1>4, <1>5 DEF t, newer, says, current

\* The row is given e, which the server has or has something newer than.
LEMMA ReplaceData ==
    ASSUME TypeInv, PullSaid, DataInv, NEW d \in Devices, NEW s \in Slots, Replace(d, s)
    PROVE  DataInv'
<1>0. /\ pull \in [Devices -> [Slots -> {Idle} \cup Pull]]
      /\ row \in [Devices -> [Tasks -> Row]]
      /\ lastId \in [Devices -> [Tasks -> Nat]]
      /\ payload \in [Events -> Payload]
      /\ pull[d][s] # Idle
  BY DEF TypeInv, TypeOK, Replace
<1>1. PICK x \in pull[d][s].left, p \in Pull, r \in Row :
              /\ x.ev \in Events /\ x.ev.task \in Tasks
              /\ pull[d][s] \in Pull
              /\ pull' = [pull EXCEPT ![d][s] = p]
              /\ p.nextCursor = pull[d][s].nextCursor
              /\ p.left = pull[d][s].left \ {x}
              /\ r.at = x.ev.updatedAt
              /\ r.deleted = (payload[x.ev].op = "delete")
              /\ ~r.deleted => r.content = payload[x.ev].content
              /\ row' = [row EXCEPT ![d][x.ev.task] = r]
              /\ lastId' = [lastId EXCEPT ![d][x.ev.task] = x.ev.eventId]
              /\ Merge(d, x.ev)
  BY ReplaceStep DEF TypeInv
<1>2. PICK e \in Events : e = x.ev
  BY <1>1
<1>3. PICK t \in Tasks : t = e.task
  BY <1>1, <1>2
<1>4. UNCHANGED <<storeVars, edits, queue, payload, cursor>>
  BY DEF Replace
<1>5. /\ StoreFiled'
      /\ \A u \in Tasks : Now(u)' = Now(u) /\ seq'[Account][u] = seq[Account][u]
  BY <1>4, QuietStore DEF DataInv, storeVars, Now
<1>6. /\ row'[d][t] = r /\ lastId'[d][t] = e.eventId
      /\ \A c \in Devices, u \in Tasks : ~(c = d /\ u = t) =>
            row'[c][u] = row[c][u] /\ lastId'[c][u] = lastId[c][u]
  BY <1>0, <1>1, <1>2, <1>3
<1>7. pull'[d][s] = p /\ \A c \in Devices, u \in Slots :
         ~(c = d /\ u = s) => pull'[c][u] = pull[c][u]
  BY <1>0, <1>1
<1>8. /\ rowEvent'[d][t] = IF AtLeast(d, e) /\ Says(d, e) /\ e # Now(t)
                           THEN rowEvent[d][t] ELSE e
      /\ AtLeast(d, e) /\ ~Says(d, e) => t \in mismerged'[d]
      /\ e # Now(t) /\ t \in mismerged[d] => t \in mismerged'[d]
      /\ AtLeast(d, e) /\ e # Now(t) => unqueued' = unqueued
      /\ \A c \in Devices, u \in Tasks : ~(c = d /\ u = t) =>
            /\ rowEvent'[c][u] = rowEvent[c][u]
            /\ u \in unqueued[c] => u \in unqueued'[c]
            /\ u \in mismerged[c] => u \in mismerged'[c]
  BY <1>1, <1>2, <1>3, MergeStep
<1>9. /\ e.updatedAt \in Nat /\ e.updatedAt > 0 /\ e.eventId \in Nat /\ e # NoEvent
      /\ row[d][t].at \in Nat /\ row[d][t].deleted \in BOOLEAN /\ r.deleted \in BOOLEAN
      /\ rowEvent[d][t] # NoEvent => rowEvent[d][t].eventId \in Nat
      /\ r # NoRow
  BY <1>1, <1>2, Constants, Readings DEF Row, NoRow
<1>10. Covers(Now(t), e) /\ Now(t) # NoEvent /\ Now(t) \in Events /\ Now(t).task = t
  <2>1. Covers(Now(t), e)
    BY <1>0, <1>2, <1>3 DEF DataInv, PullCovered
  <2>2. Now(t) # NoEvent
    BY <2>1 DEF Covers
  <2> QED
    BY <2>1, <2>2, Readings DEF DataInv, StoreFiled
<1>11. Now(t).updatedAt \in Nat /\ Now(t).eventId \in Nat
  BY <1>10, Readings
<1>12. payload[e].op = IF r.deleted THEN "delete" ELSE "upsert"
  <2>1. payload[e].op \in {"upsert", "delete"}
    BY <1>0, <1>2 DEF PullSaid, Said, Payload
  <2> QED
    BY <1>1, <1>2, <2>1
<1>13. Says(d, e)'
  BY <1>1, <1>2, <1>3, <1>4, <1>6, <1>12 DEF Says
\* When the row keeps its own event, both say the same.
<1>14. ASSUME AtLeast(d, e), Says(d, e), e # Now(t)
      PROVE  /\ ToldAt(d, t)' /\ KnownAt(d, t)' /\ AccountedFor(d, t)'
             /\ Has(d, t) \/ e = Now(t) => Has(d, t)'
  <2>1. /\ row[d][t].at = e.updatedAt /\ rowEvent[d][t] # NoEvent
        /\ rowEvent[d][t].eventId >= e.eventId
    BY <1>3, <1>9, <1>14 DEF AtLeast, Says
  <2>2. PICK f \in Events : f = rowEvent[d][t]
    BY <2>1, Readings
  <2>3. rowEvent'[d][t] = f /\ unqueued' = unqueued /\ f # NoEvent
    BY <1>8, <1>14, <2>1, <2>2
  <2>4. f.task = t /\ Says(d, f)
    BY <2>1, <2>2 DEF DataInv, RowTold, ToldAt
  <2>5. /\ r.at = row[d][t].at /\ r.deleted = row[d][t].deleted
        /\ ~r.deleted => r.content = row[d][t].content
    BY <1>1, <1>2, <1>3, <1>9, <1>12, <1>14, <2>1 DEF Says
  <2>6. Says(d, f)'
    BY <1>4, <1>6, <2>4, <2>5 DEF Says
  <2>7. ToldAt(d, t)'
    BY <1>6, <1>9, <2>3, <2>4, <2>6 DEF ToldAt, Says
  <2>8. KnownAt(d, t)'
    BY <1>1, <1>2, <1>3, <1>6, <2>1, <2>2, <2>3 DEF KnownAt
  <2>9. Has(d, t) => Has(d, t)'
    BY <1>5, <1>6, <1>8, <1>14, <2>2, <2>3, <2>5 DEF Has, UpTo
  <2>10. AccountedFor(d, t)'
    <3>1. AccountedFor(d, t) /\ row[d][t] # NoRow /\ Pending(d)' = Pending(d)
      BY <1>4, <1>9, <2>1 DEF DataInv, Accounted, Pending, NoRow
    <3>2. CASE t \in unqueued[d] \cup mismerged[d]
      BY <1>8, <1>14, <2>3, <3>2 DEF AccountedFor
    <3>3. CASE Vouched(d, t)
      <4>1. Vouched(d, t)'
        BY <1>5, <1>6, <2>2, <2>3, <2>5, <3>1, <3>3 DEF Vouched
      <4> QED
        BY <4>1 DEF AccountedFor
    <3> QED
      BY <2>1, <3>1, <3>2, <3>3 DEF AccountedFor, Editing
  <2> QED
    BY <1>14, <2>7, <2>8, <2>9, <2>10
<1>15. ASSUME ~(AtLeast(d, e) /\ Says(d, e) /\ e # Now(t))
      PROVE  /\ ToldAt(d, t)' /\ KnownAt(d, t)' /\ AccountedFor(d, t)'
             /\ Has(d, t) \/ e = Now(t) => Has(d, t)'
  <2>1. rowEvent'[d][t] = e
    BY <1>8, <1>15
  <2>2. ToldAt(d, t)'
    BY <1>3, <1>6, <1>9, <1>13, <2>1 DEF ToldAt, Says
  <2>3. KnownAt(d, t)'
    BY <1>1, <1>2, <1>3, <1>6, <1>9, <2>1 DEF KnownAt
  <2>4. e = Now(t) => Has(d, t)'
    BY <1>1, <1>2, <1>5, <1>6, <1>9, <2>1 DEF Has, UpTo
  <2>5. e # Now(t) /\ Has(d, t) => Has(d, t)'
    <3> SUFFICES ASSUME e # Now(t), Has(d, t) PROVE t \in mismerged'[d]
      BY DEF Has
    <3>1. CASE t \in mismerged[d]
      BY <1>8, <3>1
    <3>2. CASE UpTo(d, t)
      <4>1. Now(t).eventId # e.eventId
        BY <1>10, EventIdsUnique
      <4>2. \/ Now(t).updatedAt > e.updatedAt
            \/ Now(t).updatedAt = e.updatedAt /\ Now(t).eventId > e.eventId
        BY <1>9, <1>10, <1>11, <4>1 DEF Covers, Supersedes
      <4>3. \/ row[d][t].at > e.updatedAt
            \/ /\ row[d][t].at = e.updatedAt /\ rowEvent[d][t] # NoEvent
               /\ rowEvent[d][t].eventId >= e.eventId
        BY <1>9, <1>11, <3>2, <4>2 DEF UpTo
      <4>4. AtLeast(d, e)
        BY <1>3, <4>3 DEF AtLeast
      <4> QED
        BY <1>8, <1>15, <4>4
    <3> QED
      BY <3>1, <3>2 DEF Has
  <2>6. AccountedFor(d, t)'
    <3>1. Covers(Now(t)', e) /\ e.updatedAt = row'[d][t].at /\ e.eventId >= e.eventId
      BY <1>1, <1>2, <1>5, <1>6, <1>9, <1>10
    <3>2. Vouched(d, t)'
      BY <1>3, <2>1, <3>1 DEF Vouched
    <3> QED
      BY <3>2 DEF AccountedFor
  <2> QED
    BY <2>2, <2>3, <2>4, <2>5, <2>6
<1>16. /\ ToldAt(d, t)' /\ KnownAt(d, t)' /\ AccountedFor(d, t)'
       /\ Has(d, t) \/ e = Now(t) => Has(d, t)'
  BY <1>14, <1>15
<1>17. ASSUME NEW c \in Devices, NEW u \in Tasks, ~(c = d /\ u = t)
       PROVE  /\ ToldAt(c, u)' /\ KnownAt(c, u)' /\ AccountedFor(c, u)'
              /\ Has(c, u) => Has(c, u)'
  <2>0. /\ row'[c][u] = row[c][u] /\ lastId'[c][u] = lastId[c][u]
        /\ rowEvent'[c][u] = rowEvent[c][u]
        /\ u \in unqueued[c] => u \in unqueued'[c]
        /\ u \in mismerged[c] => u \in mismerged'[c]
    BY <1>6, <1>8, <1>17
  <2>1. ToldAt(c, u) /\ KnownAt(c, u) /\ AccountedFor(c, u) /\ Pending(c)' = Pending(c)
    BY <1>4 DEF DataInv, RowTold, IdKnown, Accounted, Pending
  <2>2. ToldAt(c, u)'
    BY <1>4, <2>0, <2>1, KeptTold
  <2>3. KnownAt(c, u)'
    BY <2>0, <2>1, KeptKnown
  <2>4. Has(c, u) => Has(c, u)'
    BY <1>5, <2>0, KeptHas
  <2>5. AccountedFor(c, u)'
    BY <1>4, <1>5, <2>0, <2>1, KeptAccounted
  <2> QED
    BY <2>2, <2>3, <2>4, <2>5
<1>18. \A c \in Devices, u \in Tasks : Has(c, u) => Has(c, u)'
  BY <1>16, <1>17
<1>19. CursorsFiled'
  BY <1>0, <1>1, <1>4, <1>7 DEF DataInv, CursorsFiled, storeVars
<1>20. PullCovered'
  <2> SUFFICES ASSUME NEW c \in Devices, NEW u \in Slots, pull'[c][u] # Idle,
                      NEW y \in pull'[c][u].left
               PROVE  Covers(Now(y.ev.task), y.ev)
    BY <1>4 DEF PullCovered, Now, storeVars
  <2>1. pull[c][u] # Idle /\ y \in pull[c][u].left
    BY <1>0, <1>1, <1>7
  <2> QED
    BY <2>1 DEF DataInv, PullCovered
<1>21. CursorMerged'
  BY <1>4, <1>5, <1>18 DEF DataInv, CursorMerged, Filed
<1>22. PullMerged'
  <2> SUFFICES ASSUME NEW c \in Devices, NEW u \in Slots, NEW k \in Tasks,
                      pull'[c][u] # Idle, Filed(k, pull'[c][u].nextCursor)
               PROVE  Has(c, k)' \/ \E y \in pull'[c][u].left : y.ev = Now(k)
    BY <1>5 DEF PullMerged, HasOrWill, Filed
  <2>1. CASE c = d /\ u = s
    <3>1. HasOrWill(d, s, k)
      BY <1>0, <1>1, <1>7, <2>1 DEF DataInv, PullMerged
    <3>2. CASE Has(d, k)
      BY <1>18, <2>1, <3>2
    <3>3. ASSUME NEW y \in pull[d][s].left, y.ev = Now(k)
          PROVE  Has(d, k)' \/ \E z \in p.left : z.ev = Now(k)
      <4>1. CASE y = x
        <5>1. Now(k) # NoEvent /\ Now(k).task = k
          BY DEF Filed, DataInv, StoreFiled
        <5>2. k = t
          BY <1>2, <1>3, <3>3, <4>1, <5>1
        <5> QED
          BY <1>2, <1>16, <3>3, <4>1, <5>2
      <4>2. CASE y # x
        BY <1>1, <3>3, <4>2
      <4> QED
        BY <4>1, <4>2
    <3> QED
      BY <1>7, <2>1, <3>1, <3>2, <3>3 DEF HasOrWill
  <2>2. CASE ~(c = d /\ u = s)
    <3>1. HasOrWill(c, u, k) /\ pull'[c][u] = pull[c][u]
      BY <1>7, <2>2 DEF DataInv, PullMerged
    <3> QED
      BY <1>18, <3>1 DEF HasOrWill
  <2> QED
    BY <2>1, <2>2
<1> QED
  BY <1>5, <1>16, <1>17, <1>19, <1>20, <1>21, <1>22 DEF DataInv, RowTold, IdKnown, Accounted

-----------------------------------------------------------------------------
(* The initial states, every step, and what the invariant is for.            *)

\* Nothing is stored: nothing is owed.
LEMMA EmptyData ==
    ASSUME StoreInit,
           row = [d \in Devices |-> [t \in Tasks |-> NoRow]],
           lastId = [d \in Devices |-> [t \in Tasks |-> 0]],
           rowEvent = [d \in Devices |-> [t \in Tasks |-> NoEvent]],
           cursor = [d \in Devices |-> 0],
           pull = [d \in Devices |-> [s \in Slots |-> Idle]]
    PROVE  DataInv
<1>1. \A t \in Tasks : Now(t) = NoEvent
  BY Constants DEF StoreInit, Now
<1>2. StoreFiled /\ CursorsFiled
  BY <1>1, Constants DEF StoreInit, StoreFiled, CursorsFiled
<1>3. RowTold /\ IdKnown
  BY DEF RowTold, ToldAt, IdKnown, KnownAt
<1>4. PullCovered /\ CursorMerged /\ PullMerged
  BY <1>1 DEF PullCovered, CursorMerged, PullMerged, Filed
<1>5. Accounted
  BY DEF Accounted, AccountedFor
<1> QED
  BY <1>2, <1>3, <1>4, <1>5 DEF DataInv

\* One event is stored, and every device has it.
LEMMA BaseData ==
    ASSUME NEW b \in Events, NEW r \in Row,
           r.at = b.updatedAt, ~r.deleted, r.content = payload[b].content,
           payload[b].op = "upsert",
           counter[Account] = 1,
           \A t \in Tasks : /\ Now(t) = IF t = b.task THEN b ELSE NoEvent
                            /\ seq[Account][t] = IF t = b.task THEN 1 ELSE 0,
           \A d \in Devices : cursor[d] = 1 /\ \A s \in Slots : pull[d][s] = Idle,
           \A d \in Devices, t \in Tasks :
              /\ row[d][t] = IF t = b.task THEN r ELSE NoRow
              /\ rowEvent[d][t] = Now(t)
              /\ lastId[d][t] = IF t = b.task THEN b.eventId ELSE 0
    PROVE  DataInv
<1>1. /\ b.task \in Tasks /\ b # NoEvent
      /\ b.updatedAt \in Nat /\ b.updatedAt > 0 /\ b.eventId \in Nat /\ r # NoRow
  BY Constants DEF NoRow
<1>2. StoreFiled
  BY <1>1 DEF StoreFiled
<1>3. CursorsFiled
  BY DEF CursorsFiled
<1>4. ASSUME NEW d \in Devices, NEW t \in Tasks
      PROVE  /\ ToldAt(d, t) /\ KnownAt(d, t) /\ AccountedFor(d, t)
             /\ Now(t) # NoEvent => Has(d, t)
  <2>1. CASE t # b.task
    BY <2>1 DEF ToldAt, KnownAt, AccountedFor
  <2>2. CASE t = b.task
    <3>1. /\ row[d][t] = r /\ rowEvent[d][t] = b /\ Now(t) = b /\ lastId[d][t] = b.eventId
      BY <2>2
    <3>2. Says(d, b)
      BY <2>2, <3>1 DEF Says
    <3>3. ToldAt(d, t)
      BY <1>1, <2>2, <3>1, <3>2 DEF ToldAt
    <3>4. KnownAt(d, t)
      BY <1>1, <2>2, <3>1 DEF KnownAt
    <3>5. Has(d, t)
      BY <1>1, <3>1 DEF Has, UpTo
    <3>6. Vouched(d, t)
      BY <1>1, <2>2, <3>1, CoversReflexive DEF Vouched
    <3> QED
      BY <3>3, <3>4, <3>5, <3>6 DEF AccountedFor
  <2> QED
    BY <2>1, <2>2
<1>5. PullCovered /\ CursorMerged /\ PullMerged
  BY <1>4 DEF PullCovered, CursorMerged, PullMerged, Filed
<1> QED
  BY <1>2, <1>3, <1>4, <1>5 DEF DataInv, RowTold, IdKnown, Accounted

LEMMA InitData == Init => DataInv
<1> SUFFICES ASSUME Init PROVE DataInv
  OBVIOUS
<1>1. pull = [d \in Devices |-> [s \in Slots |-> Idle]]
  BY DEF Init
<1>2. CASE /\ StoreInit
           /\ row = [d \in Devices |-> [t \in Tasks |-> NoRow]]
           /\ lastId = [d \in Devices |-> [t \in Tasks |-> 0]]
           /\ rowEvent = [d \in Devices |-> [t \in Tasks |-> NoEvent]]
           /\ cursor = [d \in Devices |-> 0]
  BY <1>1, <1>2, EmptyData
<1>3. ASSUME NEW b \in Base,
             /\ counter = [a \in Accounts |-> 1]
             /\ event = [a \in Accounts |->
                            [t \in Tasks |-> IF t = b.task THEN b ELSE NoEvent]]
             /\ seq = [a \in Accounts |-> [t \in Tasks |-> IF t = b.task THEN 1 ELSE 0]]
             /\ row = [d \in Devices |-> [t \in Tasks |->
                          IF t = b.task THEN [NoRow EXCEPT !.at = b.updatedAt] ELSE NoRow]]
             /\ lastId = [d \in Devices |-> [t \in Tasks |->
                             IF t = b.task THEN b.eventId ELSE 0]]
             /\ rowEvent = [d \in Devices |-> event[Account]]
             /\ payload = [e \in Events |->
                              IF e = b THEN [NoPayload EXCEPT !.op = "upsert"] ELSE NoPayload]
             /\ cursor = [d \in Devices |-> 1]
      PROVE  DataInv
  <2> DEFINE r == [NoRow EXCEPT !.at = b.updatedAt]
  <2>1. b \in Events
    BY ClientTyped
  <2>2. r \in Row /\ r.at = b.updatedAt /\ ~r.deleted /\ r.content = 0
    <3>1. b.updatedAt \in 0 .. MaxTime /\ NoRow \in Row
      BY <2>1, Constants
    <3>2. r \in Row
      BY <3>1 DEF Row
    <3>3. r.at = b.updatedAt /\ r.content = NoRow.content /\ r.deleted = NoRow.deleted
      BY <3>1 DEF Row
    <3>4. NoRow.content = 0 /\ ~NoRow.deleted
      BY DEF NoRow
    <3> QED
      BY <3>2, <3>3, <3>4
  <2>3. payload[b].op = "upsert" /\ payload[b].content = 0
    BY <1>3, <2>1 DEF NoPayload
  <2>4. \A d \in Devices, t \in Tasks : row[d][t] = IF t = b.task THEN r ELSE NoRow
    BY <1>3
  <2> HIDE DEF r
  <2>5. \A t \in Tasks : /\ Now(t) = IF t = b.task THEN b ELSE NoEvent
                         /\ seq[Account][t] = IF t = b.task THEN 1 ELSE 0
    BY <1>3, Constants DEF Now
  <2>6. \A d \in Devices, t \in Tasks :
           /\ rowEvent[d][t] = Now(t)
           /\ lastId[d][t] = IF t = b.task THEN b.eventId ELSE 0
    BY <1>3 DEF Now
  <2>7. /\ counter[Account] = 1
        /\ \A d \in Devices : cursor[d] = 1 /\ \A s \in Slots : pull[d][s] = Idle
    BY <1>1, <1>3, Constants
  <2> QED
    BY <2>1, <2>2, <2>3, <2>4, <2>5, <2>6, <2>7, BaseData
<1> QED
  BY <1>2, <1>3 DEF Init

LEMMA StepData ==
    ASSUME ClocksAgree, TypeInv, PushCovered, AllSaid, DataInv, [Next]_vars
    PROVE  DataInv'
<1>1. ASSUME NEW e \in Events, NEW op \in {"upsert", "delete"}, OtherDevice(e, op)
      PROVE  DataInv'
  BY <1>1, OtherData
<1>2. ASSUME NEW d \in Devices, NEW t \in Tasks, NEW op \in {"upsert", "delete"},
             EditRow(d, t, op)
      PROVE  DataInv'
  BY <1>2, EditData
<1>3. ASSUME NEW d \in Devices, NEW x \in edits[d], ReadSnapshot(d, x) \/ QueueEvent(d, x)
      PROVE  DataInv'
  BY <1>3, ReadData, QueueData
<1>4. ASSUME NEW d \in Devices, NEW s \in Flushes,
             ServePush(d, s) \/ PushAnswered(d, s) \/ SendRest(d, s)
      PROVE  DataInv'
  BY <1>4, ServeData, AnsweredData, SendRestData
<1>5. ASSUME NEW d \in Devices, NEW s \in Slots,
             \/ StartPull(d, s) \/ Compare(d, s) \/ Replace(d, s)
             \/ PullEnds(d, s) \/ PullFails(d, s)
      PROVE  DataInv'
  BY <1>5, StartPullData, CompareData, ReplaceData, PullEndsData DEF AllSaid
<1>6. ASSUME NEW d \in Devices, StartEngine(d) \/ ResyncPull(d) \/ Restart(d)
      PROVE  DataInv'
  BY <1>6, StartEngineData, ResyncPullData, RestartData
<1>7. ASSUME NEW d \in Devices, NEW t \in Tasks, NEW r \in Row,
             EnqueueSnapshot(d, [task |-> t, snap |-> r])
      PROVE  DataInv'
  BY <1>7, EnqueueData
<1>8. ASSUME NEW d \in Devices,
             \/ Refresh(d) \/ TakeSnapshots(d) \/ ResyncFlush(d) \/ ResyncEnds(d)
             \/ Enable(d) \/ Disable(d)
             \/ \E t \in Tasks : Age(d, t)
             \/ \E s \in Flushes : \/ Flush(d, s) \/ CheckRow(d, s)
                                   \/ PushRefused(d, s) \/ PushFails(d, s)
      PROVE  DataInv'
  BY <1>8, QuietData DEF Refresh, TakeSnapshots, ResyncFlush, ResyncEnds, Enable, Disable, Age,
                         Flush, CheckRow, PushRefused, PushFails
<1>9. CASE UNCHANGED vars
  BY <1>9, QuietData DEF vars, localVars, history
<1> QED
  BY <1>1, <1>2, <1>3, <1>4, <1>5, <1>6, <1>7, <1>8, <1>9 DEF Next

\* A row that is at rest, and not excused, is the row the server has: it is no older,
\* because the cursor has passed the server's event, and no newer, because the server
\* has had an event as new as the row.
LEMMA DataConverges ==
    ASSUME TypeInv, DataInv, NEW d \in Devices, NEW t \in Tasks,
           Settled(d, t), t \notin unqueued[d] \cup mismerged[d]
    PROVE  Agrees(d, t)
<1>1. AccountedFor(d, t) /\ ToldAt(d, t)
  BY DEF DataInv, Accounted, RowTold
<1>2. ~Editing(d, t)
  BY DEF Settled, Editing
<1>3. row[d][t] = NoRow \/ Vouched(d, t)
  BY <1>1, <1>2 DEF AccountedFor
<1>4. ASSUME Vouched(d, t)
      PROVE  \E f \in Events :
                /\ f.task = t /\ f.updatedAt = row[d][t].at
                /\ rowEvent[d][t] # NoEvent => f.eventId >= rowEvent[d][t].eventId
                /\ Covers(Now(t), f)
  BY <1>4 DEF Vouched, Settled
<1>5. CASE Now(t) = NoEvent
  <2>1. ~Vouched(d, t)
    BY <1>4, <1>5 DEF Covers
  <2> QED
    BY <1>3, <1>5, <2>1 DEF Agrees, Now
<1>6. CASE Now(t) # NoEvent
  <2>0. /\ Now(t) \in Events /\ Now(t).updatedAt \in Nat /\ Now(t).updatedAt > 0
        /\ Now(t).eventId \in Nat /\ row[d][t].at \in Nat
        /\ rowEvent[d][t] # NoEvent => /\ rowEvent[d][t] \in Events
                                       /\ rowEvent[d][t].eventId \in Nat
    BY <1>6, Readings, Constants
  <2>1. UpTo(d, t)
    <3>1. cursor[d] \in Nat /\ seq[Account][t] \in Nat /\ cursor[d] >= seq[Account][t]
      BY Readings DEF Settled
    <3>2. Filed(t, cursor[d])
      BY <1>6, <3>1 DEF Filed
    <3> QED
      BY <3>2 DEF DataInv, CursorMerged, Has
  <2>2. row[d][t] # NoRow
    BY <2>0, <2>1 DEF UpTo, NoRow
  <2>3. PICK f \in Events :
           /\ f.updatedAt = row[d][t].at
           /\ rowEvent[d][t] # NoEvent => f.eventId >= rowEvent[d][t].eventId
           /\ Covers(Now(t), f)
    BY <1>3, <1>4, <2>2
  <2>4. f.updatedAt \in Nat /\ f.eventId \in Nat
    BY EventsTyped
  <2>5. row[d][t].at = Now(t).updatedAt /\ f.eventId =< Now(t).eventId
    BY <2>0, <2>1, <2>3, <2>4 DEF UpTo, Covers, Supersedes
  <2>6. rowEvent[d][t] # NoEvent /\ rowEvent[d][t].eventId >= Now(t).eventId
    BY <2>0, <2>1, <2>5 DEF UpTo
  <2>7. rowEvent[d][t].eventId = Now(t).eventId
    BY <2>0, <2>3, <2>4, <2>5, <2>6
  <2>8. rowEvent[d][t] = Now(t)
    BY <2>0, <2>6, <2>7, EventIdsUnique
  <2> QED
    BY <1>1, <1>6, <2>8 DEF ToldAt, Agrees, Now
<1> QED
  BY <1>5, <1>6

\* With clocks that agree, the invariant holds of every reachable state.
THEOREM DataInvariant == ASSUME ClocksAgree PROVE Spec => []DataInv
<1>1. TypeInv /\ PushCovered /\ AllSaid /\ DataInv /\ [Next]_vars => DataInv'
  BY StepData
<1> QED
  BY <1>1, InitData, TypesInvariant, ServedIsCovered, EventsAreBuilt, PTL DEF Spec

\* A device that is up to date has what the server has, as long as every edit is
\* stamped later than the version it edits (TaskStore.ts:336-371, 437-471).
THEOREM DevicesConverge == ASSUME ClocksAgree PROVE Spec => []Converged
<1>1. TypeInv /\ DataInv => Converged
  BY DataConverges DEF Converged
<1> QED
  BY <1>1, TypesInvariant, DataInvariant, PTL

=============================================================================
