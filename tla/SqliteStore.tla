---------------------------- MODULE SqliteStore ----------------------------
(***************************************************************************)
(* The self-hosted server's event store, backend/core/src/lib/             *)
(* sqlite-store.ts: one row per account and task holding the current event *)
(* and the seq of the write that put it there, and one counter per         *)
(* account.  node:sqlite is synchronous, so a store call is one step, taken *)
(* where the call is made; the promise it returns settles later.           *)
(*                                                                         *)
(* This module has the state and the operations; CursorSync, PushHandler   *)
(* and WsHub extend it with the parties that use them.  The operators named *)
(* Mut... , here and in the other modules, are slips the code might have    *)
(* made; the properties are tested against them.                            *)
(***************************************************************************)
EXTENDS SyncEvents

CONSTANT MaxSeq         \* bound: putEvent calls per account

ASSUME MaxSeqTyped == MaxSeq \in Nat

VARIABLES
    counter,    \* seq_counters: the last seq allocated per account
    event,      \* events.payload: the current event per account and task
    seq,        \* events.seq: the seq that event was written under, 0 for no row
    submitted   \* history: every event putEvent was ever called with

storeVars == <<counter, event, seq, submitted>>

StoreTypeOK ==
    /\ counter \in [Accounts -> 0 .. MaxSeq]
    /\ event \in [Accounts -> [Tasks -> Events \cup {NoEvent}]]
    /\ seq \in [Accounts -> [Tasks -> 0 .. MaxSeq]]
    /\ submitted \in [Accounts -> SUBSET Events]

StoreInit ==
    /\ counter = [a \in Accounts |-> 0]
    /\ event = [a \in Accounts |-> [t \in Tasks |-> NoEvent]]
    /\ seq = [a \in Accounts |-> [t \in Tasks |-> 0]]
    /\ submitted = [a \in Accounts |-> {}]

\* nextSeq: the counter moves whether or not the write is then accepted.
NextSeq(a) == counter[a] + 1

\* The last write to arrive wins.
MutStaleNever(a, e) == FALSE

\* The two early returns of putEvent.
Stale(a, e) == Covers(event[a][e.task], e)

\* An upsert that leaves the seq column of an existing row alone.
MutPutKeepsSeq(a, e) ==
    /\ counter[a] < MaxSeq
    /\ counter' = [counter EXCEPT ![a] = NextSeq(a)]
    /\ submitted' = [submitted EXCEPT ![a] = @ \cup {e}]
    /\ IF Stale(a, e)
       THEN UNCHANGED <<event, seq>>
       ELSE /\ event' = [event EXCEPT ![a][e.task] = e]
            /\ seq' = IF event[a][e.task] = NoEvent
                      THEN [seq EXCEPT ![a][e.task] = NextSeq(a)] ELSE seq

PutEvent(a, e) ==
    /\ counter[a] < MaxSeq
    /\ counter' = [counter EXCEPT ![a] = NextSeq(a)]
    /\ submitted' = [submitted EXCEPT ![a] = @ \cup {e}]
    /\ IF Stale(a, e)
       THEN UNCHANGED <<event, seq>>
       ELSE /\ event' = [event EXCEPT ![a][e.task] = e]
            /\ seq' = [seq EXCEPT ![a][e.task] = NextSeq(a)]

\* The query skips the row right after the cursor.
MutTasksAfterSkips(a, c) == {t \in Tasks : event[a][t] # NoEvent /\ seq[a][t] > c + 1}

\* The tasks whose rows lie after a cursor.
TasksAfter(a, c) == {t \in Tasks : event[a][t] # NoEvent /\ seq[a][t] > c}

\* nextCursor as the next seq to be written.
MutCursorOneAhead(a, c) ==
    LET after == TasksAfter(a, c)
        seqs == {seq[a][t] : t \in after}
    IN  { [events |-> {event[a][t] : t \in after}, nextCursor |-> n + 1] :
            n \in {m \in seqs \cup {c} : \A s \in seqs : s =< m} }

\* The rows and, as nextCursor, the highest seq among them, or the cursor asked
\* for when there are none: a set holding the one answer.  (Rows are hidden
\* when archived_completed_at is old, but no push ever sets that column.)
QueryEventsAfter(a, c) ==
    LET after == TasksAfter(a, c)
        seqs == {seq[a][t] : t \in after}
    IN  { [events |-> {event[a][t] : t \in after}, nextCursor |-> n] :
            n \in {m \in seqs \cup {c} : \A s \in seqs : s =< m} }

-----------------------------------------------------------------------------
\* Whatever arrived, in whatever order and however often, the row of a task
\* holds the newest event ever pushed for it (sqlite-store.ts:151-172).
RowIsNewest ==
    \A a \in Accounts : \A e \in submitted[a] : Covers(event[a][e.task], e)

\* The store is a last-writer-wins map.
Lww == INSTANCE LwwMap WITH winner <- event
ImplementsLwwMap == Lww!Spec
=============================================================================
