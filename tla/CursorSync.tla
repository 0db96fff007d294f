----------------------------- MODULE CursorSync -----------------------------
(***************************************************************************)
(* Devices that follow an account's events over REST, by cursor            *)
(* (GET /v1/sync/pull, SyncEngine.pullSince).                              *)
(*                                                                         *)
(* A reader asks for what lies after its cursor, applies the answer task   *)
(* by task and then stores the cursor that came with it.  Several answers  *)
(* may be under way to one reader (the pull timer and the visibility       *)
(* listener both start pulls), arrive in any order, get lost, or find the  *)
(* reader gone half way through applying them.  How a device merges an     *)
(* event with its own edits is module SyncClient; here it keeps the newer. *)
(***************************************************************************)
EXTENDS SqliteStore, FiniteSets

CONSTANTS
    Readers,            \* device installations
    AccountOf,          \* the account each reader is signed in to
    MaxInFlight         \* bound: pull answers under way per reader

ASSUME ReadersTyped == AccountOf \in [Readers -> Accounts]
ASSUME MaxInFlightTyped == MaxInFlight \in Nat

VARIABLES
    cursor,     \* per reader: its persisted cursor
    view,       \* per reader: the newest event it has applied per task
    answers     \* per reader: pull answers under way

readerVars == <<cursor, view, answers>>
vars == <<storeVars, readerVars>>

Answer == [events : SUBSET Events, nextCursor : 0 .. MaxSeq]

TypeOK ==
    /\ StoreTypeOK
    /\ cursor \in [Readers -> 0 .. MaxSeq]
    /\ view \in [Readers -> [Tasks -> Events \cup {NoEvent}]]
    /\ answers \in [Readers -> SUBSET Answer]

Init ==
    /\ StoreInit
    /\ cursor = [r \in Readers |-> 0]
    /\ view = [r \in Readers |-> [t \in Tasks |-> NoEvent]]
    /\ answers = [r \in Readers |-> {}]

-----------------------------------------------------------------------------
\* A newer event replaces what the reader has, an older one does not.
Apply(v, evs) ==
    [t \in Tasks |->
        IF \E e \in evs : e.task = t /\ ~Covers(v[t], e)
        THEN CHOOSE e \in evs : e.task = t /\ ~Covers(v[t], e)
        ELSE v[t]]

Pull(r) ==
    /\ Cardinality(answers[r]) < MaxInFlight
    /\ \E ans \in QueryEventsAfter(AccountOf[r], cursor[r]) :
          answers' = [answers EXCEPT ![r] = @ \cup {ans}]
    /\ UNCHANGED <<storeVars, cursor, view>>

\* The whole answer is applied, then its cursor is persisted.
ReceivePull(r, ans) ==
    /\ ans \in answers[r]
    /\ view' = [view EXCEPT ![r] = Apply(@, ans.events)]
    /\ cursor' = [cursor EXCEPT ![r] = ans.nextCursor]
    /\ answers' = [answers EXCEPT ![r] = @ \ {ans}]
    /\ UNCHANGED storeVars

\* The cursor is persisted before the events are applied.
MutLosePull(r, ans) ==
    /\ ans \in answers[r]
    /\ \E applied \in SUBSET ans.events :
          view' = [view EXCEPT ![r] = Apply(@, applied)]
    /\ cursor' = [cursor EXCEPT ![r] = ans.nextCursor]
    /\ answers' = [answers EXCEPT ![r] = @ \ {ans}]
    /\ UNCHANGED storeVars

\* The request or its answer is lost, or the reader stops after applying only
\* some of the events: the cursor stays where it was.
LosePull(r, ans) ==
    /\ ans \in answers[r]
    /\ \E applied \in SUBSET ans.events :
          view' = [view EXCEPT ![r] = Apply(@, applied)]
    /\ answers' = [answers EXCEPT ![r] = @ \ {ans}]
    /\ UNCHANGED <<storeVars, cursor>>

\* performFullResync starts over from the beginning of the log.
ResetCursor(r) ==
    /\ cursor[r] # 0
    /\ cursor' = [cursor EXCEPT ![r] = 0]
    /\ UNCHANGED <<storeVars, view, answers>>

-----------------------------------------------------------------------------
Write == \E a \in Accounts, e \in Events : PutEvent(a, e) /\ UNCHANGED readerVars

Next ==
    \/ Write
    \/ \E r \in Readers :
          \/ Pull(r)
          \/ ResetCursor(r)
          \/ \E ans \in answers[r] : ReceivePull(r, ans) \/ LosePull(r, ans)

Spec == Init /\ [][Next]_vars

\* A device that stays online polls on a timer (SyncEngine.scheduleTimers) and
\* not every answer is lost.
ReceiveAny(r) == \E ans \in answers[r] : ReceivePull(r, ans)

FairSpec == Spec /\ \A r \in Readers : WF_vars(Pull(r)) /\ SF_vars(ReceiveAny(r))

-----------------------------------------------------------------------------
(* Properties.                                                             *)

\* A reader never moves its cursor past a row it has not applied: what is at
\* or below the cursor, the reader has, or has something newer.  A put that
\* gives an old seq to a new row, a query that skips a row, or a nextCursor
\* that is too high would break it (sqlite-store.ts:174-185, db.ts:67-70).
CursorComplete ==
    \A r \in Readers : \A t \in Tasks :
        LET cur == event[AccountOf[r]][t] IN
        cur # NoEvent /\ seq[AccountOf[r]][t] =< cursor[r]
            => Covers(view[r][t], cur)

\* A task that a write touches moves above every cursor the server has ever
\* handed out, so every reader is told again (docs/sync-protocol.md 7.2).
WritesLandAfterCursors ==
    [][\A a \in Accounts, t \in Tasks :
          event'[a][t] # event[a][t] =>
             /\ event[a][t] # NoEvent => Supersedes(event'[a][t], event[a][t])
             /\ \A r \in Readers : AccountOf[r] = a =>
                   /\ seq'[a][t] > cursor[r]
                   /\ \A ans \in answers[r] : seq'[a][t] > ans.nextCursor]_vars

\* A device that keeps polling learns of every event anyone pushed to its
\* account, or of a newer one for the same task, lost answers and cursor resets
\* notwithstanding.
EventDelivered ==
    \A r \in Readers, e \in Events :
        (e \in submitted[AccountOf[r]]) ~> Covers(view[r][e.task], e)
=============================================================================
