-------------------------- MODULE CursorSyncProofs -------------------------
(***************************************************************************)
(* The safety properties of CursorSync for every set of accounts, tasks,  *)
(* events and readers, and every bound.                                    *)
(***************************************************************************)
EXTENDS CursorSync, StoreProofs

(***************************************************************************)
(* The inductive invariant.  CursorComplete alone is not inductive: an     *)
(* answer under way will move the cursor, so the rows it vouches for must  *)
(* be in it or already applied; and a new row must land above every cursor *)
(* in circulation, so none may exceed the counter.                         *)
(***************************************************************************)
RowsConsistent ==
    \A a \in Accounts, t \in Tasks :
        event[a][t] # NoEvent => event[a][t].task = t /\ seq[a][t] =< counter[a]

CursorsIssued ==
    \A r \in Readers :
        /\ cursor[r] =< counter[AccountOf[r]]
        /\ \A ans \in answers[r] : ans.nextCursor =< counter[AccountOf[r]]

AnswersKeyed ==
    \A r \in Readers : \A ans \in answers[r] :
        \A e, f \in ans.events : e.task = f.task => e = f

AnswersComplete ==
    \A r \in Readers : \A ans \in answers[r] : \A t \in Tasks :
        LET cur == event[AccountOf[r]][t] IN
        cur # NoEvent /\ seq[AccountOf[r]][t] =< ans.nextCursor
            => Covers(view[r][t], cur) \/ cur \in ans.events

IInv ==
    /\ TypeOK
    /\ RowsConsistent
    /\ CursorsIssued
    /\ AnswersKeyed
    /\ AnswersComplete
    /\ CursorComplete
    /\ RowIsNewest

-----------------------------------------------------------------------------
(* What readers do with answers.                                           *)

\* What a reader holds after applying a set of events with one event per task:
\* it has the type of a view, forgets nothing, and covers all it was given.
LEMMA ApplyLemma ==
    ASSUME NEW v \in [Tasks -> Events \cup {NoEvent}],
           NEW evs \in SUBSET Events,
           \A e, f \in evs : e.task = f.task => e = f
    PROVE  /\ Apply(v, evs) \in [Tasks -> Events \cup {NoEvent}]
           /\ \A t \in Tasks, f \in Events : Covers(v[t], f) => Covers(Apply(v, evs)[t], f)
           /\ \A e \in evs : Covers(Apply(v, evs)[e.task], e)
<1> DEFINE New(t) == {e \in evs : e.task = t /\ ~Covers(v[t], e)}
<1>1. ASSUME NEW t \in Tasks
      PROVE  Apply(v, evs)[t] \in New(t) \/ (New(t) = {} /\ Apply(v, evs)[t] = v[t])
  BY <1>1 DEF Apply
<1>2. Apply(v, evs) \in [Tasks -> Events \cup {NoEvent}]
  BY <1>1 DEF Apply
<1>3. ASSUME NEW t \in Tasks, NEW f \in Events, Covers(v[t], f)
      PROVE  Covers(Apply(v, evs)[t], f)
  <2>1. CASE New(t) = {} /\ Apply(v, evs)[t] = v[t]
    BY <2>1, <1>3
  <2>2. CASE Apply(v, evs)[t] \in New(t)
    <3> DEFINE e == Apply(v, evs)[t]
    <3>1. v[t] \in Events /\ e \in Events /\ ~Covers(v[t], e)
      BY <2>2, <1>3 DEF Covers
    <3>2. Covers(e, v[t])
      BY <3>1, CoversTotal
    <3> QED
      BY <3>1, <3>2, <1>3, CoversTransitive
  <2> QED
    BY <1>1, <2>1, <2>2
<1>4. ASSUME NEW e \in evs
      PROVE  Covers(Apply(v, evs)[e.task], e)
  <2>1. e \in Events /\ e.task \in Tasks
    BY EventsTyped
  <2>2. CASE Covers(v[e.task], e)
    BY <2>1, <2>2, <1>3
  <2>3. CASE ~Covers(v[e.task], e)
    <3>1. e \in New(e.task)
      BY <2>3
    <3>2. Apply(v, evs)[e.task] \in New(e.task)
      BY <3>1, <2>1, <1>1
    <3>3. Apply(v, evs)[e.task] = e
      BY <3>2
    <3> QED
      BY <3>3, <2>1, CoversReflexive
  <2> QED
    BY <2>2, <2>3
<1> QED
  BY <1>2, <1>3, <1>4
-----------------------------------------------------------------------------
(* What the one answer of a query looks like.                              *)

\* The answer to a query is typed, and covers every row after the cursor asked
\* for up to the cursor it returns.
LEMMA AnswerLemma ==
    ASSUME IInv, NEW r \in Readers,
           NEW ans \in QueryEventsAfter(AccountOf[r], cursor[r])
    PROVE  /\ ans \in Answer
           /\ ans.nextCursor =< counter[AccountOf[r]]
           /\ \A e, f \in ans.events : e.task = f.task => e = f
           /\ \A t \in Tasks :
                 LET cur == event[AccountOf[r]][t] IN
                 cur # NoEvent /\ seq[AccountOf[r]][t] =< ans.nextCursor
                     => Covers(view[r][t], cur) \/ cur \in ans.events
<1> DEFINE a == AccountOf[r]
           after == TasksAfter(a, cursor[r])
           seqs == {seq[a][t] : t \in after}
<1>1. a \in Accounts
  BY ReadersTyped
<1>2. PICK n \in seqs \cup {cursor[r]} :
          ans = [events |-> {event[a][t] : t \in after}, nextCursor |-> n]
  BY DEF QueryEventsAfter
<1>3. n \in 0 .. MaxSeq /\ n =< counter[a]
  BY <1>1, <1>2 DEF IInv, TypeOK, StoreTypeOK, RowsConsistent, CursorsIssued, TasksAfter
<1>4. ans.events \in SUBSET Events
  BY <1>1, <1>2 DEF IInv, TypeOK, StoreTypeOK, TasksAfter
<1>5. ans \in Answer
  BY <1>2, <1>3, <1>4 DEF Answer
<1>6. ASSUME NEW e \in ans.events, NEW f \in ans.events, e.task = f.task
      PROVE  e = f
  BY <1>1, <1>2, <1>6 DEF IInv, RowsConsistent, TasksAfter
<1>7. ASSUME NEW t \in Tasks, event[a][t] # NoEvent
      PROVE  Covers(view[r][t], event[a][t]) \/ event[a][t] \in ans.events
  <2>1. CASE t \in after
    BY <1>2, <2>1
  <2>2. CASE t \notin after
    <3>1. seq[a][t] =< cursor[r]
      BY <1>1, <1>7, <2>2 DEF TasksAfter, IInv, TypeOK, StoreTypeOK
    <3> QED
      BY <3>1, <1>7 DEF IInv, CursorComplete
  <2> QED
    BY <2>1, <2>2
<1> QED
  BY <1>2, <1>3, <1>5, <1>6, <1>7

-----------------------------------------------------------------------------
(* Each action preserves the invariant.                                    *)

\* The initial states satisfy the invariant.
LEMMA InitIInv == Init => IInv
BY ReadersTyped, MaxSeqTyped
   DEF Init, StoreInit, IInv, TypeOK, StoreTypeOK, RowsConsistent, CursorsIssued, AnswersKeyed,
       AnswersComplete, CursorComplete, RowIsNewest

\* PutEvent preserves the invariant: a row it replaces moves above every cursor
\* issued so far, so nothing is owed to any reader.
LEMMA PutEventIInv ==
    ASSUME IInv, NEW a \in Accounts, NEW e \in Events,
           PutEvent(a, e), UNCHANGED readerVars
    PROVE  IInv'
<1> DEFINE k == e.task
<1>0. k \in Tasks /\ e # NoEvent
  BY EventsTyped
<1>1. TypeOK'
  BY PutEventTyped DEF IInv, TypeOK, readerVars
<1>2. /\ counter' = [counter EXCEPT ![a] = @ + 1]
      /\ counter[a] \in Nat
  BY PutEventRows DEF IInv, TypeOK
<1>3. \A b \in Accounts : counter[b] \in Nat /\ counter[b] =< counter'[b]
  BY PutEventRows DEF IInv, TypeOK
\* A row either stays as it is, or becomes e above everything issued so far.
<1>4. \A b \in Accounts, t \in Tasks :
         \/ event'[b][t] = event[b][t] /\ seq'[b][t] = seq[b][t]
         \/ /\ b = a /\ t = k /\ ~Stale(a, e)
            /\ event'[b][t] = e /\ seq'[b][t] = counter'[b]
            /\ counter'[b] = counter[b] + 1
  BY PutEventRows DEF IInv, TypeOK
<1>5. RowsConsistent'
  <2> SUFFICES ASSUME NEW b \in Accounts, NEW t \in Tasks, event'[b][t] # NoEvent
               PROVE  event'[b][t].task = t /\ seq'[b][t] =< counter'[b]
    BY DEF RowsConsistent
  <2>1. CASE event'[b][t] = event[b][t] /\ seq'[b][t] = seq[b][t]
    <3>1. event[b][t].task = t /\ seq[b][t] =< counter[b]
      BY <2>1 DEF IInv, RowsConsistent
    <3>2. seq[b][t] \in Nat /\ counter'[b] \in Nat
      BY <1>1 DEF IInv, TypeOK, StoreTypeOK
    <3> QED
      BY <2>1, <3>1, <3>2, <1>3
  <2>2. CASE t = k /\ event'[b][t] = e /\ seq'[b][t] = counter'[b]
    BY <2>2, <1>1 DEF TypeOK, StoreTypeOK
  <2> QED
    BY <2>1, <2>2, <1>4
<1>6. CursorsIssued'
  BY <1>2, <1>3, ReadersTyped DEF IInv, TypeOK, StoreTypeOK, CursorsIssued, readerVars, Answer
<1>7. AnswersKeyed'
  BY DEF IInv, AnswersKeyed, readerVars
<1>8. AnswersComplete'
  <2> SUFFICES ASSUME NEW r \in Readers, NEW ans \in answers[r], NEW t \in Tasks,
                      event'[AccountOf[r]][t] # NoEvent,
                      seq'[AccountOf[r]][t] =< ans.nextCursor
               PROVE  \/ Covers(view[r][t], event'[AccountOf[r]][t])
                      \/ event'[AccountOf[r]][t] \in ans.events
    BY DEF AnswersComplete, readerVars
  <2> DEFINE b == AccountOf[r]
  <2>1. b \in Accounts /\ ans.nextCursor \in Nat /\ ans.nextCursor =< counter[b]
    BY ReadersTyped DEF IInv, TypeOK, StoreTypeOK, CursorsIssued, Answer
  <2>2. event'[b][t] = event[b][t] /\ seq'[b][t] = seq[b][t]
    BY <2>1, <1>3, <1>4
  <2> QED
    BY <2>2 DEF IInv, AnswersComplete
<1>9. CursorComplete'
  <2> SUFFICES ASSUME NEW r \in Readers, NEW t \in Tasks,
                      event'[AccountOf[r]][t] # NoEvent,
                      seq'[AccountOf[r]][t] =< cursor[r]
               PROVE  Covers(view[r][t], event'[AccountOf[r]][t])
    BY DEF CursorComplete, readerVars
  <2> DEFINE b == AccountOf[r]
  <2>1. b \in Accounts /\ cursor[r] \in Nat /\ cursor[r] =< counter[b]
    BY ReadersTyped DEF IInv, TypeOK, StoreTypeOK, CursorsIssued
  <2>2. event'[b][t] = event[b][t] /\ seq'[b][t] = seq[b][t]
    BY <2>1, <1>3, <1>4
  <2> QED
    BY <2>2 DEF IInv, CursorComplete
<1>10. RowIsNewest'
  BY PutEventNewest DEF IInv, TypeOK
<1> QED
  BY <1>1, <1>5, <1>6, <1>7, <1>8, <1>9, <1>10 DEF IInv
\* A reader that applies events of one answer: the whole answer and its
\* cursor, or any part of them without it.
LEMMA ApplyIInv ==
    ASSUME IInv, NEW r \in Readers, NEW ans \in answers[r],
           NEW evs \in SUBSET ans.events,
           view' = [view EXCEPT ![r] = Apply(@, evs)],
           \/ cursor' = cursor
           \/ evs = ans.events /\ cursor' = [cursor EXCEPT ![r] = ans.nextCursor],
           answers' = [answers EXCEPT ![r] = @ \ {ans}],
           UNCHANGED storeVars
    PROVE  IInv'
<1>0. /\ ans \in Answer /\ evs \in SUBSET Events
      /\ view[r] \in [Tasks -> Events \cup {NoEvent}]
      /\ \A e, f \in evs : e.task = f.task => e = f
  BY DEF IInv, TypeOK, StoreTypeOK, AnswersKeyed, Answer
<1>1. /\ Apply(view[r], evs) \in [Tasks -> Events \cup {NoEvent}]
      /\ \A t \in Tasks, f \in Events :
            Covers(view[r][t], f) => Covers(Apply(view[r], evs)[t], f)
      /\ \A e \in evs : Covers(Apply(view[r], evs)[e.task], e)
  BY <1>0, ApplyLemma
<1>2. TypeOK'
  <2>1. view' \in [Readers -> [Tasks -> Events \cup {NoEvent}]]
    BY <1>1 DEF IInv, TypeOK, StoreTypeOK
  <2>2. cursor' \in [Readers -> 0 .. MaxSeq]
    BY <1>0 DEF IInv, TypeOK, StoreTypeOK, Answer
  <2>3. answers' \in [Readers -> SUBSET Answer]
    BY DEF IInv, TypeOK, StoreTypeOK
  <2> QED
    BY <2>1, <2>2, <2>3 DEF IInv, TypeOK, StoreTypeOK, storeVars
<1>3. \A q \in Readers : answers'[q] \subseteq answers[q]
  BY DEF IInv, TypeOK, StoreTypeOK
\* No reader's view loses anything.
<1>4. \A q \in Readers, t \in Tasks, f \in Events :
         Covers(view[q][t], f) => Covers(view'[q][t], f)
  BY <1>1 DEF IInv, TypeOK, StoreTypeOK
<1>5. RowsConsistent'
  BY DEF IInv, RowsConsistent, storeVars
<1>6. CursorsIssued'
  BY <1>3 DEF IInv, TypeOK, StoreTypeOK, CursorsIssued, storeVars
<1>7. AnswersKeyed'
  BY <1>3 DEF IInv, AnswersKeyed
<1>8. \A q \in Readers, t \in Tasks :
         event[AccountOf[q]][t] # NoEvent => event[AccountOf[q]][t] \in Events
  <2> TAKE q \in Readers, t \in Tasks
  <2>1. AccountOf[q] \in Accounts
    BY ReadersTyped
  <2>2. event[AccountOf[q]][t] \in Events \cup {NoEvent}
    BY <2>1 DEF IInv, TypeOK, StoreTypeOK
  <2> QED
    BY <2>2
<1>9. AnswersComplete'
  <2> SUFFICES ASSUME NEW q \in Readers, NEW other \in answers'[q], NEW t \in Tasks,
                      event[AccountOf[q]][t] # NoEvent,
                      seq[AccountOf[q]][t] =< other.nextCursor
               PROVE  \/ Covers(view'[q][t], event[AccountOf[q]][t])
                      \/ event[AccountOf[q]][t] \in other.events
    BY DEF AnswersComplete, storeVars
  <2>1. \/ Covers(view[q][t], event[AccountOf[q]][t])
        \/ event[AccountOf[q]][t] \in other.events
    BY <1>3 DEF IInv, AnswersComplete
  <2> QED
    BY <2>1, <1>4, <1>8
<1>10. CursorComplete'
  <2> SUFFICES ASSUME NEW q \in Readers, NEW t \in Tasks,
                      event[AccountOf[q]][t] # NoEvent,
                      seq[AccountOf[q]][t] =< cursor'[q]
               PROVE  Covers(view'[q][t], event[AccountOf[q]][t])
    BY DEF CursorComplete, storeVars
  <2> DEFINE cur == event[AccountOf[q]][t]
  <2>1. CASE cursor'[q] = cursor[q]
    BY <2>1, <1>4, <1>8 DEF IInv, CursorComplete
  <2>2. CASE q = r /\ evs = ans.events /\ cursor'[q] = ans.nextCursor
    <3>1. Covers(view[r][t], cur) \/ cur \in evs
      BY <2>2 DEF IInv, AnswersComplete
    <3>2. cur.task = t
      BY ReadersTyped DEF IInv, RowsConsistent
    <3>3. view'[r][t] = Apply(view[r], evs)[t]
      BY DEF IInv, TypeOK, StoreTypeOK
    <3> QED
      BY <3>1, <3>2, <3>3, <2>2, <1>1, <1>8
  <2> QED
    BY <2>1, <2>2 DEF IInv, TypeOK, StoreTypeOK
<1>11. RowIsNewest'
  BY DEF IInv, RowIsNewest, storeVars
<1> QED
  BY <1>2, <1>5, <1>6, <1>7, <1>9, <1>10, <1>11 DEF IInv

\* Applying a whole answer and then storing its cursor preserves the invariant.
LEMMA ReceivePullIInv ==
    ASSUME IInv, NEW r \in Readers, NEW ans \in answers[r], ReceivePull(r, ans)
    PROVE  IInv'
BY ApplyIInv DEF ReceivePull

\* Losing an answer, or applying part of it, preserves the invariant.
LEMMA LosePullIInv ==
    ASSUME IInv, NEW r \in Readers, NEW ans \in answers[r], LosePull(r, ans)
    PROVE  IInv'
<1>1. PICK evs \in SUBSET ans.events : view' = [view EXCEPT ![r] = Apply(@, evs)]
  BY DEF LosePull
<1> QED
  BY <1>1, ApplyIInv DEF LosePull

\* Issuing a query preserves the invariant.
LEMMA PullIInv ==
    ASSUME IInv, NEW r \in Readers, Pull(r)
    PROVE  IInv'
<1>1. PICK ans \in QueryEventsAfter(AccountOf[r], cursor[r]) :
          answers' = [answers EXCEPT ![r] = @ \cup {ans}]
  BY DEF Pull
<1>2. UNCHANGED <<storeVars, cursor, view>>
  BY DEF Pull
<1>3. \A q \in Readers : \A other \in answers'[q] :
          other \in answers[q] \/ (q = r /\ other = ans)
  BY <1>1 DEF IInv, TypeOK, StoreTypeOK
<1>4. TypeOK'
  BY <1>1, <1>2, AnswerLemma DEF IInv, TypeOK, StoreTypeOK, storeVars
<1>5. CursorsIssued'
  BY <1>2, <1>3, AnswerLemma DEF IInv, CursorsIssued, storeVars
<1>6. AnswersKeyed'
  BY <1>3, AnswerLemma DEF IInv, AnswersKeyed
<1>7. AnswersComplete'
  BY <1>2, <1>3, AnswerLemma DEF IInv, AnswersComplete, storeVars
<1>8. RowsConsistent' /\ CursorComplete' /\ RowIsNewest'
  BY <1>2 DEF IInv, RowsConsistent, CursorComplete, RowIsNewest, storeVars
<1> QED
  BY <1>4, <1>5, <1>6, <1>7, <1>8 DEF IInv

\* Going back to cursor 0 preserves the invariant.
LEMMA ResetCursorIInv ==
    ASSUME IInv, NEW r \in Readers, ResetCursor(r)
    PROVE  IInv'
<1>1. cursor' = [cursor EXCEPT ![r] = 0] /\ UNCHANGED <<storeVars, view, answers>>
  BY DEF ResetCursor
<1>2. TypeOK'
  BY <1>1, MaxSeqTyped DEF IInv, TypeOK, StoreTypeOK, storeVars
<1>3. \A q \in Readers : cursor'[q] =< cursor[q]
  BY <1>1 DEF IInv, TypeOK, StoreTypeOK
<1>4. CursorsIssued'
  BY <1>1, <1>2, <1>3, ReadersTyped DEF IInv, TypeOK, StoreTypeOK, CursorsIssued, storeVars
<1>5. CursorComplete'
  <2> SUFFICES ASSUME NEW q \in Readers, NEW t \in Tasks,
                      event[AccountOf[q]][t] # NoEvent,
                      seq[AccountOf[q]][t] =< cursor'[q]
               PROVE  Covers(view[q][t], event[AccountOf[q]][t])
    BY <1>1 DEF CursorComplete, storeVars
  <2>1. seq[AccountOf[q]][t] =< cursor[q]
    BY <1>2, <1>3, ReadersTyped DEF IInv, TypeOK, StoreTypeOK
  <2> QED
    BY <2>1 DEF IInv, CursorComplete
<1>6. RowsConsistent' /\ AnswersKeyed' /\ AnswersComplete' /\ RowIsNewest'
  BY <1>1 DEF IInv, RowsConsistent, AnswersKeyed, AnswersComplete, RowIsNewest, storeVars
<1> QED
  BY <1>2, <1>4, <1>5, <1>6 DEF IInv

\* A stuttering step preserves the invariant.
LEMMA StutterIInv ==
    ASSUME IInv, UNCHANGED vars
    PROVE  IInv'
BY DEF IInv, vars, storeVars, readerVars, TypeOK, StoreTypeOK, RowsConsistent, CursorsIssued,
       AnswersKeyed, AnswersComplete, CursorComplete, RowIsNewest

-----------------------------------------------------------------------------
(* The theorems.                                                           *)

\* Every reachable state satisfies the inductive invariant.
THEOREM Invariance == Spec => []IInv
<1>1. Init => IInv
  BY InitIInv
<1>2. IInv /\ [Next]_vars => IInv'
  <2> SUFFICES ASSUME IInv, [Next]_vars
               PROVE  IInv'
    OBVIOUS
  <2>1. CASE Write
    BY <2>1, PutEventIInv DEF Write
  <2>2. ASSUME NEW r \in Readers, Pull(r)
        PROVE  IInv'
    BY <2>2, PullIInv
  <2>3. ASSUME NEW r \in Readers, ResetCursor(r)
        PROVE  IInv'
    BY <2>3, ResetCursorIInv
  <2>4. ASSUME NEW r \in Readers, NEW ans \in answers[r], ReceivePull(r, ans)
        PROVE  IInv'
    BY <2>4, ReceivePullIInv
  <2>5. ASSUME NEW r \in Readers, NEW ans \in answers[r], LosePull(r, ans)
        PROVE  IInv'
    BY <2>5, LosePullIInv
  <2>6. CASE UNCHANGED vars
    BY <2>6, StutterIInv
  <2> QED
    BY <2>1, <2>2, <2>3, <2>4, <2>5, <2>6 DEF Next
<1> QED
  BY <1>1, <1>2, PTL DEF Spec

\* Every variable keeps its type (the state of sqlite-store.ts and of a device's
\* cursor).
THEOREM TypeCorrect == Spec => []TypeOK
BY Invariance, PTL DEF IInv

\* No device ever persists a cursor past an event it has not applied, however
\* its pulls overlap, are lost or are cut short.
THEOREM CursorCompleteness == Spec => []CursorComplete
BY Invariance, PTL DEF IInv

\* The row of a task always holds the newest event ever pushed for it.
THEOREM NewestWins == Spec => []RowIsNewest
BY Invariance, PTL DEF IInv

\* An accepted write replaces an event by a newer one and lands above every
\* cursor in circulation.
THEOREM WritesLandAbove == Spec => WritesLandAfterCursors
<1> DEFINE Lands ==
      \A a \in Accounts, t \in Tasks :
          event'[a][t] # event[a][t] =>
             /\ event[a][t] # NoEvent => Supersedes(event'[a][t], event[a][t])
             /\ \A r \in Readers : AccountOf[r] = a =>
                   /\ seq'[a][t] > cursor[r]
                   /\ \A ans \in answers[r] : seq'[a][t] > ans.nextCursor
<1>1. IInv /\ [Next]_vars => [Lands]_vars
  <2> SUFFICES ASSUME IInv, [Next]_vars
               PROVE  Lands
    OBVIOUS
  <2>1. CASE Write
    <3>1. PICK b \in Accounts, e \in Events : PutEvent(b, e) /\ UNCHANGED readerVars
      BY <2>1 DEF Write
    <3> SUFFICES ASSUME NEW a \in Accounts, NEW t \in Tasks,
                        event'[a][t] # event[a][t]
                 PROVE  /\ event[a][t] # NoEvent => Supersedes(event'[a][t], event[a][t])
                        /\ \A r \in Readers : AccountOf[r] = a =>
                              /\ seq'[a][t] > cursor[r]
                              /\ \A ans \in answers[r] : seq'[a][t] > ans.nextCursor
      OBVIOUS
    <3>2. a = b /\ t = e.task /\ ~Stale(b, e) /\ event'[a][t] = e
      BY <3>1 DEF IInv, TypeOK, StoreTypeOK, PutEvent
    <3>3. seq'[a][t] = counter[a] + 1
      BY <3>1, <3>2 DEF IInv, TypeOK, StoreTypeOK, PutEvent, NextSeq
    <3>4. event[a][t] # NoEvent => Supersedes(e, event[a][t])
      BY <3>2 DEF Stale, Covers
    <3>5. ASSUME NEW r \in Readers, AccountOf[r] = a
          PROVE  /\ seq'[a][t] > cursor[r]
                 /\ \A ans \in answers[r] : seq'[a][t] > ans.nextCursor
      BY <3>3, <3>5 DEF IInv, TypeOK, StoreTypeOK, CursorsIssued, Answer
    <3> QED
      BY <3>2, <3>4, <3>5
  <2>2. CASE event' = event
    BY <2>2
  <2> QED
    BY <2>1, <2>2 DEF Next, Pull, ResetCursor, ReceivePull, LosePull, vars, storeVars
<1> QED
  BY <1>1, Invariance, PTL DEF Spec, WritesLandAfterCursors

\* The SQLite store is a last-writer-wins map: a put is a Submit, and no other
\* step touches the winners.
THEOREM Refinement == Spec => ImplementsLwwMap
<1>1. Init => Lww!Init
  BY DEF Init, StoreInit, Lww!Init
<1>2. IInv /\ [Next]_vars => [Lww!Next]_event
  <2> SUFFICES ASSUME IInv, [Next]_vars, event' # event
               PROVE  Lww!Next
    OBVIOUS
  <2>1. PICK a \in Accounts, e \in Events : PutEvent(a, e)
    BY DEF Next, Write, Pull, ResetCursor, ReceivePull, LosePull, vars, storeVars
  <2>2. event' = [event EXCEPT ![a][e.task] = Latest(@, e)]
    BY <2>1 DEF PutEvent, Stale, Latest
  <2> QED
    BY <2>2 DEF Lww!Next, Lww!Submit, Lww!Latest, Lww!Covers, Lww!Supersedes,
                Latest, Covers, Supersedes
<1> QED
  BY <1>1, <1>2, Invariance, PTL DEF Spec, ImplementsLwwMap, Lww!Spec
=============================================================================
