------------------------- MODULE DynamoStoreProofs -------------------------
(***************************************************************************)
(* The safety properties of DynamoStore, and that it is a last-writer-wins *)
(* map, for any number of writers, tasks, events and page sizes.           *)
(***************************************************************************)
EXTENDS DynamoStore, TLAPS, FiniteSetTheorems

(***************************************************************************)
(* The conflict order.                                                     *)
(***************************************************************************)

\* Covering is reflexive and transitive on events.
LEMMA CoversOrder ==
    /\ \A e \in Events : Covers(e, e)
    /\ \A x, y, z \in Events : Covers(x, y) /\ Covers(y, z) => Covers(x, z)
BY EventsTyped DEF Covers, Supersedes

\* What is kept when two events meet covers both.
LEMMA LatestCovers ==
    ASSUME NEW cur \in Events \cup {NoEvent}, NEW e \in Events
    PROVE  /\ Latest(cur, e) \in Events
           /\ Covers(Latest(cur, e), e)
           /\ \A f \in Events : Covers(cur, f) => Covers(Latest(cur, e), f)
<1>1. CASE cur = NoEvent
  BY <1>1, EventsTyped, CoversOrder DEF Latest, Covers
<1>2. CASE cur \in Events
  <2>1. Covers(cur, e) \/ Covers(e, cur)
    BY <1>2, EventsTyped DEF Covers, Supersedes
  <2> QED
    BY <1>2, <2>1, CoversOrder DEF Latest
<1> QED
  BY <1>1, <1>2

\* The ConditionExpression asks whether the stored event leaves room for e.
LEMMA PutAllowedMeans ==
    ASSUME NEW e \in Events, event[Account][e.task] \in Events \cup {NoEvent}
    PROVE  PutAllowed(e) <=> ~Covers(event[Account][e.task], e)
BY EventsTyped DEF PutAllowed, Covers, Supersedes

-----------------------------------------------------------------------------
(* Types.                                                                  *)

Put == [phase : {"put"}, ev : Events, seq : 1 .. MaxSeq]

Query == [phase : {"paging", "answered"}, results : [Tasks -> Events \cup {NoEvent}],
          nextCursor : 0 .. MaxSeq]

TypeOK ==
    /\ counter \in 0 .. MaxSeq /\ cursor \in 0 .. MaxSeq
    /\ event \in [Accounts -> [Tasks -> Events \cup {NoEvent}]]
    /\ place \in [Events -> 0 .. MaxSeq]
    /\ shown \in [Tasks -> Events \cup {NoEvent}]
    /\ submitted \subseteq Events
    /\ put \in [Writers -> {Idle} \cup Put]
    /\ view \in [Tasks -> Events \cup {NoEvent}]
    /\ query \in {Idle} \cup Query
    /\ late \subseteq Tasks

\* The row of a task.
Row(t) == event[Account][t]

LEMMA RowTyped ==
    ASSUME TypeOK, NEW t \in Tasks
    PROVE  Row(t) \in Events \cup {NoEvent}
BY AccountTyped DEF TypeOK, Row

\* Where the index has a task, if it has it.
LEMMA SeqTyped ==
    ASSUME TypeOK, NEW t \in Tasks, shown[t] # NoEvent
    PROVE  shown[t] \in Events /\ Seq(t) \in 0 .. MaxSeq
BY DEF TypeOK, Seq

LEMMA PutFields ==
    ASSUME TypeOK, NEW w \in Writers, put[w] # Idle
    PROVE  put[w] \in Put /\ put[w].ev \in Events /\ put[w].ev.task \in Tasks
           /\ put[w].seq \in 1 .. MaxSeq
BY EventsTyped DEF TypeOK, Put

LEMMA QueryFields ==
    ASSUME TypeOK, query # Idle
    PROVE  /\ query \in Query /\ query.nextCursor \in 0 .. MaxSeq
           /\ query.results \in [Tasks -> Events \cup {NoEvent}]
BY DEF TypeOK, Query

LEMMA PagingIsNotIdle ==
    /\ Paging => query # Idle
    /\ query.phase = "answered" => query # Idle
BY DEF Paging, Idle

-----------------------------------------------------------------------------
(* The steps that do more than assign.                                     *)

\* An event that the index comes to show.
LEMMA ShowStep ==
    ASSUME TypeOK, NEW e \in Events, NEW n \in Nat, Show(e, n)
    PROVE  /\ shown' \in [Tasks -> Events \cup {NoEvent}] /\ late' \subseteq Tasks
           /\ shown'[e.task] = e
           /\ \A t \in Tasks : t # e.task => shown'[t] = shown[t] /\ (t \in late' <=> t \in late)
           /\ e.task \notin late' => n > Reached \/ Covers(view[e.task], e)
<1>1. e.task \in Tasks
  BY EventsTyped
<1>2. Reached \in Nat
  BY QueryFields DEF Reached, TypeOK
<1> QED
  BY <1>1, <1>2 DEF Show, TypeOK

\* A put either leaves the store alone, being covered, or takes the row of its
\* task over.
LEMMA PutStep ==
    ASSUME TypeOK, NEW w \in Writers, ConditionalPut(w)
    PROVE  LET e == put[w].ev IN
           /\ e \in Events /\ e.task \in Tasks /\ put[w].seq \in 1 .. MaxSeq
           /\ \/ /\ Covers(Row(e.task), e)
                 /\ UNCHANGED <<event, place, shown, late>>
              \/ /\ ~Covers(Row(e.task), e)
                 /\ event' = [event EXCEPT ![Account] = [event[Account] EXCEPT ![e.task] = e]]
                 /\ event'[Account][e.task] = e
                 /\ \A t \in Tasks : t # e.task => event'[Account][t] = event[Account][t]
                 /\ place' = [place EXCEPT ![e] = put[w].seq]
                 /\ UNCHANGED <<shown, late>> \/ Show(e, put[w].seq)
<1> DEFINE e == put[w].ev
<1>1. e \in Events /\ e.task \in Tasks /\ put[w].seq \in 1 .. MaxSeq
  BY PutFields DEF ConditionalPut
<1>2. PutAllowed(e) <=> ~Covers(Row(e.task), e)
  BY <1>1, RowTyped, PutAllowedMeans DEF Row
<1>3. CASE ~PutAllowed(e)
  BY <1>1, <1>2, <1>3 DEF ConditionalPut
<1>4. CASE PutAllowed(e)
  <2>1. /\ event' = [event EXCEPT ![Account] = [event[Account] EXCEPT ![e.task] = e]]
        /\ place' = [place EXCEPT ![e] = put[w].seq]
        /\ UNCHANGED <<shown, late>> \/ Show(e, put[w].seq)
    BY <1>4 DEF ConditionalPut
  <2>2. event'[Account] = [event[Account] EXCEPT ![e.task] = e]
    BY <2>1, AccountTyped DEF TypeOK
  <2>3. /\ event'[Account][e.task] = e
        /\ \A t \in Tasks : t # e.task => event'[Account][t] = event[Account][t]
    BY <1>1, <2>2, AccountTyped DEF TypeOK
  <2> QED
    BY <1>1, <1>2, <1>4, <2>1, <2>3
<1> QED
  BY <1>3, <1>4

\* A page has every row from where the query is up to where the page ends: the
\* rows before its last one are fewer than those before a row left out.
LEMMA PageComplete ==
    ASSUME TypeOK, NEW k \in Nat, NEW n \in HighestSeq(Page(k), k), NEW t \in Tasks,
           shown[t] # NoEvent, Seq(t) > k, Seq(t) =< n
    PROVE  t \in Page(k)
<1> DEFINE Before(s) == {u \in RowsAfter(k) : Seq(u) < s}
<1>1. Seq(t) \in Nat /\ \A u \in RowsAfter(k) : Seq(u) \in Nat
  BY SeqTyped DEF RowsAfter
<1>2. t \in RowsAfter(k)
  BY DEF RowsAfter
<1>3. n # k
  BY <1>1
<1>4. PICK h \in Page(k) : n = Seq(h)
  BY <1>3 DEF HighestSeq
<1>5. h \in RowsAfter(k) /\ Cardinality(Before(Seq(h))) < PageSize
  BY <1>4 DEF Page
<1>6. IsFiniteSet(Before(Seq(h)))
  BY TasksFinite, FS_Subset DEF RowsAfter
<1>7. Before(Seq(t)) \subseteq Before(Seq(h))
  BY <1>1, <1>4, <1>5 DEF RowsAfter
<1>8. Cardinality(Before(Seq(t))) =< Cardinality(Before(Seq(h)))
  BY <1>6, <1>7, FS_Subset
<1>9. /\ Cardinality(Before(Seq(h))) \in Nat /\ Cardinality(Before(Seq(t))) \in Nat
      /\ PageSize \in Nat
  BY <1>6, <1>7, FS_Subset, FS_CardinalityType, BoundsTyped
<1>10. Cardinality(Before(Seq(t))) < PageSize
  BY <1>5, <1>8, <1>9
<1> QED
  BY <1>2, <1>10 DEF Page

\* What a page does to a query.
LEMMA PageStep ==
    ASSUME TypeOK, query # Idle, NEW q \in NextPage
    PROVE  LET k == query.nextCursor IN
           /\ k \in 0 .. MaxSeq
           /\ q.nextCursor \in HighestSeq(Page(k), k)
           /\ q.nextCursor \in k .. MaxSeq
           /\ q.phase = query.phase
           /\ q.results \in [Tasks -> Events \cup {NoEvent}]
           /\ q \in Query
           /\ \A t \in Tasks :
                 q.results[t] = IF t \in Page(k) THEN Latest(query.results[t], shown[t])
                                ELSE query.results[t]
<1> DEFINE k == query.nextCursor
           res == [t \in Tasks |-> IF t \in Page(k) THEN Latest(query.results[t], shown[t])
                                   ELSE query.results[t]]
<1>1. PICK n \in HighestSeq(Page(k), k) :
         q = [query EXCEPT !.results = res, !.nextCursor = n]
  BY DEF NextPage
<1>2. query \in Query /\ k \in 0 .. MaxSeq /\ query.results \in [Tasks -> Events \cup {NoEvent}]
  BY QueryFields
<1>3. \A t \in Page(k) : t \in Tasks /\ Seq(t) > k /\ Seq(t) \in 0 .. MaxSeq /\ shown[t] \in Events
  BY SeqTyped DEF Page, RowsAfter
<1>4. n \in k .. MaxSeq
  BY <1>2, <1>3 DEF HighestSeq
<1>5. res \in [Tasks -> Events \cup {NoEvent}]
  BY <1>2, <1>3, LatestCovers
<1> HIDE DEF res
<1>6. /\ q.phase = query.phase /\ q.results = res /\ q.nextCursor = n
  BY <1>1, <1>2 DEF Query
<1>7. q \in Query
  <2>1. [query EXCEPT !.results = res] \in Query
    BY <1>2, <1>5 DEF Query
  <2>2. n \in 0 .. MaxSeq
    BY <1>2, <1>4
  <2> QED
    BY <1>1, <2>1, <2>2 DEF Query
<1> QED
  BY <1>1, <1>2, <1>4, <1>5, <1>6, <1>7 DEF res

-----------------------------------------------------------------------------
(* Type correctness.                                                       *)

LEMMA TypeInit == Init => TypeOK
<1>1. ASSUME Init PROVE query \in {Idle} \cup Query /\ put \in [Writers -> {Idle} \cup Put]
  BY <1>1 DEF Init
<1>2. ASSUME Init PROVE counter \in 0 .. MaxSeq /\ cursor \in 0 .. MaxSeq /\ place \in [Events -> 0 .. MaxSeq]
  BY <1>2, BoundsTyped DEF Init
<1> QED
  BY <1>1, <1>2 DEF Init, TypeOK

LEMMA NextSeqTyped ==
    ASSUME TypeOK, NEW w \in Writers, NEW e \in Events, NextSeq(w, e)
    PROVE  TypeOK' /\ counter' = counter + 1 /\ counter' \in 1 .. MaxSeq
<1>1. counter' = counter + 1 /\ counter' \in 1 .. MaxSeq
  BY BoundsTyped DEF NextSeq, TypeOK
<1>2. [phase |-> "put", ev |-> e, seq |-> counter + 1] \in Put
  BY <1>1 DEF NextSeq, Put
<1> QED
  BY <1>1, <1>2 DEF NextSeq, TypeOK

LEMMA PutTyped ==
    ASSUME TypeOK, NEW w \in Writers, ConditionalPut(w)
    PROVE  TypeOK'
<1> DEFINE e == put[w].ev
<1>1. e \in Events /\ e.task \in Tasks /\ put[w].seq \in 1 .. MaxSeq
  BY PutStep
<1>2. [event[Account] EXCEPT ![e.task] = e] \in [Tasks -> Events \cup {NoEvent}]
  BY <1>1, AccountTyped DEF TypeOK
<1>3. event' \in [Accounts -> [Tasks -> Events \cup {NoEvent}]]
  BY <1>2, PutStep DEF TypeOK
<1>4. place' \in [Events -> 0 .. MaxSeq]
  BY <1>1, PutStep DEF TypeOK
<1>5. shown' \in [Tasks -> Events \cup {NoEvent}] /\ late' \subseteq Tasks
  BY <1>1, PutStep, ShowStep DEF TypeOK
<1> QED
  BY <1>1, <1>3, <1>4, <1>5 DEF ConditionalPut, TypeOK

LEMMA IndexTyped ==
    ASSUME TypeOK, (\E e \in Events : ReachIndex(e)) \/ (\E t \in Tasks : LeaveIndex(t))
    PROVE  TypeOK'
<1>1. ASSUME NEW e \in Events, ReachIndex(e) PROVE TypeOK'
  <2>1. place[e] \in Nat
    BY DEF TypeOK
  <2>2. shown' \in [Tasks -> Events \cup {NoEvent}] /\ late' \subseteq Tasks
    BY <1>1, <2>1, ShowStep DEF ReachIndex
  <2> QED
    BY <1>1, <2>2 DEF ReachIndex, TypeOK
<1>2. ASSUME NEW t \in Tasks, LeaveIndex(t) PROVE TypeOK'
  BY <1>2 DEF LeaveIndex, TypeOK
<1> QED
  BY <1>1, <1>2

LEMMA PageTyped ==
    ASSUME TypeOK, ReadPage \/ LastPage
    PROVE  TypeOK'
<1>1. CASE ReadPage
  <2>1. query' \in Query
    BY <1>1, PageStep, PagingIsNotIdle DEF ReadPage
  <2> QED
    BY <1>1, <2>1 DEF ReadPage, TypeOK
<1>2. CASE LastPage
  <2>1. PICK q \in NextPage : query' = [q EXCEPT !.phase = "answered"]
    BY <1>2 DEF LastPage
  <2>2. q \in Query
    BY <1>2, PageStep, PagingIsNotIdle DEF LastPage
  <2>3. query' \in Query
    BY <2>1, <2>2 DEF Query
  <2> QED
    BY <1>2, <2>3 DEF LastPage, TypeOK
<1> QED
  BY <1>1, <1>2

LEMMA AnswerTyped ==
    ASSUME TypeOK, ReceiveAnswer
    PROVE  TypeOK'
<1>1. query.nextCursor \in 0 .. MaxSeq /\ query.results \in [Tasks -> Events \cup {NoEvent}]
  BY QueryFields, PagingIsNotIdle DEF ReceiveAnswer
<1>2. view' \in [Tasks -> Events \cup {NoEvent}]
  BY <1>1, LatestCovers DEF ReceiveAnswer, Newest, TypeOK
<1> QED
  BY <1>1, <1>2 DEF ReceiveAnswer, TypeOK

LEMMA TypeStep ==
    ASSUME TypeOK, [Next]_vars
    PROVE  TypeOK'
<1>1. CASE UNCHANGED vars
  BY <1>1 DEF vars, TypeOK
<1>2. ASSUME NEW w \in Writers, WriterDies(w) PROVE TypeOK'
  BY <1>2 DEF WriterDies, TypeOK
<1>3. CASE StartQuery
  <2>1. query' \in Query
    BY <1>3 DEF StartQuery, Query, TypeOK
  <2> QED
    BY <1>3, <2>1 DEF StartQuery, TypeOK
<1>4. CASE LoseQuery
  BY <1>4 DEF LoseQuery, TypeOK
<1> QED
  BY <1>1, <1>2, <1>3, <1>4, NextSeqTyped, PutTyped, IndexTyped, PageTyped, AnswerTyped DEF Next

-----------------------------------------------------------------------------
(* The newest event whose put was evaluated.                               *)

LEMMA NewestStep ==
    ASSUME TypeOK, RowIsNewest, [Next]_vars
    PROVE  RowIsNewest'
<1>1. ASSUME NEW w \in Writers, ConditionalPut(w) PROVE RowIsNewest'
  <2> DEFINE e == put[w].ev
  <2>1. e \in Events /\ e.task \in Tasks /\ submitted' = submitted \cup {e}
    BY <1>1, PutStep DEF ConditionalPut
  <2>2. ASSUME NEW f \in submitted' PROVE Covers(event'[Account][f.task], f)
    <3>1. f \in Events /\ f.task \in Tasks
      BY <2>1, EventsTyped DEF TypeOK
    <3>2. f # e => Covers(Row(f.task), f)
      BY <2>1 DEF RowIsNewest, Row
    <3>3. CASE Covers(Row(e.task), e) /\ UNCHANGED event
      BY <3>2, <3>3 DEF Row
    <3>4. CASE /\ ~Covers(Row(e.task), e)
               /\ event'[Account][e.task] = e
               /\ \A t \in Tasks : t # e.task => event'[Account][t] = event[Account][t]
      <4>1. Covers(e, e)
        BY <2>1, CoversOrder
      <4>2. CASE f.task # e.task
        BY <3>1, <3>2, <3>4, <4>2 DEF Row
      <4>3. CASE f.task = e.task /\ f # e
        <5>1. Row(e.task) \in Events \cup {NoEvent}
          BY <2>1, RowTyped
        <5>2. Covers(Latest(Row(e.task), e), f)
          BY <2>1, <3>1, <3>2, <4>3, <5>1, LatestCovers
        <5> QED
          BY <3>4, <4>3, <5>2 DEF Latest
      <4> QED
        BY <3>4, <4>1, <4>2, <4>3
    <3> QED
      BY <1>1, <3>3, <3>4, PutStep
  <2> QED
    BY <2>2 DEF RowIsNewest
<1>2. CASE UNCHANGED <<event, submitted>>
  BY <1>2 DEF RowIsNewest
<1> QED
  BY <1>1, <1>2
  DEF Next, vars, NextSeq, WriterDies, ReachIndex, LeaveIndex, StartQuery, ReadPage, LastPage,
      ReceiveAnswer, LoseQuery

-----------------------------------------------------------------------------
(* Seqs.                                                                   *)

\* Only an event whose put was evaluated has a place, and only one that has a place
\* is in the index, under its task.
PlaceInv ==
    /\ \A e \in Events : place[e] # 0 => e \in submitted
    /\ \A t \in Tasks : shown[t] # NoEvent => place[shown[t]] # 0

\* So a put that passes its condition writes an event that had no place, and that
\* the index does not show.
LEMMA PutIsNew ==
    ASSUME TypeOK, RowIsNewest, PlaceInv, NEW e \in Events, ~Covers(Row(e.task), e)
    PROVE  place[e] = 0 /\ \A t \in Tasks : shown[t] # e
BY EventsTyped DEF RowIsNewest, PlaceInv, Row

LEMMA PlaceStep ==
    ASSUME TypeOK, PlaceInv, [Next]_vars
    PROVE  PlaceInv'
<1>1. ASSUME NEW w \in Writers, ConditionalPut(w) PROVE PlaceInv'
  <2> DEFINE e == put[w].ev
  <2>1. e \in Events /\ put[w].seq \in 1 .. MaxSeq /\ submitted' = submitted \cup {e}
    BY <1>1, PutStep DEF ConditionalPut
  <2>2. CASE UNCHANGED <<place, shown>>
    BY <2>1, <2>2 DEF PlaceInv
  <2>3. CASE place' = [place EXCEPT ![e] = put[w].seq]
             /\ (UNCHANGED <<shown, late>> \/ Show(e, put[w].seq))
    <3>1. /\ place'[e] = put[w].seq /\ put[w].seq # 0
          /\ \A f \in Events : f # e => place'[f] = place[f]
      BY <2>1, <2>3 DEF TypeOK
    <3>2. \A t \in Tasks : shown'[t] = shown[t] \/ shown'[t] = e
      BY <2>1, <2>3, ShowStep
    <3>3. \A t \in Tasks : shown[t] \in Events \cup {NoEvent}
      BY DEF TypeOK
    <3>4. \A f \in Events : place'[f] # 0 => f \in submitted'
      BY <2>1, <3>1 DEF PlaceInv
    <3>5. \A t \in Tasks : shown'[t] # NoEvent => place'[shown'[t]] # 0
      BY <3>1, <3>2, <3>3 DEF PlaceInv
    <3> QED
      BY <3>4, <3>5 DEF PlaceInv
  <2> QED
    BY <1>1, <2>2, <2>3, PutStep
<1>2. ASSUME NEW e \in Events, ReachIndex(e) PROVE PlaceInv'
  <2>1. place[e] \in Nat /\ place[e] # 0 /\ UNCHANGED <<place, submitted>>
    BY <1>2 DEF ReachIndex, TypeOK
  <2>2. \A t \in Tasks : shown'[t] = shown[t] \/ shown'[t] = e
    BY <1>2, <2>1, ShowStep DEF ReachIndex
  <2> QED
    BY <2>1, <2>2 DEF PlaceInv
<1>3. ASSUME NEW t \in Tasks, LeaveIndex(t) PROVE PlaceInv'
  BY <1>3 DEF LeaveIndex, PlaceInv, TypeOK
<1>4. CASE UNCHANGED <<place, shown, submitted>>
  BY <1>4 DEF PlaceInv
<1> QED
  BY <1>1, <1>2, <1>3, <1>4
  DEF Next, vars, NextSeq, WriterDies, StartQuery, ReadPage, LastPage, ReceiveAnswer, LoseQuery

\* No seq is ahead of the counter, and no two places and puts under way share one.
SeqInv ==
    /\ \A e \in Events : place[e] =< counter
    /\ \A w \in Writers : put[w] # Idle => put[w].seq =< counter
    /\ \A w \in Writers, e \in Events : put[w] # Idle => put[w].seq # place[e]
    /\ \A w, x \in Writers :
          put[w] # Idle /\ put[x] # Idle /\ put[w].seq = put[x].seq => w = x
    /\ SeqsDistinct

LEMMA SeqStep ==
    ASSUME TypeOK, SeqInv, [Next]_vars
    PROVE  SeqInv'
<1>1. ASSUME NEW w \in Writers, NEW e \in Events, NextSeq(w, e) PROVE SeqInv'
  <2>1. /\ put'[w] # Idle /\ put'[w].seq = counter'
        /\ \A x \in Writers : x # w => put'[x] = put[x]
    BY <1>1 DEF NextSeq, TypeOK, Idle
  <2>2. counter \in Nat /\ counter' = counter + 1 /\ place' = place
    BY <1>1 DEF NextSeq, TypeOK
  <2>3. \A f \in Events : place[f] \in Nat
    BY DEF TypeOK
  <2>4. \A x \in Writers : put[x] # Idle => put[x].seq \in Nat
    BY PutFields
  <2>5. \A f \in Events : place'[f] < counter'
    BY <2>2, <2>3 DEF SeqInv
  <2>6. \A x \in Writers : x # w /\ put'[x] # Idle => put'[x].seq < counter'
    BY <2>1, <2>2, <2>4 DEF SeqInv
  <2>7. SeqsDistinct'
    BY <2>2 DEF SeqInv, SeqsDistinct
  <2> QED
    BY <2>1, <2>2, <2>3, <2>4, <2>5, <2>6, <2>7 DEF SeqInv
<1>2. ASSUME NEW w \in Writers, ConditionalPut(w) PROVE SeqInv'
  <2> DEFINE e == put[w].ev
  <2>1. /\ put[w] # Idle /\ put'[w] = Idle /\ counter' = counter
        /\ \A x \in Writers : x # w => put'[x] = put[x]
    BY <1>2 DEF ConditionalPut, TypeOK
  <2>2. place' = place \/ (e \in Events /\ place' = [place EXCEPT ![e] = put[w].seq])
    BY <1>2, PutStep
  <2>3. \A f \in Events : place'[f] = place[f] \/ (f = e /\ place'[f] = put[w].seq)
    BY <2>2 DEF TypeOK
  <2>4. \A f \in Events : place'[f] =< counter'
    BY <2>1, <2>3 DEF SeqInv
  <2>5. \A x \in Writers, f \in Events : put'[x] # Idle => put'[x].seq # place'[f]
    BY <2>1, <2>3 DEF SeqInv
  <2>6. SeqsDistinct'
    BY <2>1, <2>3 DEF SeqInv, SeqsDistinct
  <2> QED
    BY <2>1, <2>4, <2>5, <2>6 DEF SeqInv
<1>3. ASSUME NEW w \in Writers, WriterDies(w) PROVE SeqInv'
  BY <1>3 DEF WriterDies, TypeOK, SeqInv, SeqsDistinct
<1>4. CASE UNCHANGED <<counter, place, put>>
  BY <1>4 DEF SeqInv, SeqsDistinct
<1> QED
  BY <1>1, <1>2, <1>3, <1>4
  DEF Next, vars, ReachIndex, LeaveIndex, StartQuery, ReadPage, LastPage, ReceiveAnswer, LoseQuery

-----------------------------------------------------------------------------
(* The reader.                                                             *)

\* What the index shows behind the cursor has been applied.  It says of every row of
\* the index, replaced ones too, what OnlyLateMissed says of current ones.
ShownCovered ==
    \A t \in Tasks \ late :
        shown[t] # NoEvent /\ Seq(t) =< cursor => Covers(view[t], shown[t])

\* What a running query has been past, after the cursor, is in its results.
QueryCovers ==
    query # Idle =>
        /\ query.nextCursor >= cursor
        /\ \A t \in Tasks \ late :
              shown[t] # NoEvent /\ Seq(t) > cursor /\ Seq(t) =< query.nextCursor
                  => Covers(query.results[t], shown[t]) \/ Covers(view[t], shown[t])

ReadInv == ShownCovered /\ QueryCovers

\* A row that comes to the index ahead of cursor and query is nothing either has
\* promised, and any other is covered by the view or marked late.
LEMMA ShowReads ==
    ASSUME TypeOK, ReadInv, NEW e \in Events, NEW n \in Nat, Show(e, n),
           place'[e] = n, \A f \in Events : f # e => place'[f] = place[f],
           (\A t \in Tasks : shown[t] # e) \/ place' = place,
           UNCHANGED <<cursor, view, query>>
    PROVE  ReadInv'
<1>1. cursor \in Nat /\ (query # Idle => query.nextCursor \in Nat)
  BY QueryFields DEF TypeOK
<1>2. e.task \notin late' =>
         \/ n > cursor /\ (query # Idle => n > query.nextCursor)
         \/ Covers(view[e.task], e)
  BY <1>1, ShowStep DEF Reached
<1>3. \A t \in Tasks \ late' :
         shown'[t] # NoEvent =>
            \/ t = e.task /\ shown'[t] = e /\ Seq(t)' = n
            \/ t \notin late /\ shown'[t] = shown[t] /\ Seq(t)' = Seq(t)
  <2> SUFFICES ASSUME NEW t \in Tasks \ late', shown'[t] # NoEvent, t # e.task
               PROVE  t \notin late /\ shown'[t] = shown[t] /\ Seq(t)' = Seq(t)
    BY ShowStep DEF Seq
  <2>1. t \notin late /\ shown'[t] = shown[t] /\ shown[t] \in Events
    BY ShowStep DEF TypeOK
  <2> QED
    BY <2>1 DEF Seq
<1>4. ShownCovered'
  BY <1>1, <1>2, <1>3 DEF ReadInv, ShownCovered
<1>5. QueryCovers'
  BY <1>1, <1>2, <1>3 DEF ReadInv, QueryCovers
<1> QED
  BY <1>4, <1>5 DEF ReadInv

LEMMA PutReads ==
    ASSUME TypeOK, RowIsNewest, PlaceInv, ReadInv, NEW w \in Writers, ConditionalPut(w)
    PROVE  ReadInv'
<1> DEFINE e == put[w].ev
<1>1. UNCHANGED <<cursor, view, query>>
  BY DEF ConditionalPut
<1>2. e \in Events /\ put[w].seq \in Nat
  BY PutStep
<1>3. CASE UNCHANGED <<place, shown, late>>
  BY <1>1, <1>3 DEF ReadInv, ShownCovered, QueryCovers, Seq
<1>4. CASE ~Covers(Row(e.task), e) /\ place' = [place EXCEPT ![e] = put[w].seq]
  <2>1. /\ place'[e] = put[w].seq /\ \A f \in Events : f # e => place'[f] = place[f]
        /\ \A t \in Tasks : shown[t] # e
    BY <1>2, <1>4, PutIsNew DEF TypeOK
  <2>2. CASE Show(e, put[w].seq)
    BY <1>1, <1>2, <2>1, <2>2, ShowReads
  <2>3. CASE UNCHANGED <<shown, late>>
    <3>1. \A t \in Tasks : shown[t] # NoEvent => Seq(t)' = Seq(t)
      BY <2>1, <2>3 DEF Seq, TypeOK
    <3> QED
      BY <1>1, <2>3, <3>1 DEF ReadInv, ShownCovered, QueryCovers
  <2> QED
    BY <2>2, <2>3, PutStep, <1>4 DEF ConditionalPut
<1> QED
  BY <1>3, <1>4, PutStep

LEMMA IndexReads ==
    ASSUME TypeOK, ReadInv,
           (\E e \in Events : ReachIndex(e)) \/ (\E t \in Tasks : LeaveIndex(t))
    PROVE  ReadInv'
<1>1. ASSUME NEW e \in Events, ReachIndex(e) PROVE ReadInv'
  <2>1. place[e] \in Nat
    BY DEF TypeOK
  <2> QED
    BY <1>1, <2>1, ShowReads DEF ReachIndex
<1>2. ASSUME NEW t \in Tasks, LeaveIndex(t) PROVE ReadInv'
  <2>1. \A u \in Tasks \ late' : shown'[u] # NoEvent =>
           u \notin late /\ shown'[u] = shown[u] /\ Seq(u)' = Seq(u)
    BY <1>2 DEF LeaveIndex, Seq, TypeOK
  <2> QED
    BY <1>2, <2>1 DEF LeaveIndex, ReadInv, ShownCovered, QueryCovers
<1> QED
  BY <1>1, <1>2

LEMMA PageReads ==
    ASSUME TypeOK, ReadInv, query # Idle, NEW q \in NextPage, query' # Idle,
           query'.results = q.results, query'.nextCursor = q.nextCursor,
           late' = late \ Page(query.nextCursor),
           UNCHANGED <<place, shown, cursor, view>>
    PROVE  ReadInv'
<1> DEFINE k == query.nextCursor
           n == q.nextCursor
<1>1. /\ k \in Nat /\ n \in Nat /\ n >= k /\ n \in HighestSeq(Page(k), k)
      /\ \A t \in Tasks : q.results[t] = IF t \in Page(k) THEN Latest(query.results[t], shown[t])
                                         ELSE query.results[t]
  BY PageStep
<1>2. cursor \in Nat /\ k >= cursor
  BY DEF TypeOK, ReadInv, QueryCovers
<1>3. \A t \in Page(k) : Seq(t) > k
  BY DEF Page, RowsAfter
<1>4. \A t \in Tasks : shown[t] # NoEvent => Seq(t) \in Nat
  BY SeqTyped
<1>5. ASSUME NEW t \in Tasks \ late', shown[t] # NoEvent, Seq(t) > cursor, Seq(t) =< n
      PROVE  Covers(q.results[t], shown[t]) \/ Covers(view[t], shown[t])
  <2>1. CASE Seq(t) > k
    <3>1. t \in Page(k)
      BY <1>1, <1>5, <2>1, PageComplete
    <3>2. shown[t] \in Events /\ query.results[t] \in Events \cup {NoEvent}
      BY <1>5, SeqTyped, QueryFields
    <3> QED
      BY <1>1, <3>1, <3>2, LatestCovers
  <2>2. CASE ~(Seq(t) > k)
    <3>1. t \notin Page(k) /\ Seq(t) =< k
      BY <1>1, <1>3, <1>4, <1>5, <2>2
    <3>2. t \notin late
      BY <1>5, <3>1
    <3>3. Covers(query.results[t], shown[t]) \/ Covers(view[t], shown[t])
      BY <1>5, <3>1, <3>2 DEF ReadInv, QueryCovers
    <3> QED
      BY <1>1, <3>1, <3>3
  <2> QED
    BY <2>1, <2>2
<1>6. QueryCovers'
  BY <1>1, <1>2, <1>5 DEF QueryCovers, Seq
<1>7. ASSUME NEW t \in Tasks \ late', shown[t] # NoEvent, Seq(t) =< cursor
      PROVE  Covers(view[t], shown[t])
  <2>1. t \notin Page(k)
    BY <1>1, <1>2, <1>3, <1>4, <1>7
  <2> QED
    BY <1>7, <2>1 DEF ReadInv, ShownCovered
<1>8. ShownCovered'
  BY <1>7 DEF ShownCovered, Seq
<1> QED
  BY <1>6, <1>8 DEF ReadInv

LEMMA AnswerReads ==
    ASSUME TypeOK, ReadInv, ReceiveAnswer
    PROVE  ReadInv'
<1>1. /\ query # Idle /\ query.nextCursor \in Nat /\ query.nextCursor >= cursor
      /\ query.results \in [Tasks -> Events \cup {NoEvent}]
  BY QueryFields, PagingIsNotIdle DEF ReceiveAnswer, ReadInv, QueryCovers
<1>2. cursor \in Nat /\ \A t \in Tasks : shown[t] # NoEvent => Seq(t) \in Nat
  BY SeqTyped DEF TypeOK
<1>3. ASSUME NEW t \in Tasks \ late, shown[t] # NoEvent, Seq(t) =< query.nextCursor
      PROVE  Covers(view'[t], shown[t])
  <2>1. shown[t] \in Events /\ view[t] \in Events \cup {NoEvent}
        /\ query.results[t] \in Events \cup {NoEvent}
    BY <1>1, <1>3, SeqTyped DEF TypeOK
  <2>2. view'[t] = IF query.results[t] = NoEvent THEN view[t]
                   ELSE Latest(view[t], query.results[t])
    BY DEF ReceiveAnswer, Newest
  <2>3. CASE Covers(view[t], shown[t])
    <3>1. query.results[t] \in Events => Covers(Latest(view[t], query.results[t]), shown[t])
      BY <2>1, <2>3, LatestCovers
    <3> QED
      BY <2>1, <2>2, <2>3, <3>1
  <2>4. CASE Covers(query.results[t], shown[t])
    <3>1. query.results[t] \in Events
      BY <2>1, <2>4 DEF Covers
    <3>2. Latest(view[t], query.results[t]) \in Events
          /\ Covers(Latest(view[t], query.results[t]), query.results[t])
      BY <2>1, <3>1, LatestCovers
    <3>3. view'[t] = Latest(view[t], query.results[t])
      BY <2>2, <3>1, EventsTyped
    <3> QED
      BY <2>1, <2>4, <3>1, <3>2, <3>3, CoversOrder
  <2>5. Seq(t) =< cursor \/ Seq(t) > cursor
    BY <1>2, <1>3
  <2> QED
    BY <1>1, <1>3, <2>3, <2>4, <2>5 DEF ReadInv, ShownCovered, QueryCovers
<1>4. ShownCovered'
  BY <1>3 DEF ReceiveAnswer, ShownCovered, Seq
<1>5. QueryCovers'
  BY DEF ReceiveAnswer, QueryCovers
<1> QED
  BY <1>4, <1>5 DEF ReadInv

LEMMA ReadStep ==
    ASSUME TypeOK, RowIsNewest, PlaceInv, ReadInv, [Next]_vars
    PROVE  ReadInv'
<1>1. CASE UNCHANGED <<place, shown, cursor, view, query, late>>
  BY <1>1 DEF ReadInv, ShownCovered, QueryCovers, Seq
<1>2. ASSUME NEW w \in Writers, ConditionalPut(w) PROVE ReadInv'
  BY <1>2, PutReads
<1>3. CASE StartQuery
  <2>1. /\ query'.nextCursor = cursor /\ cursor \in Nat
        /\ \A t \in Tasks : shown[t] # NoEvent => Seq(t) \in Nat
    BY <1>3, SeqTyped DEF StartQuery, TypeOK
  <2>2. QueryCovers'
    BY <1>3, <2>1 DEF StartQuery, QueryCovers, Seq
  <2> QED
    BY <1>3, <2>2 DEF StartQuery, ReadInv, ShownCovered, Seq
<1>4. CASE ReadPage
  <2>1. query' \in Query
    BY <1>4, PageStep, PagingIsNotIdle DEF ReadPage
  <2>2. query' # Idle
    BY <2>1 DEF Query, Idle
  <2> QED
    BY <1>4, <2>2, PageReads, PagingIsNotIdle DEF ReadPage
<1>5. CASE LastPage
  <2>1. PICK q \in NextPage : query' = [q EXCEPT !.phase = "answered"]
    BY <1>5 DEF LastPage
  <2>2. q \in Query
    BY <1>5, PageStep, PagingIsNotIdle DEF LastPage
  <2>3. /\ query'.results = q.results /\ query'.nextCursor = q.nextCursor
        /\ query'.phase = "answered"
    BY <2>1, <2>2 DEF Query
  <2>4. query' # Idle
    BY <2>3 DEF Idle
  <2> QED
    BY <1>5, <2>3, <2>4, PageReads, PagingIsNotIdle DEF LastPage
<1>6. CASE ReceiveAnswer
  BY <1>6, AnswerReads
<1>7. CASE LoseQuery
  BY <1>7 DEF LoseQuery, ReadInv, ShownCovered, QueryCovers, Seq
<1> QED
  BY <1>1, <1>2, <1>3, <1>4, <1>5, <1>6, <1>7, IndexReads DEF Next, vars, NextSeq, WriterDies

-----------------------------------------------------------------------------
(* The theorems.                                                           *)

Inv == TypeOK /\ RowIsNewest /\ PlaceInv /\ SeqInv /\ ReadInv

LEMMA InvInit == Init => Inv
<1> SUFFICES ASSUME Init PROVE Inv
  OBVIOUS
<1>1. RowIsNewest
  BY DEF Init, RowIsNewest
<1>2. SeqInv
  BY DEF Init, SeqInv, SeqsDistinct
<1>3. PlaceInv /\ ReadInv
  BY DEF Init, PlaceInv, ReadInv, ShownCovered, QueryCovers
<1> QED
  BY TypeInit, <1>1, <1>2, <1>3 DEF Inv

THEOREM SpecInv == Spec => []Inv
<1>1. Init => Inv
  BY InvInit
<1>2. Inv /\ [Next]_vars => Inv'
  BY TypeStep, NewestStep, PlaceStep, SeqStep, ReadStep DEF Inv
<1> QED
  BY <1>1, <1>2, PTL DEF Spec

\* Whatever the interleaving of the two requests of any number of puts, and
\* wherever an invocation dies, the row of a task holds the newest event whose
\* put was evaluated.
THEOREM SpecRowIsNewest == Spec => []RowIsNewest
<1>1. Inv => RowIsNewest
  BY DEF Inv
<1> QED
  BY <1>1, SpecInv, PTL

\* No two rows share a seq, although the row is put long after its seq is taken.
THEOREM SpecSeqsDistinct == Spec => []SeqsDistinct
<1>1. Inv => SeqsDistinct
  BY DEF Inv, SeqInv
<1> QED
  BY <1>1, SpecInv, PTL

\* For every page size, and whatever the index does, the reader's cursor passes no
\* row of the index that it has not applied, except one that came to the index
\* behind a query already further on.
THEOREM SpecOnlyLateMissed == Spec => []OnlyLateMissed
<1>1. Inv => OnlyLateMissed
  BY DEF Inv, ReadInv, ShownCovered, OnlyLateMissed, Seq
<1> QED
  BY <1>1, SpecInv, PTL

\* The DynamoDB store is a last-writer-wins map: a put that passes its condition
\* is a Submit, and every other step leaves the winners alone.
THEOREM Refinement == Spec => ImplementsLwwMap
<1>1. Init => Lww!Init
  BY DEF Init, Lww!Init
<1>2. Inv /\ [Next]_vars => [Lww!Next]_event
  <2> SUFFICES ASSUME Inv, [Next]_vars, event' # event
               PROVE  Lww!Next
    OBVIOUS
  <2>1. PICK w \in Writers : ConditionalPut(w)
    BY DEF Next, vars, NextSeq, WriterDies, ReachIndex, LeaveIndex, StartQuery, ReadPage,
           LastPage, ReceiveAnswer, LoseQuery
  <2> DEFINE e == put[w].ev
  <2>2. /\ e \in Events /\ ~Covers(Row(e.task), e)
        /\ event' = [event EXCEPT ![Account] = [event[Account] EXCEPT ![e.task] = e]]
    BY <2>1, PutStep DEF Inv
  <2>3. event' = [event EXCEPT ![Account][e.task] = Latest(@, e)]
    BY <2>2 DEF Latest, Row
  <2>4. Account \in Accounts
    BY AccountTyped
  <2> QED
    BY <2>2, <2>3, <2>4 DEF Lww!Next, Lww!Submit, Lww!Latest, Lww!Covers, Lww!Supersedes,
                            Latest, Covers, Supersedes
<1> QED
  BY <1>1, <1>2, SpecInv, PTL DEF Spec, ImplementsLwwMap, Lww!Spec

=============================================================================
