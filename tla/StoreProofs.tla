---------------------------- MODULE StoreProofs -----------------------------
(***************************************************************************)
(* Facts about the conflict order, about one putEvent and one query of the *)
(* SQLite store, for every set of accounts, tasks and events.              *)
(*                                                                         *)
(* Induction is by a least counterexample: the naturals, and the subsets   *)
(* of a finite set, are well founded.                                      *)
(***************************************************************************)
EXTENDS SqliteStore, TLAPS, FiniteSetTheorems, WellFoundedInduction

(* Least and greatest elements.                                            *)

LEMMA LeastNatural ==
    ASSUME NEW T \in SUBSET Nat, T # {}
    PROVE  \E m \in T : \A k \in T : m =< k
<1> DEFINE R == OpToRel(<, Nat)
<1>1. IsWellFoundedOn(R, Nat)
  BY NatLessThanWellFounded
<1>2. \A x \in Nat : \A y \in Nat : y < x => <<y, x>> \in R
  BY DEF OpToRel
<1> HIDE DEF R
<1>3. PICK m \in T : \A y \in T : ~ (<<y, m>> \in R)
  BY <1>1, WFMin
<1>4. ASSUME NEW k \in T PROVE m =< k
  <2>1. k \in Nat /\ m \in Nat
    OBVIOUS
  <2>2. ~ (k < m)
    BY <1>2, <1>3, <2>1
  <2> QED
    BY <2>1, <2>2
<1> QED
  BY <1>4

LEMMA GreatestBelow ==
    ASSUME NEW b \in Nat, NEW T \in SUBSET (0 .. b), T # {}
    PROVE  \E m \in T : \A k \in T : k =< m
<1> DEFINE U == {b - k : k \in T}
<1>1. U \in SUBSET Nat /\ U # {}
  <2>1. \A k \in T : b - k \in Nat
    OBVIOUS
  <2> QED
    BY <2>1
<1>2. PICK u \in U : \A v \in U : u =< v
  BY <1>1, LeastNatural
<1>3. PICK m \in T : u = b - m
  BY <1>2
<1>4. \A k \in T : u =< b - k
  BY <1>2
<1> QED
  BY <1>3, <1>4

LEMMA LeastSubset ==
    ASSUME NEW S, IsFiniteSet(S), NEW B \in SUBSET SUBSET S, B # {}
    PROVE  \E U \in B : \A V \in B : V \subseteq U => V = U
<1> DEFINE R == StrictSubsetOrdering(S)
           P == SUBSET S
<1>1. IsWellFoundedOn(R, P)
  BY FS_StrictSubsetOrderingWellFounded, FS_FiniteSubsetsOfFinite
<1>2. \A V, U \in P : V \subseteq U /\ V # U => <<V, U>> \in R
  BY DEF StrictSubsetOrdering
<1> HIDE DEF R, P
<1>3. B \subseteq P
  BY DEF P
<1>4. PICK U \in B : \A V \in B : ~ (<<V, U>> \in R)
  BY <1>1, <1>3, WFMin
<1> QED
  BY <1>2, <1>3, <1>4

-----------------------------------------------------------------------------
(* The conflict order is total and transitive on events.                   *)

\* An event that does not cover another is covered by it.
LEMMA CoversTotal ==
    ASSUME NEW x \in Events, NEW e \in Events
    PROVE  Covers(x, e) \/ Covers(e, x)
BY EventsTyped DEF Covers, Supersedes

\* Covering is transitive.
LEMMA CoversTransitive ==
    ASSUME NEW x \in Events, NEW y \in Events, NEW z \in Events,
           Covers(x, y), Covers(y, z)
    PROVE  Covers(x, z)
BY EventsTyped DEF Covers, Supersedes

\* Every event covers itself.
LEMMA CoversReflexive ==
    ASSUME NEW e \in Events
    PROVE  Covers(e, e)
BY EventsTyped DEF Covers, Supersedes

\* Of finitely many events one covers them all.
LEMMA NewestExists ==
    ASSUME NEW S \in SUBSET Events, IsFiniteSet(S), S # {}
    PROVE  \E e \in S : \A f \in S : Covers(e, f)
<1> DEFINE Tops(U) == {e \in U : \A f \in U : Covers(e, f)}
           B == {U \in SUBSET S : U # {} /\ Tops(U) = {}}
<1> SUFFICES ASSUME B # {} PROVE FALSE
  OBVIOUS
<1>0. B \in SUBSET SUBSET S
  OBVIOUS
<1>1. PICK U \in B : \A V \in B : V \subseteq U => V = U
  <2> HIDE DEF B
  <2> QED
    BY <1>0, LeastSubset
<1>2. PICK x \in U : TRUE
  BY <1>1
<1> DEFINE W == U \ {x}
<1>3. x \in Events /\ U \subseteq Events /\ W \subseteq U /\ W # U
  BY <1>1, <1>2
<1>4. W \notin B
  BY <1>1, <1>3
<1>5. CASE W = {}
  <2>1. \A f \in U : f = x
    BY <1>5
  <2>2. Covers(x, x)
    BY <1>3, CoversReflexive
  <2> QED
    BY <1>1, <1>2, <2>1, <2>2
<1>6. CASE W # {}
  <2>1. PICK e \in W : \A f \in W : Covers(e, f)
    BY <1>1, <1>4, <1>6
  <2>2. \A f \in U : f = x \/ Covers(e, f)
    BY <2>1
  <2>3. CASE Covers(e, x)
    BY <1>1, <2>1, <2>2, <2>3
  <2>4. CASE Covers(x, e)
    <3>1. \A f \in U : Covers(x, f)
      BY <1>3, <2>1, <2>2, <2>4, CoversReflexive, CoversTransitive
    <3> QED
      BY <1>1, <1>2, <3>1
  <2> QED
    BY <1>3, <2>1, <2>3, <2>4, CoversTotal
<1> QED
  BY <1>5, <1>6

-----------------------------------------------------------------------------
(* putEvent.                                                               *)

\* A write keeps the store typed.
LEMMA PutEventTyped ==
    ASSUME StoreTypeOK, NEW a \in Accounts, NEW e \in Events, PutEvent(a, e)
    PROVE  StoreTypeOK'
<1> DEFINE k == e.task
<1>1. k \in Tasks
  BY EventsTyped
<1>2. NextSeq(a) \in 0 .. MaxSeq
  BY MaxSeqTyped DEF StoreTypeOK, PutEvent, NextSeq
<1>3. counter' \in [Accounts -> 0 .. MaxSeq]
  BY <1>2 DEF StoreTypeOK, PutEvent
<1>4. /\ event' \in [Accounts -> [Tasks -> Events \cup {NoEvent}]]
      /\ seq' \in [Accounts -> [Tasks -> 0 .. MaxSeq]]
  <2>1. CASE Stale(a, e)
    BY <2>1 DEF StoreTypeOK, PutEvent
  <2>2. CASE ~Stale(a, e)
    <3>1. [event[a] EXCEPT ![k] = e] \in [Tasks -> Events \cup {NoEvent}]
      BY <1>1 DEF StoreTypeOK
    <3>2. [seq[a] EXCEPT ![k] = NextSeq(a)] \in [Tasks -> 0 .. MaxSeq]
      BY <1>1, <1>2 DEF StoreTypeOK
    <3>3. /\ event' = [event EXCEPT ![a] = [event[a] EXCEPT ![k] = e]]
          /\ seq' = [seq EXCEPT ![a] = [seq[a] EXCEPT ![k] = NextSeq(a)]]
      BY <2>2 DEF PutEvent
    <3> HIDE DEF k
    <3> QED
      BY <3>1, <3>2, <3>3 DEF StoreTypeOK
  <2> QED
    BY <2>1, <2>2
<1>5. submitted' \in [Accounts -> SUBSET Events]
  BY DEF StoreTypeOK, PutEvent
<1> QED
  BY <1>3, <1>4, <1>5 DEF StoreTypeOK

\* A row either stays as it is, or becomes the event written, under the seq that
\* was just allocated.
LEMMA PutEventRows ==
    ASSUME StoreTypeOK, NEW a \in Accounts, NEW e \in Events, PutEvent(a, e)
    PROVE  /\ counter' = [counter EXCEPT ![a] = @ + 1]
           /\ \A b \in Accounts : /\ counter[b] \in Nat
                                  /\ counter[b] =< counter'[b]
           /\ \A b \in Accounts, t \in Tasks :
                 \/ event'[b][t] = event[b][t] /\ seq'[b][t] = seq[b][t]
                 \/ /\ b = a /\ t = e.task /\ ~Stale(a, e)
                    /\ event'[b][t] = e /\ seq'[b][t] = counter'[b]
                    /\ counter'[b] = counter[b] + 1
<1>1. e.task \in Tasks
  BY EventsTyped
<1>2. counter' = [counter EXCEPT ![a] = @ + 1] /\ counter[a] \in Nat
  BY DEF StoreTypeOK, PutEvent, NextSeq
<1> QED
  BY <1>1, <1>2 DEF StoreTypeOK, PutEvent, NextSeq

\* Rows only move up in the conflict order, and the event written is covered.
LEMMA PutEventGrows ==
    ASSUME StoreTypeOK, NEW a \in Accounts, NEW e \in Events, PutEvent(a, e)
    PROVE  /\ \A b \in Accounts, t \in Tasks, f \in Events :
                 Covers(event[b][t], f) => Covers(event'[b][t], f)
           /\ Covers(event'[a][e.task], e)
<1>0. e.task \in Tasks
  BY EventsTyped
<1>1. ASSUME NEW b \in Accounts, NEW t \in Tasks, NEW f \in Events, Covers(event[b][t], f)
      PROVE  Covers(event'[b][t], f)
  <2>1. CASE event'[b][t] = event[b][t]
    BY <2>1, <1>1
  <2>2. CASE b = a /\ t = e.task /\ ~Stale(a, e) /\ event'[b][t] = e
    <3>1. event[b][t] \in Events
      BY <1>1 DEF StoreTypeOK, Covers
    <3>2. Covers(e, event[b][t])
      BY <3>1, <2>2, CoversTotal DEF Stale
    <3> QED
      BY <3>1, <3>2, <2>2, <1>1, CoversTransitive
  <2> QED
    BY <2>1, <2>2, PutEventRows
<1>2. Covers(event'[a][e.task], e)
  <2>1. CASE Stale(a, e)
    BY <2>1 DEF Stale, PutEvent
  <2>2. CASE ~Stale(a, e)
    <3>1. event'[a][e.task] = e
      BY <2>2, <1>0 DEF PutEvent, StoreTypeOK
    <3> QED
      BY <3>1, CoversReflexive
  <2> QED
    BY <2>1, <2>2
<1> QED
  BY <1>1, <1>2

\* A write keeps the newest event of every task.
LEMMA PutEventNewest ==
    ASSUME StoreTypeOK, RowIsNewest, NEW a \in Accounts, NEW e \in Events, PutEvent(a, e)
    PROVE  RowIsNewest'
<1> SUFFICES ASSUME NEW b \in Accounts, NEW f \in submitted'[b]
             PROVE  Covers(event'[b][f.task], f)
  BY DEF RowIsNewest
<1>1. f \in Events /\ f.task \in Tasks
  BY PutEventTyped, EventsTyped DEF StoreTypeOK
<1>2. f \in submitted[b] \/ (b = a /\ f = e)
  BY DEF PutEvent, StoreTypeOK
<1>3. CASE f \in submitted[b]
  BY <1>1, <1>3, PutEventGrows DEF RowIsNewest
<1>4. CASE b = a /\ f = e
  BY <1>4, PutEventGrows
<1> QED
  BY <1>2, <1>3, <1>4

-----------------------------------------------------------------------------
(* queryEventsAfter.                                                       *)

\* It has one answer, whose cursor is the greatest seq of its rows or the cursor
\* asked for.
LEMMA QueryAnswer ==
    ASSUME StoreTypeOK, NEW a \in Accounts, NEW c \in 0 .. MaxSeq
    PROVE  \E n \in c .. MaxSeq :
              /\ QueryEventsAfter(a, c) =
                    {[events |-> {event[a][t] : t \in TasksAfter(a, c)}, nextCursor |-> n]}
              /\ \A t \in TasksAfter(a, c) : seq[a][t] =< n
              /\ n = c \/ \E t \in TasksAfter(a, c) : n = seq[a][t]
<1> DEFINE seqs == {seq[a][t] : t \in TasksAfter(a, c)}
           highest == {m \in seqs \cup {c} : \A s \in seqs : s =< m}
<1>1. \A t \in TasksAfter(a, c) : seq[a][t] \in (c + 1) .. MaxSeq
  BY MaxSeqTyped DEF TasksAfter, StoreTypeOK
<1>2. seqs \cup {c} \in SUBSET (0 .. MaxSeq) /\ seqs \cup {c} # {} /\ MaxSeq \in Nat
  BY <1>1, MaxSeqTyped
<1>3. PICK n \in seqs \cup {c} : \A s \in seqs \cup {c} : s =< n
  BY <1>2, GreatestBelow
<1>4. n \in c .. MaxSeq /\ n \in highest
  BY <1>2, <1>3
<1>5. ASSUME NEW m \in highest PROVE m = n
  <2>1. m \in Nat /\ n \in Nat /\ m =< n
    BY <1>2, <1>3
  <2>2. n =< m
    BY <1>1, <1>4, <1>5, <2>1
  <2> QED
    BY <2>1, <2>2
<1>6. highest = {n}
  BY <1>4, <1>5
<1>7. QueryEventsAfter(a, c) =
         {[events |-> {event[a][t] : t \in TasksAfter(a, c)}, nextCursor |-> m] : m \in highest}
  BY DEF QueryEventsAfter
<1> HIDE DEF highest
<1>8. QueryEventsAfter(a, c) =
         {[events |-> {event[a][t] : t \in TasksAfter(a, c)}, nextCursor |-> n]}
  BY <1>6, <1>7
<1> QED
  BY <1>3, <1>4, <1>8
=============================================================================
