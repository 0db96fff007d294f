----------------------------- MODULE SyncEvents -----------------------------
(***************************************************************************)
(* The events clients and servers exchange, and the order that decides     *)
(* conflicts between them (docs/sync-protocol.md 3 and 9).                 *)
(*                                                                         *)
(* A wire event is reduced to what the system ever compares: the task it   *)
(* is about, its updatedAt and its eventId.  updatedAt and eventId are     *)
(* compared as strings by the stores; only their order matters, so they    *)
(* are naturals here.  The sealed payload is determined by the eventId.    *)
(***************************************************************************)
EXTENDS Naturals

CONSTANTS
    Accounts,   \* account DIDs
    Tasks,      \* task ids
    Events,     \* the events clients may push
    NoEvent     \* "no row for this task"

ASSUME EventsTyped ==
    /\ \A e \in Events : /\ e.task \in Tasks
                         /\ e.updatedAt \in Nat
                         /\ e.eventId \in Nat
    /\ NoEvent \notin Events

\* An eventId is a random UUID: no two events share one.
ASSUME EventIdsUnique ==
    \A e, f \in Events : e.eventId = f.eventId => e = f

\* e beats f: the later updatedAt, and on a tie the greater eventId.
Supersedes(e, f) ==
    \/ e.updatedAt > f.updatedAt
    \/ e.updatedAt = f.updatedAt /\ e.eventId > f.eventId

\* cur is at least as new as e.
Covers(cur, e) == cur # NoEvent /\ ~Supersedes(e, cur)

\* What remains when e arrives where cur is stored.
Latest(cur, e) == IF Covers(cur, e) THEN cur ELSE e
=============================================================================
