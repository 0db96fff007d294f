---------------------------- MODULE MCSyncClient ----------------------------
(* One task, two events per task and clock reading, so that any two events of *)
(* one reading can be generated in either order of their ids.                 *)
EXTENDS SyncClient

CONSTANTS a1, t1

MCEvents == {[task |-> t1, updatedAt |-> u, eventId |-> 2 * u + k] :
                u \in 1 .. MaxTime, k \in {0, 1}}

\* A tie at the second reading, with ids below that of the first, for the runs
\* with more page loads.
MCFewEvents == {[task |-> t1, updatedAt |-> 1, eventId |-> 3],
                [task |-> t1, updatedAt |-> 2, eventId |-> 1],
                [task |-> t1, updatedAt |-> 2, eventId |-> 2]}

MCBase == {[task |-> t1, updatedAt |-> 1, eventId |-> 3]}

\* A scope without failures, restarts, aged tasks or a resync.
Calm(n) == [edits |-> n, failures |-> 0, restarts |-> 0, aged |-> 0, resyncDue |-> FALSE]

\* A resync, with the flush at its end, beside edits, pulls and flushes; flushes that
\* fail, and skip a task; a resync that fails; a resync that skips a task.
MCScopes ==
    { [Calm(2) EXCEPT !.restarts = 1, !.resyncDue = TRUE],
      [Calm(2) EXCEPT !.failures = 1, !.aged = 1],
      [Calm(1) EXCEPT !.failures = 1, !.restarts = 1, !.resyncDue = TRUE],
      [Calm(1) EXCEPT !.aged = 1, !.restarts = 1, !.resyncDue = TRUE] }

MCLiveScopes == {[Calm(2) EXCEPT !.failures = 2, !.aged = 1]}
MCMergeScopes == {Calm(2)}
MCResyncScopes == {[Calm(2) EXCEPT !.restarts = 2, !.resyncDue = TRUE]}
=============================================================================
