------------------------------- MODULE LwwMap -------------------------------
(***************************************************************************)
(* What every CornerTasks event store promises, whatever database is       *)
(* underneath: per account and task the last writer wins, and neither the  *)
(* order in which writes arrive nor how often each one arrives matters.    *)
(* SqliteStore and DynamoStore are shown to implement this module.         *)
(***************************************************************************)
EXTENDS SyncEvents

VARIABLE winner     \* winner[a][t]: the event that decides task t of account a

Init == winner = [a \in Accounts |-> [t \in Tasks |-> NoEvent]]

Submit(a, e) == winner' = [winner EXCEPT ![a][e.task] = Latest(@, e)]

Next == \E a \in Accounts, e \in Events : Submit(a, e)

Spec == Init /\ [][Next]_winner
=============================================================================
