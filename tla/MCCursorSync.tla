--------------------------- MODULE MCCursorSync ---------------------------
(* One account with one device (devices do not affect one another) and two  *)
(* tasks; two events of the first task tie on updatedAt and a third is      *)
(* newer than both.                                                         *)
EXTENDS CursorSync

CONSTANTS a1, r1, t1, t2

MCAccountOf == [r \in Readers |-> a1]

MCEvents == { [task |-> t1, updatedAt |-> 1, eventId |-> 1],
              [task |-> t1, updatedAt |-> 1, eventId |-> 3],
              [task |-> t1, updatedAt |-> 2, eventId |-> 2],
              [task |-> t2, updatedAt |-> 1, eventId |-> 4] }
=============================================================================
