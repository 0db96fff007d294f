--------------------------- MODULE MCDynamoStore ---------------------------
(* Two tasks; two tying events and a newer one for the first task, so that  *)
(* an overtaken put can be the winner of its own task or of another.        *)
EXTENDS DynamoStore

CONSTANTS a1, t1, t2

MCEvents == { [task |-> t1, updatedAt |-> 1, eventId |-> 1],
              [task |-> t1, updatedAt |-> 1, eventId |-> 3],
              [task |-> t1, updatedAt |-> 2, eventId |-> 2],
              [task |-> t2, updatedAt |-> 1, eventId |-> 4] }
=============================================================================
