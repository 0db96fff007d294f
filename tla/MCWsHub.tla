------------------------------ MODULE MCWsHub ------------------------------
(* WsHub: one socket of d1 beside a client that pushes over REST; or two       *)
(* sockets, one after or beside the other; or two REST requests of two         *)
(* accounts whose batches conflict with one another, repeat an event, name     *)
(* the other account or break the size rule.  WsHubSockets: the two sockets,   *)
(* over a cap of one connection.                                              *)
EXTENDS WsHub

CONSTANTS a1, a2, c1, c2, d1, q1, q2, t1, t2

E1 == [task |-> t1, updatedAt |-> 1, eventId |-> 1]
E2 == [task |-> t1, updatedAt |-> 2, eventId |-> 2]
E3 == [task |-> t2, updatedAt |-> 1, eventId |-> 3]

MCEvents == {E1, E2, E3}
MCTwoEvents == {E1, E3}

In(a, e) == [acct |-> a, ev |-> e]

Pair == <<In(a1, E1), In(a1, E3)>>
Single == <<In(a1, E2)>>
Twice == <<In(a1, E2), In(a1, E2)>>
Foreign == <<In(a1, E3), In(a2, E2)>>
TooLong == <<In(a1, E1), In(a1, E2), In(a1, E3)>>

MCBatches == {<<>>, Pair, Single, Twice, Foreign, TooLong}
MCOneBatch == {Pair}

MCScopes ==
    { [conns |-> {c1}, subscribes |-> 2, requests |-> {q1}, accounts |-> {a1},
       batches |-> {<<>>, Pair, Single}],
      [conns |-> {c1, c2}, subscribes |-> 1, requests |-> {q1}, accounts |-> {a1},
       batches |-> {Pair}],
      [conns |-> {}, subscribes |-> 0, requests |-> {q1, q2}, accounts |-> {a1, a2},
       batches |-> {<<>>, Pair, Twice, Foreign, TooLong}] }

MCTwoSockets ==
    { [conns |-> {c1, c2}, subscribes |-> 1, requests |-> {q1}, accounts |-> {a1},
       batches |-> {Pair}] }

MCDeviceOf == [c \in Conns |-> d1]
MCAccountOf == [d \in Devices |-> a1]
=============================================================================
