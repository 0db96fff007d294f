------------------------------- MODULE WsHub -------------------------------
(***************************************************************************)
(* The WebSocket endpoint of the self-hosted server (backend/server/src/   *)
(* ws-server.ts) with the store, the push handler and the REST fan-out it  *)
(* shares with server.ts, and the devices at the other end of the sockets. *)
(*                                                                         *)
(* Node runs one piece of JavaScript at a time, so a step here is what the *)
(* code does from one await (or timer, or frame) to the next; every await  *)
(* is a point where anything else may happen, which is what the Store      *)
(* interface and the comments of ws-server.ts assume.                      *)
(***************************************************************************)
EXTENDS PushHandler, FiniteSets, Integers

CONSTANTS
    Conns,              \* socket connections, each used once
    Devices,            \* device installations
    DeviceOf,           \* the device that opens each connection
    AccountOf,          \* the account each device is signed in to
    MaxConnections,     \* maxConnectionsPerAccount
    MaxPumpRounds,      \* MAX_PUMP_ROUNDS
    ChunkSize,          \* eventsChunkSize
    Scopes              \* bound: who takes part, and the subscribe frames of each
                        \* connection: [conns, requests, accounts, batches, subscribes]

ASSUME HubTyped ==
    /\ DeviceOf \in [Conns -> Devices]
    /\ AccountOf \in [Devices -> Accounts]
    /\ MaxConnections \in Nat /\ MaxPumpRounds \in Nat \ {0}
    /\ ChunkSize \in Nat \ {0}
    /\ IsFiniteSet(Tasks)
    /\ Scopes \subseteq [conns : SUBSET Conns, requests : SUBSET Requests,
                         accounts : SUBSET Accounts, batches : SUBSET Batches,
                         subscribes : Nat]

VARIABLES
    conn,       \* conn[c]: the Connection object
    byAccount,  \* the registry
    wire,       \* wire[c]: frames sent on the socket and not yet received
    origin,     \* origin[q]: the connection request q came in on, or "rest"
    device,     \* device[d]: what it has per task, and its persisted cursor
    unannounced, \* history: written, and no notifyAccount has run since
    scope       \* the member of Scopes this behaviour is about

hubVars == <<conn, byAccount, wire, origin, device, unannounced, scope>>
vars == <<storeVars, req, hubVars>>

States == {"none", "unauthenticated", "authenticating", "authenticated",
           "draining", "live", "closed"}

NoRead == [rows |-> {}, nextCursor |-> -1]

NewConnection ==
    [state |-> "none", cursor |-> 0, pending |-> FALSE, pumping |-> FALSE,
     suppress |-> {}, generation |-> 0,
     \* pump()'s locals across its await, and a setImmediate it has queued
     rounds |-> 0, read |-> NoRead, readGeneration |-> 0, withheld |-> {},
     immediate |-> FALSE]

Row == [ev : Events, seq : 1 .. MaxSeq]

Read == {NoRead} \cup [rows : SUBSET Row, nextCursor : 0 .. MaxSeq]

Connection ==
    [state : States, cursor : 0 .. MaxSeq, pending : BOOLEAN, pumping : BOOLEAN,
     suppress : SUBSET EventIds, generation : Nat,
     rounds : 0 .. MaxPumpRounds, read : Read, readGeneration : Nat,
     withheld : SUBSET EventIds, immediate : BOOLEAN]

Frame == [type : {"events", "live"}, events : SUBSET Events, cursor : 0 .. MaxSeq]

Device == [view : [Tasks -> Events \cup {NoEvent}], cursor : 0 .. MaxSeq]

TypeOK ==
    /\ PushTypeOK
    /\ conn \in [Conns -> Connection]
    /\ byAccount \in [Accounts -> SUBSET Conns]
    /\ wire \in [Conns -> Seq(Frame)]
    /\ origin \in [Requests -> Conns \cup {"rest"}]
    /\ device \in [Devices -> Device]
    /\ unannounced \in [Accounts -> SUBSET Events]
    /\ scope \in Scopes

Init ==
    /\ PushInit
    /\ conn = [c \in Conns |-> NewConnection]
    /\ byAccount = [a \in Accounts |-> {}]
    /\ wire = [c \in Conns |-> <<>>]
    /\ origin = [q \in Requests |-> "rest"]
    /\ device = [d \in Devices |-> [view |-> [t \in Tasks |-> NoEvent], cursor |-> 0]]
    /\ unannounced = [a \in Accounts |-> {}]
    /\ scope \in Scopes

Acct(c) == AccountOf[DeviceOf[c]]
State(c) == conn[c].state
Closed(c) == State(c) = "closed"
InRegistry(c) == c \in byAccount[Acct(c)]

-----------------------------------------------------------------------------
(* Sending.  A connection and the frames it sends in one step are handled  *)
(* together, as [k |-> Connection, out |-> Seq(Frame)].                    *)

\* Rows in seq order, cut into chunks: chunk i has the rows whose place, counted
\* from 0, is in its range.
Place(rows, x) == Cardinality({y \in rows : y.seq < x.seq})
Chunk(rows, i) == {x \in rows : Place(rows, x) \div ChunkSize = i - 1}
ChunkCount(rows) == (Cardinality(rows) + ChunkSize - 1) \div ChunkSize

LastSeq(rows) ==
    LET seqs == {x.seq : x \in rows} \cup {0}
    IN  CHOOSE n \in seqs : \A s \in seqs : s =< n

\* Every chunk carries the cursor of the whole batch.
MutChunks(rows, batchCursor) ==
    [i \in 1 .. ChunkCount(rows) |->
        [type |-> "events", events |-> {x.ev : x \in Chunk(rows, i)}, cursor |-> batchCursor]]

\* sendEvents: every chunk but the last claims only its own last seq.
Chunks(rows, batchCursor) ==
    [i \in 1 .. ChunkCount(rows) |->
        [type |-> "events", events |-> {x.ev : x \in Chunk(rows, i)},
         cursor |-> IF i = ChunkCount(rows) THEN batchCursor ELSE LastSeq(Chunk(rows, i))]]

\* The store read of pump(): the rows after the cursor, and the next cursor.
ReadAfter(a, c) ==
    [rows |-> {[ev |-> event[a][t], seq |-> seq[a][t]] : t \in TasksAfter(a, c)},
     nextCursor |-> (CHOOSE ans \in QueryEventsAfter(a, c) : TRUE).nextCursor]

\* One round too many.
MutDecide(s, a) ==
    LET k == s.k IN
    IF ~k.pending \/ k.rounds > MaxPumpRounds
    THEN [k |-> [k EXCEPT !.state = "live", !.pumping = FALSE, !.rounds = 0,
                          !.immediate = k.immediate \/ k.pending],
          out |-> IF k.state = "draining"
                  THEN Append(s.out, [type |-> "live", events |-> {}, cursor |-> k.cursor])
                  ELSE s.out]
    ELSE [k |-> [k EXCEPT !.rounds = @ + 1, !.pending = FALSE, !.suppress = {},
                          !.withheld = k.suppress, !.readGeneration = k.generation,
                          !.read = ReadAfter(a, k.cursor)],
          out |-> s.out]

\* pump()'s synchronous decision point: go live, or issue the next read.
Decide(s, a) ==
    LET k == s.k IN
    IF ~k.pending \/ k.rounds >= MaxPumpRounds
    THEN [k |-> [k EXCEPT !.state = "live", !.pumping = FALSE, !.rounds = 0,
                          !.immediate = k.immediate \/ k.pending],
          out |-> IF k.state = "draining"
                  THEN Append(s.out, [type |-> "live", events |-> {}, cursor |-> k.cursor])
                  ELSE s.out]
    ELSE [k |-> [k EXCEPT !.rounds = @ + 1, !.pending = FALSE, !.suppress = {},
                          !.withheld = k.suppress, !.readGeneration = k.generation,
                          !.read = ReadAfter(a, k.cursor)],
          out |-> s.out]

\* A call of pump(): nothing if one is in flight.
Pump(k, a) ==
    IF k.pumping THEN [k |-> k, out |-> <<>>]
    ELSE Decide([k |-> [k EXCEPT !.pumping = TRUE], out |-> <<>>], a)

\* What happens to connection c, if s is its pump's outcome.
Emit(c, s) ==
    /\ conn' = [conn EXCEPT ![c] = s.k]
    /\ wire' = [wire EXCEPT ![c] = @ \o s.out]

\* forget() and teardown(): the pump's await, if any, is still outstanding.
Teardown(cs) ==
    /\ conn' = [c \in Conns |->
                  IF c \in cs THEN [NewConnection EXCEPT !.state = "closed",
                                       !.pumping = conn[c].pumping] ELSE conn[c]]
    /\ byAccount' = [a \in Accounts |-> byAccount[a] \ cs]

-----------------------------------------------------------------------------
(* Connections.                                                            *)

Accept(c) ==
    /\ State(c) = "none"
    /\ conn' = [conn EXCEPT ![c].state = "unauthenticated"]
    /\ UNCHANGED <<storeVars, req, byAccount, wire, origin, device, unannounced, scope>>

\* handleAuth up to its await.  An empty token is refused on the spot.
AuthFrame(c) ==
    /\ State(c) = "unauthenticated"
    /\ \/ conn' = [conn EXCEPT ![c].state = "authenticating"] /\ UNCHANGED byAccount
       \/ Teardown({c})
    /\ UNCHANGED <<storeVars, req, wire, origin, device, unannounced, scope>>

\* One connection over the cap.
MutAuthOverCap(c) ==
    /\ State(c) = "authenticating"
    /\ IF Cardinality(byAccount[Acct(c)]) > MaxConnections
       THEN Teardown({c})
       ELSE /\ conn' = [conn EXCEPT ![c].state = "authenticated"]
            /\ byAccount' = [byAccount EXCEPT ![Acct(c)] = @ \cup {c}]
    /\ UNCHANGED <<storeVars, req, wire, origin, device, unannounced, scope>>

\* No isClosed check after the await.
MutAuthVerified(c) ==
    /\ State(c) \in {"authenticating", "closed"}
    /\ IF Cardinality(byAccount[Acct(c)]) >= MaxConnections
       THEN Teardown({c})
       ELSE /\ conn' = [conn EXCEPT ![c].state = "authenticated"]
            /\ byAccount' = [byAccount EXCEPT ![Acct(c)] = @ \cup {c}]
    /\ UNCHANGED <<storeVars, req, wire, origin, device, unannounced, scope>>

\* handleAuth after verifyBearerToken: refused, one too many, or admitted.
AuthVerified(c) ==
    /\ State(c) = "authenticating"
    /\ IF Cardinality(byAccount[Acct(c)]) >= MaxConnections
       THEN Teardown({c})
       ELSE /\ conn' = [conn EXCEPT ![c].state = "authenticated"]
            /\ byAccount' = [byAccount EXCEPT ![Acct(c)] = @ \cup {c}]
    /\ UNCHANGED <<storeVars, req, wire, origin, device, unannounced, scope>>

AuthRefused(c) ==
    /\ State(c) = "authenticating"
    /\ Teardown({c})
    /\ UNCHANGED <<storeVars, req, wire, origin, device, unannounced, scope>>

\* The socket goes: the peer left, an error, the auth timer, 60 s of silence.
Drop(c) ==
    /\ State(c) \notin {"none", "closed"}
    /\ Teardown({c})
    /\ UNCHANGED <<storeVars, req, wire, origin, device, unannounced, scope>>

\* handleSubscribe: the device sends its persisted cursor, or starts over.
Subscribe(c) ==
    /\ State(c) \in {"authenticated", "live"}
    /\ conn[c].generation < scope.subscribes
    /\ \E cur \in {0, device[DeviceOf[c]].cursor} :
          Emit(c, Pump([conn[c] EXCEPT !.cursor = cur, !.suppress = {},
                                       !.state = "draining", !.generation = @ + 1,
                                       !.pending = TRUE], Acct(c)))
    /\ UNCHANGED <<storeVars, req, byAccount, origin, device, unannounced, scope>>

\* pending is cleared when the read returns, not when it starts.
MutReadReturns(c) ==
    /\ conn[c].pumping /\ ~Closed(c) /\ conn[c].read # NoRead
    /\ LET k == [conn[c] EXCEPT !.pending = FALSE]
           outgoing == {x \in k.read.rows : x.ev.eventId \notin k.withheld}
           sent == IF k.generation # k.readGeneration
                   THEN [k |-> [k EXCEPT !.read = NoRead, !.withheld = {}], out |-> <<>>]
                   ELSE [k |-> [k EXCEPT !.read = NoRead, !.withheld = {},
                                  !.cursor = IF k.read.nextCursor > @
                                             THEN k.read.nextCursor ELSE @],
                         out |-> Chunks(outgoing, k.read.nextCursor)]
       IN  Emit(c, Decide(sent, Acct(c)))
    /\ UNCHANGED <<storeVars, req, byAccount, origin, device, unannounced, scope>>

\* pump() after its await: drop a read made stale by a subscribe, otherwise
\* send what it found, less what this connection wrote itself; then decide.
ReadReturns(c) ==
    /\ conn[c].pumping /\ ~Closed(c) /\ conn[c].read # NoRead
    /\ LET k == conn[c]
           outgoing == {x \in k.read.rows : x.ev.eventId \notin k.withheld}
           sent == IF k.generation # k.readGeneration
                   THEN [k |-> [k EXCEPT !.read = NoRead, !.withheld = {}], out |-> <<>>]
                   ELSE [k |-> [k EXCEPT !.read = NoRead, !.withheld = {},
                                  !.cursor = IF k.read.nextCursor > @
                                             THEN k.read.nextCursor ELSE @],
                         out |-> Chunks(outgoing, k.read.nextCursor)]
       IN  Emit(c, Decide(sent, Acct(c)))
    /\ UNCHANGED <<storeVars, req, byAccount, origin, device, unannounced, scope>>

\* The read of a connection that closed meanwhile comes back to no one.
ReadDiscarded(c) ==
    /\ conn[c].pumping /\ Closed(c)
    /\ conn' = [conn EXCEPT ![c].pumping = FALSE]
    /\ UNCHANGED <<storeVars, req, byAccount, wire, origin, device, unannounced, scope>>

\* The error is swallowed.
MutReadFails(c) ==
    /\ conn[c].pumping /\ ~Closed(c) /\ conn[c].read # NoRead
    /\ conn' = [conn EXCEPT ![c].pumping = FALSE, ![c].read = NoRead, ![c].rounds = 0]
    /\ UNCHANGED <<storeVars, req, byAccount, wire, origin, device, unannounced, scope>>

\* queryEventsAfter throws: the pump closes the connection.
ReadFails(c) ==
    /\ conn[c].pumping /\ ~Closed(c) /\ conn[c].read # NoRead
    /\ conn' = [conn EXCEPT ![c] = [NewConnection EXCEPT !.state = "closed"]]
    /\ byAccount' = [a \in Accounts |-> byAccount[a] \ {c}]
    /\ UNCHANGED <<storeVars, req, wire, origin, device, unannounced, scope>>

\* The pump that setImmediate put off under the fairness bound.
Immediate(c) ==
    /\ conn[c].immediate /\ ~Closed(c)
    /\ Emit(c, Pump([conn[c] EXCEPT !.immediate = FALSE], Acct(c)))
    /\ UNCHANGED <<storeVars, req, byAccount, origin, device, unannounced, scope>>

-----------------------------------------------------------------------------
(* Pushes.                                                                 *)

\* notifyAccount(a, origin): by is the originating connection or "rest", ids
\* what it wrote.
\* A connection that is still draining is passed over.
MutNotified(a, by, ids) ==
    [c \in Conns |->
        IF c \in byAccount[a] /\ State(c) = "live"
        THEN Pump([conn[c] EXCEPT !.pending = TRUE,
                      !.suppress = IF c = by THEN @ \cup ids ELSE @], a)
        ELSE [k |-> conn[c], out |-> <<>>]]

Notified(a, by, ids) ==
    [c \in Conns |->
        IF c \in byAccount[a] /\ State(c) \in {"draining", "live"}
        THEN Pump([conn[c] EXCEPT !.pending = TRUE,
                      !.suppress = IF c = by THEN @ \cup ids ELSE @], a)
        ELSE [k |-> conn[c], out |-> <<>>]]

NotifyAccount(a, by, ids) ==
    LET s == Notified(a, by, ids) IN
    /\ conn' = [c \in Conns |-> s[c].k]
    /\ wire' = [c \in Conns |-> wire[c] \o s[c].out]
    /\ unannounced' = [unannounced EXCEPT ![a] = {}]

\* A device pushes events it has applied to its own tasks.
Pushes(d, b) ==
    device' = [device EXCEPT ![d].view =
        [t \in Tasks |->
            LET mine == {b[i].ev : i \in 1 .. Len(b)} IN
            IF \E e \in mine : e.task = t /\ ~Covers(@[t], e)
            THEN CHOOSE e \in mine : e.task = t /\ \A f \in mine :
                                         f.task = t => Covers(e, f)
            ELSE @[t]]]

\* A push frame; the token is verified again and may have expired by now.
PushFrame(q, c, b) ==
    /\ State(c) \in {"authenticated", "draining", "live"}
    /\ \E s \in {Acct(c), NoSubject} : Receive(q, s, Acct(c), b)
    /\ origin' = [origin EXCEPT ![q] = c]
    /\ Pushes(DeviceOf[c], b)
    /\ UNCHANGED <<conn, byAccount, wire, unannounced, scope>>

\* The device pushes over REST, as it does while its socket is down.
RestPush(q, d, b) ==
    /\ Receive(q, AccountOf[d], AccountOf[d], b)
    /\ origin' = [origin EXCEPT ![q] = "rest"]
    /\ Pushes(d, b)
    /\ UNCHANGED <<conn, byAccount, wire, unannounced, scope>>

\* So does a client without a socket, with whatever token it has.
StrangerPush(q, s, a, b) ==
    /\ Receive(q, s, a, b)
    /\ origin' = [origin EXCEPT ![q] = "rest"]
    /\ UNCHANGED <<conn, byAccount, wire, device, unannounced, scope>>

PushStep(q) ==
    /\ HandlerStep(q)
    /\ unannounced' = [a \in Accounts |->
          unannounced[a] \cup {event'[a][t] : t \in {u \in Tasks : event'[a][u] # event[a][u]}}]
    /\ UNCHANGED <<conn, byAccount, wire, origin, device, scope>>

\* handlePush after await pushHandler, and the request listener after
\* await route.
PushReturns(q) ==
    /\ req[q] # Free /\ req[q].phase = "done"
    /\ req' = [req EXCEPT ![q] = Free]
    /\ origin' = [origin EXCEPT ![q] = "rest"]
    /\ LET c == origin[q]
           status == req[q].status
       IN
       \/ /\ c = "rest" /\ status = 200
          /\ NotifyAccount(req[q].acct, c, {})
          /\ UNCHANGED byAccount
       \/ /\ c # "rest" /\ status = 200 /\ ~Closed(c)
          /\ NotifyAccount(req[q].acct, c, req[q].accepted)
          /\ UNCHANGED byAccount
       \/ /\ c # "rest" /\ status \in {401, 500} /\ ~Closed(c)
          /\ Teardown({c})
          /\ UNCHANGED <<wire, unannounced>>
       \/ /\ \/ c = "rest" /\ status # 200
             \/ c # "rest" /\ (status \in {400, 403} \/ Closed(c))
          /\ UNCHANGED <<conn, byAccount, wire, unannounced>>
    /\ UNCHANGED <<storeVars, device, scope>>

-----------------------------------------------------------------------------
(* The other end, and the process.                                         *)

\* The device receives the next frame; an events frame is applied and its
\* cursor persisted.
ReceiveFrame(c) ==
    /\ wire[c] # <<>>
    /\ LET f == Head(wire[c]) IN
       IF f.type = "events"
       THEN device' = [device EXCEPT ![DeviceOf[c]] =
               [view |-> [t \in Tasks |->
                    IF \E e \in f.events : e.task = t /\ ~Covers(@.view[t], e)
                    THEN CHOOSE e \in f.events : e.task = t
                    ELSE @.view[t]],
                cursor |-> f.cursor]]
       ELSE UNCHANGED device
    /\ wire' = [wire EXCEPT ![c] = Tail(@)]
    /\ UNCHANGED <<storeVars, req, conn, byAccount, origin, unannounced, scope>>

\* What a closed socket had not delivered is lost.
LoseFrames(c) ==
    /\ Closed(c) /\ wire[c] # <<>>
    /\ wire' = [wire EXCEPT ![c] = <<>>]
    /\ UNCHANGED <<storeVars, req, conn, byAccount, origin, device, unannounced, scope>>

\* The server process restarts: sockets and requests are gone, the store stays.
Restart ==
    /\ \/ \E c \in Conns : State(c) \notin {"none", "closed"}
       \/ \E q \in Requests : req[q] # Free
    /\ conn' = [c \in Conns |-> IF State(c) = "none" THEN conn[c]
                                ELSE [NewConnection EXCEPT !.state = "closed"]]
    /\ byAccount' = [a \in Accounts |-> {}]
    /\ req' = [q \in Requests |-> Free]
    /\ origin' = [q \in Requests |-> "rest"]
    /\ UNCHANGED <<storeVars, wire, device, unannounced, scope>>

Next ==
    \/ \E c \in scope.conns :
          \/ Accept(c)
          \/ AuthFrame(c)
          \/ AuthVerified(c)
          \/ AuthRefused(c)
          \/ Subscribe(c)
          \/ Drop(c)
          \/ ReadReturns(c)
          \/ ReadDiscarded(c)
          \/ ReadFails(c)
          \/ Immediate(c)
          \/ ReceiveFrame(c)
          \/ LoseFrames(c)
          \/ \E q \in scope.requests, b \in scope.batches :
                 \/ PushFrame(q, c, b)
                 \/ RestPush(q, DeviceOf[c], b)
    \/ \E q \in scope.requests :
          \/ PushStep(q)
          \/ PushReturns(q)
          \/ \E s \in scope.accounts \cup {NoSubject}, a \in scope.accounts,
                b \in scope.batches : StrangerPush(q, s, a, b)
    \/ Restart

Spec == Init /\ [][Next]_vars

\* The event loop runs what is ready, and an open socket delivers.
FairSpec ==
    /\ Spec
    /\ \A c \in Conns : /\ WF_vars(ReadReturns(c))
                        /\ WF_vars(Immediate(c))
                        /\ WF_vars(ReceiveFrame(c))

-----------------------------------------------------------------------------
(* Properties.                                                             *)

\* Rows of account a that lie after a cursor.
After(a, c) == {event[a][t] : t \in TasksAfter(a, c)}

\* A device is told a cursor only after everything up to it: whatever socket
\* dies between whichever chunks, the cursor its frames left behind skips no
\* row, own writes withheld included (ws-server.ts:538-548, 579-594).
DeviceCursorComplete ==
    \A d \in Devices : \A t \in Tasks :
        LET a == AccountOf[d] IN
        event[a][t] # NoEvent /\ seq[a][t] =< device[d].cursor
            => Covers(device[d].view[t], event[a][t])

\* No wake-up is lost: a subscribed connection whose pump is not running and
\* not scheduled has nothing pending, and whatever it has not been sent is a
\* write whose push has not announced it yet.  This is the "no gap at the live
\* transition" that ws-server.ts:479-483 argues for.
NoLostWakeup ==
    \A c \in Conns :
        State(c) \in {"draining", "live"} /\ ~conn[c].pumping /\ ~conn[c].immediate =>
            /\ State(c) = "live" /\ ~conn[c].pending
            /\ After(Acct(c), conn[c].cursor) \subseteq unannounced[Acct(c)]

\* The registry holds exactly the authenticated connections, and never more of
\* an account than its cap, although several verifications may be in flight when
\* the cap is reached and a connection may end in any state
\* (ws-server.ts:415-430, 269-282).
RegistryExact ==
    \A a \in Accounts :
        /\ byAccount[a] = {c \in Conns : /\ Acct(c) = a
                                        /\ State(c) \in {"authenticated", "draining", "live"}}
        /\ Cardinality(byAccount[a]) =< MaxConnections

\* A closed connection stays closed: a token verified or a read answered only
\* after the socket went does not bring it back (ws-server.ts:392-393, 530-531).
ClosedForGood == [][\A c \in Conns : Closed(c) => Closed(c)']_vars

\* A subscribe is answered: the drain ends with live, or the socket closes, even
\* under writes that keep coming and a re-subscribe that rewinds a read under
\* way (ws-server.ts:499-519, 536).
DrainEnds ==
    \A c \in Conns : (State(c) = "draining") ~> (State(c) \in {"live", "closed"})

\* Once the writing stops, whatever is in the store and announced has reached the
\* device of every subscribed connection that stays open.
FanOutDelivered ==
    \A c \in Conns :
        <>[](State(c) \in {"draining", "live"} =>
                \A t \in Tasks :
                    LET cur == event[Acct(c)][t] IN
                    cur \in {NoEvent} \cup unannounced[Acct(c)]
                        \/ Covers(device[DeviceOf[c]].view[t], cur))

=============================================================================
