--------------------------- MODULE WsClientProofs ---------------------------
(***************************************************************************)
(* The safety properties of WsClient for any number of sockets and pulls   *)
(* at once, and every bound.                                               *)
(***************************************************************************)
EXTENDS WsClient, TLAPS

(***************************************************************************)
(* What the handlers are made of.                                          *)
(***************************************************************************)

\* A failure leaves a timer behind, unless the transport is through.
LEMMA FailureSetsTimer ==
    ASSUME TypeOK, RegisterFailure
    PROVE  /\ failed' \in 0 .. GiveUpAfter
           /\ timers' \subseteq {"reconnect", "giveUp"}
           /\ timers \subseteq timers'
           /\ ~stopped /\ ~disabled => timers' # {}
<1>1. GiveUpAfter \in Nat /\ failed \in Nat /\ failed =< GiveUpAfter
  BY WsClientTyped DEF TypeOK
<1>2. failed' \in 0 .. GiveUpAfter
  BY <1>1 DEF RegisterFailure
<1>3. timers' = timers \cup {"giveUp"} \/ ScheduleReconnect(disabled)
  BY DEF RegisterFailure
<1> QED
  BY <1>2, <1>3 DEF ScheduleReconnect, TypeOK

LEMMA NewSocketTyped ==
    /\ Unused \in Socket
    /\ [Unused EXCEPT !.state = "token"] \in Socket
    /\ Unused.state = "unused"
    /\ [Unused EXCEPT !.state = "token"].state = "token"
<1>1. 0 \in 0 .. MaxEvents
  BY WsClientTyped
<1>2. Unused \in Socket
  BY <1>1 DEF Unused, Socket
<1>3. [Unused EXCEPT !.state = "token"] \in Socket
  BY <1>2 DEF Socket
<1>4. Unused.state = "unused" /\ [Unused EXCEPT !.state = "token"].state = "token"
  BY DEF Unused
<1> QED
  BY <1>2, <1>3, <1>4

\* openSocket does nothing, or this.ws becomes a socket that awaits its token: a
\* new one, or the one it was if that never connected.
LEMMA OpenSocketStep ==
    ASSUME NEW known \in BOOLEAN, OpenSocket(known)
    PROVE  \/ /\ stopped \/ ~known \/ disabled \/ hidden
              /\ UNCHANGED <<phase, ws, sock, buf, slips>>
           \/ \E s \in Sockets :
                 /\ ~stopped /\ known /\ ~disabled /\ ~hidden
                 /\ Fresh(s)
                 /\ ws' = s /\ phase' = "connecting"
                 /\ sock' = [sock EXCEPT ![s] = [Unused EXCEPT !.state = "token"]]
                 /\ buffer' = {} /\ bufCursor' = 0
                 /\ slips' = IF ws # NoSocket /\ Connected(ws)
                             THEN slips \cup {"orphan"} ELSE slips
<1>1. CASE stopped \/ ~known \/ disabled \/ hidden
  BY <1>1 DEF OpenSocket
<1>2. CASE ~(stopped \/ ~known \/ disabled \/ hidden)
  <2>1. ws' \in Sockets /\ Fresh(ws')
    <3> DEFINE F(s) == Fresh(s)
    <3>1. \E s \in Sockets : F(s)
      BY <1>2 DEF OpenSocket
    <3>2. ws' = CHOOSE s \in Sockets : F(s)
      BY <1>2 DEF OpenSocket
    <3> HIDE DEF F
    <3>3. ws' \in Sockets /\ F(ws')
      BY <3>1, <3>2
    <3> QED
      BY <3>3 DEF F
  <2>2. /\ sock' = [sock EXCEPT ![ws'] = [Unused EXCEPT !.state = "token"]]
        /\ phase' = "connecting" /\ buffer' = {} /\ bufCursor' = 0
        /\ slips' = IF ws # NoSocket /\ Connected(ws) THEN slips \cup {"orphan"} ELSE slips
    BY <1>2 DEF OpenSocket
  <2> QED
    BY <1>2, <2>1, <2>2
<1> QED
  BY <1>1, <1>2

\* What openSocket leaves is typed.
LEMMA OpenSocketTyped ==
    ASSUME TypeOK, NEW known \in BOOLEAN, OpenSocket(known)
    PROVE  /\ phase' \in {"idle", "connecting", "draining", "live", "closed"}
           /\ ws' \in Sockets \cup {NoSocket}
           /\ sock' \in [Sockets -> Socket]
           /\ buffer' \subseteq 1 .. MaxEvents /\ bufCursor' \in 0 .. MaxEvents
           /\ slips' \subseteq {"orphan", "dropped"}
<1>1. CASE UNCHANGED <<phase, ws, sock, buf, slips>>
  BY <1>1 DEF TypeOK, buf
<1>2. ASSUME NEW s \in Sockets,
             ws' = s, phase' = "connecting",
             sock' = [sock EXCEPT ![s] = [Unused EXCEPT !.state = "token"]],
             buffer' = {}, bufCursor' = 0,
             slips' = IF ws # NoSocket /\ Connected(ws) THEN slips \cup {"orphan"} ELSE slips
      PROVE  /\ phase' \in {"idle", "connecting", "draining", "live", "closed"}
             /\ ws' \in Sockets \cup {NoSocket}
             /\ sock' \in [Sockets -> Socket]
             /\ buffer' \subseteq 1 .. MaxEvents /\ bufCursor' \in 0 .. MaxEvents
             /\ slips' \subseteq {"orphan", "dropped"}
  <2>1. sock' \in [Sockets -> Socket]
    BY <1>2, NewSocketTyped DEF TypeOK
  <2> QED
    BY <1>2, <2>1, WsClientTyped DEF TypeOK
<1> QED
  BY <1>1, <1>2, OpenSocketStep

-----------------------------------------------------------------------------
(* Type correctness.                                                       *)

LEMMA TypeInit == Init => TypeOK
<1> SUFFICES ASSUME Init PROVE TypeOK
  OBVIOUS
<1>1. sock \in [Sockets -> Socket]
  BY NewSocketTyped DEF Init
<1>2. metas \in 0 .. MaxMetas
  BY WsClientTyped DEF Init
<1>3. pull \in [PullSlots -> {Idle} \cup Pull]
  BY DEF Init
<1>4. /\ head \in 0 .. MaxEvents /\ cursor \in 0 .. MaxEvents /\ applied \subseteq 1 .. MaxEvents
      /\ failed \in 0 .. GiveUpAfter /\ signals \in 0 .. MaxSignals /\ faults \in 0 .. MaxFaults
      /\ buffer \subseteq 1 .. MaxEvents /\ bufCursor \in 0 .. MaxEvents
  BY WsClientTyped DEF Init
<1>5. /\ phase \in {"idle", "connecting", "draining", "live", "closed"}
      /\ ws \in Sockets \cup {NoSocket}
      /\ url \in BOOLEAN /\ disabled \in BOOLEAN /\ hidden \in BOOLEAN /\ stopped \in BOOLEAN
      /\ timers \subseteq {"reconnect", "giveUp"} /\ slips \subseteq {"orphan", "dropped"}
  BY DEF Init
<1> QED
  BY <1>1, <1>2, <1>3, <1>4, <1>5 DEF TypeOK

\* The fields of a socket and of a pull have their types.
LEMMA SocketFields ==
    ASSUME TypeOK, NEW s \in Sockets
    PROVE  /\ sock[s].read \in 0 .. MaxEvents /\ sock[s].until \in 0 .. MaxEvents
           /\ sock[s].live \in BOOLEAN
           /\ sock[s].state \in {"unused", "token", "opening", "refused", "open"}
           /\ sock[s] \in Socket
BY DEF TypeOK, Socket

LEMMA PullFields ==
    ASSUME TypeOK, NEW p \in PullSlots
    PROVE  /\ pull[p].state = "asked" => pull[p].cursor \in 0 .. MaxEvents
           /\ pull[p].state = "answered" =>
                 /\ pull[p].events \subseteq 1 .. MaxEvents
                 /\ pull[p].nextCursor \in 0 .. MaxEvents
                 /\ pull[p].buffered \in BOOLEAN
           /\ pull[p] # Idle => pull[p].state \in {"asked", "answered"}
BY DEF TypeOK, Pull, Idle

LEMMA AnswerTyped ==
    ASSUME TypeOK, NEW p \in PullSlots, NEW evs \in SUBSET (1 .. MaxEvents),
           NEW next \in 0 .. MaxEvents, NEW b \in BOOLEAN, Answer(p, evs, next, b)
    PROVE  pull' \in [PullSlots -> {Idle} \cup Pull]
<1>1. [state |-> "answered", events |-> evs, nextCursor |-> next, buffered |-> b] \in Pull
  BY DEF Pull
<1> QED
  BY <1>1 DEF Answer, TypeOK

\* What a step of the connection leaves alone keeps its type.
LEMMA MetaTyped ==
    ASSUME TypeOK, MetaAnswered
    PROVE  TypeOK'
<1>1. metas' \in 0 .. MaxMetas
  BY WsClientTyped DEF MetaAnswered, TypeOK
<1>2. CASE url' = (url \/ ~stopped) /\ OpenSocket(TRUE) /\ UNCHANGED faults
  BY <1>1, <1>2, OpenSocketTyped DEF MetaAnswered, TypeOK, engine, page, buf
<1>3. CASE /\ Fault
           /\ IF stopped THEN UNCHANGED <<url, phase>> ELSE url' = FALSE /\ phase' = "idle"
           /\ UNCHANGED <<ws, sock, buf, slips>>
  <2>1. faults' \in 0 .. MaxFaults
    BY <1>3, WsClientTyped DEF Fault, TypeOK
  <2>2. url' \in BOOLEAN /\ phase' \in {"idle", "connecting", "draining", "live", "closed"}
    BY <1>3 DEF TypeOK
  <2> QED
    BY <1>1, <1>3, <2>1, <2>2 DEF MetaAnswered, TypeOK, engine, page, buf
<1> QED
  BY <1>2, <1>3 DEF MetaAnswered

LEMMA TypeStep ==
    ASSUME TypeOK, [Next]_vars
    PROVE  TypeOK'
<1> USE WsClientTyped
<1>1. CASE UNCHANGED vars
  BY <1>1 DEF TypeOK, vars, engine, conns, page, buf
<1>2. CASE MetaAnswered
  BY <1>2, MetaTyped
<1>3. ASSUME NEW s \in Sockets, TokenReady(s) PROVE TypeOK'
  <2>1. [sock[s] EXCEPT !.state = "opening"] \in Socket
    BY SocketFields DEF Socket
  <2> QED
    BY <1>3, <2>1 DEF TokenReady, TypeOK, engine, page, buf
<1>4. ASSUME NEW s \in Sockets, TokenFails(s) PROVE TypeOK'
  BY <1>4, FailureSetsTimer, NewSocketTyped DEF TokenFails, Fault, TypeOK, engine, page, buf
<1>5. ASSUME NEW s \in Sockets, AuthOk(s) PROVE TypeOK'
  <2>1. [state |-> "open", read |-> cursor, until |-> head, live |-> FALSE] \in Socket
    BY DEF Socket, TypeOK
  <2> QED
    BY <1>5, <2>1 DEF AuthOk, TypeOK, engine, page, buf
<1>6. ASSUME NEW s \in Sockets, AuthErr(s) PROVE TypeOK'
  <2>1. sock' \in [Sockets -> Socket]
    <3>1. \A r \in Sockets : [sock[r] EXCEPT !.state = "refused"] \in Socket
      BY SocketFields DEF Socket
    <3> QED
      BY <1>6, <3>1, NewSocketTyped DEF AuthErr, TypeOK
  <2>2. failed' \in 0 .. GiveUpAfter /\ timers' \subseteq {"reconnect", "giveUp"}
        /\ disabled' \in BOOLEAN
    BY <1>6, FailureSetsTimer DEF AuthErr, TypeOK
  <2> QED
    BY <1>6, <2>1, <2>2 DEF AuthErr, Fault, TypeOK, engine, page, buf
<1>7. ASSUME NEW s \in Sockets, EventsFrame(s) PROVE TypeOK'
  <2>1. PICK to \in (sock[s].read + 1) .. head :
           /\ buffer' = buffer \cup ((sock[s].read + 1) .. to)
           /\ bufCursor' = to
           /\ sock' = [sock EXCEPT ![s].read = to]
    BY <1>7 DEF EventsFrame
  <2>2. sock[s].read \in Nat /\ to \in 0 .. MaxEvents
    BY SocketFields DEF TypeOK
  <2>3. [sock[s] EXCEPT !.read = to] \in Socket
    BY <2>2, SocketFields DEF Socket
  <2>4. sock' \in [Sockets -> Socket]
    BY <2>1, <2>3 DEF TypeOK
  <2>5. buffer' \subseteq 1 .. MaxEvents
    BY <2>1, <2>2 DEF TypeOK
  <2> QED
    BY <1>7, <2>1, <2>2, <2>4, <2>5 DEF EventsFrame, TypeOK, engine, page
<1>8. ASSUME NEW s \in Sockets, LiveFrame(s) PROVE TypeOK'
  <2>1. [sock[s] EXCEPT !.live = TRUE] \in Socket
    BY SocketFields DEF Socket
  <2> QED
    BY <1>8, <2>1 DEF LiveFrame, TypeOK, engine, page, buf
<1>9. ASSUME NEW s \in Sockets, SocketClosed(s) PROVE TypeOK'
  <2>1. failed' \in 0 .. GiveUpAfter /\ timers' \subseteq {"reconnect", "giveUp"}
    <3>1. CASE RegisterFailure
      BY <3>1, FailureSetsTimer
    <3>2. CASE UNCHANGED <<failed, timers>>
      BY <3>2 DEF TypeOK
    <3>3. CASE failed' = 0 /\ ScheduleReconnect(disabled)
      BY <3>3 DEF ScheduleReconnect, TypeOK
    <3> QED
      BY <1>9, <3>1, <3>2, <3>3 DEF SocketClosed
  <2>2. phase' \in {"idle", "connecting", "draining", "live", "closed"} /\ disabled' \in BOOLEAN
    BY <1>9 DEF SocketClosed, TypeOK
  <2>3. faults' \in 0 .. MaxFaults
    BY <1>9 DEF SocketClosed, Fault, TypeOK
  <2> QED
    BY <1>9, <2>1, <2>2, <2>3, NewSocketTyped DEF SocketClosed, TypeOK, engine, page, buf
<1>10. CASE ReconnectFires
  BY <1>10, OpenSocketTyped DEF ReconnectFires, TypeOK, engine, page
<1>11. CASE GiveUpFires
  BY <1>11, OpenSocketTyped DEF GiveUpFires, TypeOK, engine, page
<1>12. CASE Hide
  BY <1>12, NewSocketTyped DEF Hide, Signal, TeardownSocket, TypeOK, engine, buf
<1>13. CASE Show
  <2>1. metas' \in 0 .. MaxMetas
    BY <1>13 DEF Show, Negotiate, TypeOK
  <2>2. failed' \in 0 .. GiveUpAfter
    BY <1>13 DEF Show
  <2> QED
    BY <1>13, <2>1, <2>2 DEF Show, TypeOK, engine, buf
<1>14. CASE NetworkChange
  BY <1>14 DEF NetworkChange, Signal, Negotiate, TypeOK, engine, buf
<1>15. CASE Stop
  BY <1>15, NewSocketTyped DEF Stop, Signal, TeardownSocket, TypeOK, engine, buf
<1>16. ASSUME NEW p \in PullSlots, StartPull(p) PROVE TypeOK'
  <2>1. [state |-> "asked", cursor |-> cursor] \in Pull
    BY DEF Pull, TypeOK
  <2> QED
    BY <1>16, <2>1 DEF StartPull, TypeOK, conns, page, buf
<1>17. ASSUME NEW p \in PullSlots, AskTransport(p) PROVE TypeOK'
  <2>1. pull' \in [PullSlots -> {Idle} \cup Pull]
    <3>1. pull[p].state = "asked" /\ pull[p].cursor \in 0 .. MaxEvents
      BY <1>17, PullFields DEF AskTransport
    <3>2. CASE Answer(p, buffer, bufCursor, TRUE)
      BY <3>2, AnswerTyped DEF TypeOK
    <3>3. CASE Answer(p, {}, pull[p].cursor, FALSE)
      BY <3>1, <3>3, AnswerTyped
    <3>4. CASE Answer(p, (pull[p].cursor + 1) .. head,
                      IF head > pull[p].cursor THEN head ELSE pull[p].cursor, FALSE)
      <4>1. (pull[p].cursor + 1) .. head \in SUBSET (1 .. MaxEvents)
        BY <3>1 DEF TypeOK
      <4>2. (IF head > pull[p].cursor THEN head ELSE pull[p].cursor) \in 0 .. MaxEvents
        BY <3>1 DEF TypeOK
      <4> QED
        BY <3>4, <4>1, <4>2, AnswerTyped
    <3> QED
      BY <1>17, <3>2, <3>3, <3>4 DEF AskTransport
  <2>2. buffer' \subseteq 1 .. MaxEvents /\ bufCursor' \in 0 .. MaxEvents
    <3>1. CASE UNCHANGED buf
      BY <3>1 DEF buf, TypeOK
    <3>2. CASE buffer' = {} /\ bufCursor' = 0
      BY <3>2
    <3> QED
      BY <1>17, <3>1, <3>2 DEF AskTransport
  <2> QED
    BY <1>17, <2>1, <2>2 DEF AskTransport, TypeOK, conns, page
<1>18. ASSUME NEW p \in PullSlots, EndPull(p) PROVE TypeOK'
  <2>1. pull[p].events \subseteq 1 .. MaxEvents /\ pull[p].nextCursor \in 0 .. MaxEvents
    BY <1>18, PullFields DEF EndPull
  <2> QED
    BY <1>18, <2>1 DEF EndPull, TypeOK, conns, page, buf
<1>19. ASSUME NEW p \in PullSlots, PullFails(p) PROVE TypeOK'
  BY <1>19 DEF PullFails, Fault, TypeOK, conns, page, buf
<1>20. CASE Append
  BY <1>20 DEF Append, TypeOK, engine, conns, page, buf
<1> QED
  BY <1>1, <1>2, <1>3, <1>4, <1>5, <1>6, <1>7, <1>8, <1>9, <1>10, <1>11, <1>12, <1>13, <1>14,
     <1>15, <1>16, <1>17, <1>18, <1>19, <1>20 DEF Next

\* Whatever the sockets, timers, signals and pulls do, in any order, the state
\* of the transport and of the engine keeps its type.
THEOREM SpecTypeOK == Spec => []TypeOK
<1>1. Init => TypeOK
  BY TypeInit
<1>2. TypeOK /\ [Next]_vars => TypeOK'
  BY TypeStep
<1> QED
  BY <1>1, <1>2, PTL DEF Spec

-----------------------------------------------------------------------------
(* The transport's own socket.                                             *)

\* As long as openSocket has lost sight of no socket, this.ws is the only one
\* there is, a hidden or stopped transport has none and no timer, and the phase
\* is live only while the socket is.
OnlyOurs == \A s \in Sockets : s # ws => sock[s] = Unused
Parked == hidden \/ stopped => ws = NoSocket /\ timers = {}
LiveOwn ==
    phase = "live" =>
        /\ ws \in Sockets
        /\ sock[ws].state = "open" /\ sock[ws].live /\ sock[ws].read >= sock[ws].until

OwnInv == "orphan" \notin slips => OnlyOurs /\ Parked /\ LiveOwn

\* A visible client with a URL and no socket has a timer.
Armed ==
    ~stopped /\ ~hidden /\ ~disabled /\ url /\ metas = 0 /\ ws = NoSocket => timers # {}

LEMMA OpenSocketOwn ==
    ASSUME TypeOK, OwnInv, NEW known \in BOOLEAN, OpenSocket(known),
           UNCHANGED <<hidden, stopped>>, timers' \subseteq timers
    PROVE  OwnInv'
<1> SUFFICES ASSUME "orphan" \notin slips' PROVE (OnlyOurs /\ Parked /\ LiveOwn)'
  BY DEF OwnInv
<1>1. CASE UNCHANGED <<phase, ws, sock, buf, slips>>
  BY <1>1 DEF OwnInv, OnlyOurs, Parked, LiveOwn
<1>2. ASSUME NEW s \in Sockets,
             ~stopped, known, ~disabled, ~hidden, Fresh(s),
             ws' = s, phase' = "connecting",
             sock' = [sock EXCEPT ![s] = [Unused EXCEPT !.state = "token"]],
             slips' = IF ws # NoSocket /\ Connected(ws) THEN slips \cup {"orphan"} ELSE slips
      PROVE  (OnlyOurs /\ Parked /\ LiveOwn)'
  <2>1. "orphan" \notin slips /\ (ws = NoSocket \/ ~Connected(ws))
    BY <1>2
  <2>2. OnlyOurs
    BY <2>1 DEF OwnInv
  <2>3. ws # NoSocket => s = ws
    BY <1>2, <2>1 DEF Fresh
  <2>4. \A r \in Sockets : r # s => sock'[r] = sock[r]
    BY <1>2 DEF TypeOK
  <2>5. \A r \in Sockets : r # s => sock[r] = Unused
    BY <2>2, <2>3, WsClientTyped DEF OnlyOurs
  <2>6. OnlyOurs'
    BY <1>2, <2>4, <2>5 DEF OnlyOurs
  <2> QED
    BY <1>2, <2>6 DEF Parked, LiveOwn
<1> QED
  BY <1>1, <1>2, OpenSocketStep

\* openSocket leaves a socket where one is wanted.
LEMMA OpenSocketArms ==
    ASSUME TypeOK, NEW known \in BOOLEAN, OpenSocket(known),
           ~stopped, known, ~disabled, ~hidden
    PROVE  ws' # NoSocket
BY OpenSocketStep, WsClientTyped

\* A socket that is connected is this.ws.
LEMMA OursIfConnected ==
    ASSUME TypeOK, OwnInv, "orphan" \notin slips, NEW s \in Sockets,
           sock[s].state # "unused"
    PROVE  s = ws /\ ~hidden /\ ~stopped
BY NewSocketTyped, WsClientTyped DEF OwnInv, OnlyOurs, Parked

LEMMA OwnStep ==
    ASSUME TypeOK, OwnInv, [Next]_vars
    PROVE  OwnInv'
<1>1. CASE UNCHANGED vars
  BY <1>1 DEF OwnInv, OnlyOurs, Parked, LiveOwn, vars, conns, page
<1>2. CASE MetaAnswered
  <2>1. CASE OpenSocket(TRUE)
    BY <1>2, <2>1, OpenSocketOwn DEF MetaAnswered, page
  <2>2. CASE /\ IF stopped THEN UNCHANGED <<url, phase>> ELSE url' = FALSE /\ phase' = "idle"
             /\ UNCHANGED <<ws, sock, buf, slips>>
    BY <1>2, <2>2 DEF MetaAnswered, page, OwnInv, OnlyOurs, Parked, LiveOwn
  <2> QED
    BY <1>2, <2>1, <2>2 DEF MetaAnswered
<1>3. ASSUME NEW s \in Sockets, TokenReady(s) PROVE OwnInv'
  <2> SUFFICES ASSUME "orphan" \notin slips' PROVE (OnlyOurs /\ Parked /\ LiveOwn)'
    BY DEF OwnInv
  <2>1. OnlyOurs /\ Parked /\ LiveOwn
    BY <1>3 DEF TokenReady, OwnInv
  <2>2. OnlyOurs'
    BY <1>3, <2>1 DEF TokenReady, OnlyOurs, TypeOK
  <2>3. phase # "live"
    BY <1>3, <2>1 DEF TokenReady, LiveOwn
  <2> QED
    BY <1>3, <2>1, <2>2, <2>3 DEF TokenReady, page, Parked, LiveOwn
<1>4. ASSUME NEW s \in Sockets, TokenFails(s) PROVE OwnInv'
  <2> SUFFICES ASSUME "orphan" \notin slips' PROVE (OnlyOurs /\ Parked /\ LiveOwn)'
    BY DEF OwnInv
  <2>1. OnlyOurs /\ ~hidden /\ ~stopped
    BY <1>4, OursIfConnected DEF TokenFails, OwnInv
  <2>2. OnlyOurs'
    BY <1>4, <2>1 DEF TokenFails, OnlyOurs, TypeOK
  <2> QED
    BY <1>4, <2>1, <2>2 DEF TokenFails, page, Parked, LiveOwn
<1>5. ASSUME NEW s \in Sockets, AuthOk(s) PROVE OwnInv'
  <2> SUFFICES ASSUME "orphan" \notin slips' PROVE (OnlyOurs /\ Parked /\ LiveOwn)'
    BY DEF OwnInv
  <2>1. OnlyOurs /\ s = ws /\ ~hidden /\ ~stopped
    BY <1>5, OursIfConnected DEF AuthOk, OwnInv
  <2>2. OnlyOurs'
    BY <1>5, <2>1 DEF AuthOk, OnlyOurs, TypeOK
  <2> QED
    BY <1>5, <2>1, <2>2 DEF AuthOk, page, Parked, LiveOwn
<1>6. ASSUME NEW s \in Sockets, AuthErr(s) PROVE OwnInv'
  <2> SUFFICES ASSUME "orphan" \notin slips' PROVE (OnlyOurs /\ Parked /\ LiveOwn)'
    BY DEF OwnInv
  <2>1. OnlyOurs /\ s = ws /\ ~hidden /\ ~stopped
    BY <1>6, OursIfConnected DEF AuthErr, OwnInv
  <2>2. OnlyOurs'
    BY <1>6, <2>1 DEF AuthErr, OnlyOurs, TypeOK
  <2> QED
    BY <1>6, <2>1, <2>2 DEF AuthErr, page, Parked, LiveOwn
<1>7. ASSUME NEW s \in Sockets, EventsFrame(s) PROVE OwnInv'
  <2> SUFFICES ASSUME "orphan" \notin slips' PROVE (OnlyOurs /\ Parked /\ LiveOwn)'
    BY DEF OwnInv
  <2>1. OnlyOurs /\ Parked /\ LiveOwn /\ s = ws /\ ~hidden /\ ~stopped
    BY <1>7, OursIfConnected DEF EventsFrame, OwnInv
  <2>2. PICK to \in (sock[s].read + 1) .. head : sock' = [sock EXCEPT ![s].read = to]
    BY <1>7 DEF EventsFrame
  <2>3. OnlyOurs'
    BY <1>7, <2>1, <2>2 DEF EventsFrame, OnlyOurs, TypeOK
  <2>4. /\ sock'[s].state = sock[s].state /\ sock'[s].live = sock[s].live
        /\ sock'[s].until = sock[s].until /\ sock'[s].read = to
    BY <2>2, SocketFields DEF TypeOK, Socket
  <2>5. to >= sock[s].read /\ to \in Nat /\ sock[s].read \in Nat /\ sock[s].until \in Nat
    BY <2>2, SocketFields DEF TypeOK
  <2>6. LiveOwn'
    BY <1>7, <2>1, <2>4, <2>5 DEF EventsFrame, LiveOwn
  <2> QED
    BY <1>7, <2>1, <2>3, <2>6 DEF EventsFrame, page, Parked
<1>8. ASSUME NEW s \in Sockets, LiveFrame(s) PROVE OwnInv'
  <2> SUFFICES ASSUME "orphan" \notin slips' PROVE (OnlyOurs /\ Parked /\ LiveOwn)'
    BY DEF OwnInv
  <2>1. OnlyOurs /\ s = ws /\ ~hidden /\ ~stopped
    BY <1>8, OursIfConnected DEF LiveFrame, OwnInv
  <2>2. OnlyOurs'
    BY <1>8, <2>1 DEF LiveFrame, OnlyOurs, TypeOK
  <2>3. /\ sock'[s].state = "open" /\ sock'[s].live
        /\ sock'[s].until = sock[s].until /\ sock'[s].read = sock[s].read
    BY <1>8, SocketFields DEF LiveFrame, TypeOK, Socket
  <2>4. LiveOwn'
    BY <1>8, <2>1, <2>3 DEF LiveFrame, LiveOwn
  <2> QED
    BY <1>8, <2>1, <2>2, <2>4 DEF LiveFrame, page, Parked
<1>9. ASSUME NEW s \in Sockets, SocketClosed(s) PROVE OwnInv'
  <2> SUFFICES ASSUME "orphan" \notin slips' PROVE (OnlyOurs /\ Parked /\ LiveOwn)'
    BY DEF OwnInv
  <2>1. OnlyOurs /\ s = ws /\ ~hidden /\ ~stopped
    BY <1>9, OursIfConnected DEF SocketClosed, Connected, OwnInv
  <2>2. OnlyOurs'
    BY <1>9, <2>1 DEF SocketClosed, OnlyOurs, TypeOK
  <2>3. phase' # "live"
    BY <1>9 DEF SocketClosed
  <2> QED
    BY <1>9, <2>1, <2>2, <2>3 DEF SocketClosed, page, Parked, LiveOwn
<1>10. CASE ReconnectFires
  BY <1>10, OpenSocketOwn DEF ReconnectFires, page, TypeOK
<1>11. CASE GiveUpFires
  BY <1>11, OpenSocketOwn DEF GiveUpFires, page, TypeOK
<1>12. ASSUME TeardownSocket, timers' = {}, slips' = slips PROVE OwnInv'
  <2> SUFFICES ASSUME "orphan" \notin slips' PROVE (OnlyOurs /\ Parked /\ LiveOwn)'
    BY DEF OwnInv
  <2>1. OnlyOurs'
    BY <1>12 DEF TeardownSocket, OwnInv, OnlyOurs
  <2> QED
    BY <1>12, <2>1 DEF TeardownSocket, Parked, LiveOwn
<1>13. ASSUME timers' = {}, UNCHANGED <<phase, ws, sock, slips, stopped>>,
              hidden' => hidden
       PROVE  OwnInv'
  BY <1>13 DEF OwnInv, OnlyOurs, Parked, LiveOwn
<1>14. ASSUME UNCHANGED <<conns, page>>, slips \subseteq slips' PROVE OwnInv'
  BY <1>14 DEF OwnInv, OnlyOurs, Parked, LiveOwn, conns, page
<1>15. ASSUME NEW p \in PullSlots, StartPull(p) \/ AskTransport(p) \/ EndPull(p) \/ PullFails(p)
       PROVE  OwnInv'
  BY <1>14, <1>15 DEF StartPull, AskTransport, EndPull, PullFails
<1> QED
  BY <1>1, <1>2, <1>3, <1>4, <1>5, <1>6, <1>7, <1>8, <1>9, <1>10, <1>11, <1>12, <1>13, <1>14, <1>15
  DEF Next, Hide, Show, NetworkChange, Stop, Append

LEMMA ArmedStep ==
    ASSUME TypeOK, Armed, [Next]_vars
    PROVE  Armed'
<1>1. CASE UNCHANGED vars
  BY <1>1 DEF Armed, vars, conns, page
<1>2. CASE MetaAnswered
  <2>1. CASE OpenSocket(TRUE)
    <3>1. CASE ~stopped /\ ~hidden /\ ~disabled
      BY <2>1, <3>1, OpenSocketArms DEF Armed
    <3> QED
      BY <1>2, <3>1 DEF MetaAnswered, page, Armed
  <2>2. CASE IF stopped THEN UNCHANGED <<url, phase>> ELSE url' = FALSE /\ phase' = "idle"
    BY <1>2, <2>2 DEF MetaAnswered, page, Armed
  <2> QED
    BY <1>2, <2>1, <2>2 DEF MetaAnswered
<1>3. ASSUME NEW s \in Sockets, TokenReady(s) PROVE Armed'
  BY <1>3, WsClientTyped DEF TokenReady, page, Armed
<1>4. ASSUME NEW s \in Sockets, TokenFails(s) PROVE Armed'
  BY <1>4, FailureSetsTimer DEF TokenFails, page, Armed
<1>5. ASSUME NEW s \in Sockets, AuthOk(s) \/ EventsFrame(s) \/ LiveFrame(s) PROVE Armed'
  BY <1>5 DEF AuthOk, EventsFrame, LiveFrame, page, Armed
<1>6. ASSUME NEW s \in Sockets, AuthErr(s) PROVE Armed'
  BY <1>6, FailureSetsTimer DEF AuthErr, page, Armed
<1>7. ASSUME NEW s \in Sockets, SocketClosed(s) PROVE Armed'
  <2>1. CASE RegisterFailure /\ UNCHANGED disabled
    BY <1>7, <2>1, FailureSetsTimer DEF SocketClosed, page, Armed
  <2>2. CASE ScheduleReconnect(disabled) /\ UNCHANGED disabled
    BY <1>7, <2>2 DEF SocketClosed, ScheduleReconnect, page, Armed
  <2> QED
    BY <1>7, <2>1, <2>2 DEF SocketClosed, page, Armed
<1>8. CASE ReconnectFires
  BY <1>8, OpenSocketArms DEF ReconnectFires, page, Armed, TypeOK
<1>9. CASE GiveUpFires
  BY <1>9, OpenSocketArms DEF GiveUpFires, page, Armed, TypeOK
<1>10. CASE Hide \/ Stop
  BY <1>10 DEF Hide, Stop, Armed
<1>11. CASE Show \/ NetworkChange
  <2>1. ~stopped' /\ ~disabled' => metas' = metas + 1
    BY <1>11 DEF Show, NetworkChange, Negotiate
  <2>2. metas \in Nat
    BY DEF TypeOK
  <2> QED
    BY <2>1, <2>2 DEF Armed
<1>12. ASSUME NEW p \in PullSlots, StartPull(p) \/ AskTransport(p) \/ EndPull(p) \/ PullFails(p)
       PROVE  Armed'
  BY <1>12 DEF StartPull, AskTransport, EndPull, PullFails, conns, page, Armed
<1>13. CASE Append
  BY <1>13 DEF Append, conns, page, Armed
<1> QED
  BY <1>1, <1>2, <1>3, <1>4, <1>5, <1>6, <1>7, <1>8, <1>9, <1>10, <1>11, <1>12, <1>13 DEF Next

-----------------------------------------------------------------------------
(* What the cursor has passed.                                             *)

\* Stored, or in the hands of a pull whose failure would be a slip.
Held(n) ==
    \/ n \in applied
    \/ \E p \in PullSlots :
          pull[p].state = "answered" /\ pull[p].buffered /\ n \in pull[p].events

KeptTo(c) == \A n \in 1 .. c : Held(n)
BufferedTo(c) == \A n \in 1 .. c : Held(n) \/ n \in buffer

\* What a pull will leave as the cursor is covered by what it will have stored.
\* Two pulls may be under way, and the one that ends last sets the cursor: what
\* the other has applied, or holds, counts.
PullSafe(p) ==
    /\ pull[p].state = "asked" => KeptTo(pull[p].cursor)
    /\ pull[p].state = "answered" =>
          \A n \in 1 .. pull[p].nextCursor : Held(n) \/ n \in pull[p].events

PullsSafe == \A p \in PullSlots : PullSafe(p)
BufferSafe == buffer # {} => BufferedTo(bufCursor)

\* What a socket has delivered is held or in the buffer: a socket whose buffer
\* was thrown away is not open.
SocketsSafe == \A s \in Sockets : sock[s].state = "open" => BufferedTo(sock[s].read)

SkipInv == slips = {} => KeptTo(cursor) /\ PullsSafe /\ BufferSafe /\ SocketsSafe

\* A step of the connection that touches neither the buffer nor what an open
\* socket has delivered.
LEMMA ConnectionKeeps ==
    ASSUME TypeOK, SkipInv, UNCHANGED <<engine, buf>>, slips \subseteq slips',
           \A s \in Sockets : sock'[s].state = "open" =>
                                 sock[s].state = "open" /\ sock'[s].read = sock[s].read
    PROVE  SkipInv'
<1> SUFFICES ASSUME slips' = {} PROVE (KeptTo(cursor) /\ PullsSafe /\ BufferSafe /\ SocketsSafe)'
  BY DEF SkipInv
<1>1. KeptTo(cursor) /\ PullsSafe /\ BufferSafe /\ SocketsSafe
  BY DEF SkipInv
<1>2. \A n : Held(n)' <=> Held(n)
  BY DEF Held, engine
<1>3. KeptTo(cursor)'
  BY <1>1, <1>2 DEF KeptTo, engine
<1>4. PullsSafe'
  BY <1>1, <1>2 DEF PullsSafe, PullSafe, KeptTo, engine
<1>5. BufferSafe'
  BY <1>1, <1>2 DEF BufferSafe, BufferedTo, buf
<1>6. SocketsSafe'
  BY <1>1, <1>2 DEF SocketsSafe, BufferedTo, buf
<1> QED
  BY <1>3, <1>4, <1>5, <1>6

\* openSocket empties the buffer, and no socket is open after it, unless it has
\* lost sight of one.
LEMMA OpenSocketKeeps ==
    ASSUME TypeOK, OwnInv, SkipInv, NEW known \in BOOLEAN, OpenSocket(known), UNCHANGED engine
    PROVE  SkipInv'
<1>1. CASE UNCHANGED <<phase, ws, sock, buf, slips>>
  BY <1>1, ConnectionKeeps
<1>2. ASSUME NEW s \in Sockets, Fresh(s), ws' = s,
             sock' = [sock EXCEPT ![s] = [Unused EXCEPT !.state = "token"]],
             buffer' = {},
             slips' = IF ws # NoSocket /\ Connected(ws) THEN slips \cup {"orphan"} ELSE slips
      PROVE  SkipInv'
  <2> SUFFICES ASSUME slips' = {}
               PROVE  (KeptTo(cursor) /\ PullsSafe /\ BufferSafe /\ SocketsSafe)'
    BY DEF SkipInv
  <2>1. slips = {} /\ (ws = NoSocket \/ ~Connected(ws))
    BY <1>2
  <2>2. KeptTo(cursor) /\ PullsSafe
    BY <2>1 DEF SkipInv
  <2>3. \A n : Held(n)' <=> Held(n)
    BY DEF Held, engine
  <2>4. KeptTo(cursor)' /\ PullsSafe'
    BY <2>2, <2>3 DEF KeptTo, PullsSafe, PullSafe, engine
  <2>5. \A r \in Sockets : sock'[r].state # "open"
    <3> TAKE r \in Sockets
    <3>1. CASE r = s
      BY <1>2, <3>1, NewSocketTyped DEF TypeOK
    <3>2. CASE r # s
      <4>1. sock'[r] = sock[r]
        BY <1>2, <3>2 DEF TypeOK
      <4>2. ws # NoSocket => s = ws
        BY <1>2, <2>1 DEF Fresh
      <4>3. sock[r] = Unused
        BY <2>1, <3>2, <4>2, WsClientTyped DEF OwnInv, OnlyOurs
      <4> QED
        BY <4>1, <4>3, NewSocketTyped
    <3> QED
      BY <3>1, <3>2
  <2> QED
    BY <1>2, <2>4, <2>5 DEF BufferSafe, SocketsSafe
<1> QED
  BY <1>1, <1>2, OpenSocketStep

LEMMA AuthOkKeeps ==
    ASSUME TypeOK, SkipInv, NEW s \in Sockets, AuthOk(s)
    PROVE  SkipInv'
<1> SUFFICES ASSUME slips' = {} PROVE (KeptTo(cursor) /\ PullsSafe /\ BufferSafe /\ SocketsSafe)'
  BY DEF SkipInv
<1>1. KeptTo(cursor) /\ PullsSafe /\ BufferSafe /\ SocketsSafe
  BY DEF SkipInv, AuthOk
<1>2. \A n : Held(n)' <=> Held(n)
  BY DEF AuthOk, Held, engine
<1>3. KeptTo(cursor)' /\ PullsSafe' /\ BufferSafe'
  BY <1>1, <1>2 DEF AuthOk, KeptTo, PullsSafe, PullSafe, BufferSafe, BufferedTo, engine, buf
<1>4. BufferedTo(cursor)'
  BY <1>3 DEF KeptTo, BufferedTo
<1>5. ASSUME NEW r \in Sockets, sock'[r].state = "open" PROVE BufferedTo(sock[r].read)'
  <2>1. CASE r = s
    BY <1>4, <2>1 DEF AuthOk, TypeOK, engine, BufferedTo
  <2>2. CASE r # s
    <3>1. sock'[r] = sock[r]
      BY <2>2 DEF AuthOk, TypeOK
    <3> QED
      BY <1>1, <1>2, <1>5, <3>1 DEF AuthOk, SocketsSafe, BufferedTo, buf
  <2> QED
    BY <2>1, <2>2
<1> QED
  BY <1>3, <1>5 DEF SocketsSafe

\* A frame carries on where the last one ended.
LEMMA EventsKeep ==
    ASSUME TypeOK, SkipInv, NEW s \in Sockets, EventsFrame(s)
    PROVE  SkipInv'
<1> SUFFICES ASSUME slips' = {} PROVE (KeptTo(cursor) /\ PullsSafe /\ BufferSafe /\ SocketsSafe)'
  BY DEF SkipInv
<1>1. KeptTo(cursor) /\ PullsSafe /\ BufferSafe /\ SocketsSafe
  BY DEF SkipInv, EventsFrame
<1>2. \A n : Held(n)' <=> Held(n)
  BY DEF EventsFrame, Held, engine
<1>3. KeptTo(cursor)' /\ PullsSafe'
  BY <1>1, <1>2 DEF EventsFrame, KeptTo, PullsSafe, PullSafe, engine
<1>4. PICK to \in (sock[s].read + 1) .. head :
         /\ buffer' = buffer \cup ((sock[s].read + 1) .. to)
         /\ bufCursor' = to
         /\ sock' = [sock EXCEPT ![s].read = to]
  BY DEF EventsFrame
<1>5. BufferedTo(sock[s].read)
  BY <1>1 DEF EventsFrame, SocketsSafe
<1>6. \A n \in 1 .. to : Held(n)' \/ n \in buffer'
  <2>1. sock[s].read \in Nat /\ to \in Nat
    BY SocketFields DEF TypeOK
  <2> TAKE n \in 1 .. to
  <2>2. n \in 1 .. sock[s].read \/ n \in (sock[s].read + 1) .. to
    BY <2>1
  <2> QED
    BY <1>2, <1>4, <1>5, <2>2 DEF BufferedTo
<1>7. BufferSafe'
  BY <1>4, <1>6 DEF BufferSafe, BufferedTo
<1>8. ASSUME NEW r \in Sockets, sock'[r].state = "open" PROVE BufferedTo(sock[r].read)'
  <2>1. CASE r = s
    <3>1. sock'[r].read = to
      BY <1>4, <2>1, SocketFields DEF TypeOK, Socket
    <3> QED
      BY <1>6, <3>1 DEF BufferedTo
  <2>2. CASE r # s
    <3>1. sock'[r] = sock[r]
      BY <1>4, <2>2 DEF TypeOK
    <3> QED
      BY <1>1, <1>2, <1>4, <1>8, <3>1 DEF SocketsSafe, BufferedTo
  <2> QED
    BY <2>1, <2>2
<1> QED
  BY <1>3, <1>7, <1>8 DEF SocketsSafe

LEMMA StartKeeps ==
    ASSUME TypeOK, SkipInv, NEW p \in PullSlots, StartPull(p)
    PROVE  SkipInv'
<1> SUFFICES ASSUME slips' = {} PROVE (KeptTo(cursor) /\ PullsSafe /\ BufferSafe /\ SocketsSafe)'
  BY DEF SkipInv
<1>1. KeptTo(cursor) /\ PullsSafe /\ BufferSafe /\ SocketsSafe
  BY DEF SkipInv, StartPull
<1>2. /\ pull'[p] = [state |-> "asked", cursor |-> cursor]
      /\ \A q \in PullSlots : q # p => pull'[q] = pull[q]
      /\ pull[p].state = "idle"
  BY DEF StartPull, TypeOK, Idle
<1>3. \A n : Held(n)' <=> Held(n)
  BY <1>2 DEF StartPull, Held
<1>4. KeptTo(cursor)'
  BY <1>1, <1>3 DEF StartPull, KeptTo
<1>5. PullsSafe'
  <2>1. ASSUME NEW q \in PullSlots PROVE PullSafe(q)'
    <3>1. CASE q = p
      BY <1>2, <1>4, <3>1 DEF StartPull, PullSafe, KeptTo
    <3>2. CASE q # p
      BY <1>1, <1>2, <1>3, <3>2 DEF PullsSafe, PullSafe, KeptTo
    <3> QED
      BY <3>1, <3>2
  <2> QED
    BY <2>1 DEF PullsSafe
<1> QED
  BY <1>1, <1>3, <1>4, <1>5
  DEF StartPull, BufferSafe, SocketsSafe, BufferedTo, buf, conns

\* The buffer changes hands whole, and its cursor with it.
LEMMA AskKeeps ==
    ASSUME TypeOK, SkipInv, NEW p \in PullSlots, AskTransport(p)
    PROVE  SkipInv'
<1> SUFFICES ASSUME slips' = {} PROVE (KeptTo(cursor) /\ PullsSafe /\ BufferSafe /\ SocketsSafe)'
  BY DEF SkipInv
<1>1. KeptTo(cursor) /\ PullsSafe /\ BufferSafe /\ SocketsSafe
  BY DEF SkipInv, AskTransport
<1>2. pull[p].state = "asked" /\ pull[p].cursor \in 0 .. MaxEvents /\ head \in 0 .. MaxEvents
  BY PullFields DEF AskTransport, TypeOK
<1>3. KeptTo(pull[p].cursor)
  BY <1>1, <1>2 DEF PullsSafe, PullSafe
<1>4. ASSUME NEW evs, NEW next, NEW b \in BOOLEAN, Answer(p, evs, next, b),
             \A n \in 1 .. next : Held(n) \/ n \in evs,
             \A n \in buffer : n \in buffer' \/ (b /\ n \in evs),
             buffer' \subseteq buffer, buffer' # {} => bufCursor' = bufCursor
      PROVE  SkipInv'
  <2>1. /\ pull'[p].state = "answered" /\ pull'[p].events = evs
        /\ pull'[p].nextCursor = next /\ pull'[p].buffered = b
        /\ \A q \in PullSlots : q # p => pull'[q] = pull[q]
    BY <1>4 DEF Answer, TypeOK
  <2>2. \A n : Held(n) => Held(n)'
    BY <1>2, <2>1 DEF AskTransport, Held
  <2>3. \A n \in buffer : Held(n)' \/ n \in buffer'
    BY <1>4, <2>1 DEF Held
  <2>4. KeptTo(cursor)'
    BY <1>1, <2>2 DEF AskTransport, KeptTo
  <2>5. ASSUME NEW q \in PullSlots PROVE PullSafe(q)'
    <3>1. CASE q = p
      BY <1>4, <2>1, <2>2, <3>1 DEF PullSafe
    <3>2. CASE q # p
      BY <1>1, <2>1, <2>2, <3>2 DEF PullsSafe, PullSafe, KeptTo
    <3> QED
      BY <3>1, <3>2
  <2>6. \A c : BufferedTo(c) => BufferedTo(c)'
    BY <2>2, <2>3 DEF BufferedTo
  <2>7. BufferSafe'
    BY <1>1, <1>4, <2>6 DEF BufferSafe
  <2>8. SocketsSafe'
    BY <1>1, <2>2, <2>3 DEF AskTransport, conns, SocketsSafe, BufferedTo
  <2> QED
    BY <2>4, <2>5, <2>7, <2>8 DEF SkipInv, PullsSafe
<1>5. CASE buffer # {} /\ Answer(p, buffer, bufCursor, TRUE) /\ buffer' = {}
  <2>1. \A n \in 1 .. bufCursor : Held(n) \/ n \in buffer
    BY <1>1, <1>5 DEF BufferSafe, BufferedTo
  <2> QED
    BY <1>4, <1>5, <2>1 DEF SkipInv
<1>6. CASE buffer = {} /\ Answer(p, {}, pull[p].cursor, FALSE) /\ UNCHANGED buf
  BY <1>3, <1>4, <1>6 DEF SkipInv, KeptTo, buf
<1>7. CASE /\ buffer = {} /\ UNCHANGED buf
           /\ Answer(p, (pull[p].cursor + 1) .. head,
                     IF head > pull[p].cursor THEN head ELSE pull[p].cursor, FALSE)
  <2>1. \A n \in 1 .. (IF head > pull[p].cursor THEN head ELSE pull[p].cursor) :
           n \in 1 .. pull[p].cursor \/ n \in (pull[p].cursor + 1) .. head
    BY <1>2
  <2>2. \A n \in 1 .. (IF head > pull[p].cursor THEN head ELSE pull[p].cursor) :
           Held(n) \/ n \in (pull[p].cursor + 1) .. head
    BY <1>3, <2>1 DEF KeptTo
  <2> QED
    BY <1>4, <1>7, <2>2 DEF SkipInv, buf
<1> QED
  BY <1>5, <1>6, <1>7 DEF AskTransport, SkipInv

\* The pull that ends has stored all that its cursor passes.
LEMMA EndKeeps ==
    ASSUME TypeOK, SkipInv, NEW p \in PullSlots, EndPull(p)
    PROVE  SkipInv'
<1> SUFFICES ASSUME slips' = {} PROVE (KeptTo(cursor) /\ PullsSafe /\ BufferSafe /\ SocketsSafe)'
  BY DEF SkipInv
<1>1. KeptTo(cursor) /\ PullsSafe /\ BufferSafe /\ SocketsSafe
  BY DEF SkipInv, EndPull
<1>2. /\ pull'[p] = Idle
      /\ \A q \in PullSlots : q # p => pull'[q] = pull[q]
      /\ pull[p].state = "answered" /\ applied' = applied \cup pull[p].events
      /\ cursor' = pull[p].nextCursor
  BY DEF EndPull, TypeOK
<1>3. \A n : Held(n) \/ n \in pull[p].events => Held(n)'
  BY <1>2 DEF Held
<1>4. KeptTo(cursor)'
  BY <1>1, <1>2, <1>3 DEF PullsSafe, PullSafe, KeptTo
<1>5. PullsSafe'
  BY <1>1, <1>2, <1>3 DEF PullsSafe, PullSafe, KeptTo, Idle
<1> QED
  BY <1>1, <1>3, <1>4, <1>5 DEF EndPull, conns, buf, BufferSafe, SocketsSafe, BufferedTo

LEMMA FailKeeps ==
    ASSUME TypeOK, SkipInv, NEW p \in PullSlots, PullFails(p)
    PROVE  SkipInv'
<1> SUFFICES ASSUME slips' = {} PROVE (KeptTo(cursor) /\ PullsSafe /\ BufferSafe /\ SocketsSafe)'
  BY DEF SkipInv
<1>1. slips = {} /\ ~(pull[p].state = "answered" /\ pull[p].buffered)
  BY DEF PullFails
<1>2. KeptTo(cursor) /\ PullsSafe /\ BufferSafe /\ SocketsSafe
  BY <1>1 DEF SkipInv
<1>3. pull'[p] = Idle /\ \A q \in PullSlots : q # p => pull'[q] = pull[q]
  BY DEF PullFails, TypeOK
<1>4. \A n : Held(n) => Held(n)'
  BY <1>1, <1>3 DEF PullFails, Held
<1>5. KeptTo(cursor)'
  BY <1>2, <1>4 DEF PullFails, KeptTo
<1>6. PullsSafe'
  BY <1>2, <1>3, <1>4 DEF PullsSafe, PullSafe, KeptTo, Idle
<1> QED
  BY <1>2, <1>4, <1>5, <1>6 DEF PullFails, conns, buf, BufferSafe, SocketsSafe, BufferedTo

LEMMA SkipStep ==
    ASSUME TypeOK, OwnInv, SkipInv, [Next]_vars
    PROVE  SkipInv'
<1>1. CASE UNCHANGED vars
  BY <1>1, ConnectionKeeps DEF vars, conns
<1>2. CASE MetaAnswered
  <2>1. CASE OpenSocket(TRUE)
    BY <1>2, <2>1, OpenSocketKeeps DEF MetaAnswered
  <2>2. CASE UNCHANGED <<ws, sock, buf, slips>>
    BY <1>2, <2>2, ConnectionKeeps DEF MetaAnswered
  <2> QED
    BY <1>2, <2>1, <2>2 DEF MetaAnswered
<1>3. ASSUME NEW s \in Sockets, TokenReady(s) \/ TokenFails(s) \/ AuthErr(s) \/ SocketClosed(s)
      PROVE  SkipInv'
  <2>1. \A r \in Sockets : sock'[r].state = "open" => sock'[r] = sock[r]
    <3>1. CASE TokenReady(s)
      BY <3>1, SocketFields DEF TokenReady, TypeOK, Socket
    <3>2. CASE TokenFails(s)
      BY <3>2, NewSocketTyped DEF TokenFails, TypeOK
    <3>3. CASE AuthErr(s)
      BY <3>3, NewSocketTyped, SocketFields DEF AuthErr, TypeOK, Socket
    <3>4. CASE SocketClosed(s)
      BY <3>4, NewSocketTyped DEF SocketClosed, TypeOK
    <3> QED
      BY <1>3, <3>1, <3>2, <3>3, <3>4
  <2> QED
    BY <1>3, <2>1, ConnectionKeeps DEF TokenReady, TokenFails, AuthErr, SocketClosed
<1>4. ASSUME NEW s \in Sockets, AuthOk(s) PROVE SkipInv'
  BY <1>4, AuthOkKeeps
<1>5. ASSUME NEW s \in Sockets, EventsFrame(s) PROVE SkipInv'
  BY <1>5, EventsKeep
<1>6. ASSUME NEW s \in Sockets, LiveFrame(s) PROVE SkipInv'
  <2>1. \A r \in Sockets : sock'[r].state = sock[r].state /\ sock'[r].read = sock[r].read
    BY <1>6, SocketFields DEF LiveFrame, TypeOK, Socket
  <2> QED
    BY <1>6, <2>1, ConnectionKeeps DEF LiveFrame
<1>7. CASE ReconnectFires
  BY <1>7, OpenSocketKeeps DEF ReconnectFires, TypeOK
<1>8. CASE GiveUpFires
  BY <1>8, OpenSocketKeeps DEF GiveUpFires, TypeOK
<1>9. CASE Hide \/ Stop
  <2>1. \A r \in Sockets : sock'[r].state = "open" => sock'[r] = sock[r]
    BY <1>9, NewSocketTyped DEF Hide, Stop, TeardownSocket
  <2> QED
    BY <1>9, <2>1, ConnectionKeeps DEF Hide, Stop
<1>10. CASE Show \/ NetworkChange
  BY <1>10, ConnectionKeeps DEF Show, NetworkChange
<1>11. ASSUME NEW p \in PullSlots, StartPull(p) \/ AskTransport(p) \/ EndPull(p) \/ PullFails(p)
       PROVE  SkipInv'
  BY <1>11, StartKeeps, AskKeeps, EndKeeps, FailKeeps
<1>12. CASE Append
  BY <1>12, ConnectionKeeps DEF Append, conns
<1> QED
  BY <1>1, <1>2, <1>3, <1>4, <1>5, <1>6, <1>7, <1>8, <1>9, <1>10, <1>11, <1>12 DEF Next

-----------------------------------------------------------------------------
(* The invariant, and what follows from it.                                *)

Inv == TypeOK /\ OwnInv /\ Armed /\ SkipInv

LEMMA InvInit == Init => Inv
<1> SUFFICES ASSUME Init PROVE Inv
  OBVIOUS
<1>1. OwnInv /\ Armed
  BY DEF Init, OwnInv, OnlyOurs, Parked, LiveOwn, Armed
<1>2. KeptTo(cursor)
  BY DEF Init, KeptTo
<1>3. PullsSafe /\ BufferSafe /\ SocketsSafe
  BY NewSocketTyped DEF Init, PullsSafe, PullSafe, BufferSafe, SocketsSafe, Idle
<1> QED
  BY TypeInit, <1>1, <1>2, <1>3 DEF Inv, SkipInv

THEOREM SpecInv == Spec => []Inv
<1>1. Init => Inv
  BY InvInit
<1>2. Inv /\ [Next]_vars => Inv'
  BY TypeStep, OwnStep, ArmedStep, SkipStep DEF Inv
<1> QED
  BY <1>1, <1>2, PTL DEF Spec

\* However sockets, REST pulls and buffered pulls overlap and end, the cursor
\* passes no event that is not stored or being stored, as long as no socket is
\* lost sight of and no buffered pull fails.
THEOREM SpecOnlySlipsSkip == Spec => []OnlySlipsSkip
<1>1. Inv => OnlySlipsSkip
  BY DEF Inv, SkipInv, KeptTo, Held, OnlySlipsSkip
<1> QED
  BY <1>1, SpecInv, PTL

\* REST pulling is stood down only while the transport's own socket is open and
\* has caught up.
THEOREM SpecLiveIsLive == Spec => []LiveIsLive
<1>1. Inv => LiveIsLive
  BY WsClientTyped DEF Inv, OwnInv, LiveOwn, LiveIsLive
<1> QED
  BY <1>1, SpecInv, PTL

\* A visible client that was offered a socket has one or a timer that opens one,
\* and a hidden or stopped one has neither.
THEOREM SpecNeverStranded == Spec => []NeverStranded
<1>1. Inv => NeverStranded
  BY WsClientTyped DEF Inv, OwnInv, OnlyOurs, Parked, Armed, NeverStranded
<1> QED
  BY <1>1, SpecInv, PTL

=============================================================================
