------------------------------ MODULE WsClient ------------------------------
(***************************************************************************)
(* The web client's transport that prefers a WebSocket to REST polling:    *)
(* apps/web/src/sync/NegotiatingTransport.ts over WebSocketTransport.ts,    *)
(* with the pulls of SyncEngine.ts that read from it.                       *)
(*                                                                         *)
(* An event is its place in the account's log; the server is what WsHub    *)
(* promises: after subscribe(cursor) a socket carries what lies after the  *)
(* cursor, in order, and says live when it has sent what was there.  A     *)
(* step is what the client does between two awaits: on the answer of a     *)
(* request, a frame, a timer or a signal of the browser.                   *)
(***************************************************************************)
EXTENDS Naturals, FiniteSets

CONSTANTS
    Sockets,        \* bound: WebSocket connections open at once
    NoSocket,       \* this.ws = null
    PullSlots,      \* bound: pullSince calls under way
    GiveUpAfter,    \* consecutive failures before giving up (3)
    MaxEvents,      \* bound: length of the log
    MaxMetas,       \* bound: negotiate() calls under way
    MaxSignals,     \* bound: times the tab is hidden, the network changes
                    \* or the transport is stopped
    MaxFaults       \* bound: requests and sockets that fail

ASSUME WsClientTyped ==
    /\ NoSocket \notin Sockets
    /\ GiveUpAfter \in Nat \ {0}
    /\ MaxEvents \in Nat /\ MaxMetas \in Nat \ {0} /\ MaxSignals \in Nat /\ MaxFaults \in Nat

VARIABLES
    head,       \* the server's log is 1 .. head
    cursor,     \* the persisted cursor
    applied,    \* the events the task store has
    phase,      \* wsPhase
    ws,         \* this.ws
    sock,       \* the sockets, this.ws and any other that is still open
    url,        \* this.wsUrl is set
    disabled,   \* wsDisabled
    failed,     \* consecutiveFailures
    timers,     \* the timers that are set: "reconnect", "giveUp"
    metas,      \* negotiate() calls that await /v1/meta
    hidden,     \* the tab is hidden
    stopped,
    buffer,     \* bufferedEvents
    bufCursor,  \* bufferedCursor
    pull,       \* the pullSince calls under way
    slips,      \* history: what may have cost an event, see below
    signals, faults

engine == <<cursor, applied, pull>>
conns == <<phase, ws, sock, url, disabled, failed, timers, metas>>
page == <<hidden, stopped, signals>>
buf == <<buffer, bufCursor>>
vars == <<head, engine, conns, page, buf, slips, faults>>

Unused == [state |-> "unused", read |-> 0, until |-> 0, live |-> FALSE]

\* read: how far the server has sent; until: the log when it was asked; live: it
\* has said so.
Socket == [state : {"unused", "token", "opening", "refused", "open"},
           read : 0 .. MaxEvents, until : 0 .. MaxEvents, live : BOOLEAN]

Idle == [state |-> "idle"]

Pull == [state : {"asked"}, cursor : 0 .. MaxEvents]
        \cup [state : {"answered"}, events : SUBSET (1 .. MaxEvents),
              nextCursor : 0 .. MaxEvents, buffered : BOOLEAN]

TypeOK ==
    /\ head \in 0 .. MaxEvents /\ cursor \in 0 .. MaxEvents
    /\ applied \subseteq 1 .. MaxEvents
    /\ phase \in {"idle", "connecting", "draining", "live", "closed"}
    /\ ws \in Sockets \cup {NoSocket}
    /\ sock \in [Sockets -> Socket]
    /\ url \in BOOLEAN /\ disabled \in BOOLEAN /\ hidden \in BOOLEAN /\ stopped \in BOOLEAN
    /\ failed \in 0 .. GiveUpAfter
    /\ timers \subseteq {"reconnect", "giveUp"}
    /\ metas \in 0 .. MaxMetas
    /\ buffer \subseteq 1 .. MaxEvents /\ bufCursor \in 0 .. MaxEvents
    /\ pull \in [PullSlots -> {Idle} \cup Pull]
    /\ slips \subseteq {"orphan", "dropped"}
    /\ signals \in 0 .. MaxSignals /\ faults \in 0 .. MaxFaults

\* start().  The log is counted from the cursor the device has persisted.
Init ==
    /\ head = 0 /\ cursor = 0 /\ applied = {}
    /\ hidden \in BOOLEAN /\ stopped = FALSE
    /\ metas = IF hidden THEN 0 ELSE 1
    /\ phase = "idle" /\ ws = NoSocket /\ sock = [s \in Sockets |-> Unused]
    /\ url = FALSE /\ disabled = FALSE /\ failed = 0 /\ timers = {}
    /\ buffer = {} /\ bufCursor = 0
    /\ pull = [p \in PullSlots |-> Idle]
    /\ slips = {} /\ signals = 0 /\ faults = 0

Fault == faults < MaxFaults /\ faults' = faults + 1
Signal == signals < MaxSignals /\ signals' = signals + 1

-----------------------------------------------------------------------------
(* Pieces of handlers.                                                     *)

Connected(s) == sock[s].state \in {"opening", "refused", "open"}

\* teardownSocket: closeSilently, so no close handler runs.
TeardownSocket ==
    /\ sock' = [s \in Sockets |-> IF s = ws THEN Unused ELSE sock[s]]
    /\ ws' = NoSocket /\ phase' = "idle"

ScheduleReconnect(off) ==
    timers' = IF stopped \/ off THEN timers ELSE timers \cup {"reconnect"}

\* Only a connection that was live is opened again.
MutRegisterFailure ==
    /\ failed' = IF failed < GiveUpAfter THEN failed + 1 ELSE GiveUpAfter
    /\ timers' = IF failed + 1 >= GiveUpAfter THEN timers \cup {"giveUp"} ELSE timers

\* registerFailure, less the phase and the socket.
RegisterFailure ==
    /\ failed' = IF failed < GiveUpAfter THEN failed + 1 ELSE GiveUpAfter
    /\ IF failed + 1 >= GiveUpAfter THEN timers' = timers \cup {"giveUp"}
                          ELSE ScheduleReconnect(disabled)

\* What a new WebSocketTransport can be called: nothing else refers to it.
Fresh(s) == IF ws # NoSocket /\ ~Connected(ws) THEN s = ws ELSE sock[s] = Unused

\* openSocket.  The socket this.ws named is not closed: if it is connected, it
\* lives on without an owner.  (A socket still awaiting its token never connects.)
OpenSocket(known) ==
    IF stopped \/ ~known \/ disabled \/ hidden
    THEN UNCHANGED <<phase, ws, sock, buf, slips>>
    ELSE /\ \E s \in Sockets : Fresh(s)
         /\ ws' = CHOOSE s \in Sockets : Fresh(s)
         /\ sock' = [sock EXCEPT ![ws'] = [Unused EXCEPT !.state = "token"]]
         /\ phase' = "connecting"
         /\ buffer' = {} /\ bufCursor' = 0
         /\ slips' = IF ws # NoSocket /\ Connected(ws) THEN slips \cup {"orphan"} ELSE slips

\* negotiate() up to its await.
Negotiate ==
    metas' = IF stopped \/ disabled THEN metas ELSE metas + 1

-----------------------------------------------------------------------------
(* Negotiation and sockets.                                                *)

\* negotiate() after its await: /v1/meta offers a socket, or it does not, or
\* could not be fetched in time.
MetaAnswered ==
    /\ metas > 0
    /\ metas' = metas - 1
    /\ \/ /\ url' = (url \/ ~stopped)
          /\ OpenSocket(TRUE)
          /\ UNCHANGED faults
       \/ /\ Fault
          /\ IF stopped THEN UNCHANGED <<url, phase>> ELSE url' = FALSE /\ phase' = "idle"
          /\ UNCHANGED <<ws, sock, buf, slips>>
    /\ UNCHANGED <<head, engine, page, disabled, failed, timers>>

\* The bearer for the socket is there: connect(token).
TokenReady(s) ==
    /\ ws = s /\ sock[s].state = "token"
    /\ sock' = [sock EXCEPT ![s].state = "opening"]
    /\ UNCHANGED <<head, engine, page, buf, phase, ws, url, disabled, failed, timers, metas,
                   slips, faults>>

TokenFails(s) ==
    /\ ws = s /\ sock[s].state = "token" /\ Fault
    /\ sock' = [sock EXCEPT ![s] = Unused]
    /\ ws' = NoSocket /\ phase' = "idle"
    /\ RegisterFailure
    /\ UNCHANGED <<head, engine, page, buf, url, disabled, metas, slips>>

\* auth_ok is taken for live.
MutAuthOk(s) ==
    /\ sock[s].state = "opening"
    /\ phase' = "live"
    /\ sock' = [sock EXCEPT ![s] = [state |-> "open", read |-> cursor, until |-> head,
                                    live |-> FALSE]]
    /\ UNCHANGED <<head, engine, page, buf, ws, url, disabled, failed, timers, metas,
                   slips, faults>>

\* onAuthOk: the phase is the transport's, whichever socket this is.
AuthOk(s) ==
    /\ sock[s].state = "opening"
    /\ phase' = "draining"
    /\ sock' = [sock EXCEPT ![s] = [state |-> "open", read |-> cursor, until |-> head,
                                    live |-> FALSE]]
    /\ UNCHANGED <<head, engine, page, buf, ws, url, disabled, failed, timers, metas, slips, faults>>

\* onAuthErr: it is this.ws that is torn down; another socket is closed by the
\* server in a moment.
AuthErr(s) ==
    /\ sock[s].state = "opening" /\ Fault
    /\ sock' = [r \in Sockets |-> IF r = ws THEN Unused
                                  ELSE IF r = s THEN [sock[r] EXCEPT !.state = "refused"]
                                  ELSE sock[r]]
    /\ ws' = NoSocket /\ phase' = "idle"
    /\ \/ disabled' = TRUE /\ UNCHANGED <<failed, timers>>
       \/ RegisterFailure /\ UNCHANGED disabled
    /\ UNCHANGED <<head, engine, page, buf, url, metas, slips>>

\* What comes before live is not kept, but its cursor is.
MutDrainIgnored(s) ==
    /\ sock[s].state = "open"
    /\ \E to \in (sock[s].read + 1) .. head :
          /\ buffer' = IF phase = "live" THEN buffer \cup ((sock[s].read + 1) .. to) ELSE buffer
          /\ bufCursor' = to
          /\ sock' = [sock EXCEPT ![s].read = to]
    /\ UNCHANGED <<head, engine, page, phase, ws, url, disabled, failed, timers, metas,
                   slips, faults>>

\* What comes after live is not kept.
MutOnlyDrainKept(s) ==
    /\ sock[s].state = "open"
    /\ \E to \in (sock[s].read + 1) .. head :
          /\ IF phase = "live" THEN UNCHANGED buf
             ELSE buffer' = buffer \cup ((sock[s].read + 1) .. to) /\ bufCursor' = to
          /\ sock' = [sock EXCEPT ![s].read = to]
    /\ UNCHANGED <<head, engine, page, phase, ws, url, disabled, failed, timers, metas,
                   slips, faults>>

\* onEvents.
EventsFrame(s) ==
    /\ sock[s].state = "open"
    /\ \E to \in (sock[s].read + 1) .. head :
          /\ buffer' = buffer \cup ((sock[s].read + 1) .. to)
          /\ bufCursor' = to
          /\ sock' = [sock EXCEPT ![s].read = to]
    /\ UNCHANGED <<head, engine, page, phase, ws, url, disabled, failed, timers, metas, slips, faults>>

\* onLive.
LiveFrame(s) ==
    /\ sock[s].state = "open" /\ ~sock[s].live
    /\ sock[s].read >= sock[s].until
    /\ sock' = [sock EXCEPT ![s].live = TRUE]
    /\ phase' = "live" /\ failed' = 0
    /\ UNCHANGED <<head, engine, page, buf, ws, url, disabled, timers, metas, slips, faults>>

\* The server or the network closes socket s, or the heartbeat watchdog does:
\* onClose.  It takes s for this.ws.
SocketClosed(s) ==
    /\ Connected(s)
    /\ IF sock[s].state = "refused" THEN UNCHANGED faults ELSE Fault
    /\ sock' = [sock EXCEPT ![s] = Unused]
    /\ ws' = NoSocket
    /\ \/ /\ ~stopped /\ disabled' = TRUE               \* 4403
          /\ phase' = "closed"
          /\ UNCHANGED <<failed, timers>>
       \/ /\ ~stopped /\ phase # "live"
          /\ RegisterFailure /\ phase' = "idle"
          /\ UNCHANGED disabled
       \/ /\ ~stopped /\ phase = "live"
          /\ failed' = 0 /\ ScheduleReconnect(disabled) /\ phase' = "closed"
          /\ UNCHANGED disabled
       \/ /\ stopped /\ phase' = "closed"
          /\ UNCHANGED <<failed, timers, disabled>>
    /\ UNCHANGED <<head, engine, page, buf, url, metas, slips>>

ReconnectFires ==
    /\ "reconnect" \in timers
    /\ timers' = timers \ {"reconnect"}
    /\ OpenSocket(url)
    /\ UNCHANGED <<head, engine, page, url, disabled, failed, metas, faults>>

\* After 15 minutes the counters are reset, and that is all.
MutGiveUpFires ==
    /\ "giveUp" \in timers
    /\ timers' = timers \ {"giveUp"}
    /\ failed' = 0
    /\ UNCHANGED <<head, engine, page, buf, phase, ws, sock, url, disabled, metas, slips, faults>>

\* After 15 minutes.
GiveUpFires ==
    /\ "giveUp" \in timers
    /\ timers' = timers \ {"giveUp"}
    /\ failed' = 0
    /\ OpenSocket(url)
    /\ UNCHANGED <<head, engine, page, url, disabled, metas, faults>>

-----------------------------------------------------------------------------
(* Signals.                                                                *)

\* onVisibilityChange, hidden.
Hide ==
    /\ ~hidden /\ ~stopped /\ Signal
    /\ hidden' = TRUE
    /\ timers' = {}
    /\ TeardownSocket
    /\ UNCHANGED <<head, engine, buf, url, disabled, failed, metas, stopped, slips, faults>>

\* onVisibilityChange, visible again.
Show ==
    /\ hidden /\ ~stopped /\ metas < MaxMetas
    /\ hidden' = FALSE
    /\ failed' = 0 /\ timers' = {}
    /\ Negotiate
    /\ UNCHANGED <<head, engine, buf, phase, ws, sock, url, disabled, stopped, signals,
                   slips, faults>>

\* onNetworkChange.
NetworkChange ==
    /\ ~stopped /\ ~hidden /\ phase # "live" /\ Signal /\ metas < MaxMetas
    /\ failed' = 0 /\ timers' = {}
    /\ Negotiate
    /\ UNCHANGED <<head, engine, buf, phase, ws, sock, url, disabled, hidden, stopped, slips, faults>>

Stop ==
    /\ ~stopped /\ Signal
    /\ stopped' = TRUE
    /\ timers' = {}
    /\ TeardownSocket
    /\ UNCHANGED <<head, engine, buf, url, disabled, failed, metas, hidden, slips, faults>>

-----------------------------------------------------------------------------
(* Pulls.                                                                  *)

\* pullSince up to await bearer(); the engine's timer is off in a hidden tab.
StartPull(p) ==
    /\ pull[p] = Idle /\ ~hidden /\ ~stopped
    /\ pull' = [pull EXCEPT ![p] = [state |-> "asked", cursor |-> cursor]]
    /\ UNCHANGED <<head, conns, page, buf, cursor, applied, slips, faults>>

Answer(p, evs, next, buffered) ==
    pull' = [pull EXCEPT ![p] = [state |-> "answered", events |-> evs, nextCursor |-> next,
                                 buffered |-> buffered]]

\* The buffer is answered with the place of the next event.
MutAskTransport(p) ==
    /\ pull[p].state = "asked"
    /\ IF buffer # {}
       THEN Answer(p, buffer, bufCursor + 1, TRUE) /\ buffer' = {} /\ bufCursor' = 0
       ELSE Answer(p, {}, pull[p].cursor, FALSE) /\ UNCHANGED buf
    /\ UNCHANGED <<head, conns, page, cursor, applied, slips, faults>>

\* pull(): the buffer, or nothing while live, or a REST pull.
AskTransport(p) ==
    /\ pull[p].state = "asked"
    /\ \/ /\ buffer # {}
          /\ Answer(p, buffer, bufCursor, TRUE)
          /\ buffer' = {} /\ bufCursor' = 0
       \/ /\ buffer = {} /\ phase = "live"
          /\ Answer(p, {}, pull[p].cursor, FALSE)
          /\ UNCHANGED buf
       \/ /\ buffer = {} /\ phase # "live"
          /\ LET c == pull[p].cursor IN
             Answer(p, (c + 1) .. head, IF head > c THEN head ELSE c, FALSE)
          /\ UNCHANGED buf
    /\ UNCHANGED <<head, conns, page, cursor, applied, slips, faults>>

\* The rest of pullSince.
EndPull(p) ==
    /\ pull[p].state = "answered"
    /\ applied' = applied \cup pull[p].events
    /\ cursor' = pull[p].nextCursor
    /\ pull' = [pull EXCEPT ![p] = Idle]
    /\ UNCHANGED <<head, conns, page, buf, slips, faults>>

\* The request fails or an event cannot be stored.  Events that were taken out of
\* the buffer are not put back.
PullFails(p) ==
    /\ pull[p] # Idle /\ Fault
    /\ slips' = IF pull[p].state = "answered" /\ pull[p].buffered
                THEN slips \cup {"dropped"} ELSE slips
    /\ pull' = [pull EXCEPT ![p] = Idle]
    /\ UNCHANGED <<head, conns, page, buf, cursor, applied>>

\* Another device's write.
Append ==
    /\ head < MaxEvents
    /\ head' = head + 1
    /\ UNCHANGED <<engine, conns, page, buf, slips, faults>>

Next ==
    \/ MetaAnswered
    \/ \E s \in Sockets :
          \/ TokenReady(s)
          \/ TokenFails(s)
          \/ AuthOk(s)
          \/ AuthErr(s)
          \/ EventsFrame(s)
          \/ LiveFrame(s)
          \/ SocketClosed(s)
    \/ ReconnectFires
    \/ GiveUpFires
    \/ Hide
    \/ Show
    \/ NetworkChange
    \/ Stop
    \/ \E p \in PullSlots :
          \/ StartPull(p)
          \/ AskTransport(p)
          \/ EndPull(p)
          \/ PullFails(p)
    \/ Append

Spec == Init /\ [][Next]_vars

\* Requests are answered, timers fire, an open socket delivers, and the engine
\* of a visible tab keeps pulling.
FairSpec ==
    /\ Spec
    /\ WF_vars(MetaAnswered) /\ WF_vars(ReconnectFires) /\ WF_vars(GiveUpFires)
    /\ \A s \in Sockets : /\ WF_vars(TokenReady(s)) /\ WF_vars(AuthOk(s))
                          /\ WF_vars(EventsFrame(s)) /\ WF_vars(LiveFrame(s))
                          /\ WF_vars(sock[s].state = "refused" /\ SocketClosed(s))
    /\ \A p \in PullSlots : WF_vars(StartPull(p) \/ AskTransport(p) \/ EndPull(p))

-----------------------------------------------------------------------------
(* Properties.                                                             *)

\* "Neither direction may skip ... an event" (docs/sync-protocol.md 12.4): what
\* the cursor has passed is stored or in the hands of a pull that is storing it,
\* across sockets, REST pulls and whatever order they end in.  Only two things
\* cost an event: a socket that openSocket has lost sight of, and a pull that
\* fails with events it has taken out of the buffer.
OnlySlipsSkip ==
    slips = {} =>
        \A n \in 1 .. cursor :
            \/ n \in applied
            \/ \E p \in PullSlots : pull[p].state = "answered" /\ n \in pull[p].events

\* REST pulling is stood down only on live (12.2): while the transport takes
\* itself for live, its own socket is open, has said live and owes nothing that
\* was written before the subscription.
LiveIsLive ==
    phase = "live" /\ "orphan" \notin slips =>
        /\ ws # NoSocket
        /\ sock[ws].state = "open" /\ sock[ws].live /\ sock[ws].read >= sock[ws].until

\* A visible client that was offered a socket is never left without one and
\* without anything that will open one (12.1, 12.3), not even by a socket that
\* openSocket has lost sight of; a hidden tab or a stopped transport holds no
\* socket and no timer (12.5).
NeverStranded ==
    /\ ~stopped /\ ~hidden /\ ~disabled /\ url /\ metas = 0 /\ ws = NoSocket => timers # {}
    /\ (hidden \/ stopped) /\ "orphan" \notin slips =>
          timers = {} /\ \A s \in Sockets : sock[s] = Unused

\* A visible client ends up with everything in the log.
CatchesUp ==
    <>[](hidden \/ stopped \/ slips # {} \/ 1 .. head \subseteq applied)

\* Once the network behaves, a visible client that is offered a socket and not
\* turned away ends up live.
BecomesLive ==
    <>[](hidden \/ stopped \/ disabled \/ ~url \/ phase = "live")
=============================================================================
