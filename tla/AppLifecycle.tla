---------------------------- MODULE AppLifecycle ----------------------------
(***************************************************************************)
(* The web app around its sync engine: the effect of apps/web/src/ui/      *)
(* App.tsx that starts and stops engines, the life of each SyncEngine, and *)
(* what they share with one another and across page loads: the preferences *)
(* of AccountPanel, the pull cursor and the outbound queue.                *)
(*                                                                         *)
(* SyncClient has what an engine does with tasks.  Here a queue row is the *)
(* account that sealed it, and a cursor the account and the backend that   *)
(* it counts for: of several accounts and backends, which is whose?        *)
(***************************************************************************)
EXTENDS AccountPanel, FiniteSets

CONSTANTS
    MaxRuns         \* bound: calls of startIfEnabled per page load

ASSUME AppTyped == MaxRuns \in Nat \ {0}

VARIABLES
    runId,      \* startIfEnabled's generation counter
    engine,     \* the engine App holds, as the run that made it; 0: null
    starts,     \* starts[i]: run i of startIfEnabled, between its awaits
    engines,    \* engines[i]: the SyncEngine run i made
    hidden,     \* document.hidden
    cursor,     \* localStorage: the pull cursor
    queue,      \* IndexedDB: accounts whose events wait to be sent
    sealing,    \* accounts an event is being sealed for, by a builder of theirs
    owed        \* history: the first run that has to resync; 0: none

appVars == <<runId, engine, starts, engines, hidden, cursor, queue, sealing, owed>>
vars == <<panelVars, appVars>>

Runs == 1 .. MaxRuns

Off == 0    \* the interval of timers that are not armed

NoStart == [at |-> "none", url |-> NoUrl, words |-> NoWords]

\* gap: something was skipped on the way here.
StartCursor == [words |-> NoWords, url |-> NoUrl, gap |-> FALSE]

\* running: the builder and the visibility listener are installed.  pulls: the
\* cursors with which calls of pullSince() under way began; two that began with the
\* same one stand as one.  seal: whose builder seals the row that a rebuild awaits.
NoEngine == [words |-> NoWords, url |-> NoUrl, running |-> FALSE, timers |-> Off,
             pulls |-> {}, resync |-> "no", seal |-> NoWords]

At(words, url) == [words |-> words, url |-> url, gap |-> FALSE]

AppInit ==
    /\ PanelInit
    /\ runId = 1 /\ engine = 0
    /\ starts = [i \in Runs |->
          IF i = 1 /\ prefs.enabled THEN [NoStart EXCEPT !.at = "open", !.url = prefs.url]
          ELSE NoStart]
    /\ engines = [i \in Runs |-> NoEngine]
    /\ hidden = FALSE
    /\ cursor = IF prefs.enabled THEN At(stored, prefs.url) ELSE StartCursor
    /\ queue = {} /\ sealing = {} /\ owed = 0

Quiet(e) == e.pulls = {} /\ e.resync = "no"

\* stop(): the timers, the listener and the builder go; calls under way do not.
Stopped(e) ==
    IF Quiet(e) THEN NoEngine ELSE [e EXCEPT !.running = FALSE, !.timers = Off]

\* What is left of engine i, if e is what its step makes of it.
Becomes(i, e) ==
    engines' = [engines EXCEPT ![i] = IF ~e.running /\ Quiet(e) THEN NoEngine ELSE e]

-----------------------------------------------------------------------------
(* startIfEnabled().                                                       *)

\* Up to the first await: a new generation, the old engine stopped.
StartIfEnabled ==
    /\ runId < MaxRuns
    /\ runId' = runId + 1
    /\ engine' = 0
    /\ engines' = [i \in Runs |-> IF i = engine THEN Stopped(engines[i]) ELSE engines[i]]
    /\ starts' = [starts EXCEPT ![runId + 1] =
          IF prefs'.enabled /\ prefs'.url # NoUrl
          THEN [NoStart EXCEPT !.at = "open", !.url = prefs'.url]
          ELSE NoStart]

\* AccountManager.open() resolves: another run has begun, there are no words, or
\* the keys are derived.
ReadWords(i) ==
    /\ starts[i].at = "open"
    /\ calls.forget = "no"
    /\ starts' = [starts EXCEPT ![i] =
          IF i # runId \/ stored = NoWords THEN NoStart
          ELSE [@ EXCEPT !.at = "derive", !.words = stored]]
    /\ UNCHANGED <<panelVars, runId, engine, engines, hidden, cursor, queue, sealing, owed>>

\* Seconds are taken for milliseconds.
MutStarted(words, url) ==
    [words |-> words, url |-> url, running |-> TRUE,
     timers |-> IF hidden THEN Off ELSE 1000 * prefs.interval,
     pulls |-> IF prefs.resync THEN {} ELSE {cursor},
     resync |-> IF prefs.resync THEN "clear" ELSE "no", seal |-> NoWords]

\* The engine start() leaves behind.
Started(words, url) ==
    [words |-> words, url |-> url, running |-> TRUE,
     timers |-> IF hidden THEN Off ELSE prefs.interval,
     pulls |-> IF prefs.resync THEN {} ELSE {cursor},
     resync |-> IF prefs.resync THEN "clear" ELSE "no", seal |-> NoWords]

\* clearSyncQueue() counts from the call on, though its answer comes later.
QueueAtStart == IF prefs.resync THEN {} ELSE queue

\* The generation is not looked at again.
MutFinishStart(i) ==
    /\ starts[i].at = "derive"
    /\ starts' = [starts EXCEPT ![i] = NoStart]
    /\ engine' = i
    /\ engines' = [engines EXCEPT ![i] = Started(starts[i].words, starts[i].url)]
    /\ queue' = QueueAtStart
    /\ UNCHANGED <<panelVars, runId, hidden, cursor, sealing, owed>>

\* The flag is taken down as the resync starts.
MutFlagFinishStart(i) ==
    /\ starts[i].at = "derive" /\ i = runId
    /\ starts' = [starts EXCEPT ![i] = NoStart]
    /\ engine' = i
    /\ engines' = [engines EXCEPT ![i] = Started(starts[i].words, starts[i].url)]
    /\ queue' = QueueAtStart
    /\ prefs' = [prefs EXCEPT !.resync = FALSE]
    /\ UNCHANGED <<stored, passkey, panel, sheet, calls, budget, minted, slips>>
    /\ UNCHANGED <<runId, hidden, cursor, sealing, owed>>

\* The keys are there: unless another run has begun, the engine is made and started.
FinishStart(i) ==
    /\ starts[i].at = "derive"
    /\ starts' = [starts EXCEPT ![i] = NoStart]
    /\ IF i # runId
       THEN UNCHANGED <<engine, engines, queue>>
       ELSE /\ engine' = i
            /\ engines' = [engines EXCEPT ![i] = Started(starts[i].words, starts[i].url)]
            /\ queue' = QueueAtStart
    /\ UNCHANGED <<panelVars, runId, hidden, cursor, sealing, owed>>

-----------------------------------------------------------------------------
(* The events the panel fires.                                             *)

Others == <<hidden, cursor, queue, sealing>>

CommitStep == Commit /\ StartIfEnabled /\ owed' = runId + 1 /\ UNCHANGED Others

DisableStep == Disable /\ StartIfEnabled /\ owed' = 0 /\ UNCHANGED Others

ForgetStep == ForgetDone /\ StartIfEnabled /\ owed' = 0 /\ UNCHANGED Others

\* engine?.reschedule(), which leaves timers that are not armed alone.
IntervalStep ==
    /\ CommitInterval
    /\ engines' = [i \in Runs |->
          IF i = engine /\ engines[i].timers # Off
          THEN [engines[i] EXCEPT !.timers = IF hidden THEN Off ELSE prefs'.interval]
          ELSE engines[i]]
    /\ UNCHANGED <<runId, engine, starts, owed, Others>>

-----------------------------------------------------------------------------
(* The life of an engine.                                                  *)

\* What engine i writes, others read: is there another, past its own reset?
Settled(i) == i # 0 /\ engines[i].resync # "clear"
Strays(i) == IF i # engine /\ Settled(engine) THEN {"stale"} ELSE {}

Slip(s) ==
    /\ slips' = slips \cup s
    /\ UNCHANGED <<prefs, stored, passkey, panel, sheet, calls, budget, minted>>

\* The pull timer, or a tab that comes back.
Pulling(e) == [e EXCEPT !.pulls = @ \cup {cursor}]

PullTimer(i) ==
    /\ engines[i].timers # Off
    /\ Gesture("pull")
    /\ Becomes(i, Pulling(engines[i]))
    /\ UNCHANGED <<prefs, stored, passkey, panel, sheet, calls, minted, slips>>
    /\ UNCHANGED <<runId, engine, starts, owed, Others>>

\* What an engine's own pulls begin with.
Own(e) == {StartCursor, At(e.words, e.url)}

\* The answer counts from the cursor c that the pull was made with.
After(e, c) == [At(e.words, e.url) EXCEPT !.gap = c \notin Own(e)]

\* pullSince() ends, whether its engine still runs or not.
PullEnds(i, c) ==
    /\ Becomes(i, [engines[i] EXCEPT !.pulls = @ \ {c}])
    /\ \/ cursor' = After(engines[i], c) /\ Slip(Strays(i))
       \/ UNCHANGED <<cursor, panelVars>>
    /\ UNCHANGED <<runId, engine, starts, hidden, queue, sealing, owed>>

\* What a flush of engine e leaves: the server refuses a batch that holds an event of
\* another account.
Flushed(e) == IF queue \subseteq {e.words} THEN {} ELSE queue

\* flushPushes(), start to end.
Flush(i) ==
    /\ engines[i].running /\ queue # {}
    /\ queue' = Flushed(engines[i])
    /\ UNCHANGED <<panelVars, runId, engine, starts, engines, hidden, cursor, sealing, owed>>

\* The calls of pullSince() that a reset finds under way go on, and set what they
\* come to.
Early(i) ==
    IF i # engine \/ engines[i].pulls \subseteq Own(engines[i]) THEN {} ELSE {"early"}

\* performFullResync(): clearSyncQueue() has answered.  No cursor is reset.
MutResyncCleared(i) ==
    /\ engines[i].resync = "clear"
    /\ Becomes(i, [engines[i] EXCEPT !.resync = "pull"])
    /\ Slip(Early(i))
    /\ UNCHANGED <<runId, engine, starts, owed, Others>>

ResyncCleared(i) ==
    /\ engines[i].resync = "clear"
    /\ cursor' = StartCursor
    /\ Becomes(i, [engines[i] EXCEPT !.resync = "pull"])
    /\ Slip(Early(i))
    /\ UNCHANGED <<runId, engine, starts, hidden, queue, sealing, owed>>

\* A failing pull ends the resync.
MutResyncPulled(i) ==
    /\ engines[i].resync = "pull"
    /\ \/ /\ Becomes(i, [engines[i] EXCEPT !.resync = "rebuild"])
          /\ cursor' = After(engines[i], StartCursor) /\ Slip(Strays(i))
       \/ /\ Becomes(i, [engines[i] EXCEPT !.resync = "no"])
          /\ UNCHANGED <<cursor, panelVars>>
    /\ UNCHANGED <<runId, engine, starts, hidden, queue, sealing, owed>>

\* pullForResync(), which began with the reset cursor, ends; a failure leaves the
\* cursor as it is.
ResyncPulled(i) ==
    /\ engines[i].resync = "pull"
    /\ Becomes(i, [engines[i] EXCEPT !.resync = "rebuild"])
    /\ \/ cursor' = After(engines[i], StartCursor) /\ Slip(Strays(i))
       \/ UNCHANGED <<cursor, panelVars>>
    /\ UNCHANGED <<runId, engine, starts, hidden, queue, sealing, owed>>

\* A row that w's builder sealed lands among another account's.
Crossed(w) == IF engine # 0 /\ engines[engine].words # w THEN {"sealed"} ELSE {}

\* A local task is to be queued again: the builder that the store has now seals it.
RebuildSeals(i) ==
    /\ engines[i].resync = "rebuild" /\ engine # 0
    /\ Becomes(i, [engines[i] EXCEPT !.resync = "seal", !.seal = engines[engine].words])
    /\ UNCHANGED <<panelVars, runId, engine, starts, owed, Others>>

RebuildLands(i) ==
    /\ engines[i].resync = "seal"
    /\ queue' = queue \cup {engines[i].seal}
    /\ Becomes(i, [engines[i] EXCEPT !.resync = "rebuild", !.seal = NoWords])
    /\ Slip(Crossed(engines[i].seal))
    /\ UNCHANGED <<runId, engine, starts, hidden, cursor, sealing, owed>>

\* There is no task left, or the store has no builder.
RebuildEnds(i) ==
    /\ engines[i].resync = "rebuild"
    /\ Becomes(i, [engines[i] EXCEPT !.resync = "flush"])
    /\ UNCHANGED <<panelVars, runId, engine, starts, owed, Others>>

\* The last flush is over: whichever engine this is, the flag goes.
ResyncEnds(i) ==
    /\ engines[i].resync = "flush"
    /\ Becomes(i, [engines[i] EXCEPT !.resync = "no"])
    /\ queue' \in {queue, Flushed(engines[i])}
    /\ prefs' = [prefs EXCEPT !.resync = FALSE]
    /\ slips' = slips \cup (IF i < owed THEN {"cleared"} ELSE {})
    /\ owed' = IF i < owed THEN owed ELSE 0
    /\ UNCHANGED <<stored, passkey, panel, sheet, calls, budget, minted>>
    /\ UNCHANGED <<runId, engine, starts, hidden, cursor, sealing>>

\* A task is changed while a builder is installed; the row lands when it is sealed.
EditTask ==
    /\ engine # 0 /\ engines[engine].words \notin sealing
    /\ Gesture("edit")
    /\ sealing' = sealing \cup {engines[engine].words}
    /\ UNCHANGED <<prefs, stored, passkey, panel, sheet, calls, minted, slips>>
    /\ UNCHANGED <<runId, engine, starts, engines, hidden, cursor, queue, owed>>

Sealed(w) ==
    /\ w \in sealing
    /\ sealing' = sealing \ {w}
    /\ queue' = queue \cup {w}
    /\ Slip(Crossed(w))
    /\ UNCHANGED <<runId, engine, starts, engines, hidden, cursor, owed>>

\* onVisibilityChange() of the engine that listens.
TabHidden ==
    /\ ~hidden /\ Gesture("hide")
    /\ hidden' = TRUE
    /\ engines' = [i \in Runs |->
          IF engines[i].running THEN [engines[i] EXCEPT !.timers = Off] ELSE engines[i]]
    /\ UNCHANGED <<prefs, stored, passkey, panel, sheet, calls, minted, slips>>
    /\ UNCHANGED <<runId, engine, starts, cursor, queue, sealing, owed>>

TabShown ==
    /\ hidden
    /\ hidden' = FALSE
    /\ engines' = [i \in Runs |->
          IF engines[i].running
          THEN [Pulling(engines[i]) EXCEPT !.timers = prefs.interval] ELSE engines[i]]
    /\ UNCHANGED <<panelVars, runId, engine, starts, cursor, queue, sealing, owed>>

\* The page is loaded anew: everything in memory is gone, and App starts over.
PageLoad ==
    /\ Gesture("load")
    /\ PanelReset
    /\ slips' = slips \cup (IF calls.forget # "no" /\ prefs.enabled THEN {"forget"} ELSE {})
    /\ runId' = 1 /\ engine' = 0
    /\ starts' = [i \in Runs |->
          IF i = 1 /\ prefs.enabled /\ prefs.url # NoUrl
          THEN [NoStart EXCEPT !.at = "open", !.url = prefs.url] ELSE NoStart]
    /\ engines' = [i \in Runs |-> NoEngine]
    /\ hidden' = FALSE
    /\ sealing' = {}
    /\ owed' = IF owed = 0 THEN 0 ELSE 1
    /\ UNCHANGED <<cursor, queue>>

ResyncStep(i) ==
    \/ ResyncCleared(i) \/ ResyncPulled(i)
    \/ RebuildSeals(i) \/ RebuildLands(i) \/ RebuildEnds(i)
    \/ ResyncEnds(i)

Next ==
    \/ PanelStep /\ UNCHANGED appVars
    \/ CommitStep \/ DisableStep \/ ForgetStep \/ IntervalStep
    \/ \E i \in Runs :
          \/ ReadWords(i) \/ FinishStart(i)
          \/ PullTimer(i) \/ Flush(i)
          \/ \E c \in engines[i].pulls : PullEnds(i, c)
          \/ ResyncStep(i)
    \/ EditTask
    \/ \E w \in Words : Sealed(w)
    \/ TabHidden \/ TabShown
    \/ PageLoad

Spec == AppInit /\ [][Next]_vars

\* Promises settle, requests are answered or time out, and there are finitely many
\* tasks for the resyncs to queue again.
FairSpec ==
    /\ Spec
    /\ WF_vars(ForgetStep)
    /\ \A i \in Runs : /\ WF_vars(ReadWords(i) \/ FinishStart(i))
                       /\ WF_vars(ResyncStep(i))
    /\ SF_vars(\E i \in Runs : RebuildEnds(i))

-----------------------------------------------------------------------------
(* Properties.                                                             *)

Cursors == [words : MaybeWords, url : MaybeUrl, gap : BOOLEAN]
Starts == [at : {"none", "open", "derive"}, url : MaybeUrl, words : MaybeWords]
Engines == [words : MaybeWords, url : MaybeUrl, running : BOOLEAN,
            timers : Intervals \cup {Off}, pulls : SUBSET Cursors,
            resync : {"no", "clear", "pull", "rebuild", "seal", "flush"}, seal : MaybeWords]

AppTypeOK ==
    /\ PanelTypeOK
    /\ runId \in Runs /\ engine \in 0 .. MaxRuns
    /\ starts \in [Runs -> Starts]
    /\ engines \in [Runs -> Engines]
    /\ hidden \in BOOLEAN
    /\ cursor \in Cursors
    /\ queue \subseteq Words /\ sealing \subseteq Words
    /\ owed \in 0 .. MaxRuns

\* However enables, disables, forgets and page loads overlap with the awaits of a
\* start, no engine is leaked: the one that App can stop is the only one with
\* timers, a listener or the builder, it runs only while sync is enabled, and its
\* timers are armed at the saved interval exactly while the tab is visible.
OneEngine ==
    /\ \A i \in Runs :
          /\ engines[i].running <=> i = engine
          /\ engines[i].timers =
                IF engines[i].running /\ ~hidden THEN prefs.interval ELSE Off
    /\ engine # 0 => prefs.enabled /\ engine = runId

\* What an engine shares is its own: since the last enable, the cursor it pulls
\* from counts for its account and its backend and skipped nothing, and the queue
\* it sends holds no other account's events (one would have every batch refused),
\* however the page was left, forgotten or switched to another account before.
\* Not so after: a URL saved without a resync, an answer to a stopped engine, a pull
\* begun from another's cursor before the engine's own reset and ended after it, a
\* flag cleared by a stopped engine's resync, a row sealed across a switch, a forget
\* that a page load cut short.
SharedStateIsOurs ==
    LET e == engines[engine] IN
    engine # 0 /\ e.resync # "clear"
        /\ slips \cap {"url", "stale", "early", "cleared", "sealed", "forget"} = {}
    => /\ cursor \in {StartCursor, At(e.words, e.url)}
       /\ queue \subseteq {e.words}

\* The resync that an enable asked for is remembered until it is over, through
\* page loads at any point, unless a stopped engine's resync ends in between.
ResyncOwed == owed # 0 => prefs.resync \/ "cleared" \in slips

\* Sync is enabled with the account the sheet shows, whose words were on the
\* screen when they were ticked as backed up, and with a URL that was tested as it
\* stands; so although tests, derivations and forgets answer late and the fields
\* change meanwhile.  The exceptions are two calls of the account side by side,
\* and words that are still being validated when others, validated before, are
\* enabled.
EnabledAsShown ==
    [][sheet.step # "none" /\ sheet'.step = "none" /\ runId' = runId + 1 =>
          /\ prefs'.enabled /\ prefs'.url \in Deployed
          /\ prefs'.url = sheet.url
          /\ "overlap" \notin slips /\ calls.derive = {} =>
                /\ stored' = sheet.words
                /\ sheet.step = "generated" => stored' = sheet.backedUp]_vars

\* Words on the panel's screen are those for which the gate said yes, unless others
\* came in while it showed words or awaited the gate; and a panel that awaits nothing
\* shows what is stored: the account, whether sync is on, the interval, and the URL
\* unless that was typed and not saved.  The exceptions are a ping that saved the URL
\* it was asked about over a later one, two calls of the account side by side, and a
\* panel opened while a forget was being answered.
PanelShows ==
    /\ panel.shown /\ HasKey /\ "reveal" \notin slips => panel.acct = panel.passed
    /\ panel.view = "ready" /\ calls.derive = {} /\ calls.forget = "no" =>
          /\ "overlap" \notin slips => panel.acct = stored
          /\ "forget" \notin slips => panel.on = prefs.enabled
          /\ "ping" \notin slips /\ ~panel.typed => panel.url = prefs.url
          /\ ~panel.debounce =>
                ToSeconds(panel.every[1], panel.every[2]) = prefs.interval

\* The resync of an enable comes about, as long as sync stays enabled, the words
\* and the URL are left alone and no stopped engine's resync takes the flag down.
ResyncDone ==
    (owed # 0) ~> (owed = 0 \/ stored = NoWords \/ slips \cap {"url", "cleared"} # {})
=============================================================================
