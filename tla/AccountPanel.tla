---------------------------- MODULE AccountPanel ----------------------------
(***************************************************************************)
(* The settings panel of the web client (apps/web/src/ui/SettingsPanel.tsx *)
(* and EnableCloudSyncSheet.tsx) over AccountManager, MnemonicStore,       *)
(* RevealGate, BackendPing and Prefs: what the user can do there, what     *)
(* each gesture leaves in the browser's storage, and the calls that answer *)
(* later, when the panel may show something else or be gone.               *)
(*                                                                         *)
(* The twelve words stand for the account they determine.  A step is what  *)
(* the code does from one await, click or timer to the next.  IndexedDB    *)
(* runs transactions in the order they are made, so a save or a clear      *)
(* counts from the click on, and its answer comes later.                   *)
(***************************************************************************)
EXTENDS Integers

CONSTANTS
    Words,      \* mnemonics
    Owned,      \* those the user has already, on another device or on paper
    Urls,
    Deployed,   \* the URLs where a backend answers, with that URL as its audience
    NoWords, NoUrl,
    Garbled,    \* a text that is no mnemonic
    Picks,      \* the intervals the user picks: <<number typed, unit>>
    Gestures,
    Scenarios   \* bound: the words and the URL a behaviour begins with, if any,
                \* and how often each gesture happens in it

Units == {"seconds", "minutes", "hours"}

ASSUME PanelTyped ==
    /\ Owned \subseteq Words /\ NoWords \notin Words /\ Garbled \notin Words \cup {NoWords}
    /\ Deployed \subseteq Urls /\ NoUrl \notin Urls
    /\ Picks \subseteq Int \X Units
    /\ Scenarios \subseteq [words : Owned \cup {NoWords}, url : Deployed \cup {NoUrl},
                            budget : [Gestures -> Nat]]
    /\ \A s \in Scenarios : s.words = NoWords <=> s.url = NoUrl

VARIABLES
    prefs,      \* localStorage: cloudSyncEnabled, backendURL, pendingFullResync,
                \* intervalSeconds
    stored,     \* MnemonicStore
    passkey,    \* RevealGate has registered a credential
    panel,      \* SettingsPanel and its AccountManager
    sheet,      \* EnableCloudSyncSheet
    calls,      \* what either awaits
    budget,     \* bound: gestures left
    minted,     \* history: words generated
    slips       \* history: what has come between the panel and the storage

panelVars == <<prefs, stored, passkey, panel, sheet, calls, budget, minted, slips>>

-----------------------------------------------------------------------------
(* The sync interval.                                                      *)

Least(a, b) == IF a < b THEN a ELSE b
Most(a, b) == IF a > b THEN a ELSE b

UnitMin(u) == IF u = "seconds" THEN 10 ELSE 1
UnitMax(u) == IF u = "hours" THEN 24 ELSE 59

ClampForUnit(n, u) == Most(UnitMin(u), Least(UnitMax(u), n))

SecondsPer(u) == IF u = "hours" THEN 3600 ELSE IF u = "minutes" THEN 60 ELSE 1
ToSeconds(n, u) == n * SecondsPer(u)

\* SYNC_INTERVAL_MIN_SECONDS and SYNC_INTERVAL_MAX_SECONDS.
MinSeconds == 10
MaxSeconds == 86400
Intervals == MinSeconds .. MaxSeconds

ClampSeconds(s) == Most(MinSeconds, Least(MaxSeconds, s))

\* What the panel shows for a stored interval.
Decompose(s) ==
    IF s >= 3600 /\ s % 3600 = 0 THEN <<Least(24, s \div 3600), "hours">>
    ELSE IF s >= 60 /\ s % 60 = 0 THEN <<Least(59, s \div 60), "minutes">>
    ELSE <<Most(10, Least(59, s)), "seconds">>

DefaultInterval == 60

-----------------------------------------------------------------------------
NoSheet == [step |-> "none", words |-> NoWords, backedUp |-> NoWords, text |-> NoWords,
            imported |-> FALSE, ack |-> FALSE, url |-> NoUrl, tested |-> NoUrl]

\* typed and passed are history: the URL field was typed into since it last agreed
\* with the storage; the words for which the gate last said yes.
NoPanel == [view |-> "closed", acct |-> NoWords, on |-> FALSE, url |-> NoUrl, typed |-> FALSE,
            every |-> <<0, "seconds">>, debounce |-> FALSE, shown |-> FALSE,
            passed |-> NoWords]

\* derive: key derivations after a save; after says that a forget was still
\* being answered when the save was made.  test: the URL the sheet is testing.
\* pings and gates outlive the panel that asked, as does forget.
NoCalls == [derive |-> {}, test |-> NoUrl, pings |-> {}, gates |-> {}, forget |-> "no"]

MaybeWords == Words \cup {NoWords}
MaybeUrl == Urls \cup {NoUrl}

Derivation == [words : Words, how : {"generated", "paste", "scan"}, here : BOOLEAN,
               after : BOOLEAN]
Pinging == [url : Urls, here : BOOLEAN]
Gate == [words : Words, at : {"probe", "register", "assert"}, here : BOOLEAN]

Prefs == [enabled : BOOLEAN, url : MaybeUrl, resync : BOOLEAN, interval : Intervals]
Panels == [view : {"closed", "loading", "ready"}, acct : MaybeWords, on : BOOLEAN,
           url : MaybeUrl, typed : BOOLEAN, every : Int \X Units, debounce : BOOLEAN,
           shown : BOOLEAN, passed : MaybeWords]
Sheets == [step : {"none", "chooser", "generated", "paste", "scan"}, words : MaybeWords,
           backedUp : MaybeWords, text : MaybeWords \cup {Garbled}, imported : BOOLEAN,
           ack : BOOLEAN, url : MaybeUrl, tested : MaybeUrl]
Calls == [derive : SUBSET Derivation, test : MaybeUrl, pings : SUBSET Pinging,
          gates : SUBSET Gate, forget : {"no", "panel", "orphan"}]

PanelTypeOK ==
    /\ prefs \in Prefs /\ stored \in MaybeWords /\ passkey \in BOOLEAN
    /\ panel \in Panels /\ sheet \in Sheets /\ calls \in Calls
    /\ budget \in [Gestures -> Nat] /\ minted \subseteq Words

PanelInit ==
    /\ \E s \in Scenarios :
          /\ prefs = [enabled |-> s.words # NoWords, url |-> s.url, resync |-> FALSE,
                      interval |-> DefaultInterval]
          /\ stored = s.words
          /\ budget = s.budget
    /\ passkey = FALSE
    /\ panel = NoPanel /\ sheet = NoSheet /\ calls = NoCalls
    /\ minted = {} /\ slips = {}

\* A gesture of the user's or of the world's, while the bound lasts.
Gesture(g) ==
    /\ budget[g] > 0
    /\ budget' = [budget EXCEPT ![g] = @ - 1]

HasKey == panel.acct # NoWords
ShowsOn == panel.on /\ HasKey

\* The sheet is modal: nothing behind it can be clicked.
AtPanel == panel.view = "ready" /\ sheet.step = "none"

-----------------------------------------------------------------------------
(* The panel.                                                              *)

\* The mount: state from Prefs; AccountManager.open() is awaited.
OpenPanel ==
    /\ panel.view = "closed"
    /\ Gesture("panel")
    /\ panel' = [NoPanel EXCEPT !.view = "loading", !.on = prefs.enabled, !.url = prefs.url,
                                !.every = Decompose(prefs.interval)]
    /\ slips' = (slips \ {"overlap", "ping", "reveal"})
                    \cup (IF calls.forget = "no" THEN {} ELSE {"forget"})
    /\ UNCHANGED <<prefs, stored, passkey, sheet, calls, minted>>

\* loadIfPresent()'s read, which a clear made earlier answers before.
LoadAccount ==
    /\ panel.view = "loading"
    /\ calls.forget = "no"
    /\ panel' = [panel EXCEPT !.view = "ready", !.acct = stored]
    /\ UNCHANGED <<prefs, stored, passkey, sheet, calls, budget, minted, slips>>

\* What an unmounted panel awaited answers to no one, but for what it saves.
Orphaned ==
    [derive |-> {}, test |-> NoUrl,
     pings |-> {[p EXCEPT !.here = FALSE] : p \in calls.pings},
     gates |-> {[g EXCEPT !.here = FALSE] : g \in calls.gates},
     forget |-> IF calls.forget = "no" THEN "no" ELSE "orphan"]

ClosePanel ==
    /\ panel.view # "closed" /\ sheet.step = "none"
    /\ panel' = NoPanel
    /\ calls' = Orphaned
    /\ UNCHANGED <<prefs, stored, passkey, sheet, budget, minted, slips>>

\* The URL field is typed into: the panel has the text, the storage has not.
TypeUrl(u) ==
    /\ AtPanel /\ ShowsOn
    /\ Gesture("url")
    /\ panel' = [panel EXCEPT !.url = u, !.typed = TRUE]
    /\ UNCHANGED <<prefs, stored, passkey, sheet, calls, minted, slips>>

\* It loses the focus, or "Save" is clicked.  A field that is gone by then, with
\* the panel or because a forget turned sync off, saves nothing.
SaveUrl ==
    /\ AtPanel /\ ShowsOn
    /\ prefs' = [prefs EXCEPT !.url = panel.url]
    /\ panel' = [panel EXCEPT !.typed = FALSE]
    /\ slips' = (slips \ {"ping"}) \cup (IF panel.url = prefs.url THEN {} ELSE {"url"})
    /\ UNCHANGED <<stored, passkey, sheet, calls, budget, minted>>

Ping ==
    /\ AtPanel /\ ShowsOn /\ panel.url # NoUrl
    /\ \A p \in calls.pings : ~p.here
    /\ Gesture("ping")
    /\ calls' = [calls EXCEPT !.pings = @ \cup {[url |-> panel.url, here |-> TRUE]}]
    /\ UNCHANGED <<prefs, stored, passkey, panel, sheet, minted, slips>>

\* ping() succeeds only where a backend names that very URL as its audience.
Reachable(url) == url \in Deployed

\* ping() resolves: the URL it was asked about is saved, whatever the field
\* holds by now, and wherever the panel is.
PingAnswered(p) ==
    /\ p \in calls.pings
    /\ calls' = [calls EXCEPT !.pings = @ \ {p}]
    /\ \/ /\ Reachable(p.url)
          /\ prefs' = [prefs EXCEPT !.url = p.url]
          /\ slips' = slips
                \cup (IF p.url = prefs.url THEN {} ELSE {"url"})
                \cup (IF panel.view = "closed" \/ p.url = panel.url THEN {} ELSE {"ping"})
       \/ UNCHANGED <<prefs, slips>>
    /\ UNCHANGED <<stored, passkey, panel, sheet, budget, minted>>

\* onIntervalAmount and onIntervalUnit: shown at once, committed after a pause.
PickInterval(pick) ==
    /\ AtPanel /\ ShowsOn
    /\ Gesture("interval")
    /\ panel' = [panel EXCEPT !.every = <<ClampForUnit(pick[1], pick[2]), pick[2]>>,
                              !.debounce = TRUE]
    /\ UNCHANGED <<prefs, stored, passkey, sheet, calls, minted, slips>>

\* The 500 ms are over, with or without the sheet in front.
CommitInterval ==
    /\ panel.debounce
    /\ panel' = [panel EXCEPT !.debounce = FALSE]
    /\ prefs' = [prefs EXCEPT !.interval =
                    ClampSeconds(ToSeconds(panel.every[1], panel.every[2]))]
    /\ UNCHANGED <<stored, passkey, sheet, calls, budget, minted, slips>>

Disable ==
    /\ AtPanel /\ ShowsOn
    /\ Gesture("disable")
    /\ prefs' = [prefs EXCEPT !.enabled = FALSE]
    /\ panel' = [panel EXCEPT !.on = FALSE]
    /\ UNCHANGED <<stored, passkey, sheet, calls, minted, slips>>

\* "Forget anyway": the words are gone before the await, the rest after it.
ForgetClick ==
    /\ AtPanel /\ HasKey /\ calls.forget = "no"
    /\ Gesture("forget")
    /\ stored' = NoWords
    /\ calls' = [calls EXCEPT !.forget = "panel"]
    /\ slips' = slips \cup (IF calls.derive = {} THEN {} ELSE {"overlap"})
    /\ UNCHANGED <<prefs, passkey, panel, sheet, minted>>

\* The panel keeps showing sync as on.
MutForgetDone ==
    /\ calls.forget # "no"
    /\ prefs' = [prefs EXCEPT !.enabled = FALSE]
    /\ passkey' = FALSE
    /\ panel' = IF calls.forget = "panel"
                THEN [panel EXCEPT !.acct = NoWords, !.shown = FALSE]
                ELSE panel
    /\ calls' = [calls EXCEPT !.forget = "no"]
    /\ UNCHANGED <<stored, sheet, budget, minted, slips>>

ForgetDone ==
    /\ calls.forget # "no"
    /\ prefs' = [prefs EXCEPT !.enabled = FALSE]
    /\ passkey' = FALSE
    /\ panel' = IF calls.forget = "panel"
                THEN [panel EXCEPT !.acct = NoWords, !.on = FALSE, !.shown = FALSE]
                ELSE panel
    /\ calls' = [calls EXCEPT !.forget = "no"]
    /\ UNCHANGED <<stored, sheet, budget, minted, slips>>

-----------------------------------------------------------------------------
(* The reveal gate.                                                        *)

\* The disclosure is opened by the user; or by the panel, which shows the words of
\* one that was shut meanwhile or is another account's by now, and the browser
\* reports that as an opening, too.
Reveal ==
    /\ AtPanel /\ HasKey
    /\ \A g \in calls.gates : ~g.here
    /\ Gesture("reveal")
    /\ calls' = [calls EXCEPT !.gates =
                    @ \cup {[words |-> panel.acct, at |-> "probe", here |-> TRUE]}]
    /\ UNCHANGED <<prefs, stored, passkey, panel, sheet, minted, slips>>

Conceal ==
    /\ AtPanel /\ panel.shown
    /\ panel' = [panel EXCEPT !.shown = FALSE]
    /\ UNCHANGED <<prefs, stored, passkey, sheet, calls, budget, minted, slips>>

\* require() resolves for g; setShowMnemonic takes what it says.
GateSays(g, ok) ==
    /\ calls' = [calls EXCEPT !.gates = @ \ {g}]
    /\ panel' = IF g.here
                THEN [panel EXCEPT !.shown = ok, !.passed = IF ok THEN g.words ELSE @]
                ELSE panel

\* The last four words are asked for, which the user knows or not.
AskForTail(g) == \E ok \in BOOLEAN : GateSays(g, ok)

\* isWebAuthnSupported() resolves: a credential is checked or made, or there is
\* none to be had.
GateProbed(g) ==
    /\ g \in calls.gates /\ g.at = "probe"
    /\ \/ /\ calls' = [calls EXCEPT !.gates = (@ \ {g}) \cup
                          {[g EXCEPT !.at = IF passkey THEN "assert" ELSE "register"]}]
          /\ UNCHANGED panel
       \/ AskForTail(g)
    /\ UNCHANGED <<prefs, stored, passkey, sheet, budget, minted, slips>>

\* registerPasskey(); if it fails, the last four words will do.
GateRegistered(g) ==
    /\ g \in calls.gates /\ g.at = "register"
    /\ \/ passkey' = TRUE /\ GateSays(g, TRUE)
       \/ UNCHANGED passkey /\ AskForTail(g)
    /\ UNCHANGED <<prefs, stored, sheet, budget, minted, slips>>

GateAsserted(g) ==
    /\ g \in calls.gates /\ g.at = "assert"
    /\ \E ok \in BOOLEAN : GateSays(g, ok)
    /\ UNCHANGED <<prefs, stored, passkey, sheet, budget, minted, slips>>

-----------------------------------------------------------------------------
(* The sheet.                                                              *)

OpenSheet ==
    /\ AtPanel /\ ~ShowsOn
    /\ Gesture("sheet")
    /\ sheet' = [NoSheet EXCEPT !.step = "chooser", !.url = prefs.url, !.words = panel.acct]
    /\ UNCHANGED <<prefs, stored, passkey, panel, calls, minted, slips>>

\* The derivation under way goes on, and reaches the account, not the sheet.
SheetGone == [calls EXCEPT !.derive = {[d EXCEPT !.here = FALSE] : d \in @}, !.test = NoUrl]

CancelSheet ==
    /\ sheet.step # "none"
    /\ IF sheet.step = "scan"
       THEN sheet' = [sheet EXCEPT !.step = "chooser"] /\ UNCHANGED calls
       ELSE sheet' = NoSheet /\ calls' = SheetGone
    /\ UNCHANGED <<prefs, stored, passkey, panel, budget, minted, slips>>

Choose(step) ==
    /\ sheet.step = "chooser"
    /\ sheet' = [sheet EXCEPT !.step = step]
    /\ UNCHANGED <<prefs, stored, passkey, panel, calls, budget, minted, slips>>

\* save() and the start of applyMnemonic(), for words that came in by how.
Save(w, how) ==
    /\ stored' = w
    /\ calls' = [calls EXCEPT !.derive =
          @ \cup {[words |-> w, how |-> how, here |-> TRUE, after |-> calls.forget # "no"]}]
    /\ slips' = slips \cup (IF calls.derive = {} THEN {} ELSE {"overlap"})

\* generateNew(); the button stays enabled while it runs.
Generate ==
    /\ sheet.step = "chooser"
    /\ Gesture("enter")
    /\ \E w \in Words \ (Owned \cup minted) :
          /\ Save(w, "generated")
          /\ minted' = minted \cup {w}
    /\ UNCHANGED <<prefs, passkey, panel, sheet>>

\* The text area: imported stays as it was.
TypeWords(text) ==
    /\ sheet.step = "paste" /\ sheet.text # text
    /\ sheet' = [sheet EXCEPT !.text = text]
    /\ UNCHANGED <<prefs, stored, passkey, panel, calls, budget, minted, slips>>

ValidatePaste ==
    /\ sheet.step = "paste"
    /\ Gesture("enter")
    /\ \/ /\ sheet.text \in Words
          /\ Save(sheet.text, "paste")
          /\ UNCHANGED sheet
       \/ /\ sheet.text \notin Words
          /\ sheet' = [sheet EXCEPT !.imported = FALSE]
          /\ UNCHANGED <<stored, calls, slips>>
    /\ UNCHANGED <<prefs, passkey, panel, minted>>

\* The scanner reports a code, and starts over when the sheet is rendered anew.
ScanResult(text) ==
    /\ sheet.step = "scan"
    /\ Gesture("enter")
    /\ \/ /\ text \in Words
          /\ Save(text, "scan")
          /\ UNCHANGED sheet
       \/ /\ text \notin Words
          /\ sheet' = [sheet EXCEPT !.step = "paste"]
          /\ UNCHANGED <<stored, calls, slips>>
    /\ UNCHANGED <<prefs, passkey, panel, minted>>

\* applyMnemonic() resolves: the account changes, and the sheet that asked goes on.
\* The panel may be showing words meanwhile, or awaiting the gate's leave to.
Derived(d) ==
    /\ d \in calls.derive
    /\ d.after => calls.forget = "no"
    /\ calls' = [calls EXCEPT !.derive = @ \ {d}]
    /\ panel' = [panel EXCEPT !.acct = d.words]
    /\ slips' = slips \cup (IF d.words # panel.acct
                              /\ (panel.shown \/ \E g \in calls.gates : g.here)
                           THEN {"reveal"} ELSE {})
    /\ sheet' =
          IF ~d.here THEN sheet
          ELSE IF d.how = "generated"
          THEN [sheet EXCEPT !.words = d.words, !.step = "generated"]
          ELSE IF d.how = "paste"
          THEN [sheet EXCEPT !.words = d.words, !.imported = TRUE]
          ELSE [sheet EXCEPT !.words = d.words, !.imported = TRUE, !.text = d.words,
                             !.step = "paste"]
    /\ UNCHANGED <<prefs, stored, passkey, budget, minted>>

\* "I have backed up these words", or "I understand my local tasks will be merged".
Tick ==
    /\ \/ /\ sheet.step = "generated"
          /\ sheet' = [sheet EXCEPT !.backedUp = sheet.words]
       \/ /\ sheet.step = "paste" /\ sheet.imported
          /\ sheet' = [sheet EXCEPT !.ack = TRUE]
    /\ UNCHANGED <<prefs, stored, passkey, panel, calls, budget, minted, slips>>

HasBackendField == sheet.step \in {"generated", "paste"}

ChangeUrl(u) ==
    /\ HasBackendField /\ sheet.url # u
    /\ Gesture("url")
    /\ sheet' = [sheet EXCEPT !.url = u, !.tested = NoUrl]
    /\ UNCHANGED <<prefs, stored, passkey, panel, calls, minted, slips>>

TestBackend ==
    /\ HasBackendField /\ HasKey /\ sheet.url # NoUrl /\ calls.test = NoUrl
    /\ Gesture("ping")
    /\ calls' = [calls EXCEPT !.test = sheet.url]
    /\ UNCHANGED <<prefs, stored, passkey, panel, sheet, minted, slips>>

\* Whatever is in the field passes for tested.
MutTestAnswered ==
    /\ calls.test # NoUrl
    /\ \/ Reachable(calls.test) /\ sheet' = [sheet EXCEPT !.tested = sheet.url]
       \/ sheet' = [sheet EXCEPT !.tested = NoUrl]
    /\ calls' = [calls EXCEPT !.test = NoUrl]
    /\ UNCHANGED <<prefs, stored, passkey, panel, budget, minted, slips>>

\* ping() resolves: the URL it was asked about is the tested one.
TestAnswered ==
    /\ calls.test # NoUrl
    /\ \/ Reachable(calls.test) /\ sheet' = [sheet EXCEPT !.tested = calls.test]
       \/ sheet' = [sheet EXCEPT !.tested = NoUrl]
    /\ calls' = [calls EXCEPT !.test = NoUrl]
    /\ UNCHANGED <<prefs, stored, passkey, panel, budget, minted, slips>>

CanCommit ==
    /\ HasKey /\ sheet.url # NoUrl
    /\ sheet.tested = sheet.url
    /\ \/ sheet.step = "generated" /\ sheet.backedUp # NoWords
       \/ sheet.step = "paste" /\ sheet.imported /\ sheet.ack

\* commit() and the panel's onEnabled().
Commit ==
    /\ CanCommit
    /\ Gesture("commit")
    /\ prefs' = [prefs EXCEPT !.enabled = TRUE, !.url = sheet.url, !.resync = TRUE]
    /\ panel' = [panel EXCEPT !.on = TRUE, !.url = sheet.url, !.typed = FALSE]
    /\ sheet' = NoSheet
    /\ calls' = SheetGone
    /\ slips' = slips \cap {"overlap", "reveal"}
    /\ UNCHANGED <<stored, passkey, minted>>

-----------------------------------------------------------------------------
\* What stays in the panel's own hands.  CommitInterval, Disable, ForgetDone and
\* Commit fire an event that App handles.
PanelStep ==
    \/ OpenPanel \/ LoadAccount \/ ClosePanel
    \/ Ping \/ ForgetClick \/ Reveal \/ Conceal
    \/ \E u \in Urls \cup {NoUrl} : TypeUrl(u) \/ ChangeUrl(u)
    \/ SaveUrl
    \/ \E p \in calls.pings : PingAnswered(p)
    \/ \E pick \in Picks : PickInterval(pick)
    \/ \E g \in calls.gates : GateProbed(g) \/ GateRegistered(g) \/ GateAsserted(g)
    \/ OpenSheet \/ CancelSheet \/ Tick \/ TestBackend \/ TestAnswered
    \/ \E step \in {"paste", "scan"} : Choose(step)
    \/ Generate \/ ValidatePaste
    \/ \E text \in Owned \cup {Garbled} : TypeWords(text) \/ ScanResult(text)
    \/ \E d \in calls.derive : Derived(d)

\* A page load drops what is in memory, and what it awaited with it.
PanelReset ==
    /\ panel' = NoPanel /\ sheet' = NoSheet /\ calls' = NoCalls
    /\ UNCHANGED <<prefs, stored, passkey, minted>>
=============================================================================
