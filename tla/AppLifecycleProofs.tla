------------------------- MODULE AppLifecycleProofs -------------------------
(***************************************************************************)
(* Proofs about AccountPanel and AppLifecycle.  The interval a user picks  *)
(* is the one the panel shows ever after.  By one inductive invariant:     *)
(* type correctness, that no engine is leaked, and that the resync an      *)
(* enable asks for is remembered.  By others, each on the ones before it:  *)
(* sync is enabled as the sheet shows it; the panel shows what is stored;  *)
(* and the cursor and the queue an engine works with are its own.          *)
(***************************************************************************)
EXTENDS AppLifecycle, TLAPS

-----------------------------------------------------------------------------
(* The sync interval.                                                      *)

LEMMA PickBounded ==
    ASSUME NEW n \in Int, NEW u \in Units
    PROVE  ClampForUnit(n, u) \in UnitMin(u) .. UnitMax(u)
<1>1. UnitMin(u) \in Int /\ UnitMax(u) \in Int /\ UnitMin(u) =< UnitMax(u)
  BY SMT DEF UnitMin, UnitMax
<1> QED
  BY <1>1, SMT DEF ClampForUnit, Most, Least

LEMMA SecondsTyped ==
    ASSUME NEW n \in Int, NEW u \in Units
    PROVE  ToSeconds(n, u) \in Int
BY SMT DEF ToSeconds, SecondsPer

LEMMA SecondsBounded ==
    ASSUME NEW s \in Int
    PROVE  ClampSeconds(s) \in Intervals
<1>1. MinSeconds \in Int /\ MaxSeconds \in Int /\ MinSeconds =< MaxSeconds
  BY DEF MinSeconds, MaxSeconds
<1> QED
  BY <1>1, SMT DEF ClampSeconds, Intervals, Most, Least

LEMMA DecomposeTyped ==
    ASSUME NEW s \in Int
    PROVE  Decompose(s) \in Int \X Units
<1> DEFINE h == s \div 3600
           m == s \div 60
<1>1. h \in Int /\ m \in Int
  BY SMT
<1>2. Decompose(s) \in {<<Least(24, h), "hours">>, <<Least(59, m), "minutes">>,
                        <<Most(10, Least(59, s)), "seconds">>}
  BY SMT DEF Decompose
<1> HIDE DEF h, m
<1>3. Least(24, h) \in Int /\ Least(59, m) \in Int /\ Most(10, Least(59, s)) \in Int
  BY <1>1, SMT DEF Most, Least
<1> QED
  BY <1>2, <1>3 DEF Units

\* Whatever number and unit a user picks, the seconds that are saved are shown
\* again as that number and that unit (SettingsPanel.tsx:290-311).
THEOREM IntervalRoundTrip ==
    ASSUME NEW n \in Int, NEW u \in Units
    PROVE  LET k == ClampForUnit(n, u)
           IN  Decompose(ClampSeconds(ToSeconds(k, u))) = <<k, u>>
<1> DEFINE k == ClampForUnit(n, u)
           s == ToSeconds(k, u)
<1>1. k \in UnitMin(u) .. UnitMax(u)
  BY PickBounded
<1> HIDE DEF k
<1>2. CASE u = "seconds"
  <2>1. s = k /\ k \in 10 .. 59
    BY <1>1, <1>2, SMT DEF ToSeconds, SecondsPer, UnitMin, UnitMax
  <2>2. ClampSeconds(s) = k
    BY <2>1, SMT DEF ClampSeconds, MinSeconds, MaxSeconds, Most, Least
  <2> HIDE DEF s
  <2>3. Decompose(k) = <<k, "seconds">>
    BY <2>1, SMT DEF Decompose, Most, Least
  <2> QED
    BY <1>2, <2>2, <2>3 DEF k, s
<1>3. CASE u = "minutes"
  <2>1. s = 60 * k /\ k \in 1 .. 59
    BY <1>1, <1>3, SMT DEF ToSeconds, SecondsPer, UnitMin, UnitMax
  <2> HIDE DEF s
  <2>2. s \in Int /\ s >= 60 /\ s < 3600 /\ s % 60 = 0 /\ s \div 60 = k
    BY <2>1, SMT
  <2>3. ClampSeconds(s) = s
    BY <2>2, SMT DEF ClampSeconds, MinSeconds, MaxSeconds, Most, Least
  <2>4. Decompose(s) = <<k, "minutes">>
    BY <2>1, <2>2, SMT DEF Decompose, Most, Least
  <2> QED
    BY <1>3, <2>3, <2>4 DEF k, s
<1>4. CASE u = "hours"
  <2>1. s = 3600 * k /\ k \in 1 .. 24
    BY <1>1, <1>4, SMT DEF ToSeconds, SecondsPer, UnitMin, UnitMax
  <2> HIDE DEF s
  <2>2. s \in Int /\ s >= 3600 /\ s =< 86400 /\ s % 3600 = 0 /\ s \div 3600 = k
    BY <2>1, SMT
  <2>3. ClampSeconds(s) = s
    BY <2>2, SMT DEF ClampSeconds, MinSeconds, MaxSeconds, Most, Least
  <2>4. Decompose(s) = <<k, "hours">>
    BY <2>1, <2>2, SMT DEF Decompose, Most, Least
  <2> QED
    BY <1>4, <2>3, <2>4 DEF k, s
<1> QED
  BY <1>2, <1>3, <1>4 DEF Units, k

-----------------------------------------------------------------------------
(* The panel keeps its types.                                              *)

LEMMA Spend ==
    ASSUME NEW g, budget \in [Gestures -> Nat], Gesture(g)
    PROVE  budget' \in [Gestures -> Nat]
<1>1. ASSUME NEW h \in Gestures PROVE budget'[h] \in Nat
  <2>1. CASE h = g
    <3>1. budget[g] \in Nat /\ budget[g] > 0
      BY <2>1 DEF Gesture
    <3>2. budget'[h] = budget[g] - 1
      BY <2>1 DEF Gesture
    <3> QED
      BY <3>1, <3>2
  <2>2. CASE h # g
    BY <2>2 DEF Gesture
  <2> QED
    BY <2>1, <2>2
<1>2. budget' = [h \in Gestures |-> budget'[h]]
  BY DEF Gesture
<1> QED
  BY <1>1, <1>2

LEMMA IntervalsAreInts == Intervals \subseteq Int
BY DEF Intervals, MinSeconds, MaxSeconds

LEMMA PanelInitTyped == PanelInit => PanelTypeOK
<1> SUFFICES ASSUME PanelInit PROVE PanelTypeOK
  OBVIOUS
<1>1. PICK s \in Scenarios :
         /\ prefs = [enabled |-> s.words # NoWords, url |-> s.url, resync |-> FALSE,
                     interval |-> DefaultInterval]
         /\ stored = s.words
         /\ budget = s.budget
  BY DEF PanelInit
<1>2. /\ s.words \in MaybeWords /\ s.url \in MaybeUrl
      /\ s.budget \in [Gestures -> Nat]
  <2>1. s \in [words : Owned \cup {NoWords}, url : Deployed \cup {NoUrl},
               budget : [Gestures -> Nat]]
    BY PanelTyped
  <2>2. Owned \subseteq Words /\ Deployed \subseteq Urls
    BY PanelTyped
  <2> QED
    BY <2>1, <2>2 DEF MaybeWords, MaybeUrl
<1>3. DefaultInterval \in Intervals
  BY DEF DefaultInterval, Intervals, MinSeconds, MaxSeconds
<1>4. prefs \in Prefs
  BY <1>1, <1>2, <1>3 DEF Prefs
<1>5. NoPanel \in Panels
  BY DEF NoPanel, Panels, MaybeWords, MaybeUrl, Units
<1>6. NoSheet \in Sheets
  BY DEF NoSheet, Sheets, MaybeWords, MaybeUrl
<1>7. NoCalls \in Calls
  BY DEF NoCalls, Calls, MaybeUrl
<1> QED
  BY <1>1, <1>2, <1>4, <1>5, <1>6, <1>7 DEF PanelInit, PanelTypeOK

\* The panel opens, loads, closes and asks the gate.
LEMMA PanelTypedByView ==
    ASSUME PanelTypeOK, OpenPanel \/ LoadAccount \/ ClosePanel \/ Reveal \/ Conceal
    PROVE  PanelTypeOK'
<1> USE DEF PanelTypeOK
<1>1. CASE OpenPanel
  <2>1. Decompose(prefs.interval) \in Int \X Units
    BY DecomposeTyped, IntervalsAreInts DEF Prefs
  <2>2. panel' \in Panels
    BY <1>1, <2>1 DEF OpenPanel, Panels, Prefs, NoPanel, MaybeWords
  <2> QED
    BY <1>1, <2>2, Spend DEF OpenPanel
<1>2. CASE LoadAccount
  <2>1. panel' \in Panels
    BY <1>2 DEF LoadAccount, Panels
  <2> QED
    BY <1>2, <2>1 DEF LoadAccount
<1>3. CASE ClosePanel
  <2>1. panel' \in Panels
    BY <1>3 DEF ClosePanel, Panels, NoPanel, MaybeWords, MaybeUrl, Units
  <2>2. {[p EXCEPT !.here = FALSE] : p \in calls.pings} \subseteq Pinging
    BY DEF Calls, Pinging
  <2>3. {[g EXCEPT !.here = FALSE] : g \in calls.gates} \subseteq Gate
    BY DEF Calls, Gate
  <2>4. calls' \in Calls
    BY <1>3, <2>2, <2>3 DEF ClosePanel, Orphaned, Calls, MaybeUrl
  <2> QED
    BY <1>3, <2>1, <2>4 DEF ClosePanel
<1>4. CASE Reveal
  <2>1. [words |-> panel.acct, at |-> "probe", here |-> TRUE] \in Gate
    BY <1>4 DEF Reveal, HasKey, Panels, MaybeWords, Gate
  <2>2. calls' \in Calls
    BY <1>4, <2>1 DEF Reveal, Calls
  <2> QED
    BY <1>4, <2>2, Spend DEF Reveal
<1>5. CASE Conceal
  <2>1. panel' \in Panels
    BY <1>5 DEF Conceal, Panels
  <2> QED
    BY <1>5, <2>1 DEF Conceal
<1> QED
  BY <1>1, <1>2, <1>3, <1>4, <1>5

\* The URL field, the interval and the two buttons that ask someone.
LEMMA PanelTypedByField ==
    ASSUME PanelTypeOK
    PROVE  /\ (\E u \in MaybeUrl : TypeUrl(u)) \/ SaveUrl => PanelTypeOK'
           /\ Ping => PanelTypeOK'
           /\ \A p \in calls.pings : PingAnswered(p) => PanelTypeOK'
           /\ \A pick \in Picks : PickInterval(pick) => PanelTypeOK'
           /\ ForgetClick => PanelTypeOK'
<1> USE DEF PanelTypeOK
<1>0. ASSUME NEW u \in MaybeUrl, TypeUrl(u) PROVE PanelTypeOK'
  <2>1. panel' \in Panels
    BY <1>0 DEF TypeUrl, Panels
  <2> QED
    BY <1>0, <2>1, Spend DEF TypeUrl
<1>1. ASSUME SaveUrl PROVE PanelTypeOK'
  <2>1. panel' \in Panels
    BY <1>1 DEF SaveUrl, Panels
  <2>2. prefs' \in Prefs
    BY <1>1 DEF SaveUrl, Prefs, Panels
  <2> QED
    BY <1>1, <2>1, <2>2 DEF SaveUrl
<1>2. ASSUME Ping PROVE PanelTypeOK'
  <2>1. [url |-> panel.url, here |-> TRUE] \in Pinging
    BY <1>2 DEF Ping, Panels, MaybeUrl, Pinging
  <2>2. calls' \in Calls
    BY <1>2, <2>1 DEF Ping, Calls
  <2> QED
    BY <1>2, <2>2, Spend DEF Ping
<1>3. ASSUME NEW p \in calls.pings, PingAnswered(p) PROVE PanelTypeOK'
  <2>1. p.url \in MaybeUrl
    BY DEF Calls, Pinging, MaybeUrl
  <2>2. calls' \in Calls
    BY <1>3 DEF PingAnswered, Calls
  <2>3. prefs' \in Prefs
    BY <1>3, <2>1 DEF PingAnswered, Prefs
  <2> QED
    BY <1>3, <2>2, <2>3 DEF PingAnswered
<1>4. ASSUME NEW pick \in Picks, PickInterval(pick) PROVE PanelTypeOK'
  <2>1. pick \in Int \X Units
    BY PanelTyped
  <2>2. pick[1] \in Int /\ pick[2] \in Units
    BY <2>1
  <2>3. ClampForUnit(pick[1], pick[2]) \in Int
    BY <2>2, PickBounded, SMT DEF UnitMin, UnitMax
  <2>4. panel' \in Panels
    BY <1>4, <2>2, <2>3 DEF PickInterval, Panels
  <2> QED
    BY <1>4, <2>4, Spend DEF PickInterval
<1>5. ASSUME ForgetClick PROVE PanelTypeOK'
  <2>1. calls' \in Calls
    BY <1>5 DEF ForgetClick, Calls
  <2> QED
    BY <1>5, <2>1, Spend DEF ForgetClick, MaybeWords
<1> QED
  BY <1>0, <1>1, <1>2, <1>3, <1>4, <1>5

\* The reveal gate answers.
LEMMA PanelTypedByGate ==
    ASSUME PanelTypeOK, NEW g \in calls.gates
    PROVE  GateProbed(g) \/ GateRegistered(g) \/ GateAsserted(g) => PanelTypeOK'
<1> USE DEF PanelTypeOK
<1>1. g \in Gate
  BY DEF Calls
<1>2. ASSUME NEW ok \in BOOLEAN, GateSays(g, ok)
      PROVE  panel' \in Panels /\ calls' \in Calls
  <2>1. panel' \in Panels
    <3>1. CASE g.here /\ ok
      BY <1>1, <1>2, <3>1 DEF GateSays, Panels, Gate, MaybeWords
    <3>2. CASE g.here /\ ~ok
      BY <1>1, <1>2, <3>2 DEF GateSays, Panels, Gate
    <3>3. CASE ~g.here
      BY <1>2, <3>3 DEF GateSays
    <3> QED
      BY <3>1, <3>2, <3>3
  <2>2. calls' \in Calls
    BY <1>2 DEF GateSays, Calls
  <2> QED
    BY <2>1, <2>2
<1>3. ASSUME GateProbed(g) PROVE PanelTypeOK'
  <2>1. CASE /\ calls' = [calls EXCEPT !.gates = (@ \ {g}) \cup
                             {[g EXCEPT !.at = IF passkey THEN "assert" ELSE "register"]}]
             /\ UNCHANGED panel
    <3>1. [g EXCEPT !.at = IF passkey THEN "assert" ELSE "register"] \in Gate
      BY <1>1 DEF Gate
    <3>2. calls' \in Calls
      BY <2>1, <3>1 DEF Calls
    <3> QED
      BY <1>3, <2>1, <3>2 DEF GateProbed
  <2>2. CASE AskForTail(g)
    BY <1>2, <1>3, <2>2 DEF GateProbed, AskForTail
  <2> QED
    BY <1>3, <2>1, <2>2 DEF GateProbed
<1>4. ASSUME GateRegistered(g) PROVE PanelTypeOK'
  BY <1>2, <1>4 DEF GateRegistered, AskForTail
<1>5. ASSUME GateAsserted(g) PROVE PanelTypeOK'
  BY <1>2, <1>5 DEF GateAsserted
<1> QED
  BY <1>3, <1>4, <1>5

LEMMA SheetGoneTyped ==
    ASSUME calls \in Calls
    PROVE  SheetGone \in Calls
<1>1. {[d EXCEPT !.here = FALSE] : d \in calls.derive} \subseteq Derivation
  BY DEF Calls, Derivation
<1> QED
  BY <1>1 DEF SheetGone, Calls, MaybeUrl

LEMMA SaveTyped ==
    ASSUME calls \in Calls, NEW w \in Words, NEW how \in {"generated", "paste", "scan"},
           Save(w, how)
    PROVE  calls' \in Calls /\ stored' \in MaybeWords
<1>1. [words |-> w, how |-> how, here |-> TRUE, after |-> calls.forget # "no"] \in Derivation
  BY DEF Derivation
<1> QED
  BY <1>1 DEF Save, Calls, MaybeWords

\* The sheet: its steps, the words it takes in and its check boxes.
LEMMA PanelTypedBySheet ==
    ASSUME PanelTypeOK
    PROVE  /\ OpenSheet \/ CancelSheet \/ Generate \/ ValidatePaste \/ Tick => PanelTypeOK'
           /\ \A step \in {"paste", "scan"} : Choose(step) => PanelTypeOK'
           /\ \A text \in Owned \cup {Garbled} : TypeWords(text) \/ ScanResult(text) => PanelTypeOK'
<1> USE DEF PanelTypeOK
<1>0. NoSheet \in Sheets
  BY DEF NoSheet, Sheets, MaybeWords, MaybeUrl
<1>1. ASSUME OpenSheet PROVE PanelTypeOK'
  <2>1. prefs.url \in MaybeUrl /\ panel.acct \in MaybeWords
    BY DEF Prefs, Panels
  <2>2. sheet' = [NoSheet EXCEPT !.step = "chooser", !.url = prefs.url, !.words = panel.acct]
    BY <1>1 DEF OpenSheet
  <2>3. sheet' \in Sheets
    BY <1>0, <2>1, <2>2 DEF Sheets
  <2> QED
    BY <1>1, <2>3, Spend DEF OpenSheet
<1>2. ASSUME CancelSheet PROVE PanelTypeOK'
  <2>1. CASE sheet.step = "scan"
    <3>1. sheet' \in Sheets
      BY <1>2, <2>1 DEF CancelSheet, Sheets
    <3> QED
      BY <1>2, <2>1, <3>1 DEF CancelSheet
  <2>2. CASE sheet.step # "scan"
    BY <1>0, <1>2, <2>2, SheetGoneTyped DEF CancelSheet
  <2> QED
    BY <2>1, <2>2
<1>3. ASSUME Generate PROVE PanelTypeOK'
  <2>1. PICK w \in Words \ (Owned \cup minted) :
           Save(w, "generated") /\ minted' = minted \cup {w}
    BY <1>3 DEF Generate
  <2>2. calls' \in Calls /\ stored' \in MaybeWords
    BY <2>1, SaveTyped
  <2> QED
    BY <1>3, <2>1, <2>2, Spend DEF Generate
<1>4. ASSUME ValidatePaste PROVE PanelTypeOK'
  <2>1. CASE sheet.text \in Words /\ Save(sheet.text, "paste") /\ UNCHANGED sheet
    <3>1. calls' \in Calls /\ stored' \in MaybeWords
      BY <2>1, SaveTyped
    <3> QED
      BY <1>4, <2>1, <3>1, Spend DEF ValidatePaste
  <2>2. CASE sheet' = [sheet EXCEPT !.imported = FALSE] /\ UNCHANGED <<stored, calls, slips>>
    <3>1. sheet' \in Sheets
      BY <2>2 DEF Sheets
    <3> QED
      BY <1>4, <2>2, <3>1, Spend DEF ValidatePaste
  <2> QED
    BY <1>4, <2>1, <2>2 DEF ValidatePaste
<1>5. ASSUME Tick PROVE PanelTypeOK'
  <2>1. sheet' \in Sheets
    BY <1>5 DEF Tick, Sheets
  <2> QED
    BY <1>5, <2>1 DEF Tick
<1>6. ASSUME NEW step \in {"paste", "scan"}, Choose(step) PROVE PanelTypeOK'
  <2>1. sheet' \in Sheets
    BY <1>6 DEF Choose, Sheets
  <2> QED
    BY <1>6, <2>1 DEF Choose
<1>7. ASSUME NEW text \in Owned \cup {Garbled}, TypeWords(text) PROVE PanelTypeOK'
  <2>1. text \in MaybeWords \cup {Garbled}
    BY PanelTyped DEF MaybeWords
  <2>2. sheet' \in Sheets
    BY <1>7, <2>1 DEF TypeWords, Sheets
  <2> QED
    BY <1>7, <2>2 DEF TypeWords
<1>8. ASSUME NEW text \in Owned \cup {Garbled}, ScanResult(text) PROVE PanelTypeOK'
  <2>1. CASE text \in Words /\ Save(text, "scan") /\ UNCHANGED sheet
    <3>1. calls' \in Calls /\ stored' \in MaybeWords
      BY <2>1, SaveTyped
    <3> QED
      BY <1>8, <2>1, <3>1, Spend DEF ScanResult
  <2>2. CASE sheet' = [sheet EXCEPT !.step = "paste"] /\ UNCHANGED <<stored, calls, slips>>
    <3>1. sheet' \in Sheets
      BY <2>2 DEF Sheets
    <3> QED
      BY <1>8, <2>2, <3>1, Spend DEF ScanResult
  <2> QED
    BY <1>8, <2>1, <2>2 DEF ScanResult
<1> QED
  BY <1>1, <1>2, <1>3, <1>4, <1>5, <1>6, <1>7, <1>8

\* The derivation that ends, and the sheet's test of its backend.
LEMMA PanelTypedByAnswer ==
    ASSUME PanelTypeOK
    PROVE  /\ \A d \in calls.derive : Derived(d) => PanelTypeOK'
           /\ \A u \in MaybeUrl : ChangeUrl(u) => PanelTypeOK'
           /\ TestBackend \/ TestAnswered => PanelTypeOK'
<1> USE DEF PanelTypeOK
<1>1. ASSUME NEW d \in calls.derive, Derived(d) PROVE PanelTypeOK'
  <2>1. d.words \in Words
    BY DEF Calls, Derivation
  <2>2. calls' \in Calls
    BY <1>1 DEF Derived, Calls
  <2>3. panel' \in Panels
    BY <1>1, <2>1 DEF Derived, Panels, MaybeWords
  <2>4. [sheet EXCEPT !.words = d.words, !.step = "generated"] \in Sheets
    BY <2>1 DEF Sheets, MaybeWords
  <2>5. [sheet EXCEPT !.words = d.words, !.imported = TRUE] \in Sheets
    BY <2>1 DEF Sheets, MaybeWords
  <2>6. [sheet EXCEPT !.words = d.words, !.imported = TRUE, !.text = d.words,
                      !.step = "paste"] \in Sheets
    BY <2>1 DEF Sheets, MaybeWords
  <2>7. sheet' \in Sheets
    BY <1>1, <2>4, <2>5, <2>6 DEF Derived
  <2> QED
    BY <1>1, <2>2, <2>3, <2>7 DEF Derived
<1>2. ASSUME NEW u \in MaybeUrl, ChangeUrl(u) PROVE PanelTypeOK'
  <2>1. sheet' \in Sheets
    BY <1>2 DEF ChangeUrl, Sheets, MaybeUrl
  <2> QED
    BY <1>2, <2>1, Spend DEF ChangeUrl
<1>3. ASSUME TestBackend PROVE PanelTypeOK'
  <2>1. sheet.url \in MaybeUrl
    BY DEF Sheets
  <2>2. calls' \in Calls
    BY <1>3, <2>1 DEF TestBackend, Calls
  <2> QED
    BY <1>3, <2>2, Spend DEF TestBackend
<1>4. ASSUME TestAnswered PROVE PanelTypeOK'
  <2>1. calls.test \in MaybeUrl
    BY DEF Calls
  <2>2. sheet' \in Sheets
    BY <1>4, <2>1 DEF TestAnswered, Sheets, MaybeUrl
  <2>3. calls' \in Calls
    BY <1>4 DEF TestAnswered, Calls, MaybeUrl
  <2> QED
    BY <1>4, <2>2, <2>3 DEF TestAnswered
<1> QED
  BY <1>1, <1>2, <1>3, <1>4

LEMMA PanelStepTyped ==
    ASSUME PanelTypeOK, PanelStep
    PROVE  PanelTypeOK'
BY PanelTypedByView, PanelTypedByField, PanelTypedByGate, PanelTypedBySheet, PanelTypedByAnswer
   DEF PanelStep, MaybeUrl

\* What fires an event that App handles, and the page load.
LEMMA PanelTypedByEvent ==
    ASSUME PanelTypeOK
    PROVE  /\ Commit \/ Disable \/ ForgetDone \/ CommitInterval => PanelTypeOK'
           /\ PanelReset /\ budget' \in [Gestures -> Nat] => PanelTypeOK'
<1> USE DEF PanelTypeOK
<1>1. ASSUME Commit PROVE PanelTypeOK'
  <2>1. prefs' \in Prefs
    BY <1>1 DEF Commit, Prefs, Sheets
  <2>2. panel' \in Panels
    BY <1>1 DEF Commit, Panels, Sheets
  <2>3. sheet' \in Sheets
    BY <1>1 DEF Commit, NoSheet, Sheets, MaybeWords, MaybeUrl
  <2>4. calls' \in Calls
    BY <1>1, SheetGoneTyped DEF Commit
  <2> QED
    BY <1>1, <2>1, <2>2, <2>3, <2>4, Spend DEF Commit
<1>2. ASSUME Disable PROVE PanelTypeOK'
  <2>1. prefs' \in Prefs
    BY <1>2 DEF Disable, Prefs
  <2>2. panel' \in Panels
    BY <1>2 DEF Disable, Panels
  <2> QED
    BY <1>2, <2>1, <2>2, Spend DEF Disable
<1>3. ASSUME ForgetDone PROVE PanelTypeOK'
  <2>1. prefs' \in Prefs
    BY <1>3 DEF ForgetDone, Prefs
  <2>2. panel' \in Panels
    BY <1>3 DEF ForgetDone, Panels, MaybeWords
  <2>3. calls' \in Calls
    BY <1>3 DEF ForgetDone, Calls
  <2> QED
    BY <1>3, <2>1, <2>2, <2>3 DEF ForgetDone
<1>4. ASSUME CommitInterval PROVE PanelTypeOK'
  <2>1. panel.every[1] \in Int /\ panel.every[2] \in Units
    BY DEF Panels
  <2>2. ClampSeconds(ToSeconds(panel.every[1], panel.every[2])) \in Intervals
    BY <2>1, SecondsTyped, SecondsBounded
  <2>3. prefs' \in Prefs
    BY <1>4, <2>2 DEF CommitInterval, Prefs
  <2>4. panel' \in Panels
    BY <1>4 DEF CommitInterval, Panels
  <2> QED
    BY <1>4, <2>3, <2>4 DEF CommitInterval
<1>5. ASSUME PanelReset, budget' \in [Gestures -> Nat] PROVE PanelTypeOK'
  <2>1. NoPanel \in Panels
    BY DEF NoPanel, Panels, MaybeWords, MaybeUrl, Units
  <2>2. NoSheet \in Sheets
    BY DEF NoSheet, Sheets, MaybeWords, MaybeUrl
  <2>3. NoCalls \in Calls
    BY DEF NoCalls, Calls, MaybeUrl
  <2> QED
    BY <1>5, <2>1, <2>2, <2>3 DEF PanelReset
<1> QED
  BY <1>1, <1>2, <1>3, <1>4, <1>5

-----------------------------------------------------------------------------
(* The app.  A run that is still starting while sync is enabled, and the   *)
(* words of what runs, waits to run or is being sealed, are what the steps *)
(* need to know.                                                           *)

StartsFit ==
    /\ starts[runId].at # "none" => prefs.enabled
    /\ \A i \in Runs : /\ starts[i].at = "derive" => starts[i].words \in Words
                       /\ engines[i].running => engines[i].words \in Words
                       /\ engines[i].resync = "seal" => engines[i].seal \in Words

AppInv == AppTypeOK /\ OneEngine /\ ResyncOwed /\ StartsFit

LEMMA Bounds == MaxRuns \in Nat /\ 1 \in Runs /\ \A i \in Runs : i # 0 /\ i \in 0 .. MaxRuns
BY AppTyped, SMT DEF Runs

LEMMA TimersApart == \A n \in Intervals : n # Off
<1>1. MinSeconds \in Int /\ MaxSeconds \in Int /\ MinSeconds > 0
  BY DEF MinSeconds, MaxSeconds
<1> QED
  BY <1>1, SMT DEF Intervals, Off

LEMMA Constants ==
    /\ NoStart \in Starts /\ NoEngine \in Engines
    /\ StartCursor \in Cursors
<1>1. StartCursor \in Cursors
  BY DEF StartCursor, Cursors, MaybeWords, MaybeUrl
<1>2. NoStart \in Starts
  BY DEF NoStart, Starts, MaybeWords, MaybeUrl
<1>3. NoEngine \in Engines
  BY <1>1 DEF NoEngine, Engines, MaybeWords, MaybeUrl
<1> QED
  BY <1>1, <1>2, <1>3

LEMMA AppInitInv == AppInit => AppInv
<1> SUFFICES ASSUME AppInit
             PROVE  AppInv
  OBVIOUS
<1> USE DEF AppInit
<1>1. PanelTypeOK
  BY PanelInitTyped
<1>2. prefs.url \in MaybeUrl /\ stored \in MaybeWords /\ prefs.enabled \in BOOLEAN
  BY <1>1 DEF PanelTypeOK, Prefs
<1>3. starts \in [Runs -> Starts]
  <2>1. [NoStart EXCEPT !.at = "open", !.url = prefs.url] \in Starts
    BY <1>2, Constants DEF Starts
  <2> QED
    BY <2>1, Constants
<1>4. cursor \in Cursors
  BY <1>2, Constants DEF At, Cursors
<1>5. AppTypeOK
  <2>1. engine \in 0 .. MaxRuns /\ owed \in 0 .. MaxRuns /\ runId \in Runs
    BY AppTyped, SMT DEF Runs
  <2>2. engines \in [Runs -> Engines]
    BY Constants
  <2> QED
    BY <1>1, <1>3, <1>4, <2>1, <2>2 DEF AppTypeOK
<1>6. OneEngine
  BY Bounds DEF OneEngine, NoEngine, Off
<1>7. \A i \in Runs : /\ starts[i].at # "derive" /\ ~engines[i].running
                      /\ engines[i].resync = "no"
  BY DEF NoStart, NoEngine
<1>8. starts[runId].at # "none" => prefs.enabled
  BY Bounds DEF NoStart
<1> QED
  BY <1>5, <1>6, <1>7, <1>8 DEF AppInv, StartsFit, ResyncOwed

\* What App has read of the preferences is as it was; no resync is taken back.
Keeps ==
    /\ prefs'.enabled = prefs.enabled /\ prefs'.resync = prefs.resync
    /\ prefs'.interval = prefs.interval
    /\ "cleared" \in slips => "cleared" \in slips'

\* So it is whatever the panel does in its own hands.
LEMMA PanelStepKeeps ==
    ASSUME PanelTypeOK, PanelStep
    PROVE  Keeps
<1> USE DEF Keeps
<1>1. ASSUME NEW u \in MaybeUrl, prefs' = [prefs EXCEPT !.url = u]
      PROVE  /\ prefs'.enabled = prefs.enabled /\ prefs'.resync = prefs.resync
             /\ prefs'.interval = prefs.interval
  BY <1>1 DEF PanelTypeOK, Prefs
<1>2. CASE OpenPanel \/ LoadAccount \/ ClosePanel \/ Ping \/ ForgetClick \/ Reveal \/ Conceal
  BY <1>2 DEF OpenPanel, LoadAccount, ClosePanel, Ping, ForgetClick, Reveal, Conceal
<1>3. ASSUME NEW u \in MaybeUrl, TypeUrl(u) \/ ChangeUrl(u) \/ SaveUrl PROVE Keeps
  <2>1. panel.url \in MaybeUrl
    BY DEF PanelTypeOK, Panels
  <2> QED
    BY <1>1, <1>3, <2>1 DEF TypeUrl, SaveUrl, ChangeUrl
<1>4. ASSUME NEW p \in calls.pings, PingAnswered(p) PROVE Keeps
  <2>1. p.url \in MaybeUrl
    BY DEF PanelTypeOK, Calls, Pinging, MaybeUrl
  <2> QED
    BY <1>1, <1>4, <2>1 DEF PingAnswered
<1>5. ASSUME NEW pick \in Picks, PickInterval(pick) PROVE Keeps
  BY <1>5 DEF PickInterval
<1>6. ASSUME NEW g \in calls.gates, GateProbed(g) \/ GateRegistered(g) \/ GateAsserted(g)
      PROVE  Keeps
  BY <1>6 DEF GateProbed, GateRegistered, GateAsserted
<1>7. CASE OpenSheet \/ CancelSheet \/ Tick \/ TestBackend \/ TestAnswered
  BY <1>7 DEF OpenSheet, CancelSheet, Tick, TestBackend, TestAnswered
<1>8. ASSUME NEW step \in {"paste", "scan"}, Choose(step) PROVE Keeps
  BY <1>8 DEF Choose
<1>9. CASE Generate \/ ValidatePaste
  BY <1>9 DEF Generate, ValidatePaste, Save
<1>10. ASSUME NEW text \in Owned \cup {Garbled}, TypeWords(text) \/ ScanResult(text)
       PROVE  Keeps
  BY <1>10 DEF TypeWords, ScanResult, Save
<1>11. ASSUME NEW d \in calls.derive, Derived(d) PROVE Keeps
  BY <1>11 DEF Derived
<1> QED
  BY <1>2, <1>3, <1>4, <1>5, <1>6, <1>7, <1>8, <1>9, <1>10, <1>11 DEF PanelStep, MaybeUrl

\* The invariant is about what Keeps keeps and what the app changes.
LEMMA Untouched ==
    ASSUME AppInv, PanelTypeOK', Keeps, UNCHANGED appVars
    PROVE  AppInv'
<1>1. AppTypeOK'
  BY DEF AppInv, AppTypeOK, appVars
<1>2. OneEngine'
  BY DEF AppInv, OneEngine, Keeps, appVars
<1>3. ResyncOwed' /\ StartsFit'
  BY DEF AppInv, ResyncOwed, StartsFit, Keeps, appVars
<1> QED
  BY <1>1, <1>2, <1>3 DEF AppInv

-----------------------------------------------------------------------------
(* Starts.                                                                 *)

LEMMA StoppedTyped ==
    ASSUME NEW e \in Engines
    PROVE  /\ Stopped(e) \in Engines /\ ~Stopped(e).running /\ Stopped(e).timers = Off
           /\ Stopped(e).resync = "seal" => e.resync = "seal" /\ Stopped(e).seal = e.seal
<1>1. CASE Quiet(e)
  BY <1>1, Constants DEF Stopped, NoEngine
<1>2. CASE ~Quiet(e)
  BY <1>2 DEF Stopped, Engines
<1> QED
  BY <1>1, <1>2

\* A new generation: no engine runs, and the run that begins does so only if sync
\* is enabled.
LEMMA StartInv ==
    ASSUME AppInv, PanelTypeOK', StartIfEnabled, UNCHANGED Others,
           owed' \in 0 .. MaxRuns, owed' # 0 => prefs'.resync
    PROVE  AppInv'
<1> USE DEF AppInv
<1>1. runId \in Runs /\ runId' = runId + 1 /\ runId' \in Runs
  <2>1. MaxRuns \in Nat /\ runId \in Nat /\ 1 =< runId /\ runId < MaxRuns
    BY AppTyped, SMT DEF AppTypeOK, StartIfEnabled, Runs
  <2> QED
    BY <2>1, SMT DEF StartIfEnabled, Runs
<1>2. starts' \in [Runs -> Starts]
  <2>1. prefs'.url \in MaybeUrl
    BY DEF PanelTypeOK, Prefs
  <2>2. [NoStart EXCEPT !.at = "open", !.url = prefs'.url] \in Starts
    BY <2>1, Constants DEF Starts
  <2> QED
    BY <2>2, Constants DEF AppTypeOK, StartIfEnabled
<1>3. \A i \in Runs : /\ engines'[i] \in Engines
                      /\ ~engines'[i].running /\ engines'[i].timers = Off
                      /\ engines'[i].resync = "seal" => engines'[i].seal \in Words
  <2> TAKE i \in Runs
  <2>1. engines[i] \in Engines
    BY DEF AppTypeOK
  <2>2. CASE i = engine
    BY <2>1, <2>2, StoppedTyped DEF StartIfEnabled, StartsFit
  <2>3. CASE i # engine
    BY <2>1, <2>3 DEF StartIfEnabled, OneEngine, StartsFit
  <2> QED
    BY <2>2, <2>3
<1>4. engines' \in [Runs -> Engines]
  BY <1>3 DEF StartIfEnabled
<1>5. AppTypeOK'
  BY <1>1, <1>2, <1>4, Bounds, SMT DEF AppTypeOK, StartIfEnabled, Others
<1>6. OneEngine'
  BY <1>3, Bounds DEF OneEngine, StartIfEnabled
<1>7. StartsFit'
  <2>1. starts'[runId'].at # "none" => prefs'.enabled
    BY <1>1 DEF StartIfEnabled, NoStart, AppTypeOK
  <2>2. ASSUME NEW i \in Runs, starts'[i].at = "derive" PROVE starts'[i].words \in Words
    BY <1>1, <2>2 DEF StartIfEnabled, NoStart, AppTypeOK, StartsFit, Starts
  <2> QED
    BY <1>3, <2>1, <2>2 DEF StartsFit
<1> QED
  BY <1>5, <1>6, <1>7 DEF ResyncOwed

-----------------------------------------------------------------------------
(* Engines.                                                                *)

\* No engine begins or ends to run, and none changes its timers or its words.
Running ==
    /\ engines' \in [Runs -> Engines]
    /\ \A j \in Runs : /\ engines'[j].running = engines[j].running
                       /\ engines'[j].timers = engines[j].timers
                       /\ engines[j].running => engines'[j].words = engines[j].words
                       /\ engines'[j].resync = "seal" => engines'[j].seal \in Words

LEMMA BecomesRunning ==
    ASSUME AppInv, NEW i \in Runs, NEW e \in Engines, Becomes(i, e),
           e.running = engines[i].running, e.timers = engines[i].timers,
           e.words = engines[i].words, e.resync = "seal" => e.seal \in Words
    PROVE  Running
<1> USE DEF AppInv
<1>1. /\ engines \in [Runs -> Engines]
      /\ \A j \in Runs : engines[j].resync = "seal" => engines[j].seal \in Words
  BY DEF AppTypeOK, StartsFit
<1>2. CASE ~e.running /\ Quiet(e)
  <2>1. engines' = [engines EXCEPT ![i] = NoEngine]
    BY <1>2 DEF Becomes
  <2>2. ~engines[i].running /\ engines[i].timers = Off
    BY <1>2 DEF OneEngine
  <2>3. ~NoEngine.running /\ NoEngine.timers = Off /\ NoEngine.resync # "seal"
    BY DEF NoEngine
  <2>4. e.running \in BOOLEAN /\ NoEngine.running = engines[i].running
    BY <1>1, <2>2 DEF NoEngine, Engines
  <2> QED
    BY <1>1, <2>1, <2>2, <2>3, <2>4, Constants DEF Running
<1>3. CASE ~(~e.running /\ Quiet(e))
  <2>1. engines' = [engines EXCEPT ![i] = e]
    BY <1>3 DEF Becomes
  <2> QED
    BY <1>1, <2>1 DEF Running
<1> QED
  BY <1>2, <1>3

\* What a step of an engine's has to leave alone.
LEMMA EngineInv ==
    ASSUME AppInv, PanelTypeOK', Running, UNCHANGED <<runId, engine, starts, hidden>>,
           prefs'.enabled = prefs.enabled, prefs'.interval = prefs.interval,
           cursor' \in Cursors, queue' \subseteq Words, sealing' \subseteq Words,
           owed' \in 0 .. MaxRuns, ResyncOwed'
    PROVE  AppInv'
<1> USE DEF AppInv
<1>1. AppTypeOK'
  BY DEF AppTypeOK, Running
<1>2. OneEngine'
  BY DEF OneEngine, Running
<1>3. StartsFit'
  BY DEF StartsFit, Running
<1> QED
  BY <1>1, <1>2, <1>3

LEMMA SlipKeeps ==
    ASSUME PanelTypeOK, NEW s, Slip(s)
    PROVE  PanelTypeOK' /\ Keeps
BY DEF PanelTypeOK, Slip, Keeps

\* The cursor an answer leaves.
LEMMA AfterTyped ==
    ASSUME NEW e \in Engines, NEW c
    PROVE  After(e, c) \in Cursors
<1>1. e.words \in MaybeWords /\ e.url \in MaybeUrl
  BY DEF Engines
<1>2. At(e.words, e.url) \in Cursors
  BY <1>1 DEF At, Cursors
<1> DEFINE gap == c \notin Own(e)
<1>3. gap \in BOOLEAN
  OBVIOUS
<1>4. After(e, c) = [At(e.words, e.url) EXCEPT !.gap = gap]
  BY DEF After
<1> HIDE DEF gap
<1> QED
  BY <1>2, <1>3, <1>4 DEF Cursors

LEMMA PullingKeeps ==
    ASSUME NEW e \in Engines, cursor \in Cursors
    PROVE  /\ Pulling(e) \in Engines
           /\ Pulling(e).running = e.running /\ Pulling(e).timers = e.timers
           /\ Pulling(e).words = e.words
           /\ Pulling(e).resync = e.resync /\ Pulling(e).seal = e.seal
BY DEF Pulling, Engines

LEMMA PullTimerInv ==
    ASSUME AppInv, NEW i \in Runs, PullTimer(i)
    PROVE  AppInv'
<1> USE DEF AppInv
<1>1. engines[i] \in Engines /\ cursor \in Cursors
  BY DEF AppTypeOK
<1>2. Running
  BY <1>1, PullingKeeps, BecomesRunning DEF PullTimer, StartsFit
<1>3. PanelTypeOK' /\ Keeps
  BY Spend DEF PullTimer, AppTypeOK, PanelTypeOK, Keeps
<1> QED
  BY <1>2, <1>3, EngineInv DEF PullTimer, Others, AppTypeOK, ResyncOwed, Keeps

LEMMA PullEndsInv ==
    ASSUME AppInv, NEW i \in Runs, NEW c, PullEnds(i, c)
    PROVE  AppInv'
<1> USE DEF AppInv
<1>1. engines[i] \in Engines
  BY DEF AppTypeOK
<1> DEFINE e == [engines[i] EXCEPT !.pulls = @ \ {c}]
<1>2. /\ e \in Engines /\ e.running = engines[i].running /\ e.timers = engines[i].timers
      /\ e.words = engines[i].words /\ e.resync = engines[i].resync /\ e.seal = engines[i].seal
  BY <1>1 DEF Engines
<1>3. Running
  <2>1. Becomes(i, e)
    BY DEF PullEnds
  <2> HIDE DEF e
  <2> QED
    BY <1>2, <2>1, BecomesRunning DEF StartsFit
<1>4. PanelTypeOK' /\ Keeps
  BY SlipKeeps DEF PullEnds, panelVars, PanelTypeOK, AppTypeOK, Keeps
<1>5. cursor' \in Cursors
  BY <1>1, AfterTyped DEF PullEnds, AppTypeOK
<1> QED
  BY <1>3, <1>4, <1>5, EngineInv DEF PullEnds, AppTypeOK, ResyncOwed, Keeps

LEMMA FlushInv ==
    ASSUME AppInv, NEW i \in Runs, Flush(i)
    PROVE  AppInv'
<1> USE DEF AppInv
<1>1. Running
  BY DEF Flush, Running, AppTypeOK, StartsFit
<1>2. PanelTypeOK' /\ Keeps
  BY DEF Flush, panelVars, PanelTypeOK, AppTypeOK, Keeps
<1> QED
  BY <1>1, <1>2, EngineInv DEF Flush, Flushed, AppTypeOK, ResyncOwed, Keeps

\* A step of a resync's that leaves its pulls alone: what becomes of the engine.
LEMMA PhaseRunning ==
    ASSUME AppInv, NEW i \in Runs, NEW r \in {"no", "pull", "rebuild", "seal", "flush"},
           NEW w \in MaybeWords, r = "seal" => w \in Words,
           \/ Becomes(i, [engines[i] EXCEPT !.resync = r]) /\ r # "seal"
           \/ Becomes(i, [engines[i] EXCEPT !.resync = r, !.seal = w])
    PROVE  Running
<1> DEFINE d == [engines[i] EXCEPT !.resync = r]
           e == [engines[i] EXCEPT !.resync = r, !.seal = w]
<1>1. engines[i] \in Engines
  BY DEF AppInv, AppTypeOK
<1>2. /\ d \in Engines /\ d.running = engines[i].running /\ d.timers = engines[i].timers
      /\ d.words = engines[i].words /\ d.resync = r
  BY <1>1 DEF Engines
<1>3. /\ e \in Engines /\ e.running = engines[i].running /\ e.timers = engines[i].timers
      /\ e.words = engines[i].words /\ e.resync = r /\ e.seal = w
  BY <1>1 DEF Engines
<1>4. (Becomes(i, d) /\ r # "seal") \/ Becomes(i, e)
  OBVIOUS
<1> HIDE DEF d, e
<1> QED
  BY <1>2, <1>3, <1>4, BecomesRunning

\* A resync: the cursor reset, the pull, the local tasks queued anew.
LEMMA ResyncInv ==
    ASSUME AppInv, NEW i \in Runs
    PROVE  /\ ResyncCleared(i) \/ ResyncPulled(i) => AppInv'
           /\ RebuildSeals(i) \/ RebuildLands(i) \/ RebuildEnds(i) => AppInv'
<1> USE DEF AppInv
<1>1. engines[i] \in Engines /\ NoWords \in MaybeWords
  BY DEF AppTypeOK, MaybeWords
<1>2. ASSUME ResyncCleared(i) PROVE AppInv'
  <2>1. Running
    BY <1>1, <1>2, PhaseRunning DEF ResyncCleared
  <2>2. PanelTypeOK' /\ Keeps
    BY <1>2, SlipKeeps DEF ResyncCleared, AppTypeOK
  <2> QED
    BY <1>2, <2>1, <2>2, EngineInv, Constants DEF ResyncCleared, AppTypeOK, ResyncOwed, Keeps
<1>3. ASSUME ResyncPulled(i) PROVE AppInv'
  <2>1. Running
    BY <1>1, <1>3, PhaseRunning DEF ResyncPulled
  <2>2. PanelTypeOK' /\ Keeps
    BY <1>3, SlipKeeps DEF ResyncPulled, panelVars, PanelTypeOK, AppTypeOK, Keeps
  <2>3. cursor' \in Cursors
    BY <1>1, <1>3, AfterTyped DEF ResyncPulled, AppTypeOK
  <2> QED
    BY <1>3, <2>1, <2>2, <2>3, EngineInv DEF ResyncPulled, AppTypeOK, ResyncOwed, Keeps
<1>4. ASSUME RebuildSeals(i) PROVE AppInv'
  <2>1. engines[engine].words \in Words
    BY <1>4 DEF RebuildSeals, OneEngine, StartsFit, AppTypeOK
  <2>2. Running
    BY <1>4, <2>1, PhaseRunning DEF RebuildSeals, MaybeWords
  <2>3. PanelTypeOK' /\ Keeps
    BY <1>4 DEF RebuildSeals, panelVars, PanelTypeOK, AppTypeOK, Keeps
  <2> QED
    BY <1>4, <2>2, <2>3, EngineInv DEF RebuildSeals, Others, AppTypeOK, ResyncOwed, Keeps
<1>5. ASSUME RebuildLands(i) PROVE AppInv'
  <2>1. engines[i].seal \in Words
    BY <1>5 DEF RebuildLands, StartsFit
  <2>2. Running
    BY <1>1, <1>5, PhaseRunning DEF RebuildLands
  <2>3. PanelTypeOK' /\ Keeps
    BY <1>5, SlipKeeps DEF RebuildLands, AppTypeOK
  <2> QED
    BY <1>5, <2>1, <2>2, <2>3, EngineInv DEF RebuildLands, AppTypeOK, ResyncOwed, Keeps
<1>6. ASSUME RebuildEnds(i) PROVE AppInv'
  <2>1. Running
    BY <1>1, <1>6, PhaseRunning DEF RebuildEnds
  <2>2. PanelTypeOK' /\ Keeps
    BY <1>6 DEF RebuildEnds, panelVars, PanelTypeOK, AppTypeOK, Keeps
  <2> QED
    BY <1>6, <2>1, <2>2, EngineInv DEF RebuildEnds, Others, AppTypeOK, ResyncOwed, Keeps
<1> QED
  BY <1>2, <1>3, <1>4, <1>5, <1>6

\* Its end takes the flag down: nothing is owed after, or the slip is noted.
LEMMA ResyncEndsInv ==
    ASSUME AppInv, NEW i \in Runs, ResyncEnds(i)
    PROVE  AppInv'
<1> USE DEF AppInv
<1>3. Running
  BY PhaseRunning DEF ResyncEnds, MaybeWords
<1>4. prefs' \in Prefs /\ prefs'.enabled = prefs.enabled /\ prefs'.interval = prefs.interval
  BY DEF ResyncEnds, AppTypeOK, PanelTypeOK, Prefs
<1>5. PanelTypeOK'
  BY <1>4 DEF ResyncEnds, AppTypeOK, PanelTypeOK
<1>6. ResyncOwed'
  BY DEF ResyncEnds, ResyncOwed
<1>7. owed' \in 0 .. MaxRuns
  BY AppTyped, SMT DEF ResyncEnds, AppTypeOK
<1>8. queue' \subseteq Words
  BY DEF ResyncEnds, Flushed, AppTypeOK
<1> QED
  BY <1>3, <1>4, <1>5, <1>6, <1>7, <1>8, EngineInv DEF ResyncEnds, AppTypeOK

LEMMA EditInv ==
    ASSUME AppInv
    PROVE  EditTask \/ (\E w \in Words : Sealed(w)) => AppInv'
<1> USE DEF AppInv
<1>1. ASSUME EditTask PROVE AppInv'
  <2>1. Running
    BY <1>1 DEF EditTask, Running, AppTypeOK, StartsFit
  <2>2. PanelTypeOK' /\ Keeps
    BY <1>1, Spend DEF EditTask, AppTypeOK, PanelTypeOK, Keeps
  <2>3. engine \in Runs /\ engines[engine].words \in Words
    BY <1>1 DEF EditTask, OneEngine, StartsFit, AppTypeOK
  <2> QED
    BY <1>1, <2>1, <2>2, <2>3, EngineInv DEF EditTask, AppTypeOK, ResyncOwed, Keeps
<1>2. ASSUME NEW w \in Words, Sealed(w) PROVE AppInv'
  <2>1. Running
    BY <1>2 DEF Sealed, Running, AppTypeOK, StartsFit
  <2>2. PanelTypeOK' /\ Keeps
    BY <1>2, SlipKeeps DEF Sealed, AppTypeOK
  <2> QED
    BY <1>2, <2>1, <2>2, EngineInv DEF Sealed, AppTypeOK, ResyncOwed, Keeps
<1> QED
  BY <1>1, <1>2

-----------------------------------------------------------------------------
(* What disturbs timers, starts and the generation.                        *)

LEMMA TabInv ==
    ASSUME AppInv
    PROVE  TabHidden \/ TabShown => AppInv'
<1> USE DEF AppInv
<1>1. ASSUME TabHidden PROVE AppInv'
  <2>1. PanelTypeOK' /\ Keeps
    BY <1>1, Spend DEF TabHidden, AppTypeOK, PanelTypeOK, Keeps
  <2>2. \A i \in Runs : /\ engines'[i] \in Engines /\ engines'[i].timers = Off
                        /\ engines'[i].running = engines[i].running
                        /\ engines'[i].words = engines[i].words
                        /\ engines'[i].resync = engines[i].resync
                        /\ engines'[i].seal = engines[i].seal
    <3> TAKE i \in Runs
    <3>1. engines[i] \in Engines
      BY DEF AppTypeOK
    <3>2. CASE engines[i].running
      BY <1>1, <3>1, <3>2 DEF TabHidden, Engines
    <3>3. CASE ~engines[i].running
      BY <1>1, <3>1, <3>3 DEF TabHidden, OneEngine
    <3> QED
      BY <3>2, <3>3
  <2>3. AppTypeOK'
    BY <1>1, <2>1, <2>2 DEF TabHidden, AppTypeOK
  <2>4. OneEngine'
    BY <1>1, <2>1, <2>2 DEF TabHidden, OneEngine, Keeps
  <2> QED
    BY <1>1, <2>1, <2>2, <2>3, <2>4 DEF TabHidden, StartsFit, ResyncOwed, Keeps
<1>2. ASSUME TabShown PROVE AppInv'
  <2>1. PanelTypeOK' /\ Keeps
    BY <1>2 DEF TabShown, panelVars, AppTypeOK, PanelTypeOK, Keeps
  <2>2. prefs.interval \in Intervals
    BY DEF AppTypeOK, PanelTypeOK, Prefs
  <2>3. \A i \in Runs :
          /\ engines'[i] \in Engines
          /\ engines'[i].timers = IF engines[i].running THEN prefs.interval ELSE Off
          /\ engines'[i].running = engines[i].running
          /\ engines'[i].words = engines[i].words
          /\ engines'[i].resync = engines[i].resync /\ engines'[i].seal = engines[i].seal
    <3> TAKE i \in Runs
    <3>1. engines[i] \in Engines /\ cursor \in Cursors
      BY DEF AppTypeOK
    <3>2. CASE engines[i].running
      <4> DEFINE e == Pulling(engines[i])
      <4>1. /\ e \in Engines /\ e.running = engines[i].running /\ e.words = engines[i].words
            /\ e.resync = engines[i].resync /\ e.seal = engines[i].seal
        BY <3>1, PullingKeeps
      <4>2. engines'[i] = [e EXCEPT !.timers = prefs.interval]
        BY <1>2, <3>2 DEF TabShown
      <4> HIDE DEF e
      <4> QED
        BY <2>2, <3>2, <4>1, <4>2 DEF Engines
    <3>3. CASE ~engines[i].running
      BY <1>2, <3>1, <3>3 DEF TabShown, OneEngine
    <3> QED
      BY <3>2, <3>3
  <2>4. AppTypeOK'
    BY <1>2, <2>1, <2>3 DEF TabShown, AppTypeOK
  <2>5. OneEngine'
    BY <1>2, <2>1, <2>3 DEF TabShown, OneEngine, Keeps
  <2> QED
    BY <1>2, <2>1, <2>3, <2>4, <2>5 DEF TabShown, StartsFit, ResyncOwed, Keeps
<1> QED
  BY <1>1, <1>2

\* Timers that are armed follow the interval; those that are not stay off.
LEMMA IntervalInv ==
    ASSUME AppInv, IntervalStep
    PROVE  AppInv'
<1> USE DEF AppInv
<1>1. PanelTypeOK'
  BY PanelTypedByEvent DEF IntervalStep, AppTypeOK
<1>2. prefs'.interval \in Intervals
  BY <1>1 DEF PanelTypeOK, Prefs
<1>3. prefs'.enabled = prefs.enabled /\ prefs'.resync = prefs.resync
  BY DEF IntervalStep, CommitInterval, AppTypeOK, PanelTypeOK, Prefs
<1>4. prefs.interval # Off
  BY TimersApart DEF AppTypeOK, PanelTypeOK, Prefs
<1>5. \A i \in Runs :
        /\ engines'[i] \in Engines
        /\ engines'[i].timers =
              IF engines[i].running /\ ~hidden THEN prefs'.interval ELSE Off
        /\ engines'[i].running = engines[i].running
        /\ engines'[i].words = engines[i].words
        /\ engines'[i].resync = engines[i].resync /\ engines'[i].seal = engines[i].seal
  <2> TAKE i \in Runs
  <2>1. engines[i] \in Engines
    BY DEF AppTypeOK
  <2>2. CASE i = engine /\ engines[i].timers # Off
    <3>1. engines[i].running /\ ~hidden
      BY <2>2 DEF OneEngine
    <3>2. engines'[i] = [engines[i] EXCEPT !.timers = prefs'.interval]
      BY <2>2, <3>1 DEF IntervalStep
    <3> QED
      BY <1>2, <2>1, <3>1, <3>2 DEF Engines
  <2>3. CASE ~(i = engine /\ engines[i].timers # Off)
    <3>1. engines'[i] = engines[i]
      BY <2>3 DEF IntervalStep
    <3>2. ~engines[i].running \/ hidden
      BY <1>4, <2>3 DEF OneEngine
    <3> QED
      BY <2>1, <3>1, <3>2 DEF OneEngine
  <2> QED
    BY <2>2, <2>3
<1>6. AppTypeOK'
  BY <1>1, <1>5 DEF IntervalStep, Others, AppTypeOK
<1>7. OneEngine'
  <2>1. engine' = engine /\ runId' = runId /\ hidden' = hidden
    BY DEF IntervalStep, Others
  <2>2. \A i \in Runs : engines'[i].running <=> i = engine
    BY <1>5 DEF OneEngine
  <2>3. \A i \in Runs : engines'[i].timers =
          IF engines'[i].running /\ ~hidden THEN prefs'.interval ELSE Off
    BY <1>5
  <2> QED
    BY <1>3, <2>1, <2>2, <2>3 DEF OneEngine
<1>8. StartsFit'
  BY <1>3, <1>5 DEF IntervalStep, StartsFit
<1>9. ResyncOwed'
  BY <1>3 DEF IntervalStep, CommitInterval, ResyncOwed
<1> QED
  BY <1>6, <1>7, <1>8, <1>9

\* Runs of startIfEnabled, between its awaits.
LEMMA ReadWordsInv ==
    ASSUME AppInv, NEW i \in Runs, ReadWords(i)
    PROVE  AppInv'
<1> USE DEF AppInv
<1>1. PanelTypeOK' /\ Keeps
  BY DEF ReadWords, panelVars, AppTypeOK, PanelTypeOK, Keeps
<1>2. starts[i] \in Starts /\ stored \in MaybeWords
  BY DEF AppTypeOK, PanelTypeOK
<1>3. stored # NoWords => [starts[i] EXCEPT !.at = "derive", !.words = stored] \in Starts
  BY <1>2 DEF Starts
<1>4. starts' \in [Runs -> Starts]
  BY <1>3, Constants DEF ReadWords, AppTypeOK
<1>5. AppTypeOK'
  BY <1>1, <1>4 DEF ReadWords, AppTypeOK
<1>6. OneEngine'
  BY <1>1 DEF ReadWords, OneEngine, Keeps
<1>7. StartsFit'
  <2>1. starts'[runId'].at # "none" => prefs'.enabled
    BY <1>1, <1>2 DEF ReadWords, StartsFit, Keeps, NoStart, AppTypeOK, Starts
  <2>2. ASSUME NEW j \in Runs, starts'[j].at = "derive" PROVE starts'[j].words \in Words
    BY <1>2, <2>2 DEF ReadWords, StartsFit, NoStart, AppTypeOK, Starts, MaybeWords
  <2> QED
    BY <2>1, <2>2 DEF ReadWords, StartsFit
<1> QED
  BY <1>1, <1>5, <1>6, <1>7 DEF ReadWords, ResyncOwed, Keeps

\* Only the last run makes an engine; until it does, none runs.
LEMMA FinishStartInv ==
    ASSUME AppInv, NEW i \in Runs, FinishStart(i)
    PROVE  AppInv'
<1> USE DEF AppInv
<1>1. PanelTypeOK' /\ Keeps
  BY DEF FinishStart, panelVars, AppTypeOK, PanelTypeOK, Keeps
<1>2. starts' \in [Runs -> Starts]
  BY Constants DEF FinishStart, AppTypeOK
<1>3. StartsFit' \/ i = runId
  BY <1>1 DEF FinishStart, StartsFit, NoStart, Keeps, AppTypeOK
<1>4. CASE i # runId
  <2>1. AppTypeOK'
    BY <1>1, <1>2, <1>4 DEF FinishStart, AppTypeOK
  <2>2. OneEngine'
    BY <1>1, <1>4 DEF FinishStart, OneEngine, Keeps
  <2> QED
    BY <1>1, <1>3, <1>4, <2>1, <2>2 DEF FinishStart, ResyncOwed, Keeps
<1>5. CASE i = runId
  <2> DEFINE e == Started(starts[i].words, starts[i].url)
  <2>1. starts[i].words \in Words /\ starts[i].url \in MaybeUrl /\ prefs.enabled
    BY <1>5 DEF FinishStart, StartsFit, AppTypeOK, Starts
  <2>2. /\ e \in Engines /\ e.running /\ e.words \in Words /\ e.resync # "seal"
        /\ e.timers = IF hidden THEN Off ELSE prefs.interval
    <3>1. prefs.interval \in Intervals /\ cursor \in Cursors
      BY DEF AppTypeOK, PanelTypeOK, Prefs
    <3> QED
      BY <2>1, <3>1, Constants DEF Started, Engines, MaybeWords
  <2>3. engine' = i /\ engines' = [engines EXCEPT ![i] = e] /\ queue' \subseteq queue
    BY <1>5 DEF FinishStart, QueueAtStart
  <2> HIDE DEF e
  <2>4. \A j \in Runs : j # i => ~engines[j].running /\ engines[j].timers = Off
    BY <1>5, Bounds DEF OneEngine, AppTypeOK
  <2>5. i \in 0 .. MaxRuns
    BY Bounds
  <2>6. AppTypeOK'
    BY <1>1, <1>2, <2>2, <2>3, <2>5 DEF FinishStart, AppTypeOK
  <2>7. OneEngine'
    BY <1>1, <1>5, <2>1, <2>2, <2>3, <2>4 DEF FinishStart, OneEngine, Keeps, AppTypeOK
  <2>8. StartsFit'
    BY <1>1, <1>5, <2>1, <2>2, <2>3 DEF FinishStart, StartsFit, NoStart, Keeps, AppTypeOK
  <2> QED
    BY <1>1, <2>6, <2>7, <2>8 DEF FinishStart, ResyncOwed, Keeps
<1> QED
  BY <1>4, <1>5

LEMMA PanelEventInv ==
    ASSUME AppInv
    PROVE  CommitStep \/ DisableStep \/ ForgetStep => AppInv'
<1> USE DEF AppInv
<1>1. ASSUME CommitStep PROVE AppInv'
  <2>1. PanelTypeOK'
    BY <1>1, PanelTypedByEvent DEF CommitStep, AppTypeOK
  <2>2. prefs'.resync
    BY <1>1 DEF CommitStep, Commit, AppTypeOK, PanelTypeOK, Prefs
  <2>3. owed' \in 0 .. MaxRuns
    BY <1>1, AppTyped, SMT DEF CommitStep, StartIfEnabled, AppTypeOK, Runs
  <2> QED
    BY <1>1, <2>1, <2>2, <2>3, StartInv DEF CommitStep
<1>2. ASSUME DisableStep \/ ForgetStep PROVE AppInv'
  <2>1. PanelTypeOK'
    BY <1>2, PanelTypedByEvent DEF DisableStep, ForgetStep, AppTypeOK
  <2>2. owed' = 0 /\ owed' \in 0 .. MaxRuns
    BY <1>2, AppTyped, SMT DEF DisableStep, ForgetStep
  <2> QED
    BY <1>2, <2>1, <2>2, StartInv DEF DisableStep, ForgetStep
<1> QED
  BY <1>1, <1>2

\* What is owed is in localStorage, so a page load does not lose it.
LEMMA PageLoadInv ==
    ASSUME AppInv, PageLoad
    PROVE  AppInv'
<1> USE DEF AppInv
<1>1. budget' \in [Gestures -> Nat]
  BY Spend DEF PageLoad, AppTypeOK, PanelTypeOK
<1>2. PanelTypeOK' /\ prefs' = prefs
  BY <1>1, PanelTypedByEvent DEF PageLoad, PanelReset, AppTypeOK
<1>3. starts' \in [Runs -> Starts]
  <2>1. prefs.url \in MaybeUrl
    BY DEF AppTypeOK, PanelTypeOK, Prefs
  <2>2. [NoStart EXCEPT !.at = "open", !.url = prefs.url] \in Starts
    BY <2>1, Constants DEF Starts
  <2> QED
    BY <2>2, Constants DEF PageLoad
<1>4. engines' \in [Runs -> Engines]
  BY Constants DEF PageLoad
<1>5. runId' \in Runs /\ engine' \in 0 .. MaxRuns /\ owed' \in 0 .. MaxRuns
  BY AppTyped, SMT DEF PageLoad, Runs
<1>6. AppTypeOK'
  BY <1>2, <1>3, <1>4, <1>5 DEF PageLoad, AppTypeOK
<1>7. OneEngine'
  BY Bounds DEF PageLoad, OneEngine, NoEngine, Off
<1>8. StartsFit'
  BY <1>2, <1>5 DEF PageLoad, StartsFit, NoStart, NoEngine
<1>9. ResyncOwed'
  BY <1>2 DEF PageLoad, ResyncOwed
<1> QED
  BY <1>6, <1>7, <1>8, <1>9

LEMMA AppStepInv ==
    ASSUME AppInv, [Next]_vars
    PROVE  AppInv'
<1>1. CASE PanelStep /\ UNCHANGED appVars
  BY <1>1, PanelStepTyped, PanelStepKeeps, Untouched DEF AppInv, AppTypeOK
<1>2. CASE CommitStep \/ DisableStep \/ ForgetStep
  BY <1>2, PanelEventInv
<1>3. CASE IntervalStep
  BY <1>3, IntervalInv
<1>4. ASSUME NEW i \in Runs,
             \/ ReadWords(i) \/ FinishStart(i)
             \/ PullTimer(i) \/ Flush(i)
             \/ \E c \in engines[i].pulls : PullEnds(i, c)
             \/ ResyncStep(i)
      PROVE  AppInv'
  BY <1>4, ReadWordsInv, FinishStartInv, PullTimerInv, PullEndsInv, FlushInv, ResyncInv,
     ResyncEndsInv DEF ResyncStep
<1>5. CASE EditTask \/ \E w \in Words : Sealed(w)
  BY <1>5, EditInv
<1>6. CASE TabHidden \/ TabShown
  BY <1>6, TabInv
<1>7. CASE PageLoad
  BY <1>7, PageLoadInv
<1>8. CASE UNCHANGED vars
  <2>1. PanelTypeOK' /\ Keeps
    BY <1>8 DEF vars, panelVars, AppInv, AppTypeOK, PanelTypeOK, Keeps
  <2> QED
    BY <1>8, <2>1, Untouched DEF vars
<1> QED
  BY <1>1, <1>2, <1>3, <1>4, <1>5, <1>6, <1>7, <1>8 DEF Next

LEMMA AppInvariant == Spec => []AppInv
BY AppInitInv, AppStepInv, PTL DEF Spec

\* Every variable of the panel and of the app keeps to its type, an armed timer to
\* an interval between ten seconds and a day (App.tsx:45-96, Prefs.ts:10-15).
THEOREM AppTypeCorrect == Spec => []AppTypeOK
<1>1. AppInv => AppTypeOK
  BY DEF AppInv
<1> QED
  BY <1>1, AppInvariant, PTL

\* The engine that App can stop is the only one that runs, in the last generation
\* and while sync is enabled, whatever overlaps with its start (App.tsx:81-125).
THEOREM NoEngineLeaked == Spec => []OneEngine
<1>1. AppInv => OneEngine
  BY DEF AppInv
<1> QED
  BY <1>1, AppInvariant, PTL

\* The flag of a resync that is owed stays up until it is over, but for a stopped
\* engine's (SyncEngine.ts:198-207, SettingsPanel.tsx:54-61).
THEOREM ResyncRemembered == Spec => []ResyncOwed
<1>1. AppInv => ResyncOwed
  BY DEF AppInv
<1> QED
  BY <1>1, AppInvariant, PTL

-----------------------------------------------------------------------------
(* The sheet and the calls it makes.  As long as no two calls of the       *)
(* account run side by side, the one under way is for the stored words;    *)
(* what the sheet has confirmed is stored once nothing is under way.       *)

SheetInv ==
    /\ sheet.tested \in Deployed \cup {NoUrl}
    /\ sheet.step # "none" => panel.view = "ready"
    /\ sheet.step = "none" => sheet = NoSheet /\ calls.test = NoUrl
    /\ calls.derive # {} => panel.view = "ready"
    /\ \A d \in calls.derive : d.here => sheet.step # "none"
    /\ "overlap" \notin slips =>
          /\ \A d, e \in calls.derive : d = e
          /\ \A d \in calls.derive : d.words = stored /\ (d.here \/ ~sheet.imported)
          /\ calls.derive # {} => sheet.step # "generated"
          /\ sheet.backedUp # NoWords =>
                sheet.step = "generated" /\ sheet.backedUp = sheet.words
          /\ (sheet.step = "generated" \/ sheet.imported) /\ calls.derive = {} =>
                sheet.words = stored

\* What it is about, but for the fields of the sheet.
Around ==
    /\ stored' = stored /\ panel'.view = panel.view /\ calls'.derive = calls.derive
    /\ calls'.test = calls.test \/ sheet.step # "none"
    /\ "overlap" \in slips => "overlap" \in slips'

LEMMA SheetInitInv == AppInit => SheetInv
BY DEF AppInit, PanelInit, SheetInv, NoPanel, NoSheet, NoCalls

LEMMA SheetUntouched ==
    ASSUME SheetInv, Around, sheet' = sheet
    PROVE  SheetInv'
BY DEF SheetInv, Around

\* The panel behind the sheet.
LEMMA SheetByPanel ==
    ASSUME PanelTypeOK, SheetInv
    PROVE  /\ OpenPanel \/ LoadAccount \/ ClosePanel => SheetInv'
           /\ Ping \/ ForgetClick \/ Reveal \/ Conceal => SheetInv'
           /\ (\E u \in MaybeUrl : TypeUrl(u)) \/ SaveUrl => SheetInv'
           /\ \A p \in calls.pings : PingAnswered(p) => SheetInv'
           /\ \A pick \in Picks : PickInterval(pick) => SheetInv'
           /\ CommitInterval \/ Disable \/ ForgetDone => SheetInv'
<1> USE DEF PanelTypeOK
<1>1. ASSUME OpenPanel PROVE SheetInv'
  <2>1. sheet = NoSheet /\ calls.derive = {} /\ calls.test = NoUrl
    BY <1>1 DEF OpenPanel, SheetInv
  <2>2. sheet' = NoSheet /\ calls'.derive = {} /\ calls'.test = NoUrl
    BY <1>1, <2>1 DEF OpenPanel
  <2> QED
    BY <2>2 DEF SheetInv, NoSheet
<1>2. ASSUME LoadAccount PROVE SheetInv'
  <2>1. panel'.view = "ready" /\ sheet' = sheet /\ calls' = calls /\ stored' = stored
        /\ slips' = slips
    BY <1>2 DEF LoadAccount, Panels
  <2> QED
    BY <2>1 DEF SheetInv
<1>3. ASSUME ClosePanel PROVE SheetInv'
  <2>1. sheet' = NoSheet /\ calls'.derive = {} /\ calls'.test = NoUrl
    BY <1>3 DEF ClosePanel, SheetInv, Orphaned
  <2> QED
    BY <2>1 DEF SheetInv, NoSheet
<1>4. ASSUME Ping PROVE SheetInv'
  BY <1>4, SheetUntouched DEF Ping, Around, Calls
<1>5. ASSUME ForgetClick PROVE SheetInv'
  <2>1. /\ sheet' = sheet /\ sheet = NoSheet /\ sheet.step = "none" /\ panel' = panel
        /\ calls'.derive = calls.derive /\ calls'.test = calls.test
    BY <1>5 DEF ForgetClick, AtPanel, SheetInv, Calls
  <2>2. calls.derive # {} => "overlap" \in slips'
    BY <1>5 DEF ForgetClick
  <2> QED
    BY <2>1, <2>2 DEF SheetInv, NoSheet
<1>6. ASSUME Reveal PROVE SheetInv'
  BY <1>6, SheetUntouched DEF Reveal, Around, Calls
<1>7. ASSUME Conceal PROVE SheetInv'
  BY <1>7, SheetUntouched DEF Conceal, Around, Panels
<1>8. ASSUME (\E u \in MaybeUrl : TypeUrl(u)) \/ SaveUrl PROVE SheetInv'
  BY <1>8, SheetUntouched DEF TypeUrl, SaveUrl, Around, Panels
<1>9. ASSUME NEW p \in calls.pings, PingAnswered(p) PROVE SheetInv'
  BY <1>9, SheetUntouched DEF PingAnswered, Around, Calls
<1>10. ASSUME NEW pick \in Picks, PickInterval(pick) PROVE SheetInv'
  BY <1>10, SheetUntouched DEF PickInterval, Around, Panels
<1>11. ASSUME CommitInterval PROVE SheetInv'
  BY <1>11, SheetUntouched DEF CommitInterval, Around, Panels
<1>12. ASSUME Disable PROVE SheetInv'
  BY <1>12, SheetUntouched DEF Disable, Around, Panels
<1>13. ASSUME ForgetDone PROVE SheetInv'
  BY <1>13, SheetUntouched DEF ForgetDone, Around, Panels, Calls
<1> QED
  BY <1>1, <1>2, <1>3, <1>4, <1>5, <1>6, <1>7, <1>8, <1>9, <1>10, <1>11, <1>12, <1>13

LEMMA SheetByGate ==
    ASSUME PanelTypeOK, SheetInv, NEW g \in calls.gates
    PROVE  GateProbed(g) \/ GateRegistered(g) \/ GateAsserted(g) => SheetInv'
<1> USE DEF PanelTypeOK
<1>1. ASSUME NEW ok \in BOOLEAN, GateSays(g, ok)
      PROVE  /\ panel'.view = panel.view
             /\ calls'.derive = calls.derive /\ calls'.test = calls.test
  <2>1. calls'.derive = calls.derive /\ calls'.test = calls.test
    BY <1>1 DEF GateSays, Calls
  <2>2. CASE g.here
    BY <1>1, <2>1, <2>2 DEF GateSays, Panels
  <2>3. CASE ~g.here
    BY <1>1, <2>1, <2>3 DEF GateSays
  <2> QED
    BY <2>2, <2>3
<1>2. ASSUME GateProbed(g) PROVE SheetInv'
  <2>1. /\ panel'.view = panel.view
        /\ calls'.derive = calls.derive /\ calls'.test = calls.test
    BY <1>1, <1>2 DEF GateProbed, AskForTail, Calls
  <2> QED
    BY <1>2, <2>1, SheetUntouched DEF GateProbed, Around
<1>3. ASSUME GateRegistered(g) \/ GateAsserted(g) PROVE SheetInv'
  <2>1. /\ panel'.view = panel.view
        /\ calls'.derive = calls.derive /\ calls'.test = calls.test
    BY <1>1, <1>3 DEF GateRegistered, GateAsserted, AskForTail
  <2> QED
    BY <1>3, <2>1, SheetUntouched DEF GateRegistered, GateAsserted, Around
<1> QED
  BY <1>2, <1>3

\* A call begins: its words are stored, and there was no other or the slip is noted.
LEMMA SaveInv ==
    ASSUME PanelTypeOK, SheetInv, NEW w \in Words,
           NEW how \in {"generated", "paste", "scan"}, Save(w, how),
           sheet.step \in {"chooser", "paste", "scan"}, sheet' = sheet, panel' = panel
    PROVE  SheetInv'
<1> DEFINE d0 == [words |-> w, how |-> how, here |-> TRUE, after |-> calls.forget # "no"]
<1>1. stored' = w /\ calls'.derive = calls.derive \cup {d0}
  BY DEF Save, PanelTypeOK, Calls
<1>2. d0.words = w /\ d0.here
  OBVIOUS
<1> HIDE DEF d0
<1>3. panel.view = "ready"
  BY DEF SheetInv
<1>4. "overlap" \notin slips' => "overlap" \notin slips /\ calls'.derive = {d0}
  BY <1>1 DEF Save
<1> QED
  BY <1>1, <1>2, <1>3, <1>4 DEF SheetInv

LEMMA SheetBySheet ==
    ASSUME PanelTypeOK, SheetInv
    PROVE  /\ OpenSheet \/ CancelSheet \/ Generate \/ ValidatePaste \/ Tick => SheetInv'
           /\ \A step \in {"paste", "scan"} : Choose(step) => SheetInv'
           /\ \A text \in Owned \cup {Garbled} : TypeWords(text) \/ ScanResult(text) => SheetInv'
<1> USE DEF PanelTypeOK
<1>1. ASSUME OpenSheet PROVE SheetInv'
  <2>1. sheet' = [NoSheet EXCEPT !.step = "chooser", !.url = prefs.url, !.words = panel.acct]
    BY <1>1 DEF OpenSheet
  <2>2. /\ sheet'.step = "chooser" /\ ~sheet'.imported
        /\ sheet'.tested = NoUrl /\ sheet'.backedUp = NoWords
    BY <2>1 DEF NoSheet
  <2>3. panel'.view = "ready" /\ calls' = calls /\ stored' = stored /\ slips' = slips
    BY <1>1 DEF OpenSheet, AtPanel
  <2> QED
    BY <2>2, <2>3 DEF SheetInv
<1>2. ASSUME CancelSheet PROVE SheetInv'
  <2>1. panel' = panel /\ stored' = stored /\ slips' = slips
    BY <1>2 DEF CancelSheet
  <2>2. CASE sheet.step = "scan"
    <3>1. sheet' = [sheet EXCEPT !.step = "chooser"] /\ calls' = calls
      BY <1>2, <2>2 DEF CancelSheet
    <3>2. /\ sheet'.step = "chooser" /\ sheet'.imported = sheet.imported
          /\ sheet'.words = sheet.words
          /\ sheet'.tested = sheet.tested /\ sheet'.backedUp = sheet.backedUp
      BY <3>1 DEF Sheets
    <3> QED
      BY <2>1, <2>2, <3>1, <3>2 DEF SheetInv
  <2>3. CASE sheet.step # "scan"
    <3>1. sheet' = NoSheet /\ calls' = SheetGone
      BY <1>2, <2>3 DEF CancelSheet
    <3>2. calls'.derive = {[d EXCEPT !.here = FALSE] : d \in calls.derive} /\ calls'.test = NoUrl
      BY <3>1 DEF SheetGone, Calls
    <3>3. \A d \in calls.derive : /\ [d EXCEPT !.here = FALSE].words = d.words
                                  /\ ~[d EXCEPT !.here = FALSE].here
      BY DEF Calls, Derivation
    <3>4. panel.view = "ready"
      BY <1>2 DEF CancelSheet, SheetInv
    <3> QED
      BY <2>1, <3>1, <3>2, <3>3, <3>4 DEF SheetInv, NoSheet
  <2> QED
    BY <2>2, <2>3
<1>3. ASSUME Generate PROVE SheetInv'
  BY <1>3, SaveInv DEF Generate
<1>4. ASSUME ValidatePaste PROVE SheetInv'
  <2>1. CASE sheet.text \in Words /\ Save(sheet.text, "paste") /\ UNCHANGED sheet
    BY <1>4, <2>1, SaveInv DEF ValidatePaste
  <2>2. CASE sheet' = [sheet EXCEPT !.imported = FALSE] /\ UNCHANGED <<stored, calls, slips>>
    <3>1. /\ sheet'.step = "paste" /\ sheet.step = "paste" /\ ~sheet'.imported
          /\ sheet'.tested = sheet.tested /\ sheet'.backedUp = sheet.backedUp
      BY <1>4, <2>2 DEF ValidatePaste, Sheets
    <3> QED
      BY <1>4, <2>2, <3>1 DEF ValidatePaste, SheetInv
  <2> QED
    BY <1>4, <2>1, <2>2 DEF ValidatePaste
<1>5. ASSUME Tick PROVE SheetInv'
  <2>1. panel' = panel /\ calls' = calls /\ stored' = stored /\ slips' = slips
    BY <1>5 DEF Tick
  <2>2. /\ sheet'.step = sheet.step /\ sheet.step # "none"
        /\ sheet'.imported = sheet.imported /\ sheet'.words = sheet.words
        /\ sheet'.tested = sheet.tested
        /\ \/ sheet.step = "generated" /\ sheet'.backedUp = sheet.words
           \/ sheet'.backedUp = sheet.backedUp
    BY <1>5 DEF Tick, Sheets
  <2> QED
    BY <2>1, <2>2 DEF SheetInv
<1>6. ASSUME NEW step \in {"paste", "scan"}, Choose(step) PROVE SheetInv'
  <2>1. panel' = panel /\ calls' = calls /\ stored' = stored /\ slips' = slips
    BY <1>6 DEF Choose
  <2>2. /\ sheet.step = "chooser" /\ sheet'.step = step
        /\ sheet'.imported = sheet.imported /\ sheet'.words = sheet.words
        /\ sheet'.tested = sheet.tested /\ sheet'.backedUp = sheet.backedUp
    BY <1>6 DEF Choose, Sheets
  <2> QED
    BY <2>1, <2>2 DEF SheetInv
<1>7. ASSUME NEW text \in Owned \cup {Garbled}, TypeWords(text) PROVE SheetInv'
  <2>1. panel' = panel /\ calls' = calls /\ stored' = stored /\ slips' = slips
    BY <1>7 DEF TypeWords
  <2>2. /\ sheet'.step = "paste" /\ sheet.step = "paste"
        /\ sheet'.imported = sheet.imported /\ sheet'.words = sheet.words
        /\ sheet'.tested = sheet.tested /\ sheet'.backedUp = sheet.backedUp
    BY <1>7 DEF TypeWords, Sheets
  <2> QED
    BY <2>1, <2>2 DEF SheetInv
<1>8. ASSUME NEW text \in Owned \cup {Garbled}, ScanResult(text) PROVE SheetInv'
  <2>1. CASE text \in Words /\ Save(text, "scan") /\ UNCHANGED sheet
    BY <1>8, <2>1, SaveInv DEF ScanResult
  <2>2. CASE sheet' = [sheet EXCEPT !.step = "paste"] /\ UNCHANGED <<stored, calls, slips>>
    <3>1. /\ sheet'.step = "paste" /\ sheet.step = "scan"
          /\ sheet'.imported = sheet.imported /\ sheet'.words = sheet.words
          /\ sheet'.tested = sheet.tested /\ sheet'.backedUp = sheet.backedUp
      BY <1>8, <2>2 DEF ScanResult, Sheets
    <3> QED
      BY <1>8, <2>2, <3>1 DEF ScanResult, SheetInv
  <2> QED
    BY <1>8, <2>1, <2>2 DEF ScanResult
<1> QED
  BY <1>1, <1>2, <1>3, <1>4, <1>5, <1>6, <1>7, <1>8

LEMMA SheetByAnswer ==
    ASSUME PanelTypeOK, SheetInv
    PROVE  /\ \A d \in calls.derive : Derived(d) => SheetInv'
           /\ \A u \in MaybeUrl : ChangeUrl(u) => SheetInv'
           /\ TestBackend \/ TestAnswered \/ Commit => SheetInv'
<1> USE DEF PanelTypeOK
<1>1. ASSUME NEW d \in calls.derive, Derived(d) PROVE SheetInv'
  <2>1. /\ panel'.view = "ready" /\ stored' = stored
        /\ ("overlap" \in slips <=> "overlap" \in slips')
        /\ calls'.derive = calls.derive \ {d} /\ calls'.test = calls.test
    BY <1>1 DEF Derived, Panels, Calls, SheetInv
  <2>2. CASE ~d.here
    <3>1. sheet' = sheet
      BY <1>1, <2>2 DEF Derived
    <3> QED
      BY <2>1, <2>2, <3>1 DEF SheetInv
  <2>3. CASE d.here
    <3>1. sheet.step # "none" /\ sheet'.step # "none" /\ panel.view = "ready"
      BY <1>1, <2>3 DEF Derived, Sheets, SheetInv
    <3>2. /\ sheet'.words = d.words
          /\ sheet'.tested = sheet.tested /\ sheet'.backedUp = sheet.backedUp
      BY <1>1, <2>3 DEF Derived, Sheets
    <3>3. "overlap" \notin slips => /\ calls'.derive = {} /\ sheet.backedUp = NoWords
                                     /\ d.words = stored
      BY <2>1 DEF SheetInv
    <3>4. \A e \in calls'.derive : e \in calls.derive
      BY <2>1
    <3>5. sheet'.tested \in Deployed \cup {NoUrl}
      BY <3>2 DEF SheetInv
    <3> QED
      BY <2>1, <3>1, <3>2, <3>3, <3>4, <3>5 DEF SheetInv
  <2> QED
    BY <2>2, <2>3
<1>2. ASSUME NEW u \in MaybeUrl, ChangeUrl(u) PROVE SheetInv'
  <2>1. /\ panel' = panel /\ calls' = calls /\ stored' = stored /\ slips' = slips
        /\ sheet.step # "none"
    BY <1>2 DEF ChangeUrl, HasBackendField
  <2>2. /\ sheet'.step = sheet.step /\ sheet'.tested = NoUrl
        /\ sheet'.imported = sheet.imported /\ sheet'.words = sheet.words
        /\ sheet'.backedUp = sheet.backedUp
    BY <1>2 DEF ChangeUrl, Sheets
  <2> QED
    BY <2>1, <2>2 DEF SheetInv
<1>3. ASSUME TestBackend PROVE SheetInv'
  BY <1>3, SheetUntouched DEF TestBackend, HasBackendField, Around, Calls
<1>4. ASSUME TestAnswered PROVE SheetInv'
  <2>1. /\ panel' = panel /\ stored' = stored /\ slips' = slips
        /\ calls'.derive = calls.derive
    BY <1>4 DEF TestAnswered, Calls
  <2>2. /\ sheet'.step = sheet.step /\ sheet'.tested \in Deployed \cup {NoUrl}
        /\ sheet'.imported = sheet.imported /\ sheet'.words = sheet.words
        /\ sheet'.backedUp = sheet.backedUp
    BY <1>4 DEF TestAnswered, Reachable, Sheets
  <2>3. sheet.step # "none"
    BY <1>4 DEF TestAnswered, SheetInv
  <2> QED
    BY <2>1, <2>2, <2>3 DEF SheetInv
<1>5. ASSUME Commit PROVE SheetInv'
  <2>1. sheet' = NoSheet /\ stored' = stored
        /\ ("overlap" \in slips <=> "overlap" \in slips')
    BY <1>5 DEF Commit
  <2>2. calls'.derive = {[d EXCEPT !.here = FALSE] : d \in calls.derive} /\ calls'.test = NoUrl
    BY <1>5 DEF Commit, SheetGone, Calls
  <2>3. \A d \in calls.derive : /\ [d EXCEPT !.here = FALSE].words = d.words
                                /\ ~[d EXCEPT !.here = FALSE].here
    BY DEF Calls, Derivation
  <2>4. panel'.view = "ready"
    BY <1>5 DEF Commit, CanCommit, SheetInv, Panels
  <2> QED
    BY <2>1, <2>2, <2>3, <2>4 DEF SheetInv, NoSheet
<1> QED
  BY <1>1, <1>2, <1>3, <1>4, <1>5

LEMMA SheetStepInv ==
    ASSUME AppInv, SheetInv, [Next]_vars
    PROVE  SheetInv'
<1> USE DEF AppInv, AppTypeOK
<1>1. CASE PanelStep /\ UNCHANGED appVars
  BY <1>1, SheetByPanel, SheetByGate, SheetBySheet, SheetByAnswer DEF PanelStep, MaybeUrl
<1>2. CASE CommitStep \/ DisableStep \/ ForgetStep \/ IntervalStep
  BY <1>2, SheetByPanel, SheetByAnswer DEF CommitStep, DisableStep, ForgetStep, IntervalStep
<1>3. CASE PageLoad
  BY <1>3 DEF PageLoad, PanelReset, NoPanel, NoSheet, NoCalls, SheetInv
<1>4. ASSUME NEW i \in Runs,
             \/ ReadWords(i) \/ FinishStart(i)
             \/ PullTimer(i) \/ Flush(i)
             \/ \E c \in engines[i].pulls : PullEnds(i, c)
             \/ ResyncStep(i)
      PROVE  SheetInv'
  <2>1. Around /\ sheet' = sheet
    BY <1>4 DEF Around, panelVars, ReadWords, FinishStart, PullTimer, PullEnds, Flush,
       ResyncStep, ResyncCleared, ResyncPulled, RebuildSeals, RebuildLands, RebuildEnds,
       ResyncEnds, Slip
  <2> QED
    BY <2>1, SheetUntouched
<1>5. CASE EditTask \/ TabHidden \/ TabShown \/ (\E w \in Words : Sealed(w)) \/ UNCHANGED vars
  <2>1. Around /\ sheet' = sheet
    BY <1>5 DEF Around, vars, panelVars, EditTask, TabHidden, TabShown, Sealed, Slip
  <2> QED
    BY <2>1, SheetUntouched
<1> QED
  BY <1>1, <1>2, <1>3, <1>4, <1>5 DEF Next

\* Only a commit closes the sheet and begins a generation of starts at once.
LEMMA OnlyCommit ==
    ASSUME AppInv, [Next]_vars, sheet.step # "none", sheet'.step = "none", runId' = runId + 1
    PROVE  CommitStep
<1> USE DEF AppInv, AppTypeOK
<1>1. runId \in Nat /\ runId >= 1
  BY AppTyped, SMT DEF Runs
<1>2. runId' # runId /\ runId' # 1
  BY <1>1, SMT
<1>3. ~UNCHANGED vars /\ ~UNCHANGED appVars
  BY <1>2 DEF vars, appVars
<1>4. ~PageLoad /\ ~IntervalStep /\ ~EditTask /\ ~TabHidden /\ ~TabShown
  BY <1>2 DEF PageLoad, IntervalStep, EditTask, TabHidden, TabShown
<1>5. \A w \in Words : ~Sealed(w)
  BY <1>2 DEF Sealed
<1>6. ASSUME NEW i \in Runs
      PROVE  ~(\/ ReadWords(i) \/ FinishStart(i)
               \/ PullTimer(i) \/ Flush(i)
               \/ (\E c \in engines[i].pulls : PullEnds(i, c))
               \/ ResyncStep(i))
  BY <1>2 DEF ReadWords, FinishStart, PullTimer, PullEnds, Flush, ResyncStep, ResyncCleared,
     ResyncPulled, RebuildSeals, RebuildLands, RebuildEnds, ResyncEnds
<1>7. ~DisableStep /\ ~ForgetStep
  BY DEF DisableStep, Disable, ForgetStep, ForgetDone
<1> QED
  BY <1>3, <1>4, <1>5, <1>6, <1>7 DEF Next

\* Sync is enabled with the account and the tested URL that the sheet shows, and a
\* generated account only with its own words ticked as backed up, however late
\* tests, derivations and forgets answer (EnableCloudSyncSheet.tsx:32-105).
THEOREM EnabledIsAsShown == Spec => EnabledAsShown
<1> DEFINE A == sheet.step # "none" /\ sheet'.step = "none" /\ runId' = runId + 1 =>
                   /\ prefs'.enabled /\ prefs'.url \in Deployed
                   /\ prefs'.url = sheet.url
                   /\ "overlap" \notin slips /\ calls.derive = {} =>
                         /\ stored' = sheet.words
                         /\ sheet.step = "generated" => stored' = sheet.backedUp
<1>1. ASSUME AppInv, SheetInv, [Next]_vars PROVE A
  <2> SUFFICES ASSUME sheet.step # "none", sheet'.step = "none", runId' = runId + 1
               PROVE  A
    OBVIOUS
  <2>1. Commit
    BY <1>1, OnlyCommit DEF CommitStep
  <2>2. prefs' = [prefs EXCEPT !.enabled = TRUE, !.url = sheet.url, !.resync = TRUE]
    BY <2>1 DEF Commit
  <2>3. prefs'.enabled /\ prefs'.url = sheet.url
    BY <1>1, <2>2 DEF AppInv, AppTypeOK, PanelTypeOK, Prefs
  <2>4. sheet.url \in Deployed
    BY <1>1, <2>1 DEF Commit, CanCommit, SheetInv
  <2>5. ASSUME "overlap" \notin slips, calls.derive = {}
        PROVE  stored' = sheet.words /\ (sheet.step = "generated" => stored' = sheet.backedUp)
    BY <1>1, <2>1, <2>5 DEF Commit, CanCommit, SheetInv
  <2> QED
    BY <2>3, <2>4, <2>5
<1>2. AppInv /\ SheetInv /\ [Next]_vars => SheetInv'
  BY SheetStepInv
<1>3. Spec => [][A]_vars
  BY <1>1, <1>2, SheetInitInv, AppInvariant, PTL DEF Spec
<1> QED
  BY <1>3 DEF EnabledAsShown
-----------------------------------------------------------------------------
(* What the panel shows.  Each part of the invariant is about a few        *)
(* fields, which most steps leave alone.                                   *)

\* The words on the screen, and those a gate that is still open is about.
GateInv ==
    /\ panel.view # "ready" =>
          /\ panel.acct = NoWords /\ ~panel.shown
          /\ \A g \in calls.gates : ~g.here
    /\ "reveal" \notin slips /\ HasKey =>
          /\ panel.shown => panel.acct = panel.passed
          /\ \A g \in calls.gates : g.here => g.words = panel.acct

\* The account shown, and what is still to come between it and the stored words.
AccountInv ==
    /\ panel.view # "ready" => calls.forget # "panel"
    /\ panel.view = "ready" => calls.forget # "orphan"
    /\ panel.view = "ready" /\ "overlap" \notin slips =>
          /\ calls.derive = {} =>
                /\ calls.forget = "no" => panel.acct = stored
                /\ calls.forget = "panel" => stored = NoWords
          /\ calls.forget = "panel" => \A d \in calls.derive : d.after

\* The preferences shown, and the interval, which shows as it was picked.
PrefsInv ==
    /\ panel.view # "ready" => ~panel.debounce
    /\ panel.view # "closed" =>
          /\ "forget" \notin slips => (panel.on <=> prefs.enabled) /\ calls.forget # "orphan"
          /\ "ping" \notin slips /\ ~panel.typed => panel.url = prefs.url
          /\ ~panel.debounce => ToSeconds(panel.every[1], panel.every[2]) = prefs.interval
    /\ LET d == Decompose(prefs.interval) IN ToSeconds(d[1], d[2]) = prefs.interval
    /\ panel.debounce => panel.every[1] \in UnitMin(panel.every[2]) .. UnitMax(panel.every[2])

PanelInv == GateInv /\ AccountInv /\ PrefsInv

LEMMA GateUntouched ==
    ASSUME GateInv, panel'.view = panel.view, panel'.acct = panel.acct,
           panel'.shown => panel.shown, panel'.passed = panel.passed,
           calls'.gates = calls.gates, "reveal" \in slips => "reveal" \in slips'
    PROVE  GateInv'
BY DEF GateInv, HasKey

LEMMA AccountUntouched ==
    ASSUME AccountInv, panel'.view = panel.view, panel'.acct = panel.acct, stored' = stored,
           calls'.derive = calls.derive, calls'.forget = calls.forget,
           "overlap" \in slips => "overlap" \in slips'
    PROVE  AccountInv'
BY DEF AccountInv

LEMMA PrefsUntouched ==
    ASSUME PrefsInv, panel'.view = panel.view, panel'.on <=> panel.on,
           panel'.url = panel.url, panel'.every = panel.every,
           panel'.typed <=> panel.typed, panel'.debounce <=> panel.debounce,
           prefs'.enabled <=> prefs.enabled, prefs'.url = prefs.url,
           prefs'.interval = prefs.interval, calls'.forget = calls.forget,
           "forget" \in slips => "forget" \in slips', "ping" \in slips => "ping" \in slips'
    PROVE  PrefsInv'
BY DEF PrefsInv

LEMMA GateByView ==
    ASSUME PanelTypeOK, GateInv
    PROVE  /\ OpenPanel \/ LoadAccount \/ ClosePanel => GateInv'
           /\ Reveal \/ Conceal \/ ForgetDone => GateInv'
<1> USE DEF PanelTypeOK
<1>1. ASSUME OpenPanel PROVE GateInv'
  <2>1. panel'.view # "ready" /\ panel'.acct = NoWords /\ ~panel'.shown /\ calls' = calls
    BY <1>1 DEF OpenPanel, NoPanel
  <2>2. panel.view # "ready"
    BY <1>1 DEF OpenPanel
  <2> QED
    BY <2>1, <2>2 DEF GateInv, HasKey
<1>2. ASSUME LoadAccount PROVE GateInv'
  <2>1. panel.view # "ready" /\ panel'.view = "ready" /\ calls' = calls
        /\ (panel'.shown => panel.shown) /\ slips' = slips
    BY <1>2 DEF LoadAccount, Panels
  <2> QED
    BY <2>1 DEF GateInv, HasKey
<1>3. ASSUME ClosePanel PROVE GateInv'
  <2>1. panel'.view # "ready" /\ panel'.acct = NoWords /\ ~panel'.shown
    BY <1>3 DEF ClosePanel, NoPanel
  <2>2. calls'.gates = {[g EXCEPT !.here = FALSE] : g \in calls.gates}
    BY <1>3 DEF ClosePanel, Orphaned
  <2>3. \A g \in calls.gates : ~[g EXCEPT !.here = FALSE].here
    BY DEF Calls, Gate
  <2> QED
    BY <2>1, <2>2, <2>3 DEF GateInv, HasKey
<1>4. ASSUME Reveal PROVE GateInv'
  <2>1. panel' = panel /\ panel.view = "ready"
    BY <1>4 DEF Reveal, AtPanel
  <2>2. /\ \A g \in calls'.gates : g \in calls.gates \/ g.words = panel.acct
        /\ slips' = slips
    BY <1>4 DEF Reveal, Calls
  <2> QED
    BY <2>1, <2>2 DEF GateInv, HasKey
<1>5. ASSUME Conceal PROVE GateInv'
  <2>1. /\ panel'.view = panel.view /\ panel'.acct = panel.acct
        /\ ~panel'.shown /\ panel'.passed = panel.passed /\ calls'.gates = calls.gates
        /\ slips' = slips
    BY <1>5 DEF Conceal, Panels
  <2> QED
    BY <2>1, GateUntouched
<1>6. ASSUME ForgetDone PROVE GateInv'
  <2>1. calls'.gates = calls.gates
    BY <1>6 DEF ForgetDone, Calls
  <2>2. CASE calls.forget = "panel"
    <3>1. panel'.view = panel.view /\ panel'.acct = NoWords /\ ~panel'.shown
      BY <1>6, <2>2 DEF ForgetDone, Panels
    <3> QED
      BY <2>1, <3>1 DEF GateInv, HasKey
  <2>3. CASE calls.forget # "panel"
    BY <1>6, <2>1, <2>3, GateUntouched DEF ForgetDone
  <2> QED
    BY <2>2, <2>3
<1> QED
  BY <1>1, <1>2, <1>3, <1>4, <1>5, <1>6

LEMMA GateByAnswer ==
    ASSUME PanelTypeOK, GateInv
    PROVE  /\ \A g \in calls.gates :
                 GateProbed(g) \/ GateRegistered(g) \/ GateAsserted(g) => GateInv'
           /\ \A d \in calls.derive : SheetInv /\ Derived(d) => GateInv'
<1> USE DEF PanelTypeOK
<1>1. ASSUME NEW g \in calls.gates, NEW ok \in BOOLEAN, GateSays(g, ok), slips' = slips
      PROVE  GateInv'
  <2>1. calls'.gates = calls.gates \ {g}
    BY <1>1 DEF GateSays, Calls
  <2>2. CASE g.here
    <3>1. panel.view = "ready"
      BY <2>2 DEF GateInv
    <3>2. /\ panel'.view = panel.view /\ panel'.acct = panel.acct
          /\ panel'.shown => ok /\ panel'.passed = g.words
      BY <1>1, <2>2 DEF GateSays, Panels
    <3> QED
      BY <1>1, <2>1, <2>2, <3>1, <3>2 DEF GateInv, HasKey
  <2>3. CASE ~g.here
    <3>1. panel' = panel
      BY <1>1, <2>3 DEF GateSays
    <3> QED
      BY <1>1, <2>1, <3>1 DEF GateInv, HasKey
  <2> QED
    BY <2>2, <2>3
<1>2. ASSUME NEW g \in calls.gates, GateProbed(g) PROVE GateInv'
  <2>1. CASE AskForTail(g)
    BY <1>1, <1>2, <2>1 DEF GateProbed, AskForTail
  <2>2. CASE /\ calls' = [calls EXCEPT !.gates = (@ \ {g}) \cup
                             {[g EXCEPT !.at = IF passkey THEN "assert" ELSE "register"]}]
             /\ UNCHANGED panel
    <3> DEFINE h == [g EXCEPT !.at = IF passkey THEN "assert" ELSE "register"]
    <3>1. calls'.gates = (calls.gates \ {g}) \cup {h}
      BY <2>2 DEF Calls
    <3>2. h.words = g.words /\ (h.here => g.here)
      BY DEF Calls, Gate
    <3> HIDE DEF h
    <3> QED
      BY <1>2, <2>2, <3>1, <3>2 DEF GateInv, HasKey, GateProbed
  <2> QED
    BY <1>2, <2>1, <2>2 DEF GateProbed
<1>3. ASSUME NEW g \in calls.gates, GateRegistered(g) \/ GateAsserted(g) PROVE GateInv'
  BY <1>1, <1>3 DEF GateRegistered, GateAsserted, AskForTail
<1>4. ASSUME NEW d \in calls.derive, SheetInv, Derived(d) PROVE GateInv'
  <2>1. panel.view = "ready"
    BY <1>4 DEF SheetInv
  <2>2. /\ panel'.view = panel.view /\ panel'.acct = d.words /\ calls'.gates = calls.gates
        /\ panel'.shown = panel.shown /\ panel'.passed = panel.passed
    BY <1>4 DEF Derived, Panels, Calls
  <2>3. /\ "reveal" \in slips => "reveal" \in slips'
        /\ "reveal" \notin slips' /\ d.words # panel.acct =>
              ~panel.shown /\ \A g \in calls.gates : ~g.here
    BY <1>4 DEF Derived
  <2> QED
    BY <2>1, <2>2, <2>3 DEF GateInv, HasKey
<1> QED
  BY <1>2, <1>3, <1>4

LEMMA AccountByView ==
    ASSUME PanelTypeOK, SheetInv, AccountInv
    PROVE  /\ OpenPanel \/ LoadAccount \/ ClosePanel => AccountInv'
           /\ ForgetClick \/ ForgetDone => AccountInv'
<1> USE DEF PanelTypeOK
<1>1. ASSUME OpenPanel PROVE AccountInv'
  <2>1. panel'.view = "loading" /\ panel.view = "closed" /\ calls' = calls
    BY <1>1 DEF OpenPanel, NoPanel
  <2> QED
    BY <2>1 DEF AccountInv
<1>2. ASSUME LoadAccount PROVE AccountInv'
  <2>1. /\ panel'.view = "ready" /\ panel'.acct = stored
        /\ calls.forget = "no" /\ calls' = calls /\ stored' = stored
    BY <1>2 DEF LoadAccount, Panels
  <2> QED
    BY <2>1 DEF AccountInv
<1>3. ASSUME ClosePanel PROVE AccountInv'
  <2>1. panel'.view = "closed" /\ calls'.forget # "panel"
    BY <1>3 DEF ClosePanel, NoPanel, Orphaned
  <2> QED
    BY <2>1 DEF AccountInv
<1>4. ASSUME ForgetClick PROVE AccountInv'
  <2>1. /\ panel' = panel /\ panel.view = "ready" /\ stored' = NoWords
        /\ calls'.derive = calls.derive /\ calls'.forget = "panel"
        /\ (calls.derive # {} => "overlap" \in slips')
    BY <1>4 DEF ForgetClick, AtPanel, Calls
  <2> QED
    BY <2>1 DEF AccountInv
<1>5. ASSUME ForgetDone PROVE AccountInv'
  <2>1. /\ stored' = stored /\ slips' = slips
        /\ calls'.derive = calls.derive /\ calls'.forget = "no"
    BY <1>5 DEF ForgetDone, Calls
  <2>2. CASE calls.forget = "panel"
    <3>1. panel'.view = panel.view /\ panel'.acct = NoWords /\ panel.view = "ready"
      BY <1>5, <2>2 DEF ForgetDone, Panels, AccountInv
    <3> QED
      BY <2>1, <2>2, <3>1 DEF AccountInv
  <2>3. CASE calls.forget # "panel"
    <3>1. panel' = panel /\ panel.view # "ready"
      BY <1>5, <2>3 DEF ForgetDone, AccountInv, Calls
    <3> QED
      BY <2>1, <3>1 DEF AccountInv
  <2> QED
    BY <2>2, <2>3
<1> QED
  BY <1>1, <1>2, <1>3, <1>4, <1>5

\* Words are saved: they come in after a forget that is still being answered.
LEMMA AccountBySave ==
    ASSUME PanelTypeOK, AccountInv, NEW w, NEW how, Save(w, how), panel' = panel
    PROVE  AccountInv'
<1> DEFINE d0 == [words |-> w, how |-> how, here |-> TRUE, after |-> calls.forget # "no"]
<1>1. /\ calls'.derive = calls.derive \cup {d0} /\ calls'.forget = calls.forget
      /\ slips' = slips \cup (IF calls.derive = {} THEN {} ELSE {"overlap"})
  BY DEF Save, PanelTypeOK, Calls
<1>2. calls.forget = "panel" => d0.after
  OBVIOUS
<1> HIDE DEF d0
<1>3. "overlap" \notin slips' => calls'.derive = {d0}
  BY <1>1
<1> QED
  BY <1>1, <1>2, <1>3 DEF AccountInv

LEMMA AccountBySheet ==
    ASSUME PanelTypeOK, SheetInv, AccountInv
    PROVE  /\ CancelSheet \/ Commit => AccountInv'
           /\ \A d \in calls.derive : Derived(d) => AccountInv'
<1> USE DEF PanelTypeOK
<1>1. ASSUME calls' = SheetGone, panel'.view = panel.view, panel'.acct = panel.acct,
             stored' = stored, "overlap" \in slips => "overlap" \in slips'
      PROVE  AccountInv'
  <2>1. /\ calls'.derive = {[d EXCEPT !.here = FALSE] : d \in calls.derive}
        /\ calls'.forget = calls.forget
    BY <1>1 DEF SheetGone, Calls
  <2>2. \A d \in calls.derive : d.after => [d EXCEPT !.here = FALSE].after
    BY DEF Calls, Derivation
  <2>3. calls'.derive = {} => calls.derive = {}
    BY <2>1
  <2> QED
    BY <1>1, <2>1, <2>2, <2>3 DEF AccountInv
<1>2. ASSUME CancelSheet PROVE AccountInv'
  BY <1>1, <1>2, AccountUntouched DEF CancelSheet
<1>3. ASSUME Commit PROVE AccountInv'
  BY <1>1, <1>3 DEF Commit, Panels
<1>4. ASSUME NEW d \in calls.derive, Derived(d) PROVE AccountInv'
  <2>1. /\ panel'.view = panel.view /\ panel'.acct = d.words /\ stored' = stored
        /\ calls'.derive = calls.derive \ {d} /\ calls'.forget = calls.forget
        /\ ("overlap" \in slips => "overlap" \in slips') /\ (d.after => calls.forget = "no")
    BY <1>4 DEF Derived, Panels, Calls
  <2>2. "overlap" \notin slips => d.words = stored /\ calls'.derive = {}
    BY <2>1 DEF SheetInv
  <2> QED
    BY <2>1, <2>2 DEF AccountInv
<1> QED
  BY <1>2, <1>3, <1>4

\* An interval that was picked is the one that is saved, and shown again.
LEMMA PickedInterval ==
    ASSUME NEW u \in Units, NEW k \in UnitMin(u) .. UnitMax(u)
    PROVE  LET s == ClampSeconds(ToSeconds(k, u))
           IN  s = ToSeconds(k, u) /\ Decompose(s) = <<k, u>>
<1>1. UnitMin(u) \in Int /\ UnitMax(u) \in Int /\ k \in Int
  BY SMT DEF UnitMin, UnitMax
<1>2. ClampForUnit(k, u) = k
  BY <1>1, SMT DEF ClampForUnit, Most, Least
<1>3. Decompose(ClampSeconds(ToSeconds(k, u))) = <<k, u>>
  BY <1>1, <1>2, IntervalRoundTrip
<1>4. ClampSeconds(ToSeconds(k, u)) = ToSeconds(k, u)
  BY SMT DEF ClampSeconds, ToSeconds, SecondsPer, MinSeconds, MaxSeconds, Most, Least,
     UnitMin, UnitMax, Units
<1> QED
  BY <1>3, <1>4

LEMMA PrefsInitInv == PanelInit => PrefsInv
<1> SUFFICES ASSUME PanelInit PROVE PrefsInv
  OBVIOUS
<1>1. Decompose(60) = <<1, "minutes">>
  BY SMT DEF Decompose, Least
<1>2. prefs.interval = 60 /\ panel = NoPanel
  BY DEF PanelInit, DefaultInterval
<1> QED
  BY <1>1, <1>2 DEF PrefsInv, NoPanel, ToSeconds, SecondsPer

LEMMA PrefsByView ==
    ASSUME PanelTypeOK, AccountInv, PrefsInv
    PROVE  /\ OpenPanel \/ LoadAccount \/ ClosePanel => PrefsInv'
           /\ Disable \/ ForgetDone \/ (SheetInv /\ Commit) => PrefsInv'
<1> USE DEF PanelTypeOK
<1>1. ASSUME OpenPanel PROVE PrefsInv'
  <2>1. /\ panel'.view = "loading" /\ ~panel'.debounce
        /\ panel'.on = prefs.enabled /\ panel'.url = prefs.url
        /\ panel'.every = Decompose(prefs.interval)
        /\ prefs' = prefs /\ calls' = calls
    BY <1>1 DEF OpenPanel, NoPanel
  <2>2. "forget" \notin slips' => calls.forget = "no"
    BY <1>1 DEF OpenPanel
  <2> QED
    BY <2>1, <2>2 DEF PrefsInv
<1>2. ASSUME LoadAccount PROVE PrefsInv'
  <2>1. /\ panel.view = "loading" /\ ~panel.debounce /\ ~panel'.debounce
        /\ (panel'.on <=> panel.on) /\ panel'.url = panel.url /\ panel'.every = panel.every
        /\ (panel'.typed <=> panel.typed) /\ prefs' = prefs /\ calls' = calls /\ slips' = slips
    BY <1>2 DEF LoadAccount, Panels, PrefsInv
  <2> QED
    BY <2>1 DEF PrefsInv
<1>3. ASSUME ClosePanel PROVE PrefsInv'
  <2>1. panel'.view = "closed" /\ ~panel'.debounce /\ prefs' = prefs
    BY <1>3 DEF ClosePanel, NoPanel
  <2> QED
    BY <2>1 DEF PrefsInv
<1>4. ASSUME Disable PROVE PrefsInv'
  <2>1. /\ panel'.view = panel.view /\ panel'.url = panel.url /\ panel'.every = panel.every
        /\ panel.view = "ready" /\ calls' = calls /\ slips' = slips
        /\ prefs'.url = prefs.url /\ prefs'.interval = prefs.interval
    BY <1>4 DEF Disable, AtPanel, Panels, Prefs
  <2>2. ~panel'.on /\ ~prefs'.enabled /\ (panel'.debounce <=> panel.debounce)
        /\ (panel'.typed <=> panel.typed)
    BY <1>4 DEF Disable, Panels, Prefs
  <2> QED
    BY <2>1, <2>2 DEF PrefsInv
<1>5. ASSUME ForgetDone PROVE PrefsInv'
  <2>1. /\ calls'.forget = "no" /\ slips' = slips
        /\ prefs'.url = prefs.url /\ prefs'.interval = prefs.interval /\ ~prefs'.enabled
    BY <1>5 DEF ForgetDone, Calls, Prefs
  <2>2. CASE calls.forget = "panel"
    <3>1. /\ panel'.view = panel.view /\ panel'.url = panel.url /\ panel'.every = panel.every
          /\ ~panel'.on
      BY <1>5, <2>2 DEF ForgetDone, Panels
    <3>2. (panel'.debounce <=> panel.debounce) /\ (panel'.typed <=> panel.typed)
      BY <1>5, <2>2 DEF ForgetDone, Panels
    <3> QED
      BY <2>1, <3>1, <3>2 DEF PrefsInv
  <2>3. CASE calls.forget # "panel"
    <3>1. panel' = panel /\ calls.forget = "orphan"
      BY <1>5, <2>3 DEF ForgetDone, Calls
    <3> QED
      BY <2>1, <3>1 DEF PrefsInv
  <2> QED
    BY <2>2, <2>3
<1>6. ASSUME SheetInv, Commit PROVE PrefsInv'
  <2>1. panel.view = "ready" /\ calls.forget # "orphan"
    BY <1>6 DEF Commit, CanCommit, SheetInv, AccountInv
  <2>2. /\ panel'.view = panel.view /\ panel'.url = sheet.url /\ panel'.every = panel.every
        /\ prefs'.url = sheet.url /\ prefs'.interval = prefs.interval
        /\ calls'.forget = calls.forget
    BY <1>6 DEF Commit, SheetGone, Panels, Prefs, Calls
  <2>3. panel'.on /\ prefs'.enabled /\ (panel'.debounce <=> panel.debounce)
    BY <1>6 DEF Commit, Panels, Prefs
  <2> QED
    BY <2>1, <2>2, <2>3 DEF PrefsInv
<1> QED
  BY <1>1, <1>2, <1>3, <1>4, <1>5, <1>6

LEMMA PrefsByField ==
    ASSUME PanelTypeOK, PrefsInv
    PROVE  /\ (\E u \in MaybeUrl : TypeUrl(u)) \/ SaveUrl => PrefsInv'
           /\ \A p \in calls.pings : PingAnswered(p) => PrefsInv'
           /\ \A pick \in Picks : PickInterval(pick) => PrefsInv'
           /\ CommitInterval => PrefsInv'
<1> USE DEF PanelTypeOK
<1>0. ASSUME NEW u \in MaybeUrl, TypeUrl(u) PROVE PrefsInv'
  <2>1. /\ panel'.view = panel.view /\ panel'.every = panel.every /\ panel'.typed
        /\ panel.view = "ready" /\ prefs' = prefs /\ calls' = calls /\ slips' = slips
    BY <1>0 DEF TypeUrl, AtPanel, Panels
  <2>2. (panel'.on <=> panel.on) /\ (panel'.debounce <=> panel.debounce)
    BY <1>0 DEF TypeUrl, Panels
  <2> QED
    BY <2>1, <2>2 DEF PrefsInv
<1>1. ASSUME SaveUrl PROVE PrefsInv'
  <2>1. /\ panel'.view = panel.view /\ panel'.url = panel.url /\ panel'.every = panel.every
        /\ prefs'.url = panel.url /\ prefs'.interval = prefs.interval /\ calls' = calls
        /\ ("forget" \in slips => "forget" \in slips')
    BY <1>1 DEF SaveUrl, Panels, Prefs
  <2>2. /\ panel'.on <=> panel.on
        /\ panel'.debounce <=> panel.debounce
        /\ prefs'.enabled <=> prefs.enabled
    BY <1>1 DEF SaveUrl, Panels, Prefs
  <2> QED
    BY <2>1, <2>2 DEF PrefsInv
<1>2. ASSUME NEW p \in calls.pings, PingAnswered(p) PROVE PrefsInv'
  <2>1. panel' = panel /\ calls'.forget = calls.forget
    BY <1>2 DEF PingAnswered, Calls
  <2>2. CASE /\ prefs' = [prefs EXCEPT !.url = p.url]
             /\ slips' = slips
                   \cup (IF p.url = prefs.url THEN {} ELSE {"url"})
                   \cup (IF panel.view = "closed" \/ p.url = panel.url THEN {} ELSE {"ping"})
    <3>1. prefs'.url = p.url /\ prefs'.interval = prefs.interval
      BY <2>2 DEF Prefs
    <3>2. prefs'.enabled <=> prefs.enabled
      BY <2>2 DEF Prefs
    <3>3. "ping" \notin slips' => panel.view = "closed" \/ prefs'.url = panel.url
      BY <2>2, <3>1
    <3>4. "forget" \notin slips' => "forget" \notin slips
      BY <2>2
    <3> QED
      BY <2>1, <3>1, <3>2, <3>3, <3>4 DEF PrefsInv
  <2>3. CASE UNCHANGED <<prefs, slips>>
    BY <2>1, <2>3, PrefsUntouched
  <2> QED
    BY <1>2, <2>2, <2>3 DEF PingAnswered
<1>3. ASSUME NEW pick \in Picks, PickInterval(pick) PROVE PrefsInv'
  <2>1. pick[1] \in Int /\ pick[2] \in Units
    BY PanelTyped
  <2>2. /\ panel'.view = panel.view /\ panel'.url = panel.url /\ panel.view = "ready"
        /\ panel'.every = <<ClampForUnit(pick[1], pick[2]), pick[2]>>
        /\ prefs' = prefs /\ calls' = calls /\ slips' = slips
    BY <1>3 DEF PickInterval, AtPanel, Panels
  <2>3. panel'.debounce /\ (panel'.on <=> panel.on) /\ (panel'.typed <=> panel.typed)
    BY <1>3 DEF PickInterval, Panels
  <2>4. panel'.every[1] \in UnitMin(panel'.every[2]) .. UnitMax(panel'.every[2])
    BY <2>1, <2>2, PickBounded
  <2> QED
    BY <2>2, <2>3, <2>4 DEF PrefsInv
<1>4. ASSUME CommitInterval PROVE PrefsInv'
  <2> DEFINE k == panel.every[1]
             u == panel.every[2]
  <2>1. u \in Units /\ k \in UnitMin(u) .. UnitMax(u)
    BY <1>4 DEF CommitInterval, Panels, PrefsInv
  <2>2. /\ panel'.view = panel.view /\ panel'.url = panel.url /\ panel'.every = panel.every
        /\ prefs'.url = prefs.url /\ prefs'.interval = ClampSeconds(ToSeconds(k, u))
        /\ calls' = calls /\ slips' = slips
    BY <1>4 DEF CommitInterval, Panels, Prefs
  <2>3. /\ ~panel'.debounce /\ (panel'.on <=> panel.on) /\ (panel'.typed <=> panel.typed)
        /\ (prefs'.enabled <=> prefs.enabled)
    BY <1>4 DEF CommitInterval, Panels, Prefs
  <2>4. prefs'.interval = ToSeconds(k, u) /\ Decompose(prefs'.interval) = <<k, u>>
    BY <2>1, <2>2, PickedInterval
  <2>5. panel'.every[1] = k /\ panel'.every[2] = u
    BY <2>2
  <2> HIDE DEF k, u
  <2> QED
    BY <2>2, <2>3, <2>4, <2>5 DEF PrefsInv
<1> QED
  BY <1>0, <1>1, <1>2, <1>3, <1>4

\* What a step leaves alone, part by part.
GateStill ==
    /\ panel'.view = panel.view /\ panel'.acct = panel.acct /\ panel'.passed = panel.passed
    /\ panel'.shown => panel.shown
    /\ calls'.gates = calls.gates
    /\ "reveal" \in slips => "reveal" \in slips'
AccountStill ==
    /\ panel'.view = panel.view /\ panel'.acct = panel.acct /\ stored' = stored
    /\ calls'.derive = calls.derive /\ calls'.forget = calls.forget
    /\ "overlap" \in slips => "overlap" \in slips'
PrefsStill ==
    /\ panel'.view = panel.view /\ panel'.url = panel.url /\ panel'.every = panel.every
    /\ panel'.on <=> panel.on
    /\ panel'.typed <=> panel.typed
    /\ panel'.debounce <=> panel.debounce
    /\ prefs'.enabled <=> prefs.enabled
    /\ prefs'.url = prefs.url /\ prefs'.interval = prefs.interval
    /\ calls'.forget = calls.forget
    /\ "forget" \in slips => "forget" \in slips'
    /\ "ping" \in slips => "ping" \in slips'

LEMMA Still ==
    /\ GateInv /\ GateStill => GateInv'
    /\ AccountInv /\ AccountStill => AccountInv'
    /\ PrefsInv /\ PrefsStill => PrefsInv'
BY GateUntouched, AccountUntouched, PrefsUntouched DEF GateStill, AccountStill, PrefsStill

LEMMA StillByPanel ==
    ASSUME PanelTypeOK
    PROVE  /\ (\E u \in MaybeUrl : TypeUrl(u)) \/ SaveUrl => GateStill /\ AccountStill
           /\ \A p \in calls.pings : PingAnswered(p) => GateStill /\ AccountStill
           /\ \A pick \in Picks : PickInterval(pick) => GateStill /\ AccountStill
           /\ CommitInterval \/ Disable => GateStill /\ AccountStill
           /\ Ping => GateStill /\ AccountStill /\ PrefsStill
           /\ ForgetClick => GateStill
           /\ Reveal \/ Conceal => AccountStill /\ PrefsStill
           /\ \A g \in calls.gates :
                 GateProbed(g) \/ GateRegistered(g) \/ GateAsserted(g) => AccountStill /\ PrefsStill
<1> USE DEF PanelTypeOK, GateStill, AccountStill, PrefsStill
<1>1. ASSUME (\E u \in MaybeUrl : TypeUrl(u)) \/ SaveUrl PROVE GateStill /\ AccountStill
  BY <1>1 DEF TypeUrl, SaveUrl, Panels
<1>2. ASSUME NEW p \in calls.pings, PingAnswered(p) PROVE GateStill /\ AccountStill
  BY <1>2 DEF PingAnswered, Calls
<1>3. ASSUME NEW pick \in Picks, PickInterval(pick) PROVE GateStill /\ AccountStill
  BY <1>3 DEF PickInterval, Panels
<1>4. ASSUME CommitInterval \/ Disable PROVE GateStill /\ AccountStill
  BY <1>4 DEF CommitInterval, Disable, Panels
<1>5. ASSUME Ping PROVE GateStill /\ AccountStill /\ PrefsStill
  BY <1>5 DEF Ping, Calls
<1>6. ASSUME ForgetClick PROVE GateStill
  BY <1>6 DEF ForgetClick, Calls
<1>7. ASSUME Reveal PROVE AccountStill /\ PrefsStill
  BY <1>7 DEF Reveal, Calls
<1>8. ASSUME Conceal PROVE AccountStill /\ PrefsStill
  BY <1>8 DEF Conceal, Panels
<1>9. ASSUME NEW g \in calls.gates,
             GateProbed(g) \/ GateRegistered(g) \/ GateAsserted(g)
      PROVE  AccountStill /\ PrefsStill
  <2>1. /\ calls'.derive = calls.derive /\ calls'.forget = calls.forget
        /\ prefs' = prefs /\ stored' = stored /\ slips' = slips
    BY <1>9 DEF GateProbed, GateRegistered, GateAsserted, AskForTail, GateSays, Calls
  <2>2. \/ panel' = panel
        \/ \E ok \in BOOLEAN : panel' = [panel EXCEPT !.shown = ok,
                                  !.passed = IF ok THEN g.words ELSE @]
    BY <1>9 DEF GateProbed, GateRegistered, GateAsserted, AskForTail, GateSays
  <2>3. /\ panel'.view = panel.view /\ panel'.acct = panel.acct
        /\ panel'.url = panel.url /\ panel'.every = panel.every
    BY <2>2 DEF Panels
  <2>4. /\ panel'.on <=> panel.on
        /\ panel'.typed <=> panel.typed
        /\ panel'.debounce <=> panel.debounce
    BY <2>2 DEF Panels
  <2> QED
    BY <2>1, <2>3, <2>4
<1> QED
  BY <1>1, <1>2, <1>3, <1>4, <1>5, <1>6, <1>7, <1>8, <1>9

LEMMA StillBySheet ==
    ASSUME PanelTypeOK
    PROVE  /\ OpenSheet \/ Tick \/ TestBackend \/ TestAnswered
                 => GateStill /\ AccountStill /\ PrefsStill
           /\ \A step \in {"paste", "scan"} : Choose(step) => GateStill /\ AccountStill /\ PrefsStill
           /\ \A u \in MaybeUrl : ChangeUrl(u) => GateStill /\ AccountStill /\ PrefsStill
           /\ \A text : TypeWords(text) => GateStill /\ AccountStill /\ PrefsStill
           /\ CancelSheet => GateStill /\ PrefsStill
           /\ Commit => GateStill
           /\ \A d \in calls.derive : Derived(d) => PrefsStill
           /\ \A w, how : Save(w, how) /\ UNCHANGED <<prefs, panel>> => GateStill /\ PrefsStill
<1> USE DEF PanelTypeOK, GateStill, AccountStill, PrefsStill
<1>1. ASSUME OpenSheet \/ Tick \/ TestBackend \/ TestAnswered
      PROVE  GateStill /\ AccountStill /\ PrefsStill
  BY <1>1 DEF OpenSheet, Tick, TestBackend, TestAnswered, Calls
<1>2. ASSUME NEW step \in {"paste", "scan"}, Choose(step)
      PROVE  GateStill /\ AccountStill /\ PrefsStill
  BY <1>2 DEF Choose
<1>3. ASSUME NEW u \in MaybeUrl, ChangeUrl(u) PROVE GateStill /\ AccountStill /\ PrefsStill
  BY <1>3 DEF ChangeUrl
<1>4. ASSUME NEW text, TypeWords(text) PROVE GateStill /\ AccountStill /\ PrefsStill
  BY <1>4 DEF TypeWords
<1>5. ASSUME CancelSheet PROVE GateStill /\ PrefsStill
  <2>1. calls'.gates = calls.gates /\ calls'.forget = calls.forget
    BY <1>5 DEF CancelSheet, SheetGone, Calls
  <2> QED
    BY <1>5, <2>1 DEF CancelSheet
<1>6. ASSUME Commit PROVE GateStill
  BY <1>6 DEF Commit, SheetGone, Panels, Calls
<1>7. ASSUME NEW d \in calls.derive, Derived(d) PROVE PrefsStill
  BY <1>7 DEF Derived, Panels, Calls
<1>8. ASSUME NEW w, NEW how, Save(w, how), UNCHANGED <<prefs, panel>>
      PROVE  GateStill /\ PrefsStill
  BY <1>8 DEF Save, Calls
<1> QED
  BY <1>1, <1>2, <1>3, <1>4, <1>5, <1>6, <1>7, <1>8

LEMMA PanelInvBySave ==
    ASSUME PanelTypeOK, PanelInv, NEW w, NEW how, Save(w, how), UNCHANGED <<prefs, panel>>
    PROVE  PanelInv'
BY AccountBySave, StillBySheet, Still DEF PanelInv

LEMMA PanelInvByStep ==
    ASSUME PanelTypeOK, SheetInv, PanelInv, PanelStep
    PROVE  PanelInv'
<1> USE DEF PanelInv, MaybeUrl
<1>1. CASE OpenPanel \/ LoadAccount \/ ClosePanel
  BY <1>1, GateByView, AccountByView, PrefsByView
<1>2. CASE Ping \/ ForgetClick \/ Reveal \/ Conceal
  <2>1. ForgetClick => PrefsInv'
    <3> SUFFICES ASSUME ForgetClick PROVE PrefsInv'
      OBVIOUS
    <3>1. /\ panel' = panel /\ prefs' = prefs /\ calls'.forget = "panel"
          /\ ("forget" \in slips => "forget" \in slips')
          /\ ("ping" \in slips => "ping" \in slips')
      BY DEF ForgetClick, PanelTypeOK, Calls
    <3> QED
      BY <3>1 DEF PrefsInv
  <2> QED
    BY <1>2, <2>1, GateByView, AccountByView, StillByPanel, Still
<1>3. ASSUME NEW u \in MaybeUrl, TypeUrl(u) \/ SaveUrl \/ ChangeUrl(u) PROVE PanelInv'
  BY <1>3, PrefsByField, StillByPanel, StillBySheet, Still
<1>4. ASSUME NEW p \in calls.pings, PingAnswered(p) PROVE PanelInv'
  BY <1>4, PrefsByField, StillByPanel, Still
<1>5. ASSUME NEW pick \in Picks, PickInterval(pick) PROVE PanelInv'
  BY <1>5, PrefsByField, StillByPanel, Still
<1>6. ASSUME NEW g \in calls.gates, GateProbed(g) \/ GateRegistered(g) \/ GateAsserted(g)
      PROVE  PanelInv'
  BY <1>6, GateByAnswer, StillByPanel, Still
<1>7. CASE OpenSheet \/ CancelSheet \/ Tick \/ TestBackend \/ TestAnswered
  BY <1>7, AccountBySheet, StillBySheet, Still
<1>8. ASSUME NEW step \in {"paste", "scan"}, Choose(step) PROVE PanelInv'
  BY <1>8, StillBySheet, Still
<1>9. CASE Generate
  BY <1>9, PanelInvBySave DEF Generate
<1>10. CASE ValidatePaste
  <2>1. CASE Save(sheet.text, "paste")
    BY <1>10, <2>1, PanelInvBySave DEF ValidatePaste
  <2>2. CASE UNCHANGED <<stored, calls, slips>>
    BY <1>10, <2>2, Still DEF ValidatePaste, GateStill, AccountStill, PrefsStill
  <2> QED
    BY <1>10, <2>1, <2>2 DEF ValidatePaste
<1>11. ASSUME NEW text \in Owned \cup {Garbled}, ScanResult(text) PROVE PanelInv'
  <2>1. CASE Save(text, "scan")
    BY <1>11, <2>1, PanelInvBySave DEF ScanResult
  <2>2. CASE UNCHANGED <<stored, calls, slips>>
    BY <1>11, <2>2, Still DEF ScanResult, GateStill, AccountStill, PrefsStill
  <2> QED
    BY <1>11, <2>1, <2>2 DEF ScanResult
<1>12. ASSUME NEW text, TypeWords(text) PROVE PanelInv'
  BY <1>12, StillBySheet, Still
<1>13. ASSUME NEW d \in calls.derive, Derived(d) PROVE PanelInv'
  BY <1>13, GateByAnswer, AccountBySheet, StillBySheet, Still
<1> QED
  BY <1>1, <1>2, <1>3, <1>4, <1>5, <1>6, <1>7, <1>8, <1>9, <1>10, <1>11, <1>12, <1>13
     DEF PanelStep

LEMMA PanelInitInv == AppInit => PanelInv
<1> SUFFICES ASSUME AppInit PROVE PanelInv
  OBVIOUS
<1>1. PanelInit /\ panel = NoPanel /\ calls = NoCalls
  BY DEF AppInit, PanelInit
<1>2. GateInv /\ AccountInv
  BY <1>1 DEF GateInv, AccountInv, HasKey, NoPanel, NoCalls
<1> QED
  BY <1>1, <1>2, PrefsInitInv DEF PanelInv

\* The panel is as it was, and so are the preferences it shows.
LEMMA PanelInvAround ==
    ASSUME PanelInv, UNCHANGED <<stored, panel>>,
           calls' = calls,
           prefs'.enabled = prefs.enabled, prefs'.url = prefs.url,
           prefs'.interval = prefs.interval, slips \subseteq slips'
    PROVE  PanelInv'
BY Still DEF PanelInv, GateStill, AccountStill, PrefsStill

LEMMA PanelInvStep ==
    ASSUME AppInv, SheetInv, PanelInv, [Next]_vars
    PROVE  PanelInv'
<1> USE DEF AppInv, AppTypeOK
<1>1. CASE PanelStep /\ UNCHANGED appVars
  BY <1>1, PanelInvByStep
<1>2. CASE CommitStep \/ DisableStep \/ ForgetStep \/ IntervalStep
  BY <1>2, GateByView, AccountByView, AccountBySheet, PrefsByView, PrefsByField, StillByPanel,
     StillBySheet, Still
     DEF PanelInv, CommitStep, DisableStep, ForgetStep, IntervalStep
<1>3. CASE PageLoad
  <2>1. panel' = NoPanel /\ calls' = NoCalls /\ prefs' = prefs
    BY <1>3 DEF PageLoad, PanelReset
  <2> QED
    BY <2>1 DEF PanelInv, GateInv, AccountInv, PrefsInv, HasKey, NoPanel, NoCalls
<1>4. ASSUME NEW i \in Runs,
             \/ ReadWords(i) \/ FinishStart(i)
             \/ PullTimer(i) \/ Flush(i)
             \/ \E c \in engines[i].pulls : PullEnds(i, c)
             \/ ResyncStep(i)
      PROVE  PanelInv'
  <2>1. ResyncEnds(i) => /\ prefs'.enabled = prefs.enabled /\ prefs'.url = prefs.url
                         /\ prefs'.interval = prefs.interval /\ slips \subseteq slips'
    BY DEF ResyncEnds, PanelTypeOK, Prefs
  <2>2. /\ UNCHANGED <<stored, panel>>
        /\ calls' = calls
        /\ (prefs' = prefs /\ slips \subseteq slips') \/ ResyncEnds(i)
    BY <1>4 DEF panelVars, ReadWords, FinishStart, PullTimer, PullEnds, Flush,
       ResyncStep, ResyncCleared, ResyncPulled, RebuildSeals, RebuildLands, RebuildEnds,
       ResyncEnds, Slip
  <2> QED
    BY <2>1, <2>2, PanelInvAround
<1>5. CASE EditTask \/ TabHidden \/ TabShown \/ (\E w \in Words : Sealed(w)) \/ UNCHANGED vars
  <2>1. UNCHANGED <<stored, panel, calls, prefs>> /\ slips \subseteq slips'
    BY <1>5 DEF vars, panelVars, EditTask, TabHidden, TabShown, Sealed, Slip
  <2> QED
    BY <2>1, PanelInvAround
<1> QED
  BY <1>1, <1>2, <1>3, <1>4, <1>5 DEF Next

LEMMA PanelInvariant == Spec => [](AppInv /\ SheetInv /\ PanelInv)
<1>1. AppInv /\ SheetInv /\ [Next]_vars => SheetInv'
  BY SheetStepInv
<1>2. AppInv /\ SheetInv /\ PanelInv /\ [Next]_vars => PanelInv'
  BY PanelInvStep
<1> QED
  BY <1>1, <1>2, SheetInitInv, PanelInitInv, AppInvariant, PTL DEF Spec

\* A panel shows no words but those the gate passed, unless others came in while it
\* showed words or awaited the gate; and one that awaits nothing shows what is
\* stored: the account, whether sync is on, the interval, and the URL unless that
\* was typed and not saved (SettingsPanel.tsx:17-175).
THEOREM PanelShowsStored == Spec => []PanelShows
<1>1. AppInv /\ SheetInv /\ PanelInv => PanelShows
  BY DEF PanelInv, GateInv, AccountInv, PrefsInv, PanelShows, HasKey, AppInv, AppTypeOK,
     PanelTypeOK, Panels, Prefs
<1> QED
  BY <1>1, PanelInvariant, PTL

-----------------------------------------------------------------------------
(* What an engine shares.                                                  *)

\* Words came in by the sheet that is open.
Entered == \/ sheet.imported \/ sheet.step = "generated"
           \/ \E d \in calls.derive : d.here

\* While sync is enabled no sheet is open, so that nothing but a forget changes
\* the stored words.
KeyInv ==
    /\ "forget" \notin slips /\ prefs.enabled =>
          /\ sheet.step = "none"
          /\ calls.forget = "no" => stored # NoWords
          /\ panel.view = "ready" => HasKey
    /\ Entered => stored # NoWords

LEMMA KeyInitInv == PanelInit => KeyInv
<1> SUFFICES ASSUME PanelInit PROVE KeyInv
  OBVIOUS
<1>1. prefs.enabled => stored # NoWords
  <2>1. PICK s \in Scenarios :
           /\ prefs = [enabled |-> s.words # NoWords, url |-> s.url, resync |-> FALSE,
                       interval |-> DefaultInterval]
           /\ stored = s.words
    BY DEF PanelInit
  <2>2. prefs.enabled <=> s.words # NoWords
    BY <2>1
  <2> QED
    BY <2>1, <2>2
<1>2. panel = NoPanel /\ sheet = NoSheet /\ calls = NoCalls
  BY DEF PanelInit
<1> QED
  BY <1>1, <1>2 DEF KeyInv, Entered, NoPanel, NoSheet, NoCalls

KeyStill ==
    /\ stored' = stored /\ sheet'.step = sheet.step
    /\ sheet'.imported => sheet.imported
    /\ panel'.view = panel.view /\ panel'.acct = panel.acct
    /\ calls'.derive = calls.derive /\ calls'.forget = calls.forget
    /\ prefs'.enabled => prefs.enabled
    /\ "forget" \in slips => "forget" \in slips'

LEMMA KeyUntouched ==
    ASSUME KeyInv, KeyStill
    PROVE  KeyInv'
BY DEF KeyInv, Entered, HasKey, KeyStill

LEMMA KeyByPanel ==
    ASSUME PanelTypeOK, SheetInv, PanelInv, KeyInv
    PROVE  /\ OpenPanel \/ LoadAccount \/ ClosePanel \/ Conceal => KeyInv'
           /\ Ping \/ ForgetClick \/ Reveal => KeyInv'
           /\ (\E u \in MaybeUrl : TypeUrl(u)) \/ SaveUrl => KeyInv'
           /\ \A p \in calls.pings : PingAnswered(p) => KeyInv'
           /\ \A pick \in Picks : PickInterval(pick) => KeyInv'
           /\ CommitInterval \/ Disable \/ ForgetDone => KeyInv'
<1> USE DEF PanelTypeOK
<1>1. ASSUME OpenPanel PROVE KeyInv'
  <2>1. /\ panel'.view = "loading" /\ UNCHANGED <<prefs, stored, sheet, calls>>
        /\ ("forget" \in slips => "forget" \in slips')
    BY <1>1 DEF OpenPanel, NoPanel
  <2> QED
    BY <2>1 DEF KeyInv, Entered
<1>2. ASSUME LoadAccount PROVE KeyInv'
  <2>1. /\ panel'.acct = stored /\ calls.forget = "no"
        /\ UNCHANGED <<prefs, stored, sheet, calls, slips>>
    BY <1>2 DEF LoadAccount, Panels
  <2> QED
    BY <2>1 DEF KeyInv, Entered, HasKey
<1>3. ASSUME ClosePanel PROVE KeyInv'
  <2>1. /\ panel'.view = "closed" /\ calls'.derive = {}
        /\ (calls'.forget = "no" => calls.forget = "no")
        /\ UNCHANGED <<prefs, stored, sheet, slips>>
    BY <1>3 DEF ClosePanel, NoPanel, Orphaned
  <2> QED
    BY <2>1 DEF KeyInv, Entered
<1>4. ASSUME Conceal PROVE KeyInv'
  BY <1>4, KeyUntouched DEF Conceal, KeyStill, Panels
<1>5. ASSUME Ping PROVE KeyInv'
  BY <1>5, KeyUntouched DEF Ping, KeyStill, Calls
<1>6. ASSUME Reveal PROVE KeyInv'
  BY <1>6, KeyUntouched DEF Reveal, KeyStill, Calls
<1>7. ASSUME ForgetClick PROVE KeyInv'
  <2>1. /\ UNCHANGED <<prefs, panel, sheet>> /\ sheet.step = "none" /\ HasKey
        /\ calls'.derive = calls.derive /\ calls'.forget = "panel"
    BY <1>7 DEF ForgetClick, AtPanel, Calls
  <2>2. ~Entered'
    BY <2>1 DEF Entered, SheetInv, NoSheet
  <2> QED
    BY <2>1, <2>2 DEF KeyInv, HasKey
<1>8. ASSUME (\E u \in MaybeUrl : TypeUrl(u)) \/ SaveUrl PROVE KeyInv'
  BY <1>8, KeyUntouched DEF TypeUrl, SaveUrl, KeyStill, Panels, Prefs
<1>9. ASSUME NEW p \in calls.pings, PingAnswered(p) PROVE KeyInv'
  <2>1. prefs'.enabled => prefs.enabled
    BY <1>9 DEF PingAnswered, Prefs
  <2> QED
    BY <1>9, <2>1, KeyUntouched DEF PingAnswered, KeyStill, Calls
<1>10. ASSUME NEW pick \in Picks, PickInterval(pick) PROVE KeyInv'
  BY <1>10, KeyUntouched DEF PickInterval, KeyStill, Panels
<1>11. ASSUME CommitInterval \/ Disable PROVE KeyInv'
  BY <1>11, KeyUntouched DEF CommitInterval, Disable, KeyStill, Panels, Prefs
<1>12. ASSUME ForgetDone PROVE KeyInv'
  <2>1. /\ ~prefs'.enabled /\ calls'.derive = calls.derive
        /\ UNCHANGED <<stored, sheet>>
    BY <1>12 DEF ForgetDone, Prefs, Calls
  <2> QED
    BY <2>1 DEF KeyInv, Entered
<1> QED
  BY <1>1, <1>2, <1>3, <1>4, <1>5, <1>6, <1>7, <1>8, <1>9, <1>10, <1>11, <1>12

LEMMA KeyByGate ==
    ASSUME PanelTypeOK, KeyInv, NEW g \in calls.gates,
           GateProbed(g) \/ GateRegistered(g) \/ GateAsserted(g)
    PROVE  KeyInv'
<1>1. AccountStill /\ PrefsStill
  BY StillByPanel
<1>2. UNCHANGED <<prefs, sheet, slips>>
  BY DEF GateProbed, GateRegistered, GateAsserted
<1> QED
  BY <1>1, <1>2, KeyUntouched DEF KeyStill, AccountStill

LEMMA KeyBySave ==
    ASSUME PanelTypeOK, KeyInv, NEW w \in Words, NEW how, Save(w, how),
           sheet.step # "none", UNCHANGED <<prefs, panel, sheet>>
    PROVE  KeyInv'
<1>1. stored' = w /\ w # NoWords
  BY PanelTyped DEF Save
<1>2. "forget" \in slips => "forget" \in slips'
  BY DEF Save
<1> QED
  BY <1>1, <1>2 DEF KeyInv

LEMMA KeyBySheet ==
    ASSUME PanelTypeOK, SheetInv, PanelInv, KeyInv
    PROVE  /\ OpenSheet \/ CancelSheet \/ Generate \/ ValidatePaste \/ Tick => KeyInv'
           /\ \A step \in {"paste", "scan"} : Choose(step) => KeyInv'
           /\ \A text \in Owned \cup {Garbled} : TypeWords(text) \/ ScanResult(text) => KeyInv'
<1> USE DEF PanelTypeOK
<1>1. ASSUME OpenSheet PROVE KeyInv'
  <2>1. sheet' = [NoSheet EXCEPT !.step = "chooser", !.url = prefs.url, !.words = panel.acct]
    BY <1>1 DEF OpenSheet
  <2>2. ~sheet'.imported /\ sheet'.step = "chooser"
    BY <2>1 DEF NoSheet
  <2>3. /\ UNCHANGED <<prefs, stored, calls, slips>>
        /\ panel.view = "ready" /\ sheet.step = "none" /\ ~ShowsOn
    BY <1>1 DEF OpenSheet, AtPanel
  <2>4. ~("forget" \notin slips /\ prefs.enabled)
    BY <2>3 DEF PanelInv, PrefsInv, KeyInv, ShowsOn
  <2>5. ~Entered'
    BY <2>2, <2>3 DEF Entered, SheetInv
  <2> QED
    BY <2>3, <2>4, <2>5 DEF KeyInv
<1>2. ASSUME CancelSheet PROVE KeyInv'
  <2>1. UNCHANGED <<prefs, panel, stored, slips>> /\ sheet.step # "none"
    BY <1>2 DEF CancelSheet
  <2>2. Entered' => Entered
    <3>1. CASE sheet.step = "scan"
      BY <1>2, <3>1 DEF CancelSheet, Entered, Sheets
    <3>2. CASE sheet.step # "scan"
      <4>1. sheet' = NoSheet /\ calls' = SheetGone
        BY <1>2, <3>2 DEF CancelSheet
      <4>2. calls'.derive = {[d EXCEPT !.here = FALSE] : d \in calls.derive}
        BY <4>1 DEF SheetGone, Calls
      <4>3. \A d \in calls.derive : ~[d EXCEPT !.here = FALSE].here
        BY DEF Calls, Derivation
      <4> QED
        BY <4>1, <4>2, <4>3 DEF Entered, NoSheet
    <3> QED
      BY <3>1, <3>2
  <2> QED
    BY <2>1, <2>2 DEF KeyInv
<1>3. ASSUME Generate PROVE KeyInv'
  BY <1>3, KeyBySave DEF Generate
<1>4. ASSUME ValidatePaste PROVE KeyInv'
  <2>1. CASE sheet.text \in Words /\ Save(sheet.text, "paste") /\ UNCHANGED sheet
    BY <1>4, <2>1, KeyBySave DEF ValidatePaste
  <2>2. CASE sheet' = [sheet EXCEPT !.imported = FALSE] /\ UNCHANGED <<stored, calls, slips>>
    <3>1. sheet'.step = sheet.step /\ ~sheet'.imported
      BY <2>2 DEF Sheets
    <3> QED
      BY <1>4, <2>2, <3>1, KeyUntouched DEF ValidatePaste, KeyStill
  <2> QED
    BY <1>4, <2>1, <2>2 DEF ValidatePaste
<1>5. ASSUME Tick PROVE KeyInv'
  BY <1>5, KeyUntouched DEF Tick, KeyStill, Sheets
<1>6. ASSUME NEW step \in {"paste", "scan"}, Choose(step) PROVE KeyInv'
  <2>1. /\ UNCHANGED <<prefs, panel, stored, calls, slips>> /\ sheet.step = "chooser"
        /\ sheet'.step = step /\ (sheet'.imported => sheet.imported)
    BY <1>6 DEF Choose, Sheets
  <2> QED
    BY <2>1 DEF KeyInv, Entered
<1>7. ASSUME NEW text \in Owned \cup {Garbled}, TypeWords(text) PROVE KeyInv'
  BY <1>7, KeyUntouched DEF TypeWords, KeyStill, Sheets
<1>8. ASSUME NEW text \in Owned \cup {Garbled}, ScanResult(text) PROVE KeyInv'
  <2>1. CASE text \in Words /\ Save(text, "scan") /\ UNCHANGED sheet
    BY <1>8, <2>1, KeyBySave DEF ScanResult
  <2>2. CASE sheet' = [sheet EXCEPT !.step = "paste"] /\ UNCHANGED <<stored, calls, slips>>
    <3>1. /\ sheet.step = "scan" /\ sheet'.step = "paste" /\ UNCHANGED <<prefs, panel>>
          /\ (sheet'.imported => sheet.imported)
      BY <1>8, <2>2 DEF ScanResult, Sheets
    <3> QED
      BY <2>2, <3>1 DEF KeyInv, Entered
  <2> QED
    BY <1>8, <2>1, <2>2 DEF ScanResult
<1> QED
  BY <1>1, <1>2, <1>3, <1>4, <1>5, <1>6, <1>7, <1>8

LEMMA KeyByAnswer ==
    ASSUME PanelTypeOK, SheetInv, KeyInv
    PROVE  /\ \A d \in calls.derive : Derived(d) => KeyInv'
           /\ \A u \in MaybeUrl : ChangeUrl(u) => KeyInv'
           /\ TestBackend \/ TestAnswered => KeyInv'
           /\ Commit => KeyInv' /\ prefs'.enabled /\ prefs'.resync
<1> USE DEF PanelTypeOK
<1>1. ASSUME NEW d \in calls.derive, Derived(d) PROVE KeyInv'
  <2>1. d.words # NoWords
    BY PanelTyped DEF Calls, Derivation
  <2>2. /\ panel'.view = panel.view /\ panel'.acct = d.words
        /\ calls'.derive = calls.derive \ {d} /\ calls'.forget = calls.forget
        /\ UNCHANGED <<prefs, stored>> /\ ("forget" \in slips => "forget" \in slips')
    BY <1>1 DEF Derived, Panels, Calls
  <2>3. CASE ~d.here
    <3>1. sheet' = sheet
      BY <1>1, <2>3 DEF Derived
    <3> QED
      BY <2>1, <2>2, <3>1 DEF KeyInv, Entered, HasKey
  <2>4. CASE d.here
    BY <2>1, <2>2, <2>4 DEF KeyInv, Entered, HasKey, SheetInv
  <2> QED
    BY <2>3, <2>4
<1>2. ASSUME NEW u \in MaybeUrl, ChangeUrl(u) PROVE KeyInv'
  BY <1>2, KeyUntouched DEF ChangeUrl, KeyStill, Sheets
<1>3. ASSUME TestBackend PROVE KeyInv'
  BY <1>3, KeyUntouched DEF TestBackend, KeyStill, Calls
<1>4. ASSUME TestAnswered PROVE KeyInv'
  BY <1>4, KeyUntouched DEF TestAnswered, KeyStill, Calls, Sheets
<1>5. ASSUME Commit PROVE KeyInv' /\ prefs'.enabled /\ prefs'.resync
  <2>1. prefs'.enabled /\ prefs'.resync
    BY <1>5 DEF Commit, Prefs
  <2>2. /\ sheet' = NoSheet /\ panel'.acct = panel.acct /\ HasKey /\ stored' = stored
        /\ calls' = SheetGone
    BY <1>5 DEF Commit, CanCommit, Panels
  <2>3. calls'.derive = {[d EXCEPT !.here = FALSE] : d \in calls.derive}
    BY <2>2 DEF SheetGone, Calls
  <2>4. \A d \in calls.derive : ~[d EXCEPT !.here = FALSE].here
    BY DEF Calls, Derivation
  <2>5. stored # NoWords
    BY <1>5 DEF Commit, CanCommit, KeyInv, Entered
  <2>6. ~Entered' /\ sheet'.step = "none"
    BY <2>2, <2>3, <2>4 DEF Entered, NoSheet
  <2> QED
    BY <2>1, <2>2, <2>5, <2>6 DEF KeyInv, HasKey
<1> QED
  BY <1>1, <1>2, <1>3, <1>4, <1>5

LEMMA KeyStep ==
    ASSUME AppInv, SheetInv, PanelInv, KeyInv, [Next]_vars
    PROVE  KeyInv'
<1> USE DEF AppInv, AppTypeOK
<1>1. CASE PanelStep /\ UNCHANGED appVars
  BY <1>1, KeyByPanel, KeyByGate, KeyBySheet, KeyByAnswer DEF PanelStep, MaybeUrl
<1>2. CASE CommitStep \/ DisableStep \/ ForgetStep \/ IntervalStep
  BY <1>2, KeyByPanel, KeyByAnswer DEF CommitStep, DisableStep, ForgetStep, IntervalStep
<1>3. CASE PageLoad
  <2>1. /\ panel' = NoPanel /\ sheet' = NoSheet /\ calls' = NoCalls
        /\ UNCHANGED <<prefs, stored>>
    BY <1>3 DEF PageLoad, PanelReset
  <2>2. "forget" \notin slips' /\ prefs'.enabled => "forget" \notin slips /\ calls.forget = "no"
    BY <1>3, <2>1 DEF PageLoad
  <2> QED
    BY <2>1, <2>2 DEF KeyInv, Entered, NoPanel, NoSheet, NoCalls
<1>4. ASSUME NEW i \in Runs,
             \/ ReadWords(i) \/ FinishStart(i)
             \/ PullTimer(i) \/ Flush(i)
             \/ \E c \in engines[i].pulls : PullEnds(i, c)
             \/ ResyncStep(i)
      PROVE  KeyInv'
  <2>1. ResyncEnds(i) => (prefs'.enabled => prefs.enabled)
    BY DEF ResyncEnds, PanelTypeOK, Prefs
  <2>2. /\ UNCHANGED <<stored, panel, sheet, calls>> /\ slips \subseteq slips'
        /\ prefs' = prefs \/ ResyncEnds(i)
    BY <1>4 DEF panelVars, ReadWords, FinishStart, PullTimer, PullEnds, Flush,
       ResyncStep, ResyncCleared, ResyncPulled, RebuildSeals, RebuildLands, RebuildEnds,
       ResyncEnds, Slip
  <2> QED
    BY <2>1, <2>2, KeyUntouched DEF KeyStill
<1>5. CASE EditTask \/ TabHidden \/ TabShown \/ (\E w \in Words : Sealed(w)) \/ UNCHANGED vars
  <2>1. UNCHANGED <<stored, panel, sheet, calls, prefs>> /\ slips \subseteq slips'
    BY <1>5 DEF vars, panelVars, EditTask, TabHidden, TabShown, Sealed, Slip
  <2> QED
    BY <2>1, KeyUntouched DEF KeyStill
<1> QED
  BY <1>1, <1>2, <1>3, <1>4, <1>5 DEF Next

Unslipped == slips \cap {"url", "stale", "early", "cleared", "sealed", "forget"} = {}

\* The cursor counts for account w and backend u and the queue is w's.
Ours(w, u) == cursor \in {StartCursor, At(w, u)} /\ queue \subseteq {w}

\* A start that is under way reads what is stored.
Starting ==
    /\ starts[runId].at # "none" => starts[runId].url = prefs.url
    /\ starts[runId].at = "derive" /\ calls.forget = "no" => starts[runId].words = stored

\* No engine yet, and none that will start over: there is nothing to come between.
Fresh ==
    /\ \A i \in Runs : engines[i] = NoEngine
    /\ sealing = {}
    /\ calls.forget = "no" => Ours(stored, prefs.url)
    /\ starts[runId].at = "derive" => Ours(starts[runId].words, starts[runId].url)

\* An engine is about what is stored.  Its queue was emptied at its start, if it is
\* to start over; its cursor and its pulls are its own once it has.
EngineFits(e) ==
    /\ e.url = prefs.url
    /\ calls.forget = "no" => e.words = stored
    /\ queue \subseteq {e.words}
    /\ e.resync = "clear" => prefs.resync
    /\ e.resync # "clear" => cursor \in Own(e) /\ e.pulls \subseteq Own(e)

OursInv ==
    /\ \A i \in Runs : engines[i] # NoEngine => i < runId \/ i = engine
    /\ engine # 0 => starts[runId].at = "none"
    /\ prefs.enabled /\ (prefs.resync \/ owed # 0) => owed = runId
    /\ Unslipped /\ prefs.enabled =>
          /\ Starting
          /\ engine = 0 /\ ~prefs.resync => Fresh
          /\ engine # 0 => EngineFits(engines[engine])

LEMMA OursInitInv == AppInit => OursInv
<1> SUFFICES ASSUME AppInit PROVE OursInv
  OBVIOUS
<1>1. /\ runId = 1 /\ engine = 0 /\ owed = 0 /\ sealing = {} /\ queue = {}
      /\ engines = [i \in Runs |-> NoEngine] /\ calls = NoCalls /\ ~prefs.resync
  <2>1. ~prefs.resync
    BY DEF AppInit, PanelInit
  <2> QED
    BY <2>1 DEF AppInit, PanelInit
<1>2. prefs.enabled => cursor = At(stored, prefs.url)
  BY DEF AppInit
<1>3. starts[runId].at # "derive" /\ (starts[runId].at # "none" => starts[runId].url = prefs.url)
  BY <1>1, Bounds DEF AppInit, NoStart
<1>4. Starting
  BY <1>3 DEF Starting
<1>5. prefs.enabled => Fresh
  BY <1>1, <1>2, <1>3 DEF Fresh, Ours
<1> QED
  BY <1>1, <1>4, <1>5 DEF OursInv

\* The panel's own steps, seen from the app.
LEMMA PanelStepFits ==
    ASSUME AppInv, SheetInv, PanelInv, KeyInv, PanelStep,
           prefs.enabled, Unslipped'
    PROVE  /\ Unslipped /\ prefs'.url = prefs.url
           /\ calls'.forget = "no" => calls.forget = "no" /\ stored' = stored
<1> USE DEF AppInv, AppTypeOK, PanelTypeOK
<1> DEFINE Goal == /\ Unslipped /\ prefs'.url = prefs.url
                   /\ calls'.forget = "no" => calls.forget = "no" /\ stored' = stored
<1>1. ASSUME prefs'.url = prefs.url, calls'.forget = calls.forget, stored' = stored,
             slips \subseteq slips' \cup {"overlap", "ping", "reveal"}
      PROVE  Goal
  BY <1>1 DEF Unslipped
<1>2. "forget" \notin slips'
  BY DEF Unslipped
<1>3. CASE OpenPanel \/ LoadAccount
  BY <1>1, <1>3 DEF OpenPanel, LoadAccount
<1>4. CASE ClosePanel
  BY <1>4 DEF ClosePanel, Orphaned, Unslipped
<1>5. CASE ForgetClick
  <2>1. calls'.forget = "panel" /\ prefs' = prefs /\ slips \subseteq slips'
    BY <1>5 DEF ForgetClick, Calls
  <2> QED
    BY <2>1 DEF Unslipped
<1>6. CASE Ping \/ Reveal \/ Conceal
  BY <1>1, <1>6 DEF Ping, Reveal, Conceal, Calls
<1>7. CASE SaveUrl
  <2>1. panel.url = prefs.url /\ prefs'.url = panel.url
    BY <1>7 DEF SaveUrl, Unslipped, Prefs
  <2> QED
    BY <1>1, <1>7, <2>1 DEF SaveUrl
<1>8. ASSUME NEW u \in MaybeUrl, TypeUrl(u) \/ ChangeUrl(u) PROVE Goal
  BY <1>1, <1>8 DEF TypeUrl, ChangeUrl
<1>9. ASSUME NEW p \in calls.pings, PingAnswered(p) PROVE Goal
  <2>1. prefs'.url = prefs.url /\ slips \subseteq slips'
    BY <1>9 DEF PingAnswered, Unslipped, Prefs
  <2>2. calls'.forget = calls.forget /\ stored' = stored
    BY <1>9 DEF PingAnswered, Calls
  <2> QED
    BY <1>1, <2>1, <2>2
<1>10. ASSUME NEW pick \in Picks, PickInterval(pick) PROVE Goal
  BY <1>1, <1>10 DEF PickInterval
<1>11. ASSUME NEW g \in calls.gates, GateProbed(g) \/ GateRegistered(g) \/ GateAsserted(g)
       PROVE  Goal
  <2>1. AccountStill
    BY <1>11, StillByPanel
  <2> QED
    BY <1>1, <1>11, <2>1 DEF AccountStill, GateProbed, GateRegistered, GateAsserted
<1>12. CASE OpenSheet \/ Tick \/ TestBackend \/ TestAnswered
  BY <1>1, <1>12 DEF OpenSheet, Tick, TestBackend, TestAnswered, Calls
<1>13. CASE CancelSheet
  BY <1>1, <1>13 DEF CancelSheet, SheetGone, Calls
<1>14. ASSUME NEW step \in {"paste", "scan"}, Choose(step) PROVE Goal
  BY <1>1, <1>14 DEF Choose
<1>15. ASSUME NEW text, TypeWords(text) PROVE Goal
  BY <1>1, <1>15 DEF TypeWords
<1>16. ASSUME NEW text, Generate \/ ValidatePaste \/ ScanResult(text)
       PROVE  Goal
  <2>1. sheet.step # "none" /\ prefs' = prefs
    BY <1>16 DEF Generate, ValidatePaste, ScanResult
  <2>2. "forget" \in slips => "forget" \in slips'
    BY <1>16 DEF Generate, ValidatePaste, ScanResult, Save
  <2> QED
    BY <1>2, <2>1, <2>2 DEF KeyInv
<1>17. ASSUME NEW d \in calls.derive, Derived(d) PROVE Goal
  BY <1>1, <1>17 DEF Derived, Calls
<1> QED
  BY <1>3, <1>4, <1>5, <1>6, <1>7, <1>8, <1>9, <1>10, <1>11, <1>12, <1>13, <1>14, <1>15,
     <1>16, <1>17 DEF PanelStep, MaybeUrl

LEMMA OursByPanel ==
    ASSUME AppInv, SheetInv, PanelInv, KeyInv, OursInv, PanelStep, UNCHANGED appVars
    PROVE  OursInv'
<1>1. prefs'.enabled = prefs.enabled /\ prefs'.resync = prefs.resync
  BY PanelStepKeeps DEF Keeps, AppInv, AppTypeOK
<1>2. ASSUME Unslipped', prefs.enabled
      PROVE  /\ Starting'
             /\ engine = 0 /\ ~prefs.resync => Fresh'
             /\ engine # 0 => EngineFits(engines[engine])'
  <2>1. /\ Unslipped /\ prefs'.url = prefs.url
        /\ calls'.forget = "no" => calls.forget = "no" /\ stored' = stored
    BY <1>2, PanelStepFits
  <2>2. /\ Starting
        /\ engine = 0 /\ ~prefs.resync => Fresh
        /\ engine # 0 => EngineFits(engines[engine])
    BY <1>2, <2>1 DEF OursInv
  <2> QED
    BY <1>1, <2>1, <2>2 DEF Starting, Fresh, EngineFits, Own, Ours, appVars
<1> QED
  BY <1>1, <1>2 DEF OursInv, appVars

\* A new generation begins: the engines there are belong to earlier ones.
LEMMA OursByStart ==
    ASSUME AppInv, OursInv, StartIfEnabled
    PROVE  /\ \A i \in Runs : engines'[i] # NoEngine => i < runId'
           /\ engine' = 0 /\ runId' \in Runs /\ runId' # 0
           /\ starts'[runId'].at # "derive"
           /\ starts'[runId'].at # "none" => starts'[runId'].url = prefs'.url
<1> USE DEF AppInv, AppTypeOK
<1>1. runId \in Nat /\ runId' = runId + 1 /\ runId' \in Runs /\ runId' # 0
  <2>1. MaxRuns \in Nat /\ runId \in Nat /\ 1 =< runId /\ runId < MaxRuns
    BY AppTyped, SMT DEF StartIfEnabled, Runs
  <2> QED
    BY <2>1, SMT DEF StartIfEnabled, Runs
<1>2. ASSUME NEW i \in Runs, engines'[i] # NoEngine PROVE i < runId'
  <2>1. i \in Nat
    BY DEF Runs
  <2>2. i < runId \/ i = engine
    <3>1. i = engine \/ engines'[i] = engines[i]
      BY DEF StartIfEnabled
    <3> QED
      BY <1>2, <3>1 DEF OursInv
  <2>3. i = engine => i = runId
    BY Bounds DEF OneEngine
  <2> QED
    BY <1>1, <2>1, <2>2, <2>3, SMT
<1>3. starts'[runId'].at # "derive" /\ (starts'[runId'].at # "none" => starts'[runId'].url = prefs'.url)
  BY <1>1 DEF StartIfEnabled, NoStart, Starts
<1> QED
  BY <1>1, <1>2, <1>3 DEF StartIfEnabled

LEMMA OursByEvent ==
    ASSUME AppInv, SheetInv, KeyInv, OursInv
    PROVE  /\ CommitStep \/ DisableStep \/ ForgetStep => OursInv'
           /\ IntervalStep => OursInv'
<1> USE DEF AppInv, AppTypeOK
<1>1. ASSUME CommitStep PROVE OursInv'
  <2>1. prefs'.enabled /\ prefs'.resync
    BY <1>1, KeyByAnswer DEF CommitStep
  <2>2. owed' = runId'
    BY <1>1 DEF CommitStep, StartIfEnabled
  <2> QED
    BY <1>1, <2>1, <2>2, OursByStart DEF OursInv, Starting, CommitStep
<1>2. ASSUME DisableStep \/ ForgetStep PROVE OursInv'
  <2>1. ~prefs'.enabled
    BY <1>2 DEF DisableStep, ForgetStep, Disable, ForgetDone, PanelTypeOK, Prefs
  <2> QED
    BY <1>2, <2>1, OursByStart DEF OursInv, DisableStep, ForgetStep
<1>3. ASSUME IntervalStep PROVE OursInv'
  <2>1. /\ (prefs'.enabled <=> prefs.enabled) /\ (prefs'.resync <=> prefs.resync)
        /\ prefs'.url = prefs.url
        /\ UNCHANGED <<stored, calls, slips, runId, engine, starts, owed, cursor, queue, sealing>>
    BY <1>3 DEF IntervalStep, CommitInterval, Others, PanelTypeOK, Prefs
  <2>2. ASSUME NEW i \in Runs
        PROVE  /\ engines'[i] # NoEngine => engines[i] # NoEngine
               /\ engines'[i].words = engines[i].words /\ engines'[i].url = engines[i].url
               /\ engines'[i].pulls = engines[i].pulls /\ engines'[i].resync = engines[i].resync
    <3>1. CASE i = engine /\ engines[i].timers # Off
      <4>1. engines'[i] = [engines[i] EXCEPT !.timers = IF hidden THEN Off ELSE prefs'.interval]
        BY <1>3, <3>1 DEF IntervalStep
      <4>2. engines[i] # NoEngine
        BY <3>1 DEF NoEngine
      <4> QED
        BY <4>1, <4>2 DEF Engines
    <3>2. CASE ~(i = engine /\ engines[i].timers # Off)
      BY <1>3, <3>2 DEF IntervalStep
    <3> QED
      BY <3>1, <3>2
  <2>3. Fresh => Fresh'
    BY <2>1, <2>2 DEF Fresh, Ours
  <2>4. engine # 0 /\ EngineFits(engines[engine]) => EngineFits(engines[engine])'
    <3>1. engine # 0 => engine \in Runs
      BY AppTyped, SMT DEF Runs
    <3> QED
      BY <2>1, <2>2, <3>1 DEF EngineFits, Own, Ours
  <2>5. Unslipped' => Unslipped
    BY <2>1 DEF Unslipped
  <2> QED
    BY <2>1, <2>2, <2>3, <2>4, <2>5 DEF OursInv, Starting
<1> QED
  BY <1>1, <1>2, <1>3

LEMMA OursByRun ==
    ASSUME AppInv, OursInv, NEW i \in Runs
    PROVE  ReadWords(i) \/ FinishStart(i) => OursInv'
<1> USE DEF AppInv, AppTypeOK
<1>0. runId \in Runs /\ runId # 0 /\ i # 0
  BY Bounds
<1>1. ASSUME ReadWords(i) PROVE OursInv'
  <2>1. UNCHANGED <<prefs, stored, calls, slips, runId, engine, engines, owed, cursor, queue, sealing>>
    BY <1>1 DEF ReadWords, panelVars
  <2>2. \/ starts'[runId] = starts[runId]
        \/ starts'[runId] = NoStart
        \/ /\ i = runId
           /\ starts'[runId] = [starts[runId] EXCEPT !.at = "derive", !.words = stored]
           /\ calls.forget = "no" /\ starts[runId].at = "open"
    BY <1>0, <1>1 DEF ReadWords
  <2>3. CASE starts'[runId] = starts[runId]
    BY <2>1, <2>3 DEF OursInv, Starting, Fresh, EngineFits, Own, Ours, Unslipped
  <2>4. CASE starts'[runId] = NoStart
    BY <2>1, <2>4 DEF OursInv, Starting, Fresh, EngineFits, Own, Ours, Unslipped, NoStart
  <2>5. CASE /\ starts'[runId] = [starts[runId] EXCEPT !.at = "derive", !.words = stored]
             /\ calls.forget = "no" /\ starts[runId].at = "open"
    <3>1. /\ starts'[runId].at = "derive" /\ starts'[runId].words = stored
          /\ starts'[runId].url = starts[runId].url
      BY <1>0, <2>5 DEF Starts
    <3> QED
      BY <2>1, <2>5, <3>1 DEF OursInv, Starting, Fresh, EngineFits, Own, Ours, Unslipped
  <2> QED
    BY <2>2, <2>3, <2>4, <2>5
<1>2. ASSUME FinishStart(i) PROVE OursInv'
  <2>1. UNCHANGED <<prefs, stored, calls, slips, runId, owed, cursor, sealing>>
    BY <1>2 DEF FinishStart, panelVars
  <2>2. CASE i # runId
    <3>1. UNCHANGED <<engine, engines, queue>> /\ starts'[runId] = starts[runId]
      BY <1>0, <1>2, <2>2 DEF FinishStart
    <3> QED
      BY <2>1, <3>1 DEF OursInv, Starting, Fresh, EngineFits, Own, Ours, Unslipped
  <2>3. CASE i = runId
    <3> DEFINE s == starts[runId]
               e == Started(s.words, s.url)
    <3>1. /\ engine' = i /\ engine' # 0 /\ engines' = [engines EXCEPT ![i] = e]
          /\ starts'[runId] = NoStart /\ s.at = "derive" /\ queue' = QueueAtStart
      BY <1>0, <1>2, <2>3 DEF FinishStart
    <3>2. engines'[engine'] = e /\ starts'[runId'].at = "none"
      BY <2>1, <3>1 DEF NoStart
    <3>3. \A j \in Runs : engines'[j] # NoEngine => j < runId \/ j = engine'
      BY <2>3, <3>1, Bounds DEF OursInv, OneEngine
    <3>4. ASSUME Unslipped, prefs.enabled PROVE EngineFits(engines[engine])'
      <4>1. e.words = s.words /\ e.url = s.url
        BY DEF Started
      <4>2. s.url = prefs.url /\ (calls.forget = "no" => s.words = stored)
        BY <3>1, <3>4 DEF OursInv, Starting
      <4>3. CASE prefs.resync
        <5>1. e.resync = "clear" /\ queue' = {}
          BY <3>1, <4>3 DEF Started, QueueAtStart
        <5> HIDE DEF s, e
        <5> QED
          BY <2>1, <3>2, <4>1, <4>2, <4>3, <5>1 DEF EngineFits
      <4>4. CASE ~prefs.resync
        <5>1. e.resync = "no" /\ e.pulls = {cursor} /\ queue' = queue
          BY <3>1, <4>4 DEF Started, QueueAtStart
        <5>2. engine = 0
          BY <3>1 DEF OursInv
        <5>3. Ours(s.words, s.url)
          BY <3>1, <3>4, <4>4, <5>2 DEF OursInv, Fresh
        <5> HIDE DEF s, e
        <5> QED
          BY <2>1, <3>2, <4>1, <4>2, <5>1, <5>3 DEF EngineFits, Own, Ours
      <4> QED
        BY <4>3, <4>4
    <3>5. Starting'
      BY <2>1, <3>1 DEF Starting, NoStart
    <3>6. Unslipped' => Unslipped
      BY <2>1 DEF Unslipped
    <3> HIDE DEF e, s
    <3> QED
      BY <2>1, <3>1, <3>2, <3>3, <3>4, <3>5, <3>6 DEF OursInv
  <2> QED
    BY <2>2, <2>3
<1> QED
  BY <1>1, <1>2

LEMMA OursByPageLoad ==
    ASSUME AppInv, SheetInv, KeyInv, OursInv, PageLoad
    PROVE  OursInv'
<1> USE DEF AppInv, AppTypeOK
<1>1. /\ runId' = 1 /\ engine' = 0 /\ sealing' = {} /\ owed' = (IF owed = 0 THEN 0 ELSE 1)
      /\ engines' = [i \in Runs |-> NoEngine] /\ calls' = NoCalls
      /\ UNCHANGED <<prefs, stored, cursor, queue>>
  BY DEF PageLoad, PanelReset
<1>2. starts'[1].at # "derive" /\ (starts'[1].at # "none" => starts'[1].url = prefs.url)
  BY Bounds DEF PageLoad, NoStart
<1>3. runId \in Runs /\ runId # 0
  BY Bounds
<1>4. ASSUME prefs.enabled, prefs.resync \/ owed' # 0 PROVE owed' = 1
  BY <1>1, <1>3, <1>4 DEF OursInv
<1>5. ASSUME Unslipped', prefs.enabled, ~prefs.resync PROVE Ours(stored, prefs.url)
  <2>1. slips' = slips \cup (IF calls.forget # "no" /\ prefs.enabled THEN {"forget"} ELSE {})
    BY DEF PageLoad
  <2>2. calls.forget = "no" /\ Unslipped
    BY <1>5, <2>1 DEF Unslipped
  <2>3. CASE engine = 0
    BY <1>5, <2>2, <2>3 DEF OursInv, Fresh
  <2>4. CASE engine # 0
    BY <1>5, <2>2, <2>4 DEF OursInv, EngineFits, Own, Ours
  <2> QED
    BY <2>3, <2>4
<1>6. Starting'
  BY <1>1, <1>2 DEF Starting
<1>7. ASSUME Unslipped', prefs.enabled, ~prefs.resync PROVE Fresh'
  BY <1>1, <1>2, <1>5, <1>7 DEF Fresh, Ours
<1> QED
  BY <1>1, <1>4, <1>6, <1>7 DEF OursInv

\* A step of an engine's, or about one.
LEMMA OursByEngine ==
    ASSUME OursInv, UNCHANGED <<prefs, stored, runId, engine, starts, owed>>,
           calls' = calls, slips \subseteq slips',
           \A j \in Runs : engines'[j] # NoEngine => engines[j] # NoEngine,
           Unslipped' /\ prefs.enabled /\ engine = 0 /\ ~prefs.resync /\ Fresh => Fresh',
           Unslipped' /\ engine # 0 /\ EngineFits(engines[engine])
              => EngineFits(engines[engine])'
    PROVE  OursInv'
<1>1. Unslipped' => Unslipped
  BY DEF Unslipped
<1>2. Starting => Starting'
  BY DEF Starting
<1> QED
  BY <1>1, <1>2 DEF OursInv

\* An engine with something to do is no NoEngine, and only it changes.
LEMMA BecomesOurs ==
    ASSUME AppInv, NEW i \in Runs, engines[i] # NoEngine, NEW e, Becomes(i, e)
    PROVE  /\ \A j \in Runs : engines'[j] # NoEngine => engines[j] # NoEngine
           /\ \A j \in Runs : j # i => engines'[j] = engines[j]
           /\ e.running => engines'[i] = e
           /\ ~Fresh
BY DEF AppInv, AppTypeOK, Becomes, Fresh

\* What the other engine leaves behind counts for nothing, or the slip is noted.
LEMMA OursByStray ==
    ASSUME AppInv, OursInv, NEW i \in Runs, engines[i] # NoEngine, i # engine, NEW e, Becomes(i, e),
           UNCHANGED <<prefs, stored, runId, engine, starts, owed, queue>>,
           calls' = calls, slips \subseteq slips',
           cursor' \in {cursor, StartCursor} \/ "stale" \in slips' \/ ~Settled(engine)
    PROVE  OursInv'
<1>1. ~Fresh
  BY BecomesOurs
<1>2. ASSUME Unslipped', engine # 0, EngineFits(engines[engine])
      PROVE  EngineFits(engines[engine])'
  <2>1. engine \in Runs
    BY <1>2, AppTyped, SMT DEF AppInv, AppTypeOK, Runs
  <2>2. engines'[engine] = engines[engine]
    BY <2>1, BecomesOurs
  <2>3. "stale" \notin slips'
    BY <1>2 DEF Unslipped
  <2>4. CASE cursor' \in {cursor, StartCursor}
    BY <1>2, <2>2, <2>4 DEF EngineFits, Own
  <2>5. CASE ~Settled(engine)
    <3>1. engines[engine].resync = "clear"
      BY <1>2, <2>5 DEF Settled
    <3> QED
      BY <1>2, <2>2, <3>1 DEF EngineFits
  <2> QED
    BY <2>3, <2>4, <2>5
<1> QED
  BY <1>1, <1>2, BecomesOurs, OursByEngine

\* Nothing is skipped by an answer that counts from an engine's own cursor.
LEMMA AfterOurs ==
    ASSUME NEW e, NEW c \in Own(e)
    PROVE  After(e, c) = At(e.words, e.url)
<1> DEFINE at == At(e.words, e.url)
           gap == c \notin Own(e)
<1>1. gap = FALSE
  OBVIOUS
<1>2. After(e, c) = [at EXCEPT !.gap = gap]
  BY DEF After
<1>3. at.gap = FALSE /\ at = [f \in {"words", "url", "gap"} |-> at[f]]
  BY DEF At
<1> HIDE DEF at, gap
<1>4. [at EXCEPT !.gap = at.gap] = at
  BY <1>3
<1> QED
  BY <1>1, <1>2, <1>3, <1>4 DEF at

LEMMA PullsOurs ==
    ASSUME AppInv, OursInv, NEW i \in Runs
    PROVE  /\ PullTimer(i) \/ Flush(i) => OursInv'
           /\ \A c \in engines[i].pulls : PullEnds(i, c) => OursInv'
<1> USE DEF AppInv, AppTypeOK
<1>0. engines[i] \in Engines
  OBVIOUS
<1>1. ASSUME PullTimer(i) PROVE OursInv'
  <2> DEFINE e == Pulling(engines[i])
  <2>1. /\ UNCHANGED <<prefs, stored, runId, engine, starts, owed, cursor, queue>>
        /\ calls' = calls /\ slips' = slips /\ Becomes(i, e)
    BY <1>1 DEF PullTimer, Others
  <2>2. i = engine /\ engines[i].running /\ engines[i] # NoEngine
    BY <1>1 DEF PullTimer, OneEngine, NoEngine
  <2>3. /\ e.words = engines[i].words /\ e.url = engines[i].url /\ e.running
        /\ e.resync = engines[i].resync /\ e.pulls = engines[i].pulls \cup {cursor}
    BY <1>0, <2>2 DEF Pulling, Engines
  <2> HIDE DEF e
  <2>4. engines'[i] = e
    BY <2>1, <2>2, <2>3, BecomesOurs
  <2>5. EngineFits(engines[engine]) => EngineFits(engines[engine])'
    BY <2>1, <2>2, <2>3, <2>4 DEF EngineFits, Own
  <2> QED
    BY <2>1, <2>2, <2>5, BecomesOurs, OursByEngine
<1>2. ASSUME NEW c \in engines[i].pulls, PullEnds(i, c) PROVE OursInv'
  <2> DEFINE e == [engines[i] EXCEPT !.pulls = @ \ {c}]
  <2>1. /\ UNCHANGED <<prefs, stored, runId, engine, starts, owed, queue>>
        /\ calls' = calls /\ Becomes(i, e)
        /\ \/ cursor' = After(engines[i], c) /\ slips' = slips \cup Strays(i)
           \/ cursor' = cursor /\ slips' = slips
    BY <1>2 DEF PullEnds, Slip, panelVars
  <2>2. engines[i] # NoEngine
    BY DEF NoEngine
  <2>3. CASE i # engine
    <3>1. cursor' = cursor \/ "stale" \in slips' \/ ~Settled(engine)
      BY <2>1, <2>3 DEF Strays
    <3> HIDE DEF e
    <3> QED
      BY <2>1, <2>2, <2>3, <3>1, OursByStray
  <2>4. CASE i = engine
    <3>1. engines[i].running
      BY <2>4 DEF OneEngine
    <3>2. /\ e.words = engines[i].words /\ e.url = engines[i].url
          /\ e.resync = engines[i].resync /\ e.pulls \subseteq engines[i].pulls /\ e.running
      BY <1>0, <3>1 DEF Engines
    <3> HIDE DEF e
    <3>3. engines'[i] = e
      BY <2>1, <2>2, <3>2, BecomesOurs
    <3>4. ASSUME EngineFits(engines[i]), e.resync # "clear" PROVE cursor' \in Own(e)
      <4>1. c \in Own(engines[i]) /\ cursor \in Own(engines[i]) /\ Own(e) = Own(engines[i])
        BY <3>2, <3>4 DEF EngineFits, Own
      <4>2. After(engines[i], c) \in Own(engines[i])
        BY <4>1, AfterOurs DEF Own
      <4> QED
        BY <2>1, <4>1, <4>2
    <3>5. Own(e) = Own(engines[i])
      BY <3>2 DEF Own
    <3>6. EngineFits(engines[engine]) => EngineFits(engines[engine])'
      BY <2>1, <2>4, <3>2, <3>3, <3>4, <3>5 DEF EngineFits, Own
    <3> QED
      BY <2>1, <2>2, <3>6, BecomesOurs, OursByEngine
  <2> QED
    BY <2>3, <2>4
<1>3. ASSUME Flush(i) PROVE OursInv'
  <2>1. /\ UNCHANGED <<prefs, stored, runId, engine, starts, owed, engines, cursor>>
        /\ calls' = calls /\ slips' = slips /\ queue' \subseteq queue
    BY <1>3 DEF Flush, Flushed, panelVars
  <2>2. engines[i] # NoEngine
    BY <1>3 DEF Flush, NoEngine
  <2>3. ~Fresh
    BY <2>2 DEF Fresh
  <2>4. EngineFits(engines[engine]) => EngineFits(engines[engine])'
    BY <2>1 DEF EngineFits, Own
  <2> QED
    BY <2>1, <2>3, <2>4, OursByEngine
<1> QED
  BY <1>1, <1>2, <1>3

\* The pulls that an engine's own reset finds under way are its own, or the slip is
\* noted.
LEMMA ResyncOurs ==
    ASSUME AppInv, OursInv, NEW i \in Runs
    PROVE  ResyncCleared(i) \/ ResyncPulled(i) => OursInv'
<1> USE DEF AppInv, AppTypeOK
<1>0. engines[i] \in Engines /\ (i = engine => engines[i].running)
  BY DEF OneEngine
<1>1. ASSUME ResyncCleared(i) PROVE OursInv'
  <2> DEFINE e == [engines[i] EXCEPT !.resync = "pull"]
  <2>1. /\ UNCHANGED <<prefs, stored, runId, engine, starts, owed, queue>>
        /\ calls' = calls /\ Becomes(i, e) /\ slips' = slips \cup Early(i)
        /\ cursor' = StartCursor
    BY <1>1 DEF ResyncCleared, Slip
  <2>2. engines[i] # NoEngine
    BY <1>1 DEF ResyncCleared, NoEngine
  <2>3. CASE i # engine
    <3> HIDE DEF e
    <3> QED
      BY <2>1, <2>2, <2>3, OursByStray
  <2>4. CASE i = engine
    <3>1. /\ e.words = engines[i].words /\ e.url = engines[i].url
          /\ e.resync = "pull" /\ e.pulls = engines[i].pulls /\ e.running
      BY <1>0, <2>4 DEF Engines
    <3> HIDE DEF e
    <3>2. engines'[i] = e
      BY <2>1, <2>2, <3>1, BecomesOurs
    <3>3. ASSUME Unslipped' PROVE e.pulls \subseteq Own(e)
      <4>1. Early(i) = {}
        BY <2>1, <3>3 DEF Early, Unslipped
      <4> QED
        BY <2>4, <3>1, <4>1 DEF Early, Own
    <3>4. Unslipped' /\ EngineFits(engines[engine]) => EngineFits(engines[engine])'
      BY <2>1, <2>4, <3>1, <3>2, <3>3 DEF EngineFits, Own
    <3> QED
      BY <2>1, <2>2, <3>4, BecomesOurs, OursByEngine
  <2> QED
    BY <2>3, <2>4
<1>2. ASSUME ResyncPulled(i) PROVE OursInv'
  <2> DEFINE e == [engines[i] EXCEPT !.resync = "rebuild"]
  <2>1. /\ UNCHANGED <<prefs, stored, runId, engine, starts, owed, queue>>
        /\ calls' = calls /\ Becomes(i, e)
        /\ \/ cursor' = After(engines[i], StartCursor) /\ slips' = slips \cup Strays(i)
           \/ cursor' = cursor /\ slips' = slips
    BY <1>2 DEF ResyncPulled, Slip, panelVars
  <2>2. engines[i] # NoEngine /\ engines[i].resync = "pull"
    BY <1>2 DEF ResyncPulled, NoEngine
  <2>3. CASE i # engine
    <3>1. cursor' = cursor \/ "stale" \in slips' \/ ~Settled(engine)
      BY <2>1, <2>3 DEF Strays
    <3> HIDE DEF e
    <3> QED
      BY <2>1, <2>2, <2>3, <3>1, OursByStray
  <2>4. CASE i = engine
    <3>1. /\ e.words = engines[i].words /\ e.url = engines[i].url
          /\ e.resync = "rebuild" /\ e.pulls = engines[i].pulls /\ e.running
      BY <1>0, <2>4 DEF Engines
    <3> HIDE DEF e
    <3>2. engines'[i] = e
      BY <2>1, <2>2, <3>1, BecomesOurs
    <3>3. ASSUME EngineFits(engines[engine]) PROVE EngineFits(engines[engine])'
      <4>1. cursor \in Own(engines[i]) /\ engines[i].pulls \subseteq Own(engines[i])
        BY <2>2, <2>4, <3>3 DEF EngineFits
      <4>2. Own(e) = Own(engines[i]) /\ StartCursor \in Own(engines[i])
            /\ At(engines[i].words, engines[i].url) \in Own(engines[i])
        BY <3>1 DEF Own
      <4>3. After(engines[i], StartCursor) = At(engines[i].words, engines[i].url)
        BY <4>2, AfterOurs
      <4>4. cursor' \in Own(e)
        BY <2>1, <4>1, <4>2, <4>3
      <4> QED
        BY <2>1, <2>4, <3>1, <3>2, <3>3, <4>1, <4>2, <4>4 DEF EngineFits, Own
    <3> QED
      BY <2>1, <2>2, <3>3, BecomesOurs, OursByEngine
  <2> QED
    BY <2>3, <2>4
<1> QED
  BY <1>1, <1>2

\* The rest of a resync leaves the pulls and the cursor alone; what it queues is the
\* engine's that App holds, or the slip is noted.
LEMMA RebuildOurs ==
    ASSUME AppInv, OursInv, NEW i \in Runs,
           engines[i].resync \in {"rebuild", "seal"},
           NEW r \in {"rebuild", "seal", "flush"}, NEW w,
           \/ Becomes(i, [engines[i] EXCEPT !.resync = r])
           \/ Becomes(i, [engines[i] EXCEPT !.resync = r, !.seal = w]),
           UNCHANGED <<prefs, stored, runId, engine, starts, owed, cursor>>,
           calls' = calls, slips \subseteq slips',
           Unslipped' /\ engine # 0 => queue' \subseteq queue \cup {engines[engine].words}
    PROVE  OursInv'
<1> USE DEF AppInv, AppTypeOK
<1>1. engines[i] \in Engines /\ (i = engine => engines[i].running)
  BY DEF OneEngine
<1>2. engines[i] # NoEngine
  BY DEF NoEngine
<1>3. PICK e : /\ Becomes(i, e) /\ e.words = engines[i].words /\ e.url = engines[i].url
               /\ e.running = engines[i].running /\ e.pulls = engines[i].pulls /\ e.resync = r
  <2> DEFINE a == [engines[i] EXCEPT !.resync = r]
             b == [engines[i] EXCEPT !.resync = r, !.seal = w]
  <2>1. /\ a.words = engines[i].words /\ a.url = engines[i].url
        /\ a.running = engines[i].running /\ a.pulls = engines[i].pulls /\ a.resync = r
    BY <1>1 DEF Engines
  <2>2. /\ b.words = engines[i].words /\ b.url = engines[i].url
        /\ b.running = engines[i].running /\ b.pulls = engines[i].pulls /\ b.resync = r
    BY <1>1 DEF Engines
  <2>3. Becomes(i, a) \/ Becomes(i, b)
    OBVIOUS
  <2> HIDE DEF a, b
  <2> QED
    BY <2>1, <2>2, <2>3
<1>4. ASSUME Unslipped', engine # 0, EngineFits(engines[engine])
      PROVE  EngineFits(engines[engine])'
  <2>1. engine \in Runs
    BY <1>4, AppTyped, SMT DEF Runs
  <2>2. /\ engines'[engine].words = engines[engine].words
        /\ engines'[engine].url = engines[engine].url
        /\ engines'[engine].pulls = engines[engine].pulls
        /\ engines'[engine].resync = "clear" <=> engines[engine].resync = "clear"
    <3>1. CASE i = engine
      BY <1>1, <1>2, <1>3, <3>1, BecomesOurs
    <3>2. CASE i # engine
      BY <1>2, <1>3, <2>1, <3>2, BecomesOurs
    <3> QED
      BY <3>1, <3>2
  <2> QED
    BY <1>4, <2>2 DEF EngineFits, Own
<1> QED
  BY <1>2, <1>3, <1>4, BecomesOurs, OursByEngine

LEMMA RebuildStepsOurs ==
    ASSUME AppInv, OursInv, NEW i \in Runs
    PROVE  RebuildSeals(i) \/ RebuildLands(i) \/ RebuildEnds(i) => OursInv'
<1>1. ASSUME RebuildSeals(i) PROVE OursInv'
  <2>1. /\ UNCHANGED <<prefs, stored, runId, engine, starts, owed, cursor, queue, slips>>
        /\ calls' = calls /\ engines[i].resync = "rebuild"
        /\ Becomes(i, [engines[i] EXCEPT !.resync = "seal", !.seal = engines[engine].words])
    BY <1>1 DEF RebuildSeals, Others, panelVars
  <2> QED
    BY <2>1, RebuildOurs
<1>2. ASSUME RebuildLands(i) PROVE OursInv'
  <2>1. /\ UNCHANGED <<prefs, stored, runId, engine, starts, owed, cursor>>
        /\ calls' = calls /\ engines[i].resync = "seal"
        /\ Becomes(i, [engines[i] EXCEPT !.resync = "rebuild", !.seal = NoWords])
        /\ queue' = queue \cup {engines[i].seal}
        /\ slips' = slips \cup Crossed(engines[i].seal)
    BY <1>2 DEF RebuildLands, Slip
  <2>2. Unslipped' /\ engine # 0 => engines[engine].words = engines[i].seal
    BY <2>1 DEF Crossed, Unslipped
  <2> QED
    BY <2>1, <2>2, RebuildOurs
<1>3. ASSUME RebuildEnds(i) PROVE OursInv'
  <2>1. /\ UNCHANGED <<prefs, stored, runId, engine, starts, owed, cursor, queue, slips>>
        /\ calls' = calls /\ engines[i].resync = "rebuild"
        /\ Becomes(i, [engines[i] EXCEPT !.resync = "flush"])
    BY <1>3 DEF RebuildEnds, Others, panelVars
  <2> QED
    BY <2>1, RebuildOurs
<1> QED
  BY <1>1, <1>2, <1>3

LEMMA ResyncEndsOurs ==
    ASSUME AppInv, OursInv, NEW i \in Runs, ResyncEnds(i)
    PROVE  OursInv'
<1> USE DEF AppInv, AppTypeOK
<1> DEFINE e == [engines[i] EXCEPT !.resync = "no"]
<1>1. /\ UNCHANGED <<stored, runId, engine, starts, cursor, sealing>>
      /\ calls' = calls /\ Becomes(i, e) /\ queue' \subseteq queue
      /\ slips' = slips \cup (IF i < owed THEN {"cleared"} ELSE {})
      /\ owed' = IF i < owed THEN owed ELSE 0
  BY DEF ResyncEnds, Flushed
<1>2. /\ (prefs'.enabled <=> prefs.enabled) /\ ~prefs'.resync
      /\ prefs'.url = prefs.url
  BY DEF ResyncEnds, PanelTypeOK, Prefs
<1>3. engines[i] # NoEngine /\ engines[i].resync = "flush" /\ engines[i] \in Engines
  BY DEF ResyncEnds, NoEngine
<1>4. e.resync = "no" /\ (i = engine => e.running)
      /\ e.words = engines[i].words /\ e.url = engines[i].url /\ e.pulls = engines[i].pulls
  BY <1>3 DEF Engines, OneEngine
<1> HIDE DEF e
<1>5. /\ \A j \in Runs : engines'[j] # NoEngine => j < runId' \/ j = engine'
      /\ engine' # 0 => starts'[runId'].at = "none"
      /\ prefs'.enabled /\ (prefs'.resync \/ owed' # 0) => owed' = runId'
  BY <1>1, <1>2, <1>3, BecomesOurs DEF OursInv
<1>6. ASSUME Unslipped', prefs.enabled
      PROVE  /\ Starting'
             /\ engine = 0 /\ ~prefs'.resync => Fresh'
             /\ engine # 0 => EngineFits(engines[engine])'
  <2>1. Unslipped /\ ~(i < owed)
    BY <1>1, <1>6 DEF Unslipped
  <2>2. Starting'
    BY <1>1, <1>2, <1>6, <2>1 DEF OursInv, Starting
  <2>3. i # engine => ~prefs.resync
    BY <1>3, <1>6, <2>1 DEF OursInv
  <2>4. engine # 0
    <3>1. SUFFICES ASSUME engine = 0 PROVE FALSE
      OBVIOUS
    <3>2. i # engine
      BY <3>1, Bounds
    <3> QED
      BY <1>1, <1>3, <1>6, <2>1, <2>3, <3>1, <3>2, BecomesOurs DEF OursInv
  <2>5. EngineFits(engines[engine])
    BY <1>6, <2>1, <2>4 DEF OursInv
  <2>6. EngineFits(engines[engine])'
    <3>1. engine \in Runs
      BY <2>4, AppTyped, SMT DEF Runs
    <3>2. CASE i = engine
      <4>1. engines'[i] = e
        BY <1>1, <1>3, <1>4, <3>2, BecomesOurs
      <4> QED
        BY <1>1, <1>2, <1>3, <1>4, <2>5, <3>2, <4>1 DEF EngineFits, Own, Ours
    <3>3. CASE i # engine
      <4>1. engines'[engine] = engines[engine]
        BY <1>1, <1>3, <3>1, <3>3, BecomesOurs
      <4> QED
        BY <1>1, <1>2, <2>3, <2>5, <3>3, <4>1 DEF EngineFits, Own, Ours
    <3> QED
      BY <3>2, <3>3
  <2> QED
    BY <2>2, <2>4, <2>6
<1> QED
  BY <1>1, <1>2, <1>5, <1>6 DEF OursInv

LEMMA EditOurs ==
    ASSUME AppInv, OursInv
    PROVE  /\ EditTask => OursInv'
           /\ \A w \in Words : Sealed(w) => OursInv'
<1>1. ASSUME EditTask PROVE OursInv'
  <2>1. /\ UNCHANGED <<prefs, stored, runId, engine, starts, owed, engines, cursor, queue>>
        /\ calls' = calls /\ slips' = slips /\ engine # 0
    BY <1>1 DEF EditTask
  <2> QED
    BY <2>1, OursByEngine DEF EngineFits, Own, Ours
<1>2. ASSUME NEW w \in Words, Sealed(w) PROVE OursInv'
  <2>1. /\ UNCHANGED <<prefs, stored, runId, engine, starts, owed, engines, cursor>>
        /\ calls' = calls /\ queue' = queue \cup {w} /\ w \in sealing
        /\ slips' = slips \cup Crossed(w)
    BY <1>2 DEF Sealed, Slip
  <2>2. ~Fresh
    BY <2>1 DEF Fresh
  <2>3. ASSUME Unslipped', engine # 0, EngineFits(engines[engine])
        PROVE  EngineFits(engines[engine])'
    <3>1. engines[engine].words = w
      BY <2>1, <2>3 DEF Unslipped, Crossed
    <3> QED
      BY <2>1, <2>3, <3>1 DEF EngineFits, Own, Ours
  <2> QED
    BY <2>1, <2>2, <2>3, OursByEngine
<1> QED
  BY <1>1, <1>2

LEMMA TabOurs ==
    ASSUME AppInv, OursInv
    PROVE  TabHidden \/ TabShown => OursInv'
<1> USE DEF AppInv, AppTypeOK
<1> SUFFICES ASSUME TabHidden \/ TabShown PROVE OursInv'
  OBVIOUS
<1>1. /\ UNCHANGED <<prefs, stored, runId, engine, starts, owed, cursor, queue, sealing>>
      /\ calls' = calls /\ slips' = slips
  BY DEF TabHidden, TabShown, panelVars
<1>2. ASSUME NEW j \in Runs
      PROVE  /\ engines'[j] # NoEngine => engines[j] # NoEngine
             /\ engines'[j].words = engines[j].words /\ engines'[j].url = engines[j].url
             /\ engines'[j].resync = engines[j].resync
             /\ engines'[j].pulls \subseteq engines[j].pulls \cup {cursor}
  <2>1. engines[j] \in Engines
    OBVIOUS
  <2>2. CASE ~engines[j].running
    BY <2>2 DEF TabHidden, TabShown
  <2>3. CASE engines[j].running
    <3>1. engines[j] # NoEngine
      BY <2>3 DEF NoEngine
    <3>2. \/ engines'[j] = [engines[j] EXCEPT !.timers = Off]
          \/ engines'[j] = [Pulling(engines[j]) EXCEPT !.timers = prefs.interval]
      BY <2>3 DEF TabHidden, TabShown
    <3>3. /\ Pulling(engines[j]) \in Engines
          /\ Pulling(engines[j]).words = engines[j].words
          /\ Pulling(engines[j]).url = engines[j].url
          /\ Pulling(engines[j]).resync = engines[j].resync
          /\ Pulling(engines[j]).pulls = engines[j].pulls \cup {cursor}
      BY <2>1 DEF Pulling, Engines
    <3> QED
      BY <2>1, <3>1, <3>2, <3>3 DEF Engines
  <2> QED
    BY <2>2, <2>3
<1>3. Fresh => Fresh'
  BY <1>1, <1>2 DEF Fresh, Ours
<1>4. ASSUME engine # 0, EngineFits(engines[engine]) PROVE EngineFits(engines[engine])'
  <2>1. engine \in Runs
    BY <1>4, AppTyped, SMT DEF Runs
  <2> QED
    BY <1>1, <1>2, <1>4, <2>1 DEF EngineFits, Own, Ours
<1> QED
  BY <1>1, <1>2, <1>3, <1>4, OursByEngine

LEMMA OursStep ==
    ASSUME AppInv, SheetInv, PanelInv, KeyInv, OursInv, [Next]_vars
    PROVE  OursInv'
<1>1. CASE PanelStep /\ UNCHANGED appVars
  BY <1>1, OursByPanel
<1>2. CASE CommitStep \/ DisableStep \/ ForgetStep \/ IntervalStep
  BY <1>2, OursByEvent
<1>3. ASSUME NEW i \in Runs,
             \/ ReadWords(i) \/ FinishStart(i)
             \/ PullTimer(i) \/ Flush(i)
             \/ \E c \in engines[i].pulls : PullEnds(i, c)
             \/ ResyncStep(i)
      PROVE  OursInv'
  BY <1>3, OursByRun, PullsOurs, ResyncOurs, RebuildStepsOurs, ResyncEndsOurs DEF ResyncStep
<1>4. CASE EditTask \/ (\E w \in Words : Sealed(w)) \/ TabHidden \/ TabShown
  BY <1>4, EditOurs, TabOurs
<1>5. CASE PageLoad
  BY <1>5, OursByPageLoad
<1>6. CASE UNCHANGED vars
  BY <1>6 DEF vars, panelVars, appVars, OursInv, Unslipped, Starting, Fresh, EngineFits, Own, Ours
<1> QED
  BY <1>1, <1>2, <1>3, <1>4, <1>5, <1>6 DEF Next

\* What an engine shares is its own, however the page was left, forgotten or
\* switched to another account before: since the last enable, the cursor counts for
\* its account and its backend and skipped nothing, and the queue holds no other
\* account's events (App.tsx:55-118, SyncEngine.ts:197-356).
THEOREM SharedStateKept == Spec => []SharedStateIsOurs
<1>1. ASSUME AppInv, OursInv PROVE SharedStateIsOurs
  <2>1. engine # 0 => prefs.enabled
    BY <1>1 DEF AppInv, OneEngine
  <2> QED
    BY <1>1, <2>1 DEF OursInv, EngineFits, Own, Unslipped, SharedStateIsOurs
<1>2. Spec => KeyInv /\ OursInv
  BY KeyInitInv, OursInitInv DEF Spec, AppInit
<1>3. AppInv /\ SheetInv /\ PanelInv /\ KeyInv /\ [Next]_vars => KeyInv'
  BY KeyStep
<1>4. AppInv /\ SheetInv /\ PanelInv /\ KeyInv /\ OursInv /\ [Next]_vars => OursInv'
  BY OursStep
<1> QED
  BY <1>1, <1>2, <1>3, <1>4, PanelInvariant, PTL DEF Spec
=============================================================================
