--------------------------- MODULE MCAppLifecycle ---------------------------
(* Words the user owns and others that may be generated; two backends and a    *)
(* mistyped URL.  Each behaviour is about one story: a first enable, beside      *)
(* another panel, a page load or typing; two enables in a row, of a new and of a *)
(* synced device; edits across a switch; a switch after a forget; a forget cut   *)
(* short; a resync that page loads and a hidden tab interrupt, or that an edit   *)
(* meets; URLs edited; the reveal gate; the interval.                            *)
EXTENDS AppLifecycle, TLC

CONSTANTS o1, o2, g1, u1, u2, u3

MCGestures == {"panel", "sheet", "enter", "url", "ping", "commit", "disable", "forget",
               "reveal", "interval", "load", "edit", "pull", "hide"}

MCPicks == {<<2, "minutes">>, <<60, "minutes">>}

Enable == "sheet" :> 1 @@ "enter" :> 1 @@ "ping" :> 1 @@ "commit" :> 1
Count(f) == f @@ [g \in MCGestures |-> 0]
Fresh(f) == [words |-> NoWords, url |-> NoUrl, budget |-> Count(f)]
Synced(f) == [words |-> o1, url |-> u1, budget |-> Count(f)]

MCScenarios ==
    { Fresh("panel" :> 2 @@ "enter" :> 2 @@ "url" :> 1 @@ "ping" :> 2 @@ Enable),
      Fresh("panel" :> 1 @@ "enter" :> 2 @@ "url" :> 2 @@ "ping" :> 1 @@ "load" :> 1
               @@ Enable),
      Fresh("panel" :> 1 @@ "url" :> 1 @@ "load" :> 2 @@ Enable),
      Fresh("panel" :> 1 @@ "url" :> 1 @@ "disable" :> 1 @@ "sheet" :> 2 @@ "enter" :> 2
               @@ "ping" :> 2 @@ "commit" :> 2),
      Synced("panel" :> 1 @@ "disable" :> 2 @@ "sheet" :> 2 @@ "enter" :> 1 @@ "ping" :> 2
                @@ "commit" :> 2),
      Synced("panel" :> 1 @@ "disable" :> 1 @@ "edit" :> 2 @@ Enable),
      Synced("panel" :> 2 @@ "forget" :> 1 @@ "load" :> 1 @@ "edit" :> 1 @@ Enable),
      Synced("panel" :> 3 @@ "forget" :> 1 @@ "sheet" :> 1 @@ "enter" :> 1 @@ "load" :> 2
                @@ "pull" :> 1),
      Synced("panel" :> 1 @@ "disable" :> 1 @@ "load" :> 2 @@ "pull" :> 1 @@ "hide" :> 1
                @@ Enable),
      Synced("panel" :> 1 @@ "disable" :> 1 @@ "load" :> 2 @@ "edit" :> 1 @@ Enable),
      Synced("panel" :> 2 @@ "url" :> 2 @@ "ping" :> 2 @@ "load" :> 1 @@ "pull" :> 1),
      Synced("panel" :> 2 @@ "reveal" :> 2 @@ "forget" :> 1 @@ "sheet" :> 1 @@ "enter" :> 1),
      Synced("panel" :> 2 @@ "interval" :> 2 @@ "hide" :> 1 @@ "load" :> 1 @@ "disable" :> 1) }
=============================================================================
