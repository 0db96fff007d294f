SPECIFICATION FairSpec
CONSTANTS
    o1 = o1
    o2 = o2
    g1 = g1
    u1 = u1
    u2 = u2
    u3 = u3
    NoWords = NoWords
    NoUrl = NoUrl
    Garbled = Garbled
    Words = {o1, o2, g1}
    Owned = {o1, o2}
    Urls = {u1, u2, u3}
    Deployed = {u1, u2}
    Picks <- MCPicks
    Gestures <- MCGestures
    Scenarios <- MCScenarios
    MaxRuns = 5
CHECK_DEADLOCK FALSE
INVARIANTS
    AppTypeOK
    OneEngine
    SharedStateIsOurs
    ResyncOwed
    PanelShows
PROPERTIES
    ResyncDone
    EnabledAsShown
