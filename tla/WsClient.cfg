SPECIFICATION FairSpec
CONSTANTS
    s1 = s1
    s2 = s2
    p1 = p1
    NoSocket = NoSocket
    Sockets = {s1, s2}
    PullSlots = {p1}
    GiveUpAfter = 2
    MaxEvents = 2
    MaxMetas = 2
    MaxSignals = 1
    MaxFaults = 2
CHECK_DEADLOCK FALSE
INVARIANTS
    TypeOK
    OnlySlipsSkip
    LiveIsLive
    NeverStranded
PROPERTIES
    CatchesUp
    BecomesLive
