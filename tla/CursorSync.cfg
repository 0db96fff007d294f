SPECIFICATION FairSpec
CONSTANTS
    a1 = a1
    r1 = r1
    t1 = t1
    t2 = t2
    NoEvent = NoEvent
    Accounts = {a1}
    Tasks = {t1, t2}
    Readers = {r1}
    Events <- MCEvents
    AccountOf <- MCAccountOf
    MaxSeq = 5
    MaxInFlight = 2
INVARIANTS
    TypeOK
    CursorComplete
PROPERTIES
    WritesLandAfterCursors
    ImplementsLwwMap
    EventDelivered
