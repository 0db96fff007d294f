SPECIFICATION Spec
CONSTANTS
    a1 = a1
    t1 = t1
    NoEvent = NoEvent
    Account = a1
    Accounts = {a1}
    Tasks = {t1}
    Devices = {d1}
    Events <- MCEvents
    PullSlots = {p1}
    PushSlots = {q1}
    MaxBatch = 2
    MaxTime = 2
    MaxEdits = 2
    Scopes <- MCResyncScopes
    MaxSeq = 4
    ClocksAgree = TRUE
    Base = {}
CHECK_DEADLOCK FALSE
PROPERTIES
    ResyncUploads
