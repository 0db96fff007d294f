SPECIFICATION Spec
CONSTANTS
    t1 = t1
    t2 = t2
    a1 = a1
    NoEvent = NoEvent
    Account = a1
    Accounts = {a1}
    Tasks = {t1, t2}
    Writers = {w1, w2}
    Events <- MCEvents
    PageSize = 1
    MaxSeq = 4
    IndexLags = TRUE
INVARIANTS
    RowIsNewest
    SeqsDistinct
    OnlyLateMissed
PROPERTY
    ImplementsLwwMap

