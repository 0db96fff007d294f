SPECIFICATION Spec
CONSTANTS
    a1 = a1
    a2 = a2
    c1 = c1
    c2 = c2
    d1 = d1
    q1 = q1
    q2 = q2
    t1 = t1
    t2 = t2
    NoEvent = NoEvent
    NoSubject = NoSubject
    Accounts = {a1, a2}
    Tasks = {t1, t2}
    Devices = {d1}
    Conns = {c1, c2}
    Requests = {q1, q2}
    Events <- MCEvents
    Batches <- MCBatches
    Scopes <- MCScopes
    DeviceOf <- MCDeviceOf
    AccountOf <- MCAccountOf
    MaxBatch = 2
    MaxSeq = 3
    MaxConnections = 2
    MaxPumpRounds = 2
    ChunkSize = 1
CHECK_DEADLOCK FALSE
INVARIANTS
    TypeOK
    DeviceCursorComplete
    NoLostWakeup
    AnswerHonest
PROPERTIES
    WritesAuthorised
