SPECIFICATION FairSpec
CONSTANTS
    a1 = a1
    a2 = a2
    c1 = c1
    c2 = c2
    d1 = d1
    q1 = q1
    q2 = q2
    t1 = t1
    t2 = t2
    NoEvent = NoEvent
    NoSubject = NoSubject
    Accounts = {a1}
    Tasks = {t1, t2}
    Devices = {d1}
    Conns = {c1, c2}
    Requests = {q1}
    Events <- MCTwoEvents
    Batches <- MCOneBatch
    Scopes <- MCTwoSockets
    DeviceOf <- MCDeviceOf
    AccountOf <- MCAccountOf
    MaxBatch = 2
    MaxSeq = 2
    MaxConnections = 1
    MaxPumpRounds = 2
    ChunkSize = 1
CHECK_DEADLOCK FALSE
INVARIANTS
    RegistryExact
PROPERTIES
    ClosedForGood
    DrainEnds
    FanOutDelivered
