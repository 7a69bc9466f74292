SPECIFICATION FairSpec
CONSTANTS
    c1 = c1  c2 = c2  c3 = c3  io1 = io1  io2 = io2
    Clients = {c1, c2, c3}
    Contexts = {io1, io2}
    contextOf <- MCContextOf
    Capacity = 1
    QueueCapacity = 2
    IdleTimeout = 1
    Lifespan = 2
    Uptime = 0
    Waits <- MCWaits
    MaxTime = 1
    MaxInvalidates = 1
    Null = Null
INVARIANTS CellsConserved HandedOutSound TimeoutPending
PROPERTIES KeepsPromise GetsEnd
CHECK_DEADLOCK FALSE
