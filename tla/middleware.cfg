SPECIFICATION FairSpec
CONSTANTS
    c1 = c1  c2 = c2
    Clients = {c1, c2}
    Cut = {c1}
    Stored <- MCStored
    PageSize = 2
    Rounds = 1
    DbCapacity = 1
    BUFFER_SIZE = 8
    GarbageSizes = {0, 6, 99}
    MaxRequests <- MCMaxRequests
    MaxTorn = 1
    Null = Null
INVARIANTS InStep CloseHasCause
PROPERTIES RequestsEnd
CHECK_DEADLOCK FALSE
