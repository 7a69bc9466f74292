SPECIFICATION FairSpec
CONSTANTS
    r1 = r1  r2 = r2
    Requests = {r1, r2}
    Queries <- MCQueries
    ROSize = 1
    RWSize = 1
    Names <- MCNames
    lower <- MClower
    InitialObjects <- MCObjects
    InitialIndex <- MCIndex
    limitBatchSize = 1
    MaxWrites = 1
    MaxInserts = 1
    MaxCuts = 1
    Faults = TRUE
    NoRow = NoRow
    Null = Null
INVARIANTS AnswersAreGenuine BatchesComplete ConnectionsAccounted
PROPERTIES RequestsEnd
CHECK_DEADLOCK FALSE
