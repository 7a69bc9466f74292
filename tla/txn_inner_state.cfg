SPECIFICATION Spec
CONSTANTS
    s1 = s1  s2 = s2
    Streams = {s1, s2}
    PoolSize = 1
    QueueCapacity = 1
    Names <- MCNames
    lower <- MClower
    InitialObjects <- MCObjects
    Scripts <- PlainScripts
    IntMax = 9
    Faults = FALSE
    SeqStarts = {0}
    NoRow = NoRow
    Same = Same
    Null = Null
INVARIANT InnerState
CHECK_DEADLOCK FALSE
