SPECIFICATION FairSpec
CONSTANTS
    s1 = s1  s2 = s2
    Streams = {s1, s2}
    PoolSize = 2
    QueueCapacity = 2
    Names <- MCNames
    lower <- MClower
    InitialObjects <- MCObjects
    Scripts <- MixedScripts
    IntMax = 9
    SeqStarts = {0, 8}
    Faults = TRUE
    NoRow = NoRow
    Same = Same
    Null = Null
INVARIANTS SerialHistory LogMatchesHistory AnswerMatchesDatabase SessionIsPrivate
PROPERTIES CallsEnd
CHECK_DEADLOCK FALSE
