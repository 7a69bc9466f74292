SPECIFICATION FairSpec
CONSTANTS
    Threads = {t1, t2, t3}
    MaximumPoolSize = 2
    QueueCapacity <- MCQueueCapacity
    MaxCloseCalls = 2
    MaxExtraCloses = 1
INVARIANTS GaugesConserved ActiveIsExact NoSharing
PROPERTIES KeepsPromise CheckerEnds
CHECK_DEADLOCK FALSE
