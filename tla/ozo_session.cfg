SPECIFICATION Spec
CONSTANTS
    Strategies <- MCStrategies
    Codes <- MCCodes
    Limits <- MCLimits
    BeginWith <- MCBeginWith
    MaxTime = 6
    MaxLate = 1
    MaxStatements = 2
INVARIANTS TriesAsAsked FairShare AtMostOnce FailedAreClosed CommitTellsTruth
CHECK_DEADLOCK FALSE
