SPECIFICATION FairSpec
CONSTANTS
    MaxOps = 3
    MaxNotices = 1
    OidMaps = {TRUE, FALSE}
    Timed = {TRUE, FALSE}
INVARIANTS HandlerOnce NothingLeftBehind
PROPERTIES DeadlineHolds CancelEnds
CHECK_DEADLOCK FALSE
