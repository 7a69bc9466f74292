SPECIFICATION FairSpec
CONSTANTS
    MaxOps = 1
    MaxNotices = 0
    OidMaps = {TRUE}
    Timed = {TRUE}
PROPERTY DeadlineInterrupts
CHECK_DEADLOCK FALSE
