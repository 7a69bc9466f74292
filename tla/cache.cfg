SPECIFICATION FairSpec
CONSTANTS
    s1 = s1  s2 = s2  t1 = t1  t2 = t2  t3 = t3
    k1 = k1  o1 = o1
    Servers = {s1, s2}
    Threads = {t1, t2, t3}
    serverOf <- MCServerOf
    Keys = {k1}
    Objects = {o1}
    lower <- MCLower
    chars <- MCLength
    bytes <- MCLength
    MAX_TOTAL = 2
    MaxReads = 3
    MaxWrites = 1
    MaxExits <- MCOnlyS2
    MaxEvictions <- MCOnlyS2
    MaxFaults = 1
    NoRow = NoRow
    Null = Null
INVARIANTS CacheGenuine NearHasSource RedisAnswersAgree DatabaseAnswersFresh
PROPERTIES ReadsEnd
CHECK_DEADLOCK FALSE
