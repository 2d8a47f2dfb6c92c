SPECIFICATION CacheSpec
CONSTANTS
    a = a
    g = g
    KBs = {g, a}
    General = g
    Requests <- MCRequests
    Listings <- MCListings
    Least <- MCLeast
    Similar <- MCSimilar
    Workers = {w1, w2}
    MaxSearches = 2
    Ingested = {a}
    MaxIngests = 1
    L1Ttl = 1
    L2Ttl = 2
    MaxRedisErrors = 1
INVARIANTS StaleInLegacyOverlapped
PROPERTIES AnswerFits
SYMMETRY WorkersAlike
CHECK_DEADLOCK FALSE
