SPECIFICATION CacheSpec
CONSTANTS
    a = a
    g = g
    KBs = {g, a}
    General = g
    Requests <- MCRequests
    Listings <- MCListings
    Least <- MCLeast
    Similar <- MCSimilar
    Workers = {w1}
    MaxSearches = 2
    Ingested = {a}
    MaxIngests = 1
    L1Ttl = 1
    L2Ttl = 2
    MaxRedisErrors = 0
PROPERTIES IngestInvalidates
CHECK_DEADLOCK FALSE
