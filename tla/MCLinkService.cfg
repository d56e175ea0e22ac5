CONSTANTS
    code = code
    other = other
    Codes <- MCCodes
    maker = maker
    rival = rival
    killer = killer
    reader = reader
    Requests <- MCRequests
    MayAsk <- MCMayAsk
    LinkTTLs <- MCLinkTTLs
    CacheTTL = 1
    CacheMax = 1
    MaxCollisions = 1
    Latency = 1
    MaxTime = 4
SPECIFICATION ObservedSpec
INVARIANTS
    TypeOK
    OneWinnerPerCode
    ExpiryHonoured
    DeletionReachesCache
PROPERTIES
    DeletionIsFinal
    StaleAnswersBounded
