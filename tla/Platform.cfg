\* The modules about configuration, tokens and quotes, one at a time.
SPECIFICATION PlatformSpec
CONSTANTS
    w1 = w1
    w2 = w2
    Nobody = Nobody
    OAuth = OAuth
    Workers = {w1, w2}
    Ttl = 1
    MaxVersions = 3
    MaxClock = 3
    MaxLosses = 1
    Getters = {w1, w2}
    MaxPairs = 3
    MaxFaults = 1
    Conns = {w1, w2}
    s1 = s1
    s2 = s2
    Symbols = {s1, s2}
    PendingMax = 2
    MaxRounds = 1
    MaxRequests = 2
    Texts = {1, 2, 3}
    MaxPreviews = 2
    MaxReplays = 2
SYMMETRY Alike
INVARIANTS
    CacheHolds
    
    
    

    
CHECK_DEADLOCK FALSE
