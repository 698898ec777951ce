SPECIFICATION PartsSpec
CONSTANTS
    Clients = {p1, p2}
    Counters = {c1, c2, c3}
    Limit = 1
    Nil = Nil
    Dead <- MCDead
INVARIANTS
    HeldWithinLimit
    HeldCounterIsMapped
    NoShareLost
    CountsSound
    StaticSound
    CacheSound

    
CHECK_DEADLOCK FALSE
