CONSTANTS
    w1 = w1
    r1 = r1
    r2 = r2
    none = none
    Parts = {"inline", "door", "conn", "hub", "client", "pool"}
    Workers <- MCWorkers
    Routes <- MCRoutes
    NoRoute <- MCNoRoute
    MaxRuns = 2
    IdleTicks = 1
SPECIFICATION PartsSpec
INVARIANTS
    OneOwner
    NeverOrphaned
    HandoffSound

    
    
CHECK_DEADLOCK FALSE
