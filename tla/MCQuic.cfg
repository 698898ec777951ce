SPECIFICATION PartsSpec
CONSTANTS
    Conns = {c1, c2, c3}
    MaxConns = 2
    Parts = {"door", "recv", "streams", "packets", "acks", "path", "hub"}
INVARIANTS
    ActiveConnsExact
    MaxConnsRespected
    DrainNotMissed
    
    
    
    HubSound
CHECK_DEADLOCK FALSE
