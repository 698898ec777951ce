SPECIFICATION PartsSpec
CONSTANTS
    Parts = {"conn", "out", "body", "flow", "ws"}
    OutMixes <- MCOutMixes
    Slots = {c1}
    MaxGen = 2
    MaxUnits = 3
    BufCap = 2
    MaxPending = 2
    Units <- MCWhole
INVARIANTS
    ConnSound
    OutSound
    BodySound
    WsSound
PROPERTIES
    
    ReadsAsBlocking
CHECK_DEADLOCK FALSE
