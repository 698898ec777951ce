SPECIFICATION PartsSpec
CONSTANTS
    Parts = {"conn"}
    OutMixes <- MCOutMixes
    Slots = {c1}
    MaxGen = 1
    MaxUnits = 4
    BufCap = 3
    MaxPending = 1
    Units <- MCParts
INVARIANT ConnHeaderDeadline
CHECK_DEADLOCK FALSE
