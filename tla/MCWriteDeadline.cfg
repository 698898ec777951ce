SPECIFICATION PartsSpec
CONSTANTS
    Parts = {"conn"}
    OutMixes <- MCOutMixes
    Slots = {c1}
    MaxGen = 1
    MaxUnits = 3
    BufCap = 2
    MaxPending = 2
    Units <- MCRequests
INVARIANT ConnWriteDeadline
CHECK_DEADLOCK FALSE
