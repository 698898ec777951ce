SPECIFICATION PartsSpec
CONSTANTS
    Parts = {"out"}
    OutMixes <- ShrinkMixes
    Slots = {c1}
    MaxGen = 1
    MaxUnits = 1
    BufCap = 1
    MaxPending = 1
    Units <- MCWhole
INVARIANT ShrunkFileFails
CHECK_DEADLOCK FALSE
