SPECIFICATION PartsSpec
CONSTANTS
    Conns = {c1, c2}
    MaxConns = 0
    Parts = {"door"}
INVARIANT DrainWaitsForConns
CHECK_DEADLOCK FALSE
