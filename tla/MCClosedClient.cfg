SPECIFICATION PartsSpec
CONSTANTS
    Parts = {"client"}
    Calls <- CloseMixes
INVARIANT CloseFailsCalls
CHECK_DEADLOCK FALSE
