SPECIFICATION PartsSpec
CONSTANTS
    Parts = {"exchange", "backends", "client", "h2", "dial"}
    Calls <- ClientMixes
INVARIANTS
    
    ClientSound
PROPERTIES
    BackendsSound
    
CHECK_DEADLOCK FALSE
