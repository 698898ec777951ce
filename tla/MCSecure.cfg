SPECIFICATION PartsSpec
CONSTANTS
    Domains = {"a", "b"}
    Admins = {1, 2}
    Readers = {1}
    MaxEntries = 3
    RetryMin = 1
    RetryMax = 2
    Lifetime = 2
    MaxTime = 2
    Mixes <- CertMixes
INVARIANTS
    DefaultCurrent
    
    
    H3Sound
    

    
CHECK_DEADLOCK FALSE
