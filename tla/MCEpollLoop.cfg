CONSTANTS
    c1 = c1
    c2 = c2
    g1 = g1
    g2 = g2
    none = none
    Conns <- MCConns
    H2Conns <- MCH2Conns
    Goroutines <- MCGoroutines
    Nobody <- MCNobody
    QueueSize = 1
    Rounds = 1
    MaxTasks = 2
SPECIFICATION FairSpec
INVARIANTS
    NoLostWakeup
    TasksBeforeFinish
    LoopSound
PROPERTY
    WorkServed
