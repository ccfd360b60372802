CONSTANTS
    Threads = {t1}
    Prefetchers = {f1}
    Workers = {w1}
    QD = 2
    Vector = 2
    Batch = 2
SPECIFICATION FairSpec
INVARIANTS
    TypeOK
    AwaitedIsComplete
    RingsDrained
    OnlyEmptyRoundFails
PROPERTY IoEnds
