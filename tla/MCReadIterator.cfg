SPECIFICATION FairSpec
CONSTANTS
    Callers = {c1, c2}
    Results <- MCResults
    Afters = {0, 3, 4}
    PoolSize = 2
    BatchSize = 2
    IntMax = 3
INVARIANTS
    TypeOK
    IterationIsComplete
    OnlyUnreadableStops
    PoolConserved
    CloseKeepsConnection
PROPERTIES
    ReadsEnd
CHECK_DEADLOCK FALSE
