SPECIFICATION FairSpec
CONSTANTS
    Callers = {c1, c2}
    Results <- MCReadable
    Afters = {0, 3}
    PoolSize = 2
    BatchSize = 2
    IntMax = 3
PROPERTIES
    EveryReadEnds
