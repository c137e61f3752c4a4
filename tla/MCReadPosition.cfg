SPECIFICATION Spec
CONSTANTS
    Callers = {c1}
    Results <- MCReadable
    Afters = {0, 3, 4}
    PoolSize = 3
    BatchSize = 2
    IntMax = 3
INVARIANTS
    ReadNeverPanics
