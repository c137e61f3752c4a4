SPECIFICATION Spec
CONSTANTS
    Callers = {c1}
    Results <- MCOpaque
    Afters = {0, 3}
    PoolSize = 3
    BatchSize = 2
    IntMax = 3
INVARIANTS
    EventsStayReadable
