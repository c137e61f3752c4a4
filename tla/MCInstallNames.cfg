SPECIFICATION Spec
CONSTANTS
    Callers = {c1, c2}
    Conns = {k1, k2}
    TableLength = 61
    MixedCase = FALSE
    Nil = Nil
    MaxDepth = 3
INVARIANTS
    InstalledMeansComplete
