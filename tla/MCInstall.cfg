SPECIFICATION FairSpec
CONSTANTS
    Callers = {c1, c2}
    Conns = {k1, k2}
    TableLength <- LongestTable
    MixedCase = FALSE
    Nil = Nil
    MaxDepth = 3
INVARIANTS
    TypeOK
    OneMigrationAtATime
    InstalledMeansComplete
PROPERTIES
    InstallReturns
