SPECIFICATION FairSpec
CONSTANTS
    A = A
    B = B
    x = x
    Nil = Nil
    EventTypes = {A, B}
    TagValues = {x}
    Writers = {w1}
    Subscribers = {s1}
    Published <- MCMatching
    StreamQueries <- MCEveryone
    StartAfter = {Nil}
    PoolSize = 3
    Lossy = FALSE
    MaxPos = 1
INVARIANTS
    NextNeverPanics
CHECK_DEADLOCK FALSE
