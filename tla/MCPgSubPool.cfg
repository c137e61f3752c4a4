SPECIFICATION FairSpec
CONSTANTS
    A = A
    B = B
    x = x
    Nil = Nil
    EventTypes = {A, B}
    TagValues = {x}
    Writers = {w1}
    Subscribers = {s1, s2}
    Published <- MCMatching
    StreamQueries <- MCEveryone
    StartAfter = {Nil}
    PoolSize = 2
    Lossy = FALSE
    MaxPos = 1
PROPERTIES
    EventuallyDelivered
CHECK_DEADLOCK FALSE
