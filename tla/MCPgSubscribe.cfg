SPECIFICATION FairSpec
CONSTANTS
    A = A
    B = B
    x = x
    Nil = Nil
    EventTypes = {A, B}
    TagValues = {x}
    Writers = {w1, w2}
    Subscribers = {s1}
    Published <- MCPublished
    StreamQueries <- MCNarrow
    StartAfter = {Nil, 1}
    PoolSize = 3
    Lossy = TRUE
    MaxPos = 3
INVARIANTS
    TypeOK
    DeliversInOrder
    NoLostWakeup
    NothingNewAfterCancel
    StopsCleanly
PROPERTIES
    RefinesStream
    EventuallyDelivered
    CancelStops
CHECK_DEADLOCK FALSE
