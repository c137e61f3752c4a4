SPECIFICATION FairSpec
CONSTANTS
    A = A
    B = B
    x = x
    Nil = Nil
    EventTypes = {A, B}
    TagValues = {x}
    Seeds <- MCSeeds
    ReadQueries <- MCLeafQuery
    Writers = {c1, c2}
    Readers = {c1}
    Subscribers = {s1}
    AppendInputs <- MCAppends
    ReadLimits = {1}
    StartAfter = {Nil}
    MaxEvents = 2
INVARIANTS
    TypeOK
    DeliversInOrder
    NoLostWakeup
PROPERTIES
    RefinesContract
    EventuallyDelivered
    CancelStops
    RefinesStream
