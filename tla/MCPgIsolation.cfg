SPECIFICATION SnapSpec
CONSTANTS
    A = A
    B = B
    x = x
    y = y
    xy = xy
    Nil = Nil
    EventTypes = {A, B}
    TagValues = {x}
    LeafHash <- MCLeafHash
    TypeHash <- MCTypeHash
    GlobalHash <- MCGlobalHash
    Writers = {c1, c2}
    Readers = {}
    AppendInputs <- SmallAppends
    ReadQueries <- NoQuery
    ReadLimits = {0}
    SplitTag <- MCSplitTag
    CopyThreshold = 1
    MaxPos = 2
    RepeatableRead = TRUE
INVARIANTS
    ConditionsHoldUntilCommit
