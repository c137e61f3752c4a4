SPECIFICATION Spec
CONSTANTS
    A = A
    B = B
    x = x
    y = y
    xy = xy
    Nil = Nil
    EventTypes = {A, B}
    TagValues = {x}
    LeafHash <- MCLeafHash
    TypeHash <- MCTypeHash
    GlobalHash <- MCGlobalHash
    Writers = {c1, c2, c3}
    Readers = {}
    AppendInputs <- ConditionalAppends
    ReadQueries <- NoQuery
    ReadLimits = {0}
    SplitTag <- MCSplitTag
    CopyThreshold = 1
    MaxPos = 4
SYMMETRY Symmetry
INVARIANTS
    TypeOK
    ConditionsHoldUntilCommit
