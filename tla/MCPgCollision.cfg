SPECIFICATION Spec
CONSTANTS
    A = A
    B = B
    x = x
    y = y
    xy = xy
    Nil = Nil
    EventTypes = {A, B}
    TagValues = {x}
    LeafHash <- MCCollision
    TypeHash <- MCTypeHash
    GlobalHash <- MCGlobalHash
    Writers = {c1, w1, w2}
    Readers = {c1}
    AppendInputs <- Decisions
    ReadQueries <- LeafQuery
    ReadLimits = {1}
    SplitTag <- MCSplitTag
    CopyThreshold = 1
    MaxPos = 3
SYMMETRY WriterSymmetry
INVARIANTS
    NoDeadlock
