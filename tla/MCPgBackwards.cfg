SPECIFICATION Spec
CONSTANTS
    A = A
    B = B
    x = x
    y = y
    xy = xy
    Nil = Nil
    EventTypes = {A, B}
    TagValues = {x}
    LeafHash <- MCLeafHash
    TypeHash <- MCTypeHash
    GlobalHash <- MCGlobalHash
    Writers = {w1, w2}
    Readers = {r1}
    AppendInputs <- ScatteredAppends
    ReadQueries <- LeafQuery
    ReadLimits = {0, 1}
    SplitTag <- MCSplitTag
    CopyThreshold = 1
    MaxPos = 3
INVARIANTS
    BackwardsReadsNeverSkip
