SPECIFICATION Spec
CONSTANTS
    A = A
    B = B
    x = x
    y = y
    xy = xy
    Nil = Nil
    EventTypes = {A, B}
    TagValues = {x, y, xy}
    LeafHash <- MCLeafHash
    TypeHash <- MCTypeHash
    GlobalHash <- MCGlobalHash
    Writers = {w1}
    Readers = {r1}
    AppendInputs <- DelimiterAppends
    ReadQueries <- NoQuery
    ReadLimits = {0, 1}
    SplitTag <- MCSplitTag
    CopyThreshold = 1
    MaxPos = 2
INVARIANTS
    RowsKeepTheirTags
