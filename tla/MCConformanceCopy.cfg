SPECIFICATION SuiteSpec
CONSTANTS
    A = A
    B = B
    C = C
    tag1 = tag1
    tag2 = tag2
    tag3 = tag3
    unmatched = unmatched
    c1 = c1
    c2 = c2
    c3 = c3
    Nil = Nil
    EventTypes = {A, B, C}
    TagValues = {tag1, tag2, tag3, unmatched}
    LeafHash <- MCLeafHash
    TypeHash <- MCTypeHash
    GlobalHash <- MCGlobalHash
    Writers = {c1, c2, c3}
    Readers = {c1}
    AppendInputs <- RaceInputs
    ReadQueries = {}
    ReadLimits = {}
    SplitTag <- MCSplitTag
    CopyThreshold = 0
    MaxPos = 4
    Tester = c1
    ScopeTag <- MCScopeTag
INVARIANTS
    TestsPass
    RacesPass
