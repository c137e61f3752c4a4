------------------------------ MODULE Conformance ------------------------------
(***************************************************************************)
(* The sequential tests of the conformance suite (package eventstoretest), *)
(* as data: a test is the sequence of calls that it makes of a fresh       *)
(* store, each with what the test asserts of it.  ConformanceSuite holds   *)
(* the models of the two stores to them, as the suite does with the        *)
(* stores.                                                                 *)
(*                                                                         *)
(* The position of the n-th event of a fresh store is n.  The order within *)
(* a result shows in the tests with a Limit; that a Read is a snapshot is  *)
(* the shape of both models, and its test is left out.                     *)
(***************************************************************************)
EXTENDS EventStore

CONSTANTS A, B, C, tag1, tag2, tag3, unmatched

mustEvent(type, tags) == [type |-> type, tags |-> tags]

mustQuery(types, tags) == QueryFromItems({[types |-> types, tags |-> tags]})

scopedCondition(types, tags, after) ==
    [failIfEventsMatch |-> mustQuery(types, tags), after |-> after]

Command(events, condition) == [events |-> events, condition |-> condition]

\* Calls, with what they must return.
AppendOf(cmds, returns) ==
    [op |-> "append", cmds |-> cmds, options |-> NoRead, returns |-> returns, found |-> {}]

mustAppend(cmds, pos) == AppendOf(cmds, [kind |-> "ok", pos |-> pos])

mustAppendEvent(type, tags, pos) ==
    mustAppend(<<Command(<<mustEvent(type, tags)>>, Nil)>>, pos)

mustRead(query, options, found) ==
    [op |-> "read", cmds |-> <<>>, options |-> [options EXCEPT !.query = query],
     returns |-> NoReturn, found |-> found]

-------------------------------------------------------------------------------
\* Positions that Append returns, and input that it rejects.
testAppend ==
    { <<mustAppendEvent(A, {}, 1), mustAppendEvent(B, {}, 2)>>,
      <<mustAppend(<<Command(<<mustEvent(A, {}), mustEvent(B, {}), mustEvent(C, {})>>, Nil)>>, 3),
        mustRead(QueryAll, NoRead, 1..3)>>,
      <<AppendOf(<<>>, Error)>>,
      <<AppendOf(<<Command(<<>>, Nil)>>, Error)>>,
      <<AppendOf(<<Command(<<mustEvent(A, {})>>,
                           [failIfEventsMatch |-> QueryAll, after |-> Nil])>>, Error)>> }

\* Conditions: nothing matches; something does; it is at After; and one of
\* two commands fails, which leaves the store as it was.
testConditions ==
    LET a      == mustEvent(A, {tag1})
        if     == scopedCondition({A}, {tag1}, Nil)
        given  == mustAppendEvent(A, {tag1}, 1)
        failed(i) == [kind |-> "condition", idx |-> i]
    IN
    { <<mustAppend(<<Command(<<a>>, if)>>, 1)>>,
      <<given, AppendOf(<<Command(<<a>>, if)>>, failed(1))>>,
      <<given, mustAppend(<<Command(<<mustEvent(B, {tag1})>>, [if EXCEPT !.after = 1])>>, 2)>>,
      <<given,
        AppendOf(<<Command(<<mustEvent(B, {})>>, Nil), Command(<<mustEvent(C, {})>>, if)>>,
                 failed(2)),
        mustRead(QueryAll, NoRead, {1})>> }

seedABB == <<mustAppendEvent(A, {tag1}, 1), mustAppendEvent(B, {tag2}, 2),
             mustAppendEvent(B, {tag3}, 3)>>

Backwards == [NoRead EXCEPT !.backwards = TRUE]

\* Bound: events of the test that appends 100 000 at once.
Large == 4

\* An empty store, and a large result.
testReadAll ==
    { <<mustRead(QueryAll, NoRead, {}), mustRead(QueryAll, Backwards, {})>>,
      <<mustAppend(<<Command([i \in 1..Large |-> mustEvent(A, {})], Nil)>>, Large),
        mustRead(QueryAll, NoRead, 1..Large)>> }

\* Either direction, with and without After.
testReadRange ==
    { seedABB \o <<read>> : read \in
      { mustRead(QueryAll, NoRead, 1..3),
        mustRead(QueryAll, Backwards, 1..3),
        mustRead(QueryAll, [NoRead EXCEPT !.after = 2], {3}),
        mustRead(QueryAll, [Backwards EXCEPT !.after = 2], {1}),
        mustRead(QueryAll, [Backwards EXCEPT !.after = 1], {}) } }

testReadFilters ==
    { seedABB \o <<read>> : read \in
      { mustRead(mustQuery({B}, {}), NoRead, {2, 3}),
        mustRead(QueryFromItems({[types |-> {B}, tags |-> {}], [types |-> {A}, tags |-> {}]}),
                 NoRead, 1..3),
        mustRead(mustQuery({A, B}, {tag2}), NoRead, {2}),
        mustRead(mustQuery({A, B}, {unmatched}), NoRead, {}) } }
    \cup
    { <<mustAppendEvent(A, {tag1, tag2}, 1), mustRead(mustQuery({A}, {tag1}), NoRead, {1})>>,
      <<mustAppendEvent(A, {tag2}, 1), mustAppendEvent(B, {tag1}, 2),
        mustRead(mustQuery({A}, {tag1}), NoRead, {})>> }

testReadLimit ==
    LET One == [NoRead EXCEPT !.limit = 1] IN
    { seedABB \o <<read>> : read \in
      { mustRead(QueryAll, One, {1}),
        mustRead(QueryAll, [One EXCEPT !.backwards = TRUE], {3}),
        mustRead(QueryAll, [One EXCEPT !.after = 1], {2}),
        mustRead(mustQuery({B}, {}), [One EXCEPT !.after = 1], {2}) } }

Tests == testAppend \cup testConditions
         \cup testReadAll \cup testReadRange \cup testReadFilters \cup testReadLimit
===============================================================================
