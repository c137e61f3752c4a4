------------------------------- MODULE MCPgStore -------------------------------
(***************************************************************************)
(* Finite instances of PgStore for TLC.                                    *)
(***************************************************************************)
EXTENDS PgStoreInv, TLC

CONSTANTS
    A, B,      \* event types
    x, y, xy   \* tags; xy is x and y with tagDelimiter in between

\* Distinct keys for distinct names.  The intent keys fall between the leaf
\* keys, so that a lock statement acquires both kinds in mixed order.
MCLeafHash   == [p \in EventTypes \X TagValues |->
                    (IF p[1] = A THEN 10 ELSE 50)
                    + (CASE p[2] = x -> 0 [] p[2] = y -> 20 [] p[2] = xy -> 30)]
MCTypeHash   == [t \in EventTypes |-> IF t = A THEN 60 ELSE 20]
MCGlobalHash == 65

\* Every leaf key is the intent key of its type.
MCCollision  == [p \in EventTypes \X TagValues |-> MCTypeHash[p[1]]]

MCSplitTag == [t \in TagValues |-> IF t = xy THEN {x, y} ELSE {t}]

\* Sound where no client both writes and reads, or all do.
Symmetry == Permutations(Writers) \cup Permutations(Readers)

\* Where one client reads and writes, and the others only write.
WriterSymmetry == Permutations(Writers \ Readers)

-------------------------------------------------------------------------------
Ev(t, tags)     == [type |-> t, tags |-> tags]
Item(ts, tags)  == [types |-> ts, tags |-> tags]
On(ts, tags)    == QueryFromItems({Item(ts, tags)})
If(q, after)    == [failIfEventsMatch |-> q, after |-> after]
Cmd(evs, cond)  == [events |-> evs, condition |-> cond]
Plain(evs)      == <<Cmd(evs, Nil)>>

\* Conditional appends of every shape: guarding their own scope, guarding
\* each other's (write skew), several commands, no event, no scope.
ConditionalAppends ==
    { Plain(<<Ev(A, {x})>>),
      <<Cmd(<<Ev(A, {x})>>, If(On({B}, {x}), Nil))>>,
      <<Cmd(<<Ev(B, {x})>>, If(On({A}, {x}), Nil))>>,
      <<Cmd(<<Ev(A, {x})>>, Nil), Cmd(<<Ev(B, {x})>>, If(On({A, B}, {x}), 1))>>,
      <<Cmd(<<>>, If(On({B}, {x}), Nil)), Cmd(<<Ev(A, {})>>, If(On({A}, {x}), 0))>>,
      Plain(<<>>),
      <<Cmd(<<Ev(A, {x})>>, If(On({A}, {}), Nil))>> }

\* Writers whose leaf locks do not conflict, and one that spans both types.
ScatteredAppends ==
    { Plain(<<Ev(A, {x})>>), Plain(<<Ev(B, {x})>>), Plain(<<Ev(A, {}), Ev(B, {x})>>) }

\* Queries of every lock shape: leaf together with type intent, and global
\* intent.
EveryShape == { QueryFromItems({Item({A}, {}), Item({B}, {x})}), QueryAll }

\* Read-decide-append: the condition is the query of the read, and two
\* writers in its scope do not conflict with each other.
Decisions ==
    { Plain(<<Ev(A, {x})>>), Plain(<<Ev(B, {x})>>) }
    \cup {<<Cmd(<<Ev(A, {x})>>, If(On({A, B}, {x}), after))>> : after \in {1, 2}}

\* Two scopes that do not conflict, a call on both with a condition that
\* fails as soon as anything is there, and a call that is rejected.
Contenders ==
    { Plain(<<Ev(A, {x})>>), Plain(<<Ev(B, {x})>>), Plain(<<>>),
      <<Cmd(<<Ev(A, {x}), Ev(B, {x})>>, If(On({A, B}, {x}), Nil))>> }

\* A call through the stored procedure, with a condition on its own scope.
SmallAppends == { <<Cmd(<<Ev(A, {x})>>, If(On({A}, {x}), Nil))>> }

LeafQuery == { On({A, B}, {x}) }

NoQuery == {}

\* A query for two tags, and an event that has one of them.
OneTagAppends == { Plain(<<Ev(A, {x})>>) }
TwoTagQuery   == { On({A}, {x, y}) }

\* The same event, alone and in a call above the copy threshold; and a call
\* that is rejected, which is possible whatever the store holds.
DelimiterAppends ==
    { Plain(<<Ev(A, {xy})>>), Plain(<<Ev(A, {xy}), Ev(A, {xy})>>), Plain(<<>>) }
===============================================================================
