------------------------------ MODULE EventStore ------------------------------
(***************************************************************************)
(* The data types of package eventstore, and the matching rules that both  *)
(* stores share.  Event types and tag values are opaque; an event's Data   *)
(* and Metadata are opaque to every operation modelled here and left out.  *)
(*                                                                         *)
(* A stored event ("row") is the record [pos, type, tags]: it has the      *)
(* fields of an event, so every matching operator takes either.            *)
(***************************************************************************)
EXTENDS Integers, Sequences, FiniteSets

CONSTANTS
    EventTypes,   \* the values of Event.Type
    TagValues,    \* the tag values that TagsFrom accepts
    Nil           \* Go's nil: no After position, no Condition

ASSUME NilAssumption == Nil \notin Nat

Position == Nat \ {0}           \* the positions of stored events

Event == [type: EventTypes, tags: SUBSET TagValues]
Row   == [pos: Position, type: EventTypes, tags: SUBSET TagValues]

(***************************************************************************)
(* Queries.  A QueryItem names types and tags; a Query is QueryAll() or    *)
(* the union of a non-empty set of items, each with at least one type      *)
(* (what QueryFromItems enforces).                                         *)
(***************************************************************************)
QueryItem == [types: (SUBSET EventTypes) \ {{}}, tags: SUBSET TagValues]

Query == [all: BOOLEAN, items: SUBSET QueryItem]

QueryAll == [all |-> TRUE, items |-> {}]

QueryFromItems(items) == [all |-> FALSE, items |-> items]

\* The queries that the package's constructors can return.
IsQuery(q) == q \in Query /\ (q.all <=> q.items = {})

(***************************************************************************)
(* memory/matching.go: the reference reading of a query.  An event matches *)
(* an item when its type is listed and it carries every tag of the item.   *)
(***************************************************************************)
MatchesQueryItem(item, ev) == ev.type \in item.types /\ item.tags \subseteq ev.tags

MatchesQuery(q, ev) == q.all \/ \E item \in q.items : MatchesQueryItem(item, ev)

IsAfter(pos, other) == pos > other

\* Does some row at a position strictly after `after` (anywhere if Nil)
\* match the query?
AnyMatchAfter(rows, q, after) ==
    \E r \in rows : /\ after # Nil => IsAfter(r.pos, after)
                    /\ MatchesQuery(q, r)

(***************************************************************************)
(* Append commands: a sequence of events and an optional condition.        *)
(***************************************************************************)
AppendCondition == [failIfEventsMatch: Query, after: Nat \cup {Nil}]

AppendCommand == [events: Seq(Event), condition: AppendCondition \cup {Nil}]

ValidateAppendCondition(cond) ==
    /\ ~cond.failIfEventsMatch.all
    /\ \A item \in cond.failIfEventsMatch.items : item.types # {} /\ item.tags # {}

\* The first loop of Append: every condition is scoped to types and tags.
ConditionsValid(cmds) ==
    \A i \in DOMAIN cmds :
        cmds[i].condition # Nil => ValidateAppendCondition(cmds[i].condition)

\* Command i's condition is violated by some row in `rows`.
Violates(rows, cmds, i) ==
    /\ cmds[i].condition # Nil
    /\ AnyMatchAfter(rows, cmds[i].condition.failIfEventsMatch,
                           cmds[i].condition.after)

(***************************************************************************)
(* The slots <<i, j>> of a call: event j of command i.  Events are written *)
(* in lexicographic slot order.                                            *)
(***************************************************************************)
Slots(cmds) == UNION {{i} \X (DOMAIN cmds[i].events) : i \in DOMAIN cmds}

SlotBefore(s, t) == s[1] < t[1] \/ (s[1] = t[1] /\ s[2] < t[2])

EventAt(cmds, s) == cmds[s[1]].events[s[2]]

(***************************************************************************)
(* Reads: a query with ReadOptions.  A client's view is what its reads of  *)
(* one query, one after the other, have returned.                          *)
(***************************************************************************)
ReadCall == [query: Query, after: Nat \cup {Nil}, backwards: BOOLEAN, limit: Nat]
NoRead   == [query |-> QueryAll, after |-> Nil, backwards |-> FALSE, limit |-> 0]

View   == [query: Query, backwards: BOOLEAN, seen: SUBSET Row]
NoView == [query |-> QueryAll, backwards |-> FALSE, seen |-> {}]

\* Position order, or its reverse for Backwards.
Precedes(r, s, o) == IF o.backwards THEN r.pos > s.pos ELSE r.pos < s.pos

\* The page that a read with options o makes of the rows it selects: a prefix
\* in reading order, cut off at Limit rows unless Limit is zero.
IsPage(page, sel, o) ==
    /\ page \subseteq sel
    /\ \A r \in page, s \in sel : Precedes(s, r, o) => s \in page
    /\ page = sel \/ (o.limit > 0 /\ Cardinality(page) = o.limit)
    /\ o.limit > 0 => Cardinality(page) <= o.limit

\* Append returns a position, an AppendConditionError with the index of the
\* failed command, or another error.
Return   == [kind: {"ok"}, pos: Position] \cup [kind: {"condition"}, idx: Position]
            \cup [kind: {"none", "error"}]
NoReturn == [kind |-> "none"]
Error    == [kind |-> "error"]
===============================================================================
