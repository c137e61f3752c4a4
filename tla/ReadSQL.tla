------------------------------- MODULE ReadSQL -------------------------------
(***************************************************************************)
(* The query that Read declares its cursor for (postgres/readsql.go).  A   *)
(* query item filters for its types and, when it has tags, for events that *)
(* share one of them.                                                      *)
(***************************************************************************)
EXTENDS EventStore

\* itemFilterClause: "type IN (...)" and, if the item has tags, "tags && ..."
\* (the event shares a tag with the item).
ItemFilter(item, r) ==
    /\ r.type \in item.types
    /\ item.tags # {} => item.tags \cap r.tags # {}

ReadMatches(q, r) == q.all \/ \E item \in q.items : ItemFilter(item, r)

\* A bug for the models to catch: >= where After is exclusive.
StartsAtAfter(r, o) == o.after # Nil =>
    IF o.backwards THEN r.pos <= o.after ELSE r.pos >= o.after

\* sequence_position > After, or < After for a backwards read.
PastAfter(r, o) == o.after # Nil =>
    IF o.backwards THEN r.pos < o.after ELSE r.pos > o.after

\* A bug for the models to catch: the barrier runs, but its high-water mark
\* does not bound the scan.
AnyHwm(r, o, high) == TRUE

\* And another: the event at the high-water mark is left out.
BelowHwm(r, o, high) == ~o.backwards => r.pos < high

\* sequence_position <= the high-water mark, for forward reads.
WithinHwm(r, o, high) == ~o.backwards => r.pos <= high

\* buildReadSQL: the rows the cursor's query selects in snapshot `visible`.
Selected(visible, o, high) ==
    {r \in visible : PastAfter(r, o) /\ WithinHwm(r, o, high) /\ ReadMatches(o.query, r)}
===============================================================================
