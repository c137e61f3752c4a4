----------------------------- MODULE MCMemoryStore -----------------------------
(***************************************************************************)
(* Finite instances of MemoryStore for TLC.                                *)
(***************************************************************************)
EXTENDS MemoryStore, TLC

CONSTANTS A, B, x

Ev(t, tags)    == [type |-> t, tags |-> tags]
On(ts, tags)   == QueryFromItems({[types |-> ts, tags |-> tags]})
If(q, after)   == [failIfEventsMatch |-> q, after |-> after]
Cmd(evs, cond) == [events |-> evs, condition |-> cond]

\* Conditional, unconditional, of several commands, of no event.
MCAppends ==
    { <<Cmd(<<Ev(B, {x})>>, Nil)>>,
      <<Cmd(<<Ev(A, {x})>>, If(On({A, B}, {x}), 1))>>,
      <<Cmd(<<Ev(A, {})>>, Nil), Cmd(<<Ev(A, {x})>>, If(On({A}, {x}), Nil))>>,
      <<Cmd(<<>>, If(On({B}, {x}), Nil))>> }

MCLeafQuery == { On({A, B}, {x}) }

\* A new store is empty, or seeded with an event at a position of its own.
MCSeeds == { {}, {[pos |-> 2, type |-> A, tags |-> {x}]} }
===============================================================================
