----------------------------- MODULE MCPgSubscribe -----------------------------
(***************************************************************************)
(* Finite instances of PgSubscribe for TLC.                                *)
(***************************************************************************)
EXTENDS PgSubscribe, TLC

CONSTANTS A, B, x

\* One event that the narrow query matches, one that it does not.
MCPublished == { [type |-> A, tags |-> {x}], [type |-> B, tags |-> {x}] }
MCMatching  == { [type |-> A, tags |-> {x}] }

MCNarrow    == { QueryFromItems({[types |-> {A}, tags |-> {x}]}) }
MCEveryone  == { QueryAll }
===============================================================================
