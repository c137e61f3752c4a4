----------------------------- MODULE MCPgSnapshots -----------------------------
(***************************************************************************)
(* Finite instances of PgSnapshots for TLC.                                *)
(***************************************************************************)
EXTENDS MCPgStore, PgSnapshots
===============================================================================
