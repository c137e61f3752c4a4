------------------------------ MODULE MCInstall ------------------------------
(***************************************************************************)
(* Finite instances of Install for TLC.                                    *)
(***************************************************************************)
EXTENDS Install, TLC

\* The longest table name for which the names of its indexes differ.
LongestTable == 60
===============================================================================
