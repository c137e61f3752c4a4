------------------------- MODULE MCConformanceSuite -------------------------
(***************************************************************************)
(* The suite for TLC, with three goroutines for the twenty of              *)
(* testConcurrency.                                                        *)
(***************************************************************************)
EXTENDS ConformanceSuite, TLC

CONSTANTS c1, c2, c3

\* Distinct keys, with the intent keys in between.
MCLeafHash   == [p \in EventTypes \X TagValues |->
                    (CASE p[1] = A -> 10 [] p[1] = B -> 20 [] p[1] = C -> 30)
                    + (CASE p[2] = tag1 -> 1 [] p[2] = tag2 -> 2
                         [] p[2] = tag3 -> 3 [] p[2] = unmatched -> 4)]
MCTypeHash   == [t \in EventTypes |-> CASE t = A -> 15 [] t = B -> 25 [] t = C -> 35]
MCGlobalHash == 19
MCSplitTag   == [t \in TagValues |-> {t}]
MCScopeTag   == [c \in Writers |-> CASE c = c1 -> tag1 [] c = c2 -> tag2 [] c = c3 -> tag3]
===============================================================================
