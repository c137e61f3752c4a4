---------------------------- MODULE MCReadIterator ----------------------------
(***************************************************************************)
(* Finite instances of ReadIterator for TLC.                               *)
(***************************************************************************)
EXTENDS ReadIterator, TLC

Rows(n, data) == [k \in 1..n |-> [pos |-> k, data |-> data, tags |-> {"tag"}]]

\* Results around the batch size of 2: none, a short batch, a full batch, and
\* one row more; an event without data; an unreadable one at the end of the
\* second batch, and one with an empty tag.
MCResults ==
    {Rows(n, "json") : n \in {0, 2, 3}}
    \cup {Rows(1, "nil"), [Rows(4, "json") EXCEPT ![4].data = "bytes"],
          [Rows(1, "json") EXCEPT ![1].tags = {"tag", ""}]}

\* Results that are read to the end.
MCReadable == {Rows(1, "json")}

\* An event whose data is not JSON.
MCOpaque  == {Rows(1, "bytes")}
===============================================================================
