---------------------------- MODULE StreamContract ----------------------------
(***************************************************************************)
(* What eventstore.Store promises to the owner of a subscription, with no  *)
(* polling, notifications or snapshots in sight: the stream yields the     *)
(* matching events after its starting point in position order, each once,  *)
(* and the log never grows behind what a stream has yielded.               *)
(*                                                                         *)
(* What a query matches is the store's affair (Matches).                   *)
(***************************************************************************)
EXTENDS EventStore

CONSTANTS Subscribers, StreamQueries, StartAfter, InitialLogs, Matches(_, _)

VARIABLES
    log,     \* the events of the store
    stream   \* each subscriber's stream

streamVars == <<log, stream>>

\* SubscribeOptions.After; Nil starts from the beginning.
FirstOf(after) == IF after = Nil THEN 0 ELSE after

NoStream == [state |-> "none", query |-> QueryAll, first |-> 0, delivered |-> <<>>]

Init ==
    /\ log \in InitialLogs
    /\ stream = [s \in Subscribers |-> NoStream]

InStream(st, r) == r.pos > st.first /\ Matches(st.query, r)

Yielded(st) == {st.delivered[i] : i \in DOMAIN st.delivered}

Open(s, q, after) ==
    /\ stream[s] = NoStream
    /\ stream' = [stream EXCEPT ![s] =
                    [state |-> "open", query |-> q, first |-> FirstOf(after), delivered |-> <<>>]]
    /\ UNCHANGED log

\* New events come after everything their streams have yielded.
Publish ==
    /\ log \subseteq log'
    /\ \A r \in log' \ log, s \in Subscribers :
          InStream(stream[s], r) => \A t \in Yielded(stream[s]) : r.pos > t.pos
    /\ UNCHANGED stream

\* The first event of the stream that has not been yielded.
Deliver(s) ==
    LET due == {r \in log : InStream(stream[s], r)} \ Yielded(stream[s]) IN
    /\ stream[s].state = "open"
    /\ \E r \in due :
          /\ \A t \in due : r.pos <= t.pos
          /\ stream' = [stream EXCEPT ![s].delivered = Append(@, r)]
    /\ UNCHANGED log

\* The context was cancelled, the iterator failed, or it was closed.
End(s) ==
    /\ stream[s].state = "open"
    /\ stream' = [stream EXCEPT ![s].state = "ended"]
    /\ UNCHANGED log

Next ==
    \/ Publish
    \/ \E s \in Subscribers :
          \/ \E q \in StreamQueries, after \in StartAfter : Open(s, q, after)
          \/ Deliver(s) \/ End(s)

Stream == Init /\ [][Next]_streamVars
===============================================================================
