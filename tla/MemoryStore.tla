------------------------------ MODULE MemoryStore ------------------------------
(***************************************************************************)
(* The in-memory store (package memory): Append, Read and Subscribe over   *)
(* one slice of events and one broadcast channel, both guarded by a mutex. *)
(*                                                                         *)
(* What a goroutine does while it holds the mutex is one action; what it   *)
(* does before and after is another.  The slice is in position order (as   *)
(* long as New was given its events in that order), so it is modelled by   *)
(* the set of its rows.  A channel is its generation: Append closes the    *)
(* current one and makes the next, so a generation below `broadcast` is a  *)
(* closed channel.                                                         *)
(***************************************************************************)
EXTENDS EventStore

CONSTANTS
    Writers,         \* goroutines that call Append
    Readers,         \* goroutines that call Read; one may do both
    Subscribers,     \* goroutines that iterate over a subscription
    AppendInputs,    \* argument lists that Append is called with
    ReadQueries,     \* queries that Read and Subscribe are called with
    ReadLimits,      \* values of ReadOptions.Limit; 0 is no limit
    StartAfter,      \* values of SubscribeOptions.After
    Seeds,           \* what New is called with, as sets of rows
    MaxEvents        \* bound: no Append call starts once there are so many

Clients == Writers \cup Readers

ASSUME MemoryStoreAssumption ==
    /\ \A cs \in AppendInputs : cs \in Seq(AppendCommand)
    /\ \A q \in ReadQueries : IsQuery(q)
    /\ ReadLimits \subseteq Nat
    /\ StartAfter \subseteq Nat \cup {Nil}
    /\ \A seed \in Seeds : /\ seed \subseteq Row /\ IsFiniteSet(seed)
                           /\ \A r, s \in seed : r.pos = s.pos => r = s
    /\ MaxEvents \in Nat

VARIABLES
    events,      \* Store.events
    broadcast,   \* Store.broadcast, as the generation of the channel
    pc,          \* where each client is in its call
    cmds,        \* the arguments of its Append call
    rd,          \* the arguments of its Read call
    view,        \* what its reads have told it
    ret,         \* what its last call returned
    sub          \* the iterator of each subscriber

clientVars == <<pc, cmds, rd, view, ret>>
vars == <<events, broadcast, clientVars, sub>>

-------------------------------------------------------------------------------
(***************************************************************************)
(* A subscriber's goroutine: "off" before Subscribe, "failed" if that      *)
(* returned an error, "out" between calls of Next, "loop" at the head of   *)
(* Next's loop, "select" in its select, "done" once Next has returned      *)
(* false.  `first` is the position that the subscription started after,    *)
(* `delivered` what Next has yielded, and `canceled` the last position in  *)
(* the store when ctx was cancelled, Nil before that.                      *)
(***************************************************************************)
Subscription ==
    [pc: {"off", "failed", "out", "loop", "select", "done"}, query: Query, first: Nat,
     position: Nat, pending: SUBSET Row, waitCh: Nat, delivered: Seq(Row),
     canceled: Nat \cup {Nil}]

NoSubscription ==
    [pc |-> "off", query |-> QueryAll, first |-> 0, position |-> 0,
     pending |-> {}, waitCh |-> 0, delivered |-> <<>>, canceled |-> Nil]

TypeOK ==
    /\ events \in SUBSET Row
    /\ broadcast \in Nat
    /\ pc \in [Clients -> {"idle", "append", "read", "return"}]
    /\ cmds \in [Clients -> Seq(AppendCommand)]
    /\ rd \in [Clients -> ReadCall]
    /\ view \in [Clients -> View]
    /\ ret \in [Clients -> Return]
    /\ sub \in [Subscribers -> Subscription]

Init ==
    /\ events \in Seeds
    /\ broadcast = 0
    /\ pc = [c \in Clients |-> "idle"]
    /\ cmds = [c \in Clients |-> <<>>]
    /\ rd = [c \in Clients |-> NoRead]
    /\ view = [c \in Clients |-> NoView]
    /\ ret = [c \in Clients |-> NoReturn]
    /\ sub = [s \in Subscribers |-> NoSubscription]

-------------------------------------------------------------------------------
(***************************************************************************)
(* Append.                                                                 *)
(***************************************************************************)
\* The position of the last row of the slice, which is in position order.
lastPosition(rows) == IF rows = {} THEN 0
                      ELSE CHOOSE p \in {r.pos : r \in rows} : \A r \in rows : r.pos <= p

\* A bug for the model to catch: the counter is used before it is incremented.
NewEventsFromCounter(cs) ==
    { [pos  |-> lastPosition(events) + Cardinality({t \in Slots(cs) : SlotBefore(t, s)}),
       type |-> EventAt(cs, s).type,
       tags |-> EventAt(cs, s).tags] : s \in Slots(cs) }

\* The events of the call, numbered on from the last position.
NewEvents(cs) ==
    { [pos  |-> lastPosition(events) + Cardinality({t \in Slots(cs) : ~SlotBefore(s, t)}),
       type |-> EventAt(cs, s).type,
       tags |-> EventAt(cs, s).tags] : s \in Slots(cs) }

\* ctx is cancelled already, or a condition is not scoped: Append or Read
\* returns without touching the store.
CallRejected(c) ==
    /\ pc[c] = "idle"
    /\ ret' = [ret EXCEPT ![c] = Error]
    /\ UNCHANGED <<events, broadcast, pc, cmds, rd, view, sub>>

AppendCall(c, cs) ==
    /\ pc[c] = "idle"
    /\ ConditionsValid(cs)
    /\ Cardinality(events) < MaxEvents
    /\ pc' = [pc EXCEPT ![c] = "append"]
    /\ cmds' = [cmds EXCEPT ![c] = cs]
    /\ ret' = [ret EXCEPT ![c] = NoReturn]
    /\ UNCHANGED <<events, broadcast, rd, view, sub>>

\* A bug for the model to catch: conditions were checked before the mutex was
\* taken, and are not checked again.
CheckedBefore(c) == TRUE

ConditionsHold(c) == \A i \in DOMAIN cmds[c] : ~Violates(events, cmds[c], i)

\* The error names the first command whose condition is violated.
AppendConditionFails(c) ==
    /\ pc[c] = "append"
    /\ \E i \in DOMAIN cmds[c] :
          /\ Violates(events, cmds[c], i)
          /\ \A j \in 1..(i-1) : ~Violates(events, cmds[c], j)
          /\ ret' = [ret EXCEPT ![c] = [kind |-> "condition", idx |-> i]]
    /\ pc' = [pc EXCEPT ![c] = "return"]
    /\ UNCHANGED <<events, broadcast, cmds, rd, view, sub>>

AppendNothing(c) ==
    /\ pc[c] = "append"
    /\ ConditionsHold(c)
    /\ Slots(cmds[c]) = {}
    /\ ret' = [ret EXCEPT ![c] = Error]
    /\ pc' = [pc EXCEPT ![c] = "return"]
    /\ UNCHANGED <<events, broadcast, cmds, rd, view, sub>>

\* A bug for the model to catch: the channel is not closed, so that nobody
\* who waits on it learns of the new events.
KeptChannel == broadcast

\* The channel is closed and replaced.
NextChannel == broadcast + 1

\* Every condition is checked against the state before the call; then the
\* events are added, and the broadcast channel is closed and replaced.
AppendEvents(c) ==
    /\ pc[c] = "append"
    /\ ConditionsHold(c)
    /\ Slots(cmds[c]) # {}
    /\ events' = events \cup NewEvents(cmds[c])
    /\ broadcast' = NextChannel
    /\ ret' = [ret EXCEPT ![c] = [kind |-> "ok", pos |-> lastPosition(events')]]
    /\ pc' = [pc EXCEPT ![c] = "return"]
    /\ UNCHANGED <<cmds, rd, view, sub>>

AppendReturn(c) ==
    /\ pc[c] = "return"
    /\ pc' = [pc EXCEPT ![c] = "idle"]
    /\ cmds' = [cmds EXCEPT ![c] = <<>>]
    /\ UNCHANGED <<events, broadcast, rd, view, ret, sub>>

-------------------------------------------------------------------------------
(***************************************************************************)
(* Read.  As in the Postgres store, a client starts reading a query or     *)
(* asks for the page after the last row it saw.                            *)
(***************************************************************************)
\* matchingEvents up to its Limit: After, in the direction of the read, and
\* the query.
Matching(rows, o) ==
    {r \in rows :
        /\ o.after # Nil => IF o.backwards THEN r.pos < o.after ELSE IsAfter(r.pos, o.after)
        /\ MatchesQuery(o.query, r)}

BeginRead(c, o) ==
    /\ pc[c] = "idle"
    /\ pc' = [pc EXCEPT ![c] = "read"]
    /\ rd' = [rd EXCEPT ![c] = o]
    /\ ret' = [ret EXCEPT ![c] = NoReturn]
    /\ UNCHANGED <<events, broadcast, cmds, sub>>

ReadFirst(c, q, backwards, limit) ==
    /\ view' = [view EXCEPT ![c] = [query |-> q, backwards |-> backwards, seen |-> {}]]
    /\ BeginRead(c, [query |-> q, after |-> Nil, backwards |-> backwards, limit |-> limit])

ReadMore(c, limit) ==
    /\ \E s \in view[c].seen :
          /\ \A t \in view[c].seen : ~Precedes(s, t, view[c])
          /\ BeginRead(c, [query |-> view[c].query, after |-> s.pos,
                           backwards |-> view[c].backwards, limit |-> limit])
    /\ UNCHANGED view

\* The result is computed under the mutex; iterating over it later does not
\* look at the store again.
ReadEvents(c) ==
    /\ pc[c] = "read"
    /\ LET sel == Matching(events, rd[c])
       IN  \E page \in SUBSET sel :
              /\ IsPage(page, sel, rd[c])
              /\ view' = [view EXCEPT ![c].seen = @ \cup page]
    /\ pc' = [pc EXCEPT ![c] = "idle"]
    /\ rd' = [rd EXCEPT ![c] = NoRead]
    /\ UNCHANGED <<events, broadcast, cmds, ret, sub>>

-------------------------------------------------------------------------------
(***************************************************************************)
(* Subscribe, and the goroutine that calls Next again and again.           *)
(***************************************************************************)
Subscribe(s) ==
    /\ sub[s].pc = "off"
    /\ \E q \in ReadQueries, after \in StartAfter :
          LET first == IF after = Nil THEN 0 ELSE after IN
          sub' = [sub EXCEPT ![s] = [NoSubscription EXCEPT
                    !.pc = "out", !.query = q, !.first = first, !.position = first]]
    /\ UNCHANGED <<events, broadcast, clientVars>>

\* ctx is cancelled already: there is no iterator.
SubscribeRejected(s) ==
    /\ sub[s].pc = "off"
    /\ sub' = [sub EXCEPT ![s].pc = "failed"]
    /\ UNCHANGED <<events, broadcast, clientVars>>

CallNext(s) ==
    /\ sub[s].pc = "out"
    /\ sub' = [sub EXCEPT ![s].pc = "loop"]
    /\ UNCHANGED <<events, broadcast, clientVars>>

\* A bug for the model to catch: the position to resume from is not moved.
KeptPosition(s, r) == sub[s].position

ResumeAfter(s, r) == r.pos

\* Something is pending: its first event becomes current, Next returns true.
NextDeliver(s) ==
    /\ sub[s].pc = "loop"
    /\ \E r \in sub[s].pending :
          /\ \A t \in sub[s].pending : r.pos <= t.pos
          /\ sub' = [sub EXCEPT ![s].pc = "out",
                                ![s].pending = @ \ {r},
                                ![s].position = ResumeAfter(s, r),
                                ![s].delivered = Append(@, r)]
    /\ UNCHANGED <<events, broadcast, clientVars>>

\* Nothing is pending: under the mutex, the events after position and the
\* current channel are taken together.
NextSnapshot(s) ==
    /\ sub[s].pc = "loop"
    /\ sub[s].pending = {}
    /\ LET found == Matching(events, [NoRead EXCEPT !.query = sub[s].query,
                                                    !.after = sub[s].position])
       IN  sub' = [sub EXCEPT ![s].pc = IF found = {} THEN "select" ELSE "loop",
                              ![s].pending = found,
                              ![s].waitCh = broadcast]
    /\ UNCHANGED <<events, broadcast, clientVars>>

\* case <-waitCh
WakeBroadcast(s) ==
    /\ sub[s].pc = "select"
    /\ sub[s].waitCh < broadcast
    /\ sub' = [sub EXCEPT ![s].pc = "loop"]
    /\ UNCHANGED <<events, broadcast, clientVars>>

\* A bug for the model to catch: the select has no case for ctx.
WakeNever(s) == FALSE /\ UNCHANGED vars

\* case <-it.ctx.Done(): Next returns false.
WakeCancel(s) ==
    /\ sub[s].pc = "select"
    /\ sub[s].canceled # Nil
    /\ sub' = [sub EXCEPT ![s].pc = "done"]
    /\ UNCHANGED <<events, broadcast, clientVars>>

\* The owner of the subscription's ctx cancels it.
Cancel(s) ==
    /\ sub[s].pc \notin {"off", "failed", "done"}
    /\ sub[s].canceled = Nil
    /\ sub' = [sub EXCEPT ![s].canceled = lastPosition(events)]
    /\ UNCHANGED <<events, broadcast, clientVars>>

-------------------------------------------------------------------------------
\* A client calls Append or Read.
Call(c) ==
    /\ pc[c] = "idle"
    /\ \/ c \in Writers /\ \E cs \in AppendInputs : AppendCall(c, cs)
       \/ c \in Readers /\ \E limit \in ReadLimits :
             \/ \E q \in ReadQueries, backwards \in BOOLEAN : ReadFirst(c, q, backwards, limit)
             \/ ReadMore(c, limit)

ClientStep(c) ==
    \/ AppendConditionFails(c) \/ AppendNothing(c) \/ AppendEvents(c) \/ AppendReturn(c)
    \/ ReadEvents(c)

SubscriberStep(s) ==
    CallNext(s) \/ NextDeliver(s) \/ NextSnapshot(s) \/ WakeBroadcast(s) \/ WakeCancel(s)

Next ==
    \/ \E c \in Clients : CallRejected(c) \/ Call(c) \/ ClientStep(c)
    \/ \E s \in Subscribers :
          Subscribe(s) \/ SubscribeRejected(s) \/ SubscriberStep(s) \/ Cancel(s)

Spec == Init /\ [][Next]_vars

(***************************************************************************)
(* A goroutine that can run does, and a consumer calls Next again after it *)
(* has returned true.  Nobody is obliged to call Append or to cancel.      *)
(***************************************************************************)
Fairness == /\ \A c \in Clients : WF_vars(ClientStep(c))
            /\ \A s \in Subscribers : WF_vars(SubscriberStep(s))

FairSpec == Spec /\ Fairness

-------------------------------------------------------------------------------
(***************************************************************************)
(* Properties.                                                             *)
(***************************************************************************)

\* The events that the subscription is to yield.
Due(s) == {r \in events : r.pos > sub[s].first /\ MatchesQuery(sub[s].query, r)}

Delivered(s) == {sub[s].delivered[i] : i \in DOMAIN sub[s].delivered}

\* Next yields the due events in position order, each once, and none is
\* passed over, however appends fall between its snapshots.
DeliversInOrder ==
    \A s \in Subscribers :
        /\ Delivered(s) \subseteq Due(s)
        /\ \A i, j \in DOMAIN sub[s].delivered :
              i < j => sub[s].delivered[i].pos < sub[s].delivered[j].pos
        /\ \A r \in Due(s), t \in Delivered(s) : r.pos <= t.pos => r \in Delivered(s)

\* There is no window in which an append is missed: an iterator that waits
\* on a channel still open has yielded everything in the store that is due.
NoLostWakeup ==
    \A s \in Subscribers :
        sub[s].pc = "select" /\ sub[s].waitCh = broadcast => Due(s) \subseteq Delivered(s)

\* An event of the store that is due is yielded in the end, unless the
\* subscription is cancelled.
EventuallyDelivered ==
    \A s \in Subscribers :
        (sub[s].pc \notin {"off", "failed"} /\ Due(s) # {}) ~>
            (Due(s) \subseteq Delivered(s) \/ sub[s].canceled # Nil)

\* A cancelled subscription comes to an end once appends pause.
CancelStops ==
    \A s \in Subscribers : sub[s].canceled # Nil ~> sub[s].pc = "done"

\* What store.go says of Subscribe: new matches are yielded "until ctx is
\* canceled", so that none is that was appended after the cancellation.
NothingNewAfterCancel ==
    \A s \in Subscribers : sub[s].canceled # Nil =>
        \A r \in Delivered(s) : r.pos <= sub[s].canceled

Streams == INSTANCE StreamContract WITH
    log <- events,
    stream <- [s \in Subscribers |->
                  [state |-> CASE sub[s].pc \in {"off", "failed"} -> "none"
                               [] sub[s].pc = "done"           -> "ended"
                               [] OTHER                        -> "open",
                   query |-> sub[s].query, first |-> sub[s].first,
                   delivered |-> sub[s].delivered]],
    Matches <- MatchesQuery, InitialLogs <- Seeds, StreamQueries <- ReadQueries

\* The in-memory subscription implements the contract of Subscribe.
RefinesStream == Streams!Stream

Dcb == INSTANCE DcbContract WITH log <- events, call <- cmds, InitialLogs <- Seeds

\* The in-memory store implements the contract of Append and Read.
RefinesContract == Dcb!Contract
===============================================================================
