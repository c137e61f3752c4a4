------------------------------ MODULE PgSubscribe ------------------------------
(***************************************************************************)
(* Subscribe of the Postgres store (postgres/subscribe.go), with the       *)
(* connection pool and the notifications it depends on.  A subscription    *)
(* keeps one connection for LISTEN; its Next drains the store through Read *)
(* on further connections, then waits for a notification or for the poll   *)
(* interval, and drains again.                                             *)
(*                                                                         *)
(* Append and the barrier appear here as what PgStore shows of them: an    *)
(* append takes its positions first and commits later, and the barrier     *)
(* waits until no uncommitted row matches the query.  The iterator that    *)
(* drain collects is ReadIterator's; here it is the snapshot it iterates   *)
(* over and the connection it holds.                                       *)
(***************************************************************************)
EXTENDS ReadSQL

CONSTANTS
    Writers,         \* goroutines that append
    Subscribers,     \* goroutines that iterate over a subscription
    Published,       \* the events that are appended
    StreamQueries,   \* queries that Subscribe is called with
    StartAfter,      \* values of SubscribeOptions.After
    PoolSize,        \* connections in the pool
    Lossy,           \* may a notification fail to reach a listener?
    MaxPos           \* bound: no position beyond it is taken

ASSUME PgSubscribeAssumption ==
    /\ Published \subseteq Event
    /\ \A q \in StreamQueries : IsQuery(q)
    /\ StartAfter \subseteq Nat \cup {Nil}
    /\ PoolSize \in Nat \ {0}
    /\ Lossy \in BOOLEAN
    /\ MaxPos \in Nat

VARIABLES
    log,    \* committed rows
    seq,    \* last value of the sequence, 0 if unused
    tx,     \* the uncommitted rows of each writer
    sub     \* the iterator of each subscriber

storeVars == <<log, seq, tx>>
vars == <<storeVars, sub>>

-------------------------------------------------------------------------------
(***************************************************************************)
(* A subscriber's goroutine.  In Subscribe: "acquire", "listen".  Between  *)
(* calls of Next: "out".  In Next: "loop" at the head of its loop, in      *)
(* drain "b_acquire" and "barrier" (barrierSnapshot), "r_acquire",         *)
(* "declare" and "collect" (Read and Collect), then "wait".  "done": Next  *)
(* has returned false; "failed": Subscribe has returned an error.          *)
(*                                                                         *)
(* `delivered` is what Next has yielded, `canceled` the log at the moment  *)
(* ctx was cancelled (Nil before), `faulty` whether a connection or a      *)
(* statement has failed, `missed` whether a notification was lost since    *)
(* the last barrier.                                                       *)
(***************************************************************************)
SubPCs == {"off", "acquire", "listen", "out", "loop", "b_acquire", "barrier",
           "r_acquire", "declare", "collect", "wait", "done", "failed", "panic"}

\* Where Next is in progress, in drain, and in drain with a connection.
InNext  == {"loop", "b_acquire", "barrier", "r_acquire", "declare", "collect", "wait"}
InDrain == {"b_acquire", "barrier", "r_acquire", "declare", "collect"}
Reading == {"barrier", "declare", "collect"}

Subscription ==
    [pc: SubPCs, query: Query, first: Nat, position: Nat, hwm: Nat,
     events: SUBSET Row, pending: SUBSET Row, listener: BOOLEAN, inbox: BOOLEAN,
     closed: BOOLEAN, err: BOOLEAN, faulty: BOOLEAN, missed: BOOLEAN,
     canceled: (SUBSET Row) \cup {Nil}, delivered: Seq(Row)]

NoSubscription ==
    [pc |-> "off", query |-> QueryAll, first |-> 0, position |-> 0, hwm |-> 0,
     events |-> {}, pending |-> {}, listener |-> FALSE, inbox |-> FALSE,
     closed |-> FALSE, err |-> FALSE, faulty |-> FALSE, missed |-> FALSE,
     canceled |-> Nil, delivered |-> <<>>]

TypeOK ==
    /\ log \in SUBSET Row
    /\ seq \in Nat
    /\ tx \in [Writers -> SUBSET Row]
    /\ sub \in [Subscribers -> Subscription]

Init ==
    /\ log = {}
    /\ seq = 0
    /\ tx = [w \in Writers |-> {}]
    /\ sub = [s \in Subscribers |-> NoSubscription]

Canceled(s) == sub[s].canceled # Nil

\* Connections taken from the pool: by appends, listeners and drains.
InUse ==
    Cardinality({w \in Writers : tx[w] # {}})
    + Cardinality({s \in Subscribers : sub[s].listener})
    + Cardinality({s \in Subscribers : sub[s].pc \in Reading})

\* pool.Acquire waits for a connection.
PoolFree == InUse < PoolSize

-------------------------------------------------------------------------------
(***************************************************************************)
(* Append, reduced to its effects.                                         *)
(***************************************************************************)
AppendInsert(w) ==
    /\ tx[w] = {} => PoolFree
    /\ seq < MaxPos
    /\ seq' = seq + 1
    /\ \E ev \in Published :
          tx' = [tx EXCEPT ![w] = @ \cup {[pos |-> seq + 1, type |-> ev.type, tags |-> ev.tags]}]
    /\ UNCHANGED <<log, sub>>

\* A bug for the model to catch: LISTEN lasts only as long as a wait.
HearsWhileWaiting(s) == sub[s].listener /\ sub[s].pc = "wait"

\* After LISTEN, the connection keeps a notification until the next wait.
Hears(s) == sub[s].listener /\ sub[s].pc # "listen"

\* pg_notify takes effect at commit.
AppendCommit(w) ==
    /\ tx[w] # {}
    /\ log' = log \cup tx[w]
    /\ tx' = [tx EXCEPT ![w] = {}]
    /\ LET hearing == {s \in Subscribers : Hears(s)} IN
       \E heard \in SUBSET hearing :
          /\ ~Lossy => heard = hearing
          /\ sub' = [s \in Subscribers |-> [sub[s] EXCEPT
                       !.inbox = @ \/ s \in heard,
                       !.missed = @ \/ s \in hearing \ heard]]
    /\ UNCHANGED seq

AppendAbort(w) ==
    /\ tx[w] # {}
    /\ tx' = [tx EXCEPT ![w] = {}]
    /\ UNCHANGED <<log, seq, sub>>

-------------------------------------------------------------------------------
(***************************************************************************)
(* Subscribe.                                                              *)
(***************************************************************************)
Subscribe(s) ==
    /\ sub[s].pc = "off"
    /\ \E q \in StreamQueries, after \in StartAfter :
          LET first == IF after = Nil THEN 0 ELSE after IN
          sub' = [sub EXCEPT ![s] = [NoSubscription EXCEPT
                    !.pc = "acquire", !.query = q, !.first = first, !.position = first]]
    /\ UNCHANGED storeVars

AcquireListener(s) ==
    /\ sub[s].pc = "acquire"
    /\ PoolFree
    /\ ~Canceled(s)
    /\ sub' = [sub EXCEPT ![s].pc = "listen", ![s].listener = TRUE]
    /\ UNCHANGED storeVars

Listen(s) ==
    /\ sub[s].pc = "listen"
    /\ sub' = [sub EXCEPT ![s].pc = "out"]
    /\ UNCHANGED storeVars

\* The context ends, or a fault strikes; the connection is released.
SubscribeFails(s, fault) ==
    /\ sub[s].pc \in {"acquire", "listen"}
    /\ fault \/ Canceled(s)
    /\ sub' = [sub EXCEPT ![s].pc = "failed", ![s].listener = FALSE]
    /\ UNCHANGED storeVars

-------------------------------------------------------------------------------
(***************************************************************************)
(* Next.                                                                   *)
(***************************************************************************)
CallNext(s) ==
    /\ sub[s].pc = "out"
    /\ sub' = [sub EXCEPT ![s].pc = IF sub[s].err \/ sub[s].closed THEN "done" ELSE "loop"]
    /\ UNCHANGED storeVars

NextDeliver(s) ==
    /\ sub[s].pc = "loop"
    /\ \E r \in sub[s].pending :
          /\ \A t \in sub[s].pending : r.pos <= t.pos
          /\ sub' = [sub EXCEPT ![s].pc = "out",
                                ![s].pending = @ \ {r},
                                ![s].position = r.pos,
                                ![s].delivered = Append(@, r)]
    /\ UNCHANGED storeVars

\* it.ctx.Err() != nil
NextCanceled(s) ==
    /\ sub[s].pc = "loop"
    /\ sub[s].pending = {}
    /\ Canceled(s)
    /\ sub' = [sub EXCEPT ![s].pc = "done"]
    /\ UNCHANGED storeVars

NextDrain(s) ==
    /\ sub[s].pc = "loop"
    /\ sub[s].pending = {}
    /\ ~Canceled(s)
    /\ sub' = [sub EXCEPT ![s].pc = "b_acquire"]
    /\ UNCHANGED storeVars

(***************************************************************************)
(* drain.  Acquire and FETCH give up when ctx is already done; a statement *)
(* that was sent before may still succeed.                                 *)
(***************************************************************************)
\* A bug for the model to catch: drain reads with a context of its own.
BackgroundDone(s) == FALSE

\* The context that drain hands to Read is the subscription's.
ReadCtxDone(s) == Canceled(s)

AcquireRead(s) ==
    /\ sub[s].pc \in {"b_acquire", "r_acquire"}
    /\ PoolFree
    /\ ~ReadCtxDone(s)
    /\ sub' = [sub EXCEPT ![s].pc = IF @ = "b_acquire" THEN "barrier" ELSE "declare"]
    /\ UNCHANGED storeVars

\* A bug for the model to catch: the barrier takes no locks.
BarrierTakesNoLocks(s) == TRUE

\* The barrier's locks are granted once no uncommitted row matches.
BarrierGranted(s) == \A w \in Writers : \A r \in tx[w] : ~ReadMatches(sub[s].query, r)

\* A bug for the model to catch: the last value is NULL until the sequence
\* is used, and COALESCE is forgotten.
LastValueOrNull == IF seq = 0 THEN Nil ELSE seq

LastValue == seq

\* barrierSnapshot returns the high-water mark and its connection.
Barrier(s) ==
    /\ sub[s].pc = "barrier"
    /\ BarrierGranted(s)
    /\ sub' = [sub EXCEPT ![s].pc = "r_acquire", ![s].hwm = LastValue,
                          ![s].missed = FALSE]
    /\ UNCHANGED storeVars

Declare(s) ==
    /\ sub[s].pc = "declare"
    /\ sub' = [sub EXCEPT ![s].pc = "collect",
                          ![s].events = Selected(log, [NoRead EXCEPT
                                          !.query = sub[s].query,
                                          !.after = sub[s].position], sub[s].hwm)]
    /\ UNCHANGED storeVars

\* Collect reads to the end of the cursor and closes the iterator.  With
\* nothing found, Next goes on to wait on the listener's connection, which a
\* concurrent Close may have taken away.
Collect(s) ==
    /\ sub[s].pc = "collect"
    /\ ~ReadCtxDone(s)
    /\ sub' = [sub EXCEPT ![s].pc = IF sub[s].events # {} THEN "loop"
                                    ELSE IF sub[s].listener THEN "wait" ELSE "panic",
                          ![s].pending = sub[s].events,
                          ![s].events = {},
                          ![s].hwm = 0]
    /\ UNCHANGED storeVars

\* A failure counts as an error only while ctx is not done.
IsError(s) == ~Canceled(s)

\* The drain gives its connection back and Next returns false.
DrainFails(s, fault) ==
    /\ sub[s].pc \in InDrain
    /\ fault \/ ReadCtxDone(s)
    /\ sub' = [sub EXCEPT ![s].pc = "done",
                          ![s].events = {},
                          ![s].hwm = 0,
                          ![s].err = IsError(s),
                          ![s].faulty = @ \/ fault]
    /\ UNCHANGED storeVars

(***************************************************************************)
(* The wait, and what Next makes of its outcome: a notification, the end   *)
(* of the poll interval, the end of ctx, or the loss of the connection,    *)
(* which Close brings about if it is called under the wait.                *)
(***************************************************************************)
Notified(s) == IF sub[s].inbox THEN {"notified"} ELSE {}
CtxEnded(s) == IF Canceled(s) THEN {"ended"} ELSE {}

\* Bugs for the model to catch: waitCtx is it.ctx, without the timeout; and
\* it is a background context.
WaitWithoutPoll(s)  == {"lost"} \cup Notified(s) \cup CtxEnded(s)
WaitOnBackground(s) == {"lost"} \cup Notified(s)

\* What WaitForNotification(waitCtx) may return; several may race.
WaitOutcomes(s) == {"lost", "deadline"} \cup Notified(s) \cup CtxEnded(s)

\* A bug for the model to catch: only a notification is expected.
GoesOnIfNotified(s, outcome) == outcome = "notified"

\* The deadline is waitCtx's, unless it.ctx has ended too.
GoesOn(s, outcome) == outcome = "notified" \/ (outcome = "deadline" /\ ~Canceled(s))

WaitEnds(s, outcome) ==
    /\ sub[s].pc = "wait"
    /\ outcome \in WaitOutcomes(s)
    /\ sub' = [sub EXCEPT ![s].pc = IF GoesOn(s, outcome) THEN "loop" ELSE "done",
                          ![s].inbox = @ /\ outcome # "notified",
                          ![s].err = ~GoesOn(s, outcome) /\ IsError(s),
                          ![s].faulty = @ \/ outcome = "lost"]
    /\ UNCHANGED storeVars

-------------------------------------------------------------------------------
(***************************************************************************)
(* Close, and the owner of ctx.                                            *)
(***************************************************************************)
\* it.closed = true.  The caller may be in Next, on another goroutine.
CloseMark(s) ==
    /\ sub[s].listener
    /\ sub[s].pc \in {"out", "done"} \cup InNext
    /\ ~sub[s].closed
    /\ sub' = [sub EXCEPT ![s].closed = TRUE]
    /\ UNCHANGED storeVars

\* UNLISTEN and Release.
CloseRelease(s) ==
    /\ sub[s].closed
    /\ sub[s].listener
    /\ sub' = [sub EXCEPT ![s].listener = FALSE, ![s].inbox = FALSE]
    /\ UNCHANGED storeVars

Cancel(s) ==
    /\ sub[s].pc \notin {"off", "done", "failed", "panic"}
    /\ ~Canceled(s)
    /\ sub' = [sub EXCEPT ![s].canceled = log]
    /\ UNCHANGED storeVars

-------------------------------------------------------------------------------
Acquire(s) == AcquireListener(s) \/ AcquireRead(s)

\* What a subscriber's goroutine does without waiting for others.
Step(s) ==
    \/ Listen(s) \/ CallNext(s) \/ NextDeliver(s) \/ NextCanceled(s) \/ NextDrain(s)
    \/ Declare(s) \/ Collect(s)
    \/ \E outcome \in {"notified", "deadline", "ended"} : WaitEnds(s, outcome)

Next ==
    \/ \E w \in Writers : AppendInsert(w) \/ AppendCommit(w) \/ AppendAbort(w)
    \/ \E s \in Subscribers :
          \/ Subscribe(s) \/ Acquire(s) \/ Barrier(s) \/ Step(s)
          \/ \E fault \in BOOLEAN : SubscribeFails(s, fault) \/ DrainFails(s, fault)
          \/ WaitEnds(s, "lost") \/ CloseMark(s) \/ CloseRelease(s) \/ Cancel(s)

Spec == Init /\ [][Next]_vars

(***************************************************************************)
(* Goroutines that can run do, a consumer keeps calling Next, and a call   *)
(* whose ctx is done returns.  The pool serves its waiters in order and    *)
(* the server grants the barrier's locks in order, so what is possible     *)
(* again and again happens.  A call of Append ends, and so does the poll   *)
(* interval; a consumer that was told there are no more events closes.     *)
(***************************************************************************)
Fairness ==
    /\ \A w \in Writers : WF_vars(AppendCommit(w) \/ AppendAbort(w))
    /\ \A s \in Subscribers :
          /\ WF_vars(Step(s))
          /\ SF_vars(Acquire(s)) /\ SF_vars(Barrier(s))
          /\ WF_vars(SubscribeFails(s, FALSE) \/ DrainFails(s, FALSE))
          /\ WF_vars(sub[s].pc = "done" /\ CloseMark(s)) /\ WF_vars(CloseRelease(s))

FairSpec == Spec /\ Fairness

-------------------------------------------------------------------------------
(***************************************************************************)
(* Properties.                                                             *)
(***************************************************************************)
Subscribed(s) == sub[s].pc \notin {"off", "acquire", "listen", "failed"}

\* The committed events that the subscription is to yield.
Due(s) == {r \in log : r.pos > sub[s].first /\ ReadMatches(sub[s].query, r)}

Delivered(s) == {sub[s].delivered[i] : i \in DOMAIN sub[s].delivered}

\* Next yields the due events in position order, each once, and none is
\* passed over for good: an event that commits late, below one already
\* yielded, would never be read by a later drain.
DeliversInOrder ==
    \A s \in Subscribers :
        /\ Delivered(s) \subseteq Due(s)
        /\ \A i, j \in DOMAIN sub[s].delivered :
              i < j => sub[s].delivered[i].pos < sub[s].delivered[j].pos
        /\ \A r \in Due(s), t \in Delivered(s) : r.pos <= t.pos => r \in Delivered(s)

\* LISTEN before the first drain leaves no window: a subscription that waits
\* on its listener, with no notification at hand and none lost, has yielded
\* everything that is due, and does not have to wait for the poll interval.
NoLostWakeup ==
    \A s \in Subscribers :
        sub[s].pc = "wait" /\ sub[s].listener /\ ~sub[s].inbox /\ ~sub[s].missed =>
            Due(s) \subseteq Delivered(s)

\* An event that was appended after the subscription's context was cancelled
\* is never yielded, wherever in its drain the cancellation caught it.
NothingNewAfterCancel ==
    \A s \in Subscribers : Canceled(s) => Delivered(s) \subseteq sub[s].canceled

\* Err reports failures only: a subscription that was merely cancelled, in
\* a wait or in the middle of a drain, or that waited for a poll interval,
\* whose deadline the wait reports as an error, has none.
StopsCleanly == \A s \in Subscribers : sub[s].err => sub[s].faulty

\* A due event is yielded in the end, even if its notification is lost,
\* unless the subscription is cancelled, fails, or is closed.
EventuallyDelivered ==
    \A s \in Subscribers :
        (Subscribed(s) /\ Due(s) # {}) ~>
            \/ Due(s) \subseteq Delivered(s)
            \/ Canceled(s) \/ sub[s].err \/ sub[s].closed

\* A cancelled subscription ends, even one that waits for a connection of a
\* pool that has none left, and its connections go back to the pool.
CancelStops ==
    \A s \in Subscribers :
        Canceled(s) ~> (sub[s].pc \in {"done", "failed"} /\ ~sub[s].listener)

\* Next never waits on a connection that was released: when Close has taken
\* the listener away under it, Next returns false instead.
NextNeverPanics == \A s \in Subscribers : sub[s].pc # "panic"

Streams == INSTANCE StreamContract WITH
    stream <- [s \in Subscribers |->
                  IF Subscribed(s)
                    THEN [state |-> IF sub[s].pc \in {"done", "panic"} THEN "ended" ELSE "open",
                          query |-> sub[s].query, first |-> sub[s].first,
                          delivered |-> sub[s].delivered]
                    ELSE [state |-> "none", query |-> QueryAll, first |-> 0,
                          delivered |-> <<>>]],
    Matches <- ReadMatches, InitialLogs <- {{}}

\* The Postgres subscription implements the contract of Subscribe: batches,
\* polls and connections aside, events are yielded one by one from a log
\* that never grows behind them.
RefinesStream == Streams!Stream
===============================================================================
