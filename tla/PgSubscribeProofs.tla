-------------------------- MODULE PgSubscribeProofs --------------------------
(***************************************************************************)
(* Proofs about the Postgres subscription, for any number of writers and   *)
(* subscribers, any events and queries, and any pool.                      *)
(***************************************************************************)
EXTENDS PgSubscribe, EventStoreProofs

-------------------------------------------------------------------------------
(***************************************************************************)
(* The inductive invariant.                                                *)
(***************************************************************************)
InFlight == UNION {tx[w] : w \in Writers}

\* Positions come from the sequence and are never given out twice.
PositionsUnique ==
    /\ \A r \in log \cup InFlight : r.pos <= seq
    /\ \A r, t \in log \cup InFlight : r.pos = t.pos => r = t

\* What the subscription st is to yield of a set of rows.
DueIn(st, rows) == {r \in rows : r.pos > st.first /\ ReadMatches(st.query, r)}

\* What was yielded is complete up to the position, the batch at hand is
\* what follows, and rows in flight come later than both.
StreamOK(st) ==
    /\ st.position = st.first \/ st.position <= seq
    /\ st.first <= st.position
    /\ Streamed(st.delivered, DueIn(st, log), st.position)
    /\ NextBatch(st.pending, DueIn(st, log), st.position)
    /\ NextBatch(st.events, DueIn(st, log), st.position)
    /\ \A r \in DueIn(st, InFlight) :
          r.pos > st.position /\ \A t \in st.pending \cup st.events : r.pos > t.pos

\* Batches are where the code is: in drain, and from drain to the next one.
BatchesOK(st) ==
    /\ st.pc \in InDrain \cup {"wait"} => st.pending = {}
    /\ st.pc # "collect" => st.events = {}

\* Past the barrier, rows in flight lie beyond the high-water mark.
BarrierOK(st) ==
    st.pc \in {"r_acquire", "declare"} =>
        /\ st.hwm <= seq
        /\ \A r \in InFlight : ReadMatches(st.query, r) => r.pos > st.hwm

\* Unless a notification has come or was lost since the barrier, the drain
\* finds all there is.
DrainOK(st) ==
    st.listener /\ ~st.inbox /\ ~st.missed =>
        /\ st.pc \in {"r_acquire", "declare"} => \A r \in DueIn(st, log) : r.pos <= st.hwm
        /\ st.pc = "collect" => \A r \in DueIn(st, log) : r.pos > st.position => r \in st.events
        /\ st.pc = "wait" => \A r \in DueIn(st, log) : r.pos <= st.position

\* What a cancelled subscription holds was there before the cancellation.
CancelOK(st) ==
    st.canceled # Nil => RowsOf(st.delivered) \cup st.pending
                             \subseteq st.canceled

\* A subscription that is being set up has its arguments and has yielded nothing.
StartOK(st) ==
    st.pc \in {"acquire", "listen"} =>
        /\ st.query \in StreamQueries
        /\ \E after \in StartAfter : st.first = (IF after = Nil THEN 0 ELSE after)
        /\ st.delivered = <<>>

SubOK(st) ==
    /\ StreamOK(st)
    /\ BatchesOK(st)
    /\ BarrierOK(st)
    /\ DrainOK(st)
    /\ CancelOK(st)
    /\ StartOK(st)
    /\ st.err => st.faulty

SubInv ==
    /\ TypeOK
    /\ PositionsUnique
    /\ \A s \in Subscribers : SubOK(sub[s])

-------------------------------------------------------------------------------
(***************************************************************************)
(* The refinement mapping: what StreamContract sees of a step.              *)
(***************************************************************************)

\* Before Subscribe has returned an iterator there is no stream.
Unopened == {"off", "acquire", "listen", "failed"}

\* A subscription as the contract sees it.
StreamOf(st) ==
    IF st.pc \notin Unopened
      THEN [state |-> IF st.pc \in {"done", "panic"} THEN "ended" ELSE "open",
            query |-> st.query, first |-> st.first, delivered |-> st.delivered]
      ELSE [state |-> "none", query |-> QueryAll, first |-> 0, delivered |-> <<>>]

AllStreams == [s \in Subscribers |-> StreamOf(sub[s])]

\* The contract's actions, said of these streams.
LEMMA ContractStutter ==
    ASSUME log' = log, AllStreams' = AllStreams
    PROVE  UNCHANGED Streams!streamVars
BY DEF Streams!streamVars, AllStreams, StreamOf, Unopened, Subscribed

\* A commit: no new event lies behind what a stream has yielded.
LEMMA ContractPublish ==
    ASSUME log \subseteq log', AllStreams' = AllStreams,
           \A r \in log' \ log, s \in Subscribers :
              r.pos > AllStreams[s].first /\ ReadMatches(AllStreams[s].query, r) =>
                  \A t \in RowsOf(AllStreams[s].delivered) : r.pos > t.pos
    PROVE  Streams!Publish
BY DEF Streams!Publish, Streams!InStream, Streams!Yielded, AllStreams, StreamOf, Unopened, Subscribed, RowsOf

\* The end of a stream.
LEMMA ContractEnd ==
    ASSUME NEW s \in Subscribers, log' = log, AllStreams[s].state = "open",
           AllStreams' = [AllStreams EXCEPT ![s].state = "ended"]
    PROVE  Streams!End(s)
BY DEF Streams!End, AllStreams, StreamOf, Unopened, Subscribed

\* The beginning of one.
LEMMA ContractOpen ==
    ASSUME NEW s \in Subscribers, NEW q \in StreamQueries, NEW after \in StartAfter, log' = log,
           AllStreams[s] = Streams!NoStream,
           AllStreams' = [AllStreams EXCEPT ![s] =
              [state |-> "open", query |-> q, first |-> IF after = Nil THEN 0 ELSE after,
               delivered |-> <<>>]]
    PROVE  Streams!Open(s, q, after)
BY DEF Streams!Open, Streams!FirstOf, AllStreams, StreamOf, Unopened, Subscribed

\* The delivery of the first event that has not been delivered.
LEMMA ContractDeliver ==
    ASSUME NEW s \in Subscribers, log' = log, AllStreams[s].state = "open",
           \E r \in DueIn(AllStreams[s], log) \ RowsOf(AllStreams[s].delivered) :
              /\ \A t \in DueIn(AllStreams[s], log) \ RowsOf(AllStreams[s].delivered) :
                    r.pos <= t.pos
              /\ AllStreams' = [AllStreams EXCEPT ![s].delivered = Append(@, r)]
    PROVE  Streams!Deliver(s)
BY DEF Streams!Deliver, Streams!InStream, Streams!Yielded, AllStreams, StreamOf, Unopened, Subscribed,
       RowsOf, DueIn

\* A subscriber's step changes its own stream.
LEMMA OneStream ==
    ASSUME TypeOK, NEW s \in Subscribers, NEW st, sub' = [sub EXCEPT ![s] = st]
    PROVE  AllStreams' = [AllStreams EXCEPT ![s] = StreamOf(st)]
<1>1. \A b \in Subscribers : sub'[b] = IF b = s THEN st ELSE sub[b]
  BY DEF TypeOK
<1>2. AllStreams' = [b \in Subscribers |-> StreamOf(sub'[b])]
  BY DEF AllStreams
<1>3. \A b \in Subscribers : StreamOf(sub'[b]) = IF b = s THEN StreamOf(st) ELSE StreamOf(sub[b])
  BY <1>1
<1> QED
  BY <1>2, <1>3 DEF AllStreams

\* Control moves from p to q without opening a stream or reopening one.
SamePhase(p, q) ==
    \/ q = p
    \/ p \in Unopened /\ q \in Unopened
    \/ p \notin Unopened \cup {"done", "panic"} /\ q \notin Unopened

\* A step that yields nothing leaves its stream as it is, or ends it.
LEMMA EndsOrStutters ==
    ASSUME TypeOK, NEW s \in Subscribers, NEW st, sub' = [sub EXCEPT ![s] = st],
           UNCHANGED storeVars,
           st.query = sub[s].query, st.first = sub[s].first, st.delivered = sub[s].delivered,
           SamePhase(sub[s].pc, st.pc)
    PROVE  Streams!End(s) \/ UNCHANGED Streams!streamVars
<1>1. AllStreams' = [AllStreams EXCEPT ![s] = StreamOf(st)]
  BY OneStream
<1>2. log' = log
  BY DEF storeVars
<1>3. AllStreams[s] = StreamOf(sub[s])
  BY DEF AllStreams
<1>4. CASE StreamOf(st) = StreamOf(sub[s])
  <2>1. AllStreams' = AllStreams
    BY <1>1, <1>3, <1>4 DEF AllStreams
  <2> QED
    BY <1>2, <2>1, ContractStutter
<1>5. CASE StreamOf(st) # StreamOf(sub[s])
  <2>1. StreamOf(sub[s]).state = "open" /\ StreamOf(st) = [StreamOf(sub[s]) EXCEPT !.state = "ended"]
    BY <1>5 DEF StreamOf, SamePhase
  <2> HIDE DEF StreamOf
  <2>2. AllStreams' = [AllStreams EXCEPT ![s].state = "ended"]
    BY <1>1, <1>3, <2>1
  <2> QED
    BY <1>2, <1>3, <2>1, <2>2, ContractEnd
<1> QED
  BY <1>4, <1>5

-------------------------------------------------------------------------------
(***************************************************************************)
(* A step of one subscriber changes its own record and leaves the store    *)
(* alone.                                                                  *)
(***************************************************************************)

\* A subscriber's step preserves the invariant if its new record has it.
LEMMA SubscriberStep ==
    ASSUME SubInv, NEW s \in Subscribers, NEW st \in Subscription, SubOK(st),
           sub' = [sub EXCEPT ![s] = st], UNCHANGED storeVars
    PROVE  SubInv'
<1>1. log' = log /\ seq' = seq /\ tx' = tx /\ InFlight' = InFlight
  BY DEF storeVars, InFlight
<1>2. TypeOK'
  BY <1>1 DEF SubInv, TypeOK
<1>3. PositionsUnique'
  BY <1>1 DEF SubInv, PositionsUnique
<1>4. ASSUME NEW b \in Subscribers
      PROVE  SubOK(sub[b])'
  <2>1. PICK t : t = sub'[b] /\ SubOK(t)
    BY <1>4 DEF SubInv, TypeOK
  <2> QED
    BY <1>1, <2>1 DEF SubOK, StreamOK, BatchesOK, BarrierOK, DrainOK, CancelOK, StartOK, DueIn
<1> QED
  BY <1>2, <1>3, <1>4 DEF SubInv

\* The parts of the invariant that say where the code is.
ControlOK(st) ==
    /\ BatchesOK(st) /\ BarrierOK(st) /\ DrainOK(st) /\ StartOK(st)
    /\ st.err => st.faulty

YieldsNothing(s) == Streams!End(s) \/ UNCHANGED Streams!streamVars

\* A step that moves the subscriber without yielding or reading anything.
LEMMA ControlKeeps ==
    ASSUME SubInv, NEW s \in Subscribers, NEW st \in Subscription,
           sub' = [sub EXCEPT ![s] = st], UNCHANGED storeVars,
           /\ st.query = sub[s].query /\ st.first = sub[s].first
           /\ st.position = sub[s].position /\ st.delivered = sub[s].delivered
           /\ st.pending = sub[s].pending
           /\ st.events \in {{}, sub[s].events}
           /\ st.canceled \in {log, sub[s].canceled},
           ControlOK(st)
    PROVE  SubInv'
<1>1. SubOK(sub[s]) /\ sub[s] \in Subscription
  BY DEF SubInv, TypeOK
<1>2. DueIn(st, log) = DueIn(sub[s], log) /\ DueIn(st, InFlight) = DueIn(sub[s], InFlight)
  BY DEF DueIn
<1>3. NextBatch(st.events, DueIn(st, log), st.position)
  BY <1>1, <1>2 DEF SubOK, StreamOK, NextBatch
<1>4. StreamOK(st)
  BY <1>1, <1>2, <1>3 DEF SubOK, StreamOK
<1>5. CancelOK(st)
  <2>1. RowsOf(st.delivered) \cup st.pending \subseteq log
    BY <1>1 DEF SubOK, StreamOK, Streamed, NextBatch, DueIn
  <2> QED
    BY <1>1, <2>1 DEF SubOK, CancelOK
<1> QED
  BY <1>4, <1>5, SubscriberStep DEF SubOK, ControlOK

\* If it opens no stream either, the contract sees at most the end of one.
LEMMA ControlStep ==
    ASSUME SubInv, NEW s \in Subscribers, NEW st \in Subscription,
           sub' = [sub EXCEPT ![s] = st], UNCHANGED storeVars,
           /\ st.query = sub[s].query /\ st.first = sub[s].first
           /\ st.position = sub[s].position /\ st.delivered = sub[s].delivered
           /\ st.pending = sub[s].pending
           /\ st.events \in {{}, sub[s].events}
           /\ st.canceled \in {log, sub[s].canceled}
           /\ SamePhase(sub[s].pc, st.pc),
           ControlOK(st)
    PROVE  SubInv' /\ YieldsNothing(s)
<1>1. SubInv'
  BY ControlKeeps
<1>2. YieldsNothing(s)
  BY EndsOrStutters DEF YieldsNothing, SubInv
<1> QED
  BY <1>1, <1>2

\* Those steps, one after the other.
LEMMA ControlSteps ==
    ASSUME SubInv, NEW s \in Subscribers
    PROVE  LET Kept == SubInv' /\ YieldsNothing(s) IN
           /\ AcquireListener(s) \/ AcquireRead(s) => Kept
           /\ CallNext(s) \/ NextCanceled(s) \/ NextDrain(s) => Kept
           /\ \A outcome \in {"notified", "deadline", "ended", "lost"} : WaitEnds(s, outcome) => Kept
           /\ CloseMark(s) \/ CloseRelease(s) \/ Cancel(s) => Kept
           /\ \A fault \in BOOLEAN : SubscribeFails(s, fault) \/ DrainFails(s, fault) => Kept
<1> DEFINE Kept == SubInv' /\ YieldsNothing(s)
<1>0. sub[s] \in Subscription /\ SubOK(sub[s])
  BY DEF SubInv, TypeOK
<1>a. log \in SUBSET Row
  BY DEF SubInv, TypeOK
<1>1. ASSUME AcquireListener(s)
     PROVE  Kept
  <2> DEFINE st == [sub[s] EXCEPT !.pc = "listen", !.listener = TRUE]
  <2>1. sub' = [sub EXCEPT ![s] = st] /\ UNCHANGED storeVars
    BY <1>1 DEF AcquireListener
  <2>2. sub[s].pc = "acquire"
    BY <1>1 DEF AcquireListener
  <2>3. st \in Subscription
    BY <1>0, <1>a, <2>2 DEF Subscription, SubPCs
  <2>4. ControlOK(st)
    BY <1>0, <2>2, <2>3 DEF Subscription, SubOK, ControlOK, BatchesOK, BarrierOK, DrainOK,
       StartOK, InDrain, DueIn
  <2>5. SamePhase(sub[s].pc, st.pc)
    BY <1>0, <2>2 DEF SamePhase, Unopened, Subscription, InDrain
  <2> QED
    BY <1>0, <2>1, <2>3, <2>4, <2>5, ControlStep DEF Subscription
<1>2. ASSUME NEW fault \in BOOLEAN, SubscribeFails(s, fault)
     PROVE  Kept
  <2> DEFINE st == [sub[s] EXCEPT !.pc = "failed", !.listener = FALSE]
  <2>1. sub' = [sub EXCEPT ![s] = st] /\ UNCHANGED storeVars
    BY <1>2 DEF SubscribeFails
  <2>2. sub[s].pc \in {"acquire", "listen"}
    BY <1>2 DEF SubscribeFails
  <2>3. st \in Subscription
    BY <1>0, <1>a, <2>2 DEF Subscription, SubPCs
  <2>4. ControlOK(st)
    BY <1>0, <2>2, <2>3 DEF Subscription, SubOK, ControlOK, BatchesOK, BarrierOK, DrainOK,
       StartOK, InDrain, DueIn
  <2>5. SamePhase(sub[s].pc, st.pc)
    BY <1>0, <2>2 DEF SamePhase, Unopened, Subscription, InDrain
  <2> QED
    BY <1>0, <2>1, <2>3, <2>4, <2>5, ControlStep DEF Subscription
<1>3. ASSUME CallNext(s)
     PROVE  Kept
  <2> DEFINE st == [sub[s] EXCEPT !.pc = IF sub[s].err \/ sub[s].closed THEN "done" ELSE "loop"]
  <2>1. sub' = [sub EXCEPT ![s] = st] /\ UNCHANGED storeVars
    BY <1>3 DEF CallNext
  <2>2. sub[s].pc = "out"
    BY <1>3 DEF CallNext
  <2>3. st \in Subscription
    BY <1>0, <1>a, <2>2 DEF Subscription, SubPCs
  <2>4. ControlOK(st)
    BY <1>0, <2>2, <2>3 DEF Subscription, SubOK, ControlOK, BatchesOK, BarrierOK, DrainOK,
       StartOK, InDrain, DueIn
  <2>5. SamePhase(sub[s].pc, st.pc)
    BY <1>0, <2>2 DEF SamePhase, Unopened, Subscription, InDrain
  <2> QED
    BY <1>0, <2>1, <2>3, <2>4, <2>5, ControlStep DEF Subscription
<1>4. ASSUME NextCanceled(s)
     PROVE  Kept
  <2> DEFINE st == [sub[s] EXCEPT !.pc = "done"]
  <2>1. sub' = [sub EXCEPT ![s] = st] /\ UNCHANGED storeVars
    BY <1>4 DEF NextCanceled
  <2>2. sub[s].pc = "loop"
    BY <1>4 DEF NextCanceled
  <2>3. st \in Subscription
    BY <1>0, <1>a, <2>2 DEF Subscription, SubPCs
  <2>4. ControlOK(st)
    BY <1>0, <2>2, <2>3 DEF Subscription, SubOK, ControlOK, BatchesOK, BarrierOK, DrainOK,
       StartOK, InDrain, DueIn
  <2>5. SamePhase(sub[s].pc, st.pc)
    BY <1>0, <2>2 DEF SamePhase, Unopened, Subscription, InDrain
  <2> QED
    BY <1>0, <2>1, <2>3, <2>4, <2>5, ControlStep DEF Subscription
<1>5. ASSUME NextDrain(s)
     PROVE  Kept
  <2> DEFINE st == [sub[s] EXCEPT !.pc = "b_acquire"]
  <2>1. sub' = [sub EXCEPT ![s] = st] /\ UNCHANGED storeVars
    BY <1>5 DEF NextDrain
  <2>2. sub[s].pc = "loop" /\ sub[s].pending = {}
    BY <1>5 DEF NextDrain
  <2>3. st \in Subscription
    BY <1>0, <1>a, <2>2 DEF Subscription, SubPCs
  <2>4. ControlOK(st)
    BY <1>0, <2>2, <2>3 DEF Subscription, SubOK, ControlOK, BatchesOK, BarrierOK, DrainOK,
       StartOK, InDrain, DueIn
  <2>5. SamePhase(sub[s].pc, st.pc)
    BY <1>0, <2>2 DEF SamePhase, Unopened, Subscription, InDrain
  <2> QED
    BY <1>0, <2>1, <2>3, <2>4, <2>5, ControlStep DEF Subscription
<1>6. ASSUME AcquireRead(s)
     PROVE  Kept
  <2> DEFINE st == [sub[s] EXCEPT !.pc = IF @ = "b_acquire" THEN "barrier" ELSE "declare"]
  <2>1. sub' = [sub EXCEPT ![s] = st] /\ UNCHANGED storeVars
    BY <1>6 DEF AcquireRead
  <2>2. sub[s].pc \in {"b_acquire", "r_acquire"}
    BY <1>6 DEF AcquireRead
  <2>3. st \in Subscription
    BY <1>0, <1>a, <2>2 DEF Subscription, SubPCs
  <2>4. ControlOK(st)
    BY <1>0, <2>2, <2>3 DEF Subscription, SubOK, ControlOK, BatchesOK, BarrierOK, DrainOK,
       StartOK, InDrain, DueIn
  <2>5. SamePhase(sub[s].pc, st.pc)
    BY <1>0, <2>2 DEF SamePhase, Unopened, Subscription, InDrain
  <2> QED
    BY <1>0, <2>1, <2>3, <2>4, <2>5, ControlStep DEF Subscription
<1>7. ASSUME NEW outcome \in {"notified", "deadline", "ended", "lost"}, WaitEnds(s, outcome)
     PROVE  Kept
  <2> DEFINE on == GoesOn(s, outcome)
             to == IF on THEN "loop" ELSE "done"
             i  == sub[s].inbox /\ outcome # "notified"
             e  == ~on /\ IsError(s)
             f  == sub[s].faulty \/ outcome = "lost"
             st == [sub[s] EXCEPT !.pc = to, !.inbox = i, !.err = e, !.faulty = f]
  <2>1. sub' = [sub EXCEPT ![s] = st] /\ UNCHANGED storeVars
    BY <1>7 DEF WaitEnds
  <2>2. sub[s].pc = "wait" /\ to \in {"loop", "done"}
    BY <1>7 DEF WaitEnds
  <2>3. i \in BOOLEAN /\ e \in BOOLEAN /\ f \in BOOLEAN
    BY <1>0 DEF Subscription, IsError, GoesOn
  <2>4. e => f
    BY <1>7 DEF WaitEnds, WaitOutcomes, Notified, CtxEnded, GoesOn, IsError
  <2> HIDE DEF on, to, i, e, f
  <2>5. st \in Subscription
    BY <1>0, <1>a, <2>2, <2>3 DEF Subscription, SubPCs
  <2>6. ControlOK(st)
    BY <1>0, <2>2, <2>5, <2>4 DEF Subscription, SubOK, ControlOK, BatchesOK, BarrierOK, DrainOK,
       StartOK, InDrain, DueIn
  <2>7. SamePhase(sub[s].pc, st.pc)
    BY <1>0, <2>2 DEF SamePhase, Unopened, Subscription, InDrain
  <2> QED
    BY <1>0, <2>1, <2>5, <2>6, <2>7, ControlStep DEF Subscription
<1>8. ASSUME NEW fault \in BOOLEAN, DrainFails(s, fault)
     PROVE  Kept
  <2> DEFINE st == [sub[s] EXCEPT !.pc = "done", !.events = {}, !.hwm = 0,
                              !.err = IsError(s), !.faulty = @ \/ fault]
  <2>1. sub' = [sub EXCEPT ![s] = st] /\ UNCHANGED storeVars
    BY <1>8 DEF DrainFails
  <2>2. sub[s].pc \in InDrain /\ IsError(s) \in BOOLEAN /\ (IsError(s) => fault)
    BY <1>8 DEF DrainFails, IsError, ReadCtxDone
  <2>3. st \in Subscription
    BY <1>0, <1>a, <2>2 DEF Subscription, SubPCs
  <2>4. ControlOK(st)
    BY <1>0, <2>2, <2>3 DEF Subscription, SubOK, ControlOK, BatchesOK, BarrierOK, DrainOK,
       StartOK, InDrain, DueIn
  <2>5. SamePhase(sub[s].pc, st.pc)
    BY <1>0, <2>2 DEF SamePhase, Unopened, Subscription, InDrain
  <2> QED
    BY <1>0, <2>1, <2>3, <2>4, <2>5, ControlStep DEF Subscription
<1>9. ASSUME CloseMark(s)
     PROVE  Kept
  <2> DEFINE st == [sub[s] EXCEPT !.closed = TRUE]
  <2>1. sub' = [sub EXCEPT ![s] = st] /\ UNCHANGED storeVars
    BY <1>9 DEF CloseMark
  <2>2. sub[s].pc \in {"out", "done"} \cup InNext
    BY <1>9 DEF CloseMark
  <2>3. st \in Subscription
    BY <1>0, <1>a, <2>2 DEF Subscription, SubPCs
  <2>4. ControlOK(st)
    BY <1>0, <2>2, <2>3 DEF Subscription, SubOK, ControlOK, BatchesOK, BarrierOK, DrainOK,
       StartOK, InDrain, DueIn
  <2>5. SamePhase(sub[s].pc, st.pc)
    BY <1>0, <2>2 DEF SamePhase, Unopened, Subscription, InDrain
  <2> QED
    BY <1>0, <2>1, <2>3, <2>4, <2>5, ControlStep DEF Subscription
<1>10. ASSUME CloseRelease(s)
     PROVE  Kept
  <2> DEFINE st == [sub[s] EXCEPT !.listener = FALSE, !.inbox = FALSE]
  <2>1. sub' = [sub EXCEPT ![s] = st] /\ UNCHANGED storeVars
    BY <1>10 DEF CloseRelease
  <2>2. sub[s].closed
    BY <1>10 DEF CloseRelease
  <2>3. st \in Subscription
    BY <1>0, <1>a, <2>2 DEF Subscription, SubPCs
  <2>4. ControlOK(st)
    BY <1>0, <2>2, <2>3 DEF Subscription, SubOK, ControlOK, BatchesOK, BarrierOK, DrainOK,
       StartOK, InDrain, DueIn
  <2>5. SamePhase(sub[s].pc, st.pc)
    BY <1>0, <2>2 DEF SamePhase, Unopened, Subscription, InDrain
  <2> QED
    BY <1>0, <2>1, <2>3, <2>4, <2>5, ControlStep DEF Subscription
<1>11. ASSUME Cancel(s)
     PROVE  Kept
  <2> DEFINE st == [sub[s] EXCEPT !.canceled = log]
  <2>1. sub' = [sub EXCEPT ![s] = st] /\ UNCHANGED storeVars
    BY <1>11 DEF Cancel
  <2>2. sub[s].pc \notin {"off", "done", "failed", "panic"}
    BY <1>11 DEF Cancel
  <2>3. st \in Subscription
    BY <1>0, <1>a, <2>2 DEF Subscription, SubPCs
  <2>4. ControlOK(st)
    BY <1>0, <2>2, <2>3 DEF Subscription, SubOK, ControlOK, BatchesOK, BarrierOK, DrainOK,
       StartOK, InDrain, DueIn
  <2>5. SamePhase(sub[s].pc, st.pc)
    BY <1>0, <2>2 DEF SamePhase, Unopened, Subscription, InDrain
  <2> QED
    BY <1>0, <2>1, <2>3, <2>4, <2>5, ControlStep DEF Subscription
<1> QED
  BY <1>1, <1>2, <1>3, <1>4, <1>5, <1>6, <1>7, <1>8, <1>9, <1>10, <1>11

-------------------------------------------------------------------------------
(***************************************************************************)
(* Steps that start, read and yield.                                       *)
(***************************************************************************)

\* Subscribe sets up an iterator that starts after its first position.
LEMMA SubscribeKeeps ==
    ASSUME SubInv, NEW s \in Subscribers, Subscribe(s)
    PROVE  SubInv' /\ YieldsNothing(s)
<1>1. PICK q \in StreamQueries, after \in StartAfter :
         sub' = [sub EXCEPT ![s] = [NoSubscription EXCEPT
                   !.pc = "acquire", !.query = q,
                   !.first = IF after = Nil THEN 0 ELSE after,
                   !.position = IF after = Nil THEN 0 ELSE after]]
  BY DEF Subscribe
<1> DEFINE first == IF after = Nil THEN 0 ELSE after
           st    == [NoSubscription EXCEPT !.pc = "acquire", !.query = q,
                                           !.first = first, !.position = first]
<1>2. first \in Nat /\ q \in Query
  BY PgSubscribeAssumption DEF IsQuery
<1>3. /\ st \in Subscription
      /\ st.pc = "acquire" /\ st.query = q /\ st.first = first /\ st.position = first
      /\ st.events = {} /\ st.pending = {} /\ st.delivered = <<>> /\ st.canceled = Nil
      /\ ~st.closed /\ ~st.err
  <2>1. <<>> \in Seq(Row) /\ {} \in SUBSET Row /\ 0 \in Nat
    OBVIOUS
  <2> HIDE DEF first
  <2>2. /\ st.pc = "acquire" /\ st.query = q /\ st.first = first /\ st.position = first
        /\ st.events = {} /\ st.pending = {} /\ st.delivered = <<>> /\ st.canceled = Nil
        /\ st.closed = FALSE /\ st.err = FALSE
    BY DEF NoSubscription
  <2>3. st \in Subscription
    BY <1>2, <2>1 DEF NoSubscription, Subscription, SubPCs
  <2> QED
    BY <2>2, <2>3
<1>4. sub' = [sub EXCEPT ![s] = st] /\ UNCHANGED storeVars
  BY <1>1 DEF Subscribe
<1>5. \E a \in StartAfter : st.first = (IF a = Nil THEN 0 ELSE a)
  BY <1>3
<1> HIDE DEF first, st
<1>6. \A r \in log \cup InFlight : r.pos \in Nat
  BY DEF SubInv, TypeOK, InFlight, Row, Position
<1>7. StreamOK(st)
  <2>1. {r \in DueIn(st, log) : r.pos <= first} = {}
    BY <1>2, <1>3, <1>6 DEF DueIn
  <2>2. Streamed(st.delivered, DueIn(st, log), st.position)
    BY <1>3, <2>1 DEF Streamed, RowsOf
  <2> QED
    BY <1>2, <1>3, <1>6, <2>2 DEF StreamOK, NextBatch, DueIn
<1>8. SubOK(st)
  BY <1>3, <1>5, <1>7 DEF SubOK, BatchesOK, BarrierOK, DrainOK, CancelOK, StartOK,
                          InDrain, InNext
<1>9. SubInv'
  BY <1>3, <1>4, <1>8, SubscriberStep
<1>10. AllStreams' = AllStreams /\ log' = log
  <2>1. StreamOf(st) = StreamOf(sub[s])
    BY <1>3 DEF StreamOf, Unopened, Subscribe
  <2>2. AllStreams' = [AllStreams EXCEPT ![s] = StreamOf(st)]
    BY <1>4, OneStream DEF SubInv
  <2> QED
    BY <1>4, <2>1, <2>2 DEF AllStreams, storeVars
<1> QED
  BY <1>9, <1>10, ContractStutter DEF YieldsNothing

\* Subscribe returns its iterator, and the stream begins.
LEMMA ListenKeeps ==
    ASSUME SubInv, NEW s \in Subscribers, Listen(s)
    PROVE  SubInv' /\ \E q \in StreamQueries, after \in StartAfter : Streams!Open(s, q, after)
<1> DEFINE st == [sub[s] EXCEPT !.pc = "out"]
<1>1. sub' = [sub EXCEPT ![s] = st] /\ UNCHANGED storeVars
  BY DEF Listen
<1>2. sub[s].pc = "listen"
  BY DEF Listen
<1>3. sub[s] \in Subscription /\ SubOK(sub[s])
  BY DEF SubInv, TypeOK
<1>4. st \in Subscription
  BY <1>3 DEF Subscription, SubPCs
<1>5. ControlOK(st)
  BY <1>2, <1>3, <1>4 DEF Subscription, SubOK, ControlOK, BatchesOK, BarrierOK, DrainOK,
                          StartOK, InDrain, DueIn
<1>6. SubInv'
  BY <1>1, <1>3, <1>4, <1>5, ControlKeeps DEF Subscription
<1>7. PICK after \in StartAfter : sub[s].first = (IF after = Nil THEN 0 ELSE after)
  BY <1>2, <1>3 DEF SubOK, StartOK
<1>8. sub[s].query \in StreamQueries /\ sub[s].delivered = <<>>
  BY <1>2, <1>3 DEF SubOK, StartOK
<1>9. StreamOf(sub[s]) = Streams!NoStream
  BY <1>2 DEF StreamOf, Unopened, Streams!NoStream, Streams!QueryAll, QueryAll
<1>10. StreamOf(st) = [state |-> "open", query |-> sub[s].query,
                       first |-> IF after = Nil THEN 0 ELSE after, delivered |-> <<>>]
  <2>1. st.pc = "out" /\ st.query = sub[s].query /\ st.first = sub[s].first /\ st.delivered = <<>>
    BY <1>3, <1>8 DEF Subscription
  <2> HIDE DEF st
  <2> QED
    BY <1>7, <2>1 DEF StreamOf, Unopened
<1>11. AllStreams' = [AllStreams EXCEPT ![s] = StreamOf(st)] /\ log' = log
  BY <1>1, OneStream DEF SubInv, storeVars
<1>12. AllStreams[s] = Streams!NoStream
  BY <1>9 DEF AllStreams
<1>13. AllStreams' = [AllStreams EXCEPT ![s] =
          [state |-> "open", query |-> sub[s].query,
           first |-> IF after = Nil THEN 0 ELSE after, delivered |-> <<>>]]
  BY <1>10, <1>11
<1>14. Streams!Open(s, sub[s].query, after)
  BY <1>8, <1>11, <1>12, <1>13, ContractOpen
<1> QED
  BY <1>6, <1>8, <1>14

\* The barrier returns the last position there is, with no match in flight.
LEMMA BarrierKeeps ==
    ASSUME SubInv, NEW s \in Subscribers, Barrier(s)
    PROVE  SubInv' /\ YieldsNothing(s)
<1> DEFINE st == [sub[s] EXCEPT !.pc = "r_acquire", !.hwm = seq, !.missed = FALSE]
<1>1. sub' = [sub EXCEPT ![s] = st] /\ UNCHANGED storeVars
  BY DEF Barrier, LastValue
<1>2. sub[s].pc = "barrier" /\ \A r \in InFlight : ~ReadMatches(sub[s].query, r)
  BY DEF Barrier, BarrierGranted, InFlight
<1>3. sub[s] \in Subscription /\ SubOK(sub[s]) /\ seq \in Nat
  BY DEF SubInv, TypeOK
<1>4. st \in Subscription
  BY <1>3 DEF Subscription, SubPCs
<1>5. \A r \in DueIn(sub[s], log) : r.pos <= seq
  BY DEF SubInv, PositionsUnique, DueIn
<1>6. ControlOK(st)
  BY <1>2, <1>3, <1>4, <1>5 DEF Subscription, SubOK, ControlOK, BatchesOK, BarrierOK,
        DrainOK, StartOK, InDrain, DueIn
<1>7. SamePhase(sub[s].pc, st.pc)
  BY <1>2, <1>3 DEF SamePhase, Unopened, Subscription
<1> QED
  BY <1>1, <1>3, <1>4, <1>6, <1>7, ControlStep DEF Subscription

\* The cursor's rows are the next batch.
LEMMA DeclareKeeps ==
    ASSUME SubInv, NEW s \in Subscribers, Declare(s)
    PROVE  SubInv' /\ YieldsNothing(s)
<1> DEFINE o  == [NoRead EXCEPT !.query = sub[s].query, !.after = sub[s].position]
           ev == Selected(log, o, sub[s].hwm)
           st == [sub[s] EXCEPT !.pc = "collect", !.events = ev]
<1>1. sub' = [sub EXCEPT ![s] = st] /\ UNCHANGED storeVars
  BY DEF Declare
<1>2. sub[s].pc = "declare"
  BY DEF Declare
<1>3. sub[s] \in Subscription /\ SubOK(sub[s]) /\ seq \in Nat /\ log \in SUBSET Row
  BY DEF SubInv, TypeOK
<1>4. /\ sub[s].position \in Nat /\ sub[s].hwm \in Nat /\ sub[s].first \in Nat
      /\ sub[s].first <= sub[s].position
  BY <1>3 DEF Subscription, SubOK, StreamOK
<1>5. o.query = sub[s].query /\ o.after = sub[s].position /\ ~o.backwards
  BY DEF NoRead
<1> HIDE DEF o
<1>6. ev = {r \in log : /\ r.pos > sub[s].position /\ r.pos <= sub[s].hwm
                        /\ ReadMatches(sub[s].query, r)}
  BY <1>4, <1>5, NilAssumption DEF Selected, PastAfter, WithinHwm
<1> HIDE DEF ev
<1>7. /\ st \in Subscription
      /\ st.pc = "collect" /\ st.query = sub[s].query /\ st.first = sub[s].first
      /\ st.position = sub[s].position /\ st.hwm = sub[s].hwm /\ st.events = ev
      /\ st.pending = sub[s].pending /\ st.listener = sub[s].listener
      /\ st.inbox = sub[s].inbox /\ st.closed = sub[s].closed /\ st.err = sub[s].err
      /\ st.faulty = sub[s].faulty /\ st.missed = sub[s].missed
      /\ st.canceled = sub[s].canceled /\ st.delivered = sub[s].delivered
  BY <1>3, <1>6 DEF Subscription, SubPCs
<1> HIDE DEF st
<1>8. \A r \in log \cup InFlight : r.pos \in Nat
  BY DEF SubInv, TypeOK, InFlight, Row, Position
<1>9. ev = {r \in DueIn(sub[s], log) : r.pos > sub[s].position /\ r.pos <= sub[s].hwm}
  BY <1>4, <1>6, <1>8 DEF DueIn
<1>10. DueIn(st, log) = DueIn(sub[s], log) /\ DueIn(st, InFlight) = DueIn(sub[s], InFlight)
  BY <1>7 DEF DueIn
<1>11. NextBatch(ev, DueIn(sub[s], log), sub[s].position)
  <2>1. \A r \in DueIn(sub[s], log) : r.pos \in Nat
    BY <1>8 DEF DueIn
  <2> QED
    BY <1>4, <1>9, <2>1 DEF NextBatch
<1>12. ASSUME NEW r \in DueIn(sub[s], InFlight), NEW t \in ev
       PROVE  r.pos > t.pos
  <2>1. r.pos > sub[s].hwm
    BY <1>2, <1>3 DEF SubOK, BarrierOK, DueIn
  <2>2. r.pos \in Nat /\ t.pos \in Nat /\ t.pos <= sub[s].hwm
    BY <1>6, <1>8 DEF DueIn
  <2> QED
    BY <1>4, <2>1, <2>2
<1>13. StreamOK(st)
  BY <1>3, <1>7, <1>10, <1>11, <1>12 DEF SubOK, StreamOK
<1>14. DrainOK(st)
  BY <1>2, <1>3, <1>7, <1>9, <1>10 DEF SubOK, DrainOK
<1>15. SubOK(st)
  BY <1>2, <1>3, <1>7, <1>13, <1>14 DEF SubOK, BatchesOK, BarrierOK, CancelOK, StartOK,
                                        InDrain, InNext
<1>16. SamePhase(sub[s].pc, st.pc)
  BY <1>2, <1>7 DEF SamePhase, Unopened
<1> QED
  BY <1>1, <1>7, <1>15, <1>16, SubscriberStep, EndsOrStutters DEF YieldsNothing, SubInv

\* Collect hands the batch over; if it is empty, everything due was yielded.
LEMMA CollectKeeps ==
    ASSUME SubInv, NEW s \in Subscribers, Collect(s)
    PROVE  SubInv' /\ YieldsNothing(s)
<1> DEFINE target == IF sub[s].events # {} THEN "loop"
                     ELSE IF sub[s].listener THEN "wait" ELSE "panic"
           st == [sub[s] EXCEPT !.pc = target, !.pending = sub[s].events,
                                !.events = {}, !.hwm = 0]
<1>1. sub' = [sub EXCEPT ![s] = st] /\ UNCHANGED storeVars
  BY DEF Collect
<1>2. sub[s].pc = "collect" /\ sub[s].canceled = Nil
  BY DEF Collect, ReadCtxDone, Canceled
<1>3. sub[s] \in Subscription /\ SubOK(sub[s])
  BY DEF SubInv, TypeOK
<1>4. /\ target \in {"loop", "wait", "panic"}
      /\ target = "wait" => sub[s].events = {}
      /\ target = "panic" => ~sub[s].listener
  OBVIOUS
<1> HIDE DEF target
<1>5. /\ st \in Subscription
      /\ st.pc = target /\ st.query = sub[s].query /\ st.first = sub[s].first
      /\ st.position = sub[s].position /\ st.events = {}
      /\ st.pending = sub[s].events /\ st.listener = sub[s].listener
      /\ st.inbox = sub[s].inbox /\ st.closed = sub[s].closed /\ st.err = sub[s].err
      /\ st.faulty = sub[s].faulty /\ st.missed = sub[s].missed
      /\ st.canceled = Nil /\ st.delivered = sub[s].delivered
  BY <1>2, <1>3, <1>4 DEF Subscription, SubPCs
<1> HIDE DEF st
<1>6. DueIn(st, log) = DueIn(sub[s], log) /\ DueIn(st, InFlight) = DueIn(sub[s], InFlight)
  BY <1>5 DEF DueIn
<1>7. StreamOK(st)
  BY <1>3, <1>5, <1>6 DEF SubOK, StreamOK, NextBatch
<1>8. DrainOK(st)
  <2>1. ASSUME target = "wait", st.listener, ~st.inbox, ~st.missed, NEW r \in DueIn(st, log)
        PROVE  r.pos <= st.position
    <3>1. ~(r.pos > sub[s].position)
      BY <1>2, <1>3, <1>4, <1>5, <1>6, <2>1 DEF SubOK, DrainOK
    <3>2. r.pos \in Nat /\ sub[s].position \in Nat
      BY <1>3 DEF DueIn, SubInv, TypeOK, Row, Position, Subscription
    <3> QED
      BY <1>5, <3>1, <3>2
  <2> QED
    BY <1>4, <1>5, <2>1 DEF DrainOK
<1>9. SubOK(st)
  BY <1>2, <1>3, <1>4, <1>5, <1>7, <1>8 DEF SubOK, BatchesOK, BarrierOK, CancelOK, StartOK, InDrain, InNext
<1>10. SamePhase(sub[s].pc, st.pc)
  BY <1>2, <1>4, <1>5 DEF SamePhase, Unopened
<1> QED
  BY <1>1, <1>5, <1>9, <1>10, SubscriberStep, EndsOrStutters DEF YieldsNothing, SubInv

\* Next yields the first event of its batch.
LEMMA NextDeliverKeeps ==
    ASSUME SubInv, NEW s \in Subscribers, NextDeliver(s)
    PROVE  SubInv' /\ Streams!Deliver(s)
<1>1. PICK e \in sub[s].pending :
         /\ \A t \in sub[s].pending : e.pos <= t.pos
         /\ sub' = [sub EXCEPT ![s] = [sub[s] EXCEPT
                      !.pc = "out", !.pending = @ \ {e}, !.position = e.pos,
                      !.delivered = Append(@, e)]]
  BY DEF NextDeliver
<1> DEFINE st  == [sub[s] EXCEPT !.pc = "out", !.pending = @ \ {e}, !.position = e.pos,
                                 !.delivered = Append(@, e)]
           due == DueIn(sub[s], log)
<1>2. sub[s].pc = "loop" /\ UNCHANGED storeVars
  BY DEF NextDeliver
<1>3. sub[s] \in Subscription /\ SubOK(sub[s]) /\ log \in SUBSET Row
  BY DEF SubInv, TypeOK
<1>4. /\ due \in SUBSET Row /\ sub[s].position \in Nat /\ sub[s].delivered \in Seq(Row)
      /\ \A r, t \in due : r.pos = t.pos => r = t
      /\ \A r \in due : r.pos <= seq
  BY <1>3 DEF DueIn, Subscription, SubInv, PositionsUnique
<1>5. Streamed(sub[s].delivered, due, sub[s].position) /\ NextBatch(sub[s].pending, due, sub[s].position)
  BY <1>3 DEF SubOK, StreamOK
<1> HIDE DEF due
<1>6. /\ Append(sub[s].delivered, e) \in Seq(Row)
      /\ Streamed(Append(sub[s].delivered, e), due, e.pos)
      /\ NextBatch(sub[s].pending \ {e}, due, e.pos)
      /\ e \in due \ Delivered(s)
      /\ \A t \in due \ Delivered(s) : e.pos <= t.pos
  <2> DEFINE del == sub[s].delivered
             b   == sub[s].pending
             p   == sub[s].position
  <2>1. /\ due \in SUBSET Row /\ p \in Nat /\ del \in Seq(Row)
        /\ \A r, t \in due : r.pos = t.pos => r = t
        /\ Streamed(del, due, p) /\ NextBatch(b, due, p)
        /\ e \in b /\ \A t \in b : e.pos <= t.pos
    BY <1>1, <1>4, <1>5
  <2>2. Delivered(s) = RowsOf(del)
    BY DEF Delivered, RowsOf
  <2> HIDE DEF del, b, p
  <2>3. YieldsNext(del, b, due, e)
    BY <2>1, BatchDelivers
  <2> QED
    BY <2>2, <2>3 DEF YieldsNext, del, b
<1>7. e \in Row /\ e.pos \in Nat /\ e.pos <= seq /\ e.pos > sub[s].first
  BY <1>4, <1>6 DEF Row, Position, due, DueIn
<1>8. /\ st \in Subscription
      /\ st.pc = "out" /\ st.query = sub[s].query /\ st.first = sub[s].first
      /\ st.position = e.pos /\ st.events = sub[s].events
      /\ st.pending = sub[s].pending \ {e} /\ st.listener = sub[s].listener
      /\ st.closed = sub[s].closed /\ st.err = sub[s].err
      /\ st.faulty = sub[s].faulty
      /\ st.canceled = sub[s].canceled /\ st.delivered = Append(sub[s].delivered, e)
  BY <1>3, <1>6, <1>7 DEF Subscription, SubPCs
<1> HIDE DEF st
<1>9. DueIn(st, log) = due /\ DueIn(st, InFlight) = DueIn(sub[s], InFlight)
  BY <1>8 DEF due, DueIn
<1>10. st.events = {}
  BY <1>2, <1>3, <1>8 DEF SubOK, BatchesOK
<1>11. StreamOK(st)
  <2>1. \A r \in DueIn(sub[s], InFlight) : r.pos > e.pos /\ \A t \in sub[s].pending : r.pos > t.pos
    BY <1>3 DEF SubOK, StreamOK
  <2>2. st.first <= st.position
    BY <1>3, <1>7, <1>8 DEF Subscription
  <2>3. NextBatch(st.events, due, e.pos)
    BY <1>10 DEF NextBatch
  <2> QED
    BY <1>6, <1>7, <1>8, <1>9, <1>10, <2>1, <2>2, <2>3 DEF StreamOK
<1>12. CancelOK(st)
  <2>1. RowsOf(st.delivered) \subseteq Delivered(s) \cup {e}
    BY <1>3, <1>7, <1>8 DEF Delivered, RowsOf, Subscription
  <2> QED
    BY <1>1, <1>3, <1>8, <2>1 DEF SubOK, CancelOK, Delivered, RowsOf
<1>13. SubOK(st)
  BY <1>2, <1>3, <1>8, <1>10, <1>11, <1>12 DEF SubOK, BatchesOK, BarrierOK, DrainOK, StartOK, InDrain, InNext
<1>14. sub' = [sub EXCEPT ![s] = st] /\ UNCHANGED storeVars
  BY <1>1, <1>2 DEF st
<1>15. SubInv'
  BY <1>8, <1>13, <1>14, SubscriberStep
<1>16. Streams!Deliver(s)
  <2>1. /\ AllStreams[s] = StreamOf(sub[s]) /\ AllStreams[s].state = "open"
        /\ AllStreams[s].delivered = sub[s].delivered
        /\ DueIn(AllStreams[s], log) = due
    BY <1>2 DEF AllStreams, StreamOf, Unopened, due, DueIn
  <2>2. StreamOf(st) = [AllStreams[s] EXCEPT !.delivered = Append(@, e)]
    <3> DEFINE q == sub[s].query
               first == sub[s].first
               del == sub[s].delivered
               old == AllStreams[s]
    <3>1. old = [state |-> "open", query |-> q, first |-> first, delivered |-> del]
      BY <1>2, <2>1 DEF StreamOf, Unopened
    <3>2. StreamOf(st) = [state |-> "open", query |-> q, first |-> first,
                          delivered |-> Append(del, e)]
      BY <1>8 DEF StreamOf, Unopened
    <3> HIDE DEF q, first, del, old
    <3>3. [old EXCEPT !.delivered = Append(@, e)] =
             [state |-> "open", query |-> q, first |-> first, delivered |-> Append(del, e)]
      BY <3>1
    <3> QED
      BY <3>2, <3>3 DEF old
  <2>3. AllStreams' = [AllStreams EXCEPT ![s] = StreamOf(st)] /\ log' = log
    BY <1>14, OneStream DEF SubInv, storeVars
  <2>4. AllStreams' = [AllStreams EXCEPT ![s].delivered = Append(@, e)]
    BY <2>2, <2>3
  <2>5. Delivered(s) = RowsOf(AllStreams[s].delivered)
    BY <2>1 DEF Delivered, RowsOf
  <2> QED
    BY <1>6, <2>1, <2>3, <2>4, <2>5, ContractDeliver
<1> QED
  BY <1>15, <1>16

-------------------------------------------------------------------------------
(***************************************************************************)
(* Appends.                                                                *)
(***************************************************************************)

\* An append takes a position beyond all that were given out before.
LEMMA AppendInsertKeeps ==
    ASSUME SubInv, NEW w \in Writers, AppendInsert(w)
    PROVE  SubInv' /\ UNCHANGED Streams!streamVars
<1>1. PICK ev \in Published :
         tx' = [tx EXCEPT ![w] = @ \cup {[pos |-> seq + 1, type |-> ev.type, tags |-> ev.tags]}]
  BY DEF AppendInsert
<1> DEFINE row == [pos |-> seq + 1, type |-> ev.type, tags |-> ev.tags]
<1>2. seq' = seq + 1 /\ log' = log /\ sub' = sub
  BY DEF AppendInsert
<1>3. TypeOK
  BY DEF SubInv
<1>4. row \in Row /\ row.pos = seq + 1 /\ seq \in Nat
  BY <1>3, PgSubscribeAssumption DEF TypeOK, Event, Row, Position
<1>5. tx' = [tx EXCEPT ![w] = @ \cup {row}]
  BY <1>1
<1> HIDE DEF row
<1>6. TypeOK'
  BY <1>2, <1>3, <1>4, <1>5 DEF TypeOK
<1>7. InFlight' = InFlight \cup {row}
  BY <1>2, <1>3, <1>5 DEF InFlight, TypeOK
<1>8. \A r \in log \cup InFlight : r.pos \in Nat /\ r.pos <= seq
  BY <1>3 DEF SubInv, PositionsUnique, TypeOK, InFlight, Row, Position
<1>9. PositionsUnique'
  <2>1. \A r, t \in log \cup InFlight : r.pos = t.pos => r = t
    BY DEF SubInv, PositionsUnique
  <2> QED
    BY <1>2, <1>4, <1>7, <1>8, <2>1 DEF PositionsUnique
<1>10. ASSUME NEW b \in Subscribers
       PROVE  SubOK(sub[b])'
  <2>1. sub[b] \in Subscription /\ SubOK(sub[b])
    BY <1>3 DEF SubInv, TypeOK
  <2>2. sub[b].position \in Nat /\ sub[b].hwm \in Nat /\ sub[b].first \in Nat
    BY <2>1 DEF Subscription
  <2>3. sub[b].pending \cup sub[b].events \subseteq log
    BY <2>1 DEF SubOK, StreamOK, NextBatch, DueIn
  <2>4. StreamOK(sub[b])'
    <3>1. DueIn(sub[b], InFlight') \subseteq DueIn(sub[b], InFlight) \cup {row}
      BY <1>7 DEF DueIn
    <3>2. ASSUME row \in DueIn(sub[b], InFlight')
          PROVE  row.pos > sub[b].position
      <4>1. row.pos > sub[b].first /\ (sub[b].position = sub[b].first \/ sub[b].position <= seq)
        BY <2>1, <3>2 DEF DueIn, SubOK, StreamOK
      <4> QED
        BY <1>4, <2>2, <4>1
    <3>3. \A t \in sub[b].pending \cup sub[b].events : row.pos > t.pos
      BY <1>4, <1>8, <2>3
    <3>4. \A r \in DueIn(sub[b], InFlight') :
             r.pos > sub[b].position /\ \A t \in sub[b].pending \cup sub[b].events : r.pos > t.pos
      BY <2>1, <3>1, <3>2, <3>3 DEF SubOK, StreamOK
    <3>5. sub[b].position = sub[b].first \/ sub[b].position <= seq'
      BY <1>2, <1>4, <2>1, <2>2 DEF SubOK, StreamOK
    <3> QED
      BY <1>2, <2>1, <3>4, <3>5 DEF SubOK, StreamOK
  <2>5. BarrierOK(sub[b])'
    <3>1. ASSUME sub[b].pc \in {"r_acquire", "declare"}
          PROVE  sub[b].hwm <= seq /\ \A r \in InFlight : ReadMatches(sub[b].query, r) => r.pos > sub[b].hwm
      BY <2>1, <3>1 DEF SubOK, BarrierOK
    <3>2. sub[b].hwm <= seq => sub[b].hwm <= seq' /\ row.pos > sub[b].hwm
      BY <1>2, <1>4, <2>2
    <3> QED
      BY <1>2, <1>7, <3>1, <3>2 DEF BarrierOK
  <2> QED
    BY <1>2, <2>1, <2>4, <2>5 DEF SubOK, BatchesOK, DrainOK, CancelOK, StartOK
<1>11. UNCHANGED Streams!streamVars
  BY <1>2, ContractStutter DEF AllStreams
<1> QED
  BY <1>6, <1>9, <1>10, <1>11 DEF SubInv

\* A transaction that aborts takes its rows away.
LEMMA AppendAbortKeeps ==
    ASSUME SubInv, NEW w \in Writers, AppendAbort(w)
    PROVE  SubInv' /\ UNCHANGED Streams!streamVars
<1>1. tx' = [tx EXCEPT ![w] = {}] /\ log' = log /\ seq' = seq /\ sub' = sub
  BY DEF AppendAbort
<1>2. TypeOK'
  BY <1>1 DEF SubInv, TypeOK
<1>3. InFlight' \subseteq InFlight
  BY <1>1 DEF InFlight, SubInv, TypeOK
<1>4. PositionsUnique'
  BY <1>1, <1>3 DEF SubInv, PositionsUnique
<1>5. ASSUME NEW b \in Subscribers
      PROVE  SubOK(sub[b])'
  <2>1. SubOK(sub[b])
    BY DEF SubInv
  <2>2. DueIn(sub[b], InFlight') \subseteq DueIn(sub[b], InFlight)
    BY <1>3 DEF DueIn
  <2>3. StreamOK(sub[b])'
    BY <1>1, <2>1, <2>2 DEF SubOK, StreamOK
  <2> QED
    BY <1>1, <1>3, <2>1, <2>3 DEF SubOK, BatchesOK, BarrierOK, DrainOK, CancelOK, StartOK
<1>6. UNCHANGED Streams!streamVars
  BY <1>1, ContractStutter DEF AllStreams
<1> QED
  BY <1>2, <1>4, <1>5, <1>6 DEF SubInv

\* A commit tells every subscription of its row, or the notification is lost.
LEMMA CommitNotifies ==
    ASSUME TypeOK, NEW w \in Writers, AppendCommit(w), NEW b \in Subscribers
    PROVE  /\ sub'[b] \in Subscription
           /\ sub'[b] = [sub[b] EXCEPT !.inbox = sub'[b].inbox, !.missed = sub'[b].missed]
           /\ Hears(b) => sub'[b].inbox \/ sub'[b].missed
<1>1. PICK heard \in SUBSET {s \in Subscribers : Hears(s)} :
         sub' = [s \in Subscribers |-> [sub[s] EXCEPT
                   !.inbox = @ \/ s \in heard,
                   !.missed = @ \/ s \in {t \in Subscribers : Hears(t)} \ heard]]
  BY DEF AppendCommit
<1> DEFINE i == sub[b].inbox \/ b \in heard
           m == sub[b].missed \/ b \in {t \in Subscribers : Hears(t)} \ heard
<1>2. sub'[b] = [sub[b] EXCEPT !.inbox = i, !.missed = m]
  BY <1>1
<1>3. i \in BOOLEAN /\ m \in BOOLEAN /\ (Hears(b) => i \/ m)
  BY DEF TypeOK, Subscription
<1>4. sub[b] \in Subscription
  BY DEF TypeOK
<1> HIDE DEF i, m
<1>5. sub'[b] \in Subscription /\ sub'[b].inbox = i /\ sub'[b].missed = m
  BY <1>2, <1>3, <1>4 DEF Subscription
<1> QED
  BY <1>2, <1>3, <1>5

\* A commit publishes a row beyond everything that was read or yielded.
LEMMA AppendCommitKeeps ==
    ASSUME SubInv, NEW w \in Writers, AppendCommit(w)
    PROVE  SubInv' /\ Streams!Publish
<1>1. tx' = [tx EXCEPT ![w] = {}] /\ log' = log \cup tx[w] /\ seq' = seq
  BY DEF AppendCommit
<1>2. TypeOK
  BY DEF SubInv
<1>3. TypeOK'
  <2>1. sub' = [s \in Subscribers |-> sub'[s]]
    BY DEF AppendCommit
  <2>2. \A b \in Subscribers : sub'[b] \in Subscription
    BY <1>2, CommitNotifies
  <2>3. sub' \in [Subscribers -> Subscription]
    BY <2>1, <2>2
  <2> QED
    BY <1>1, <1>2, <2>3 DEF TypeOK
<1>4. InFlight' \subseteq InFlight /\ tx[w] \subseteq InFlight /\ tx[w] \in SUBSET Row
  BY <1>1, <1>2 DEF InFlight, TypeOK
<1>5. PositionsUnique'
  BY <1>1, <1>4 DEF SubInv, PositionsUnique
<1>6. ASSUME NEW b \in Subscribers
      PROVE  SubOK(sub[b])'
  <2> DEFINE old == sub[b]
             st  == sub'[b]
             due == DueIn(old, log)
             new == DueIn(old, tx[w])
  <2>1. old \in Subscription /\ SubOK(old)
    BY <1>2 DEF SubInv, TypeOK
  <2>2. /\ st \in Subscription
        /\ st.pc = old.pc /\ st.query = old.query /\ st.first = old.first
        /\ st.position = old.position /\ st.hwm = old.hwm /\ st.events = old.events
        /\ st.pending = old.pending /\ st.listener = old.listener /\ st.closed = old.closed
        /\ st.err = old.err /\ st.faulty = old.faulty /\ st.canceled = old.canceled
        /\ st.delivered = old.delivered
    <3>1. st \in Subscription /\ st = [old EXCEPT !.inbox = st.inbox, !.missed = st.missed]
      BY <1>2, CommitNotifies
    <3> HIDE DEF st
    <3> QED
      BY <2>1, <3>1 DEF Subscription
  <2>3. old.listener /\ old.pc # "listen" => st.inbox \/ st.missed
    BY <1>2, CommitNotifies DEF Hears
  <2>4. DueIn(st, log') = due \cup new
    BY <1>1, <2>2 DEF DueIn
  <2>5. /\ due \in SUBSET Row /\ new \in SUBSET Row /\ new \subseteq DueIn(old, InFlight)
        /\ old.position \in Nat
        /\ DueIn(st, InFlight') \subseteq DueIn(old, InFlight)
    BY <1>2, <1>4, <2>1, <2>2 DEF TypeOK, DueIn, Subscription
  <2>6. /\ Streamed(old.delivered, due, old.position)
        /\ NextBatch(old.pending, due, old.position)
        /\ NextBatch(old.events, due, old.position)
        /\ \A r \in DueIn(old, InFlight) :
              r.pos > old.position /\ \A t \in old.pending \cup old.events : r.pos > t.pos
    BY <2>1 DEF SubOK, StreamOK
  <2>7. old.position = old.first \/ old.position <= seq
    BY <2>1 DEF SubOK, StreamOK
  <2>8. old.first <= old.position
    BY <2>1 DEF SubOK, StreamOK
  <2>9. /\ old.pc \in InDrain \cup {"wait"} => old.pending = {}
        /\ old.pc # "collect" => old.events = {}
        /\ old.pc \in {"r_acquire", "declare"} =>
              /\ old.hwm <= seq
              /\ \A r \in InFlight : ReadMatches(old.query, r) => r.pos > old.hwm
        /\ CancelOK(old) /\ StartOK(old) /\ (old.err => old.faulty)
    BY <2>1 DEF SubOK, BatchesOK, BarrierOK
  <2> HIDE DEF due, new, old, st
  <2>10. Streamed(old.delivered, due \cup new, old.position)
    BY <2>5, <2>6, StreamKept
  <2>11. NextBatch(old.pending, due \cup new, old.position)
    BY <2>5, <2>6, BatchKept
  <2>12. NextBatch(old.events, due \cup new, old.position)
    BY <2>5, <2>6, BatchKept
  <2>13. StreamOK(sub[b])'
    BY <1>1, <2>2, <2>4, <2>5, <2>6, <2>7, <2>8, <2>10, <2>11, <2>12 DEF StreamOK, st
  <2>14. DrainOK(sub[b])'
    BY <2>2, <2>3 DEF DrainOK, st
  <2>15. BatchesOK(sub[b])' /\ BarrierOK(sub[b])'
    BY <1>1, <1>4, <2>2, <2>9 DEF BatchesOK, BarrierOK, st
  <2>16. CancelOK(sub[b])' /\ StartOK(sub[b])'
    BY <2>2, <2>9 DEF CancelOK, StartOK, st
  <2> QED
    BY <2>2, <2>9, <2>13, <2>14, <2>15, <2>16 DEF SubOK, st
<1>7. Streams!Publish
  <2>1. ASSUME NEW b \in Subscribers
        PROVE  StreamOf(sub'[b]) = StreamOf(sub[b])
    <3>1. /\ sub[b] \in Subscription
          /\ sub'[b] = [sub[b] EXCEPT !.inbox = sub'[b].inbox, !.missed = sub'[b].missed]
      BY <1>2, CommitNotifies DEF TypeOK
    <3>2. /\ sub'[b].pc = sub[b].pc /\ sub'[b].query = sub[b].query
          /\ sub'[b].first = sub[b].first /\ sub'[b].delivered = sub[b].delivered
      BY <3>1 DEF Subscription
    <3> QED
      BY <3>2 DEF StreamOf
  <2>2. AllStreams' = AllStreams
    <3>1. AllStreams' = [b \in Subscribers |-> StreamOf(sub'[b])]
      BY DEF AllStreams
    <3> QED
      BY <2>1, <3>1 DEF AllStreams
  <2>3. ASSUME NEW r \in log' \ log, NEW b \in Subscribers,
               r.pos > AllStreams[b].first, ReadMatches(AllStreams[b].query, r),
               NEW t \in RowsOf(AllStreams[b].delivered)
        PROVE  r.pos > t.pos
    <3>1. SubOK(sub[b]) /\ sub[b] \in Subscription
      BY DEF SubInv, TypeOK
    <3>2. AllStreams[b] = StreamOf(sub[b])
      BY DEF AllStreams
    <3>3. sub[b].pc \notin Unopened
      BY <3>2 DEF StreamOf, RowsOf
    <3>4. /\ AllStreams[b].first = sub[b].first /\ AllStreams[b].query = sub[b].query
          /\ AllStreams[b].delivered = sub[b].delivered
      BY <3>2, <3>3 DEF StreamOf
    <3>5. r \in DueIn(sub[b], InFlight)
      BY <1>1, <1>4, <2>3, <3>4 DEF DueIn
    <3>6. r.pos > sub[b].position
      BY <3>1, <3>5 DEF SubOK, StreamOK
    <3>7. t \in DueIn(sub[b], log) /\ t.pos <= sub[b].position
      BY <3>1, <3>4 DEF SubOK, StreamOK, Streamed
    <3>8. r.pos \in Nat /\ t.pos \in Nat /\ sub[b].position \in Nat
      BY <1>1, <1>2, <1>4, <3>1, <3>7 DEF DueIn, TypeOK, Row, Position, Subscription
    <3> QED
      BY <3>6, <3>7, <3>8
  <2> QED
    BY <1>1, <2>2, <2>3, ContractPublish
<1> QED
  BY <1>3, <1>5, <1>6, <1>7 DEF SubInv

-------------------------------------------------------------------------------
(***************************************************************************)
(* The invariant, and what follows from it.                                *)
(***************************************************************************)

\* Before any call, there is nothing to yield.
LEMMA SubInvInit == Init => SubInv
<1> SUFFICES ASSUME Init PROVE SubInv
  OBVIOUS
<1>1. log = {} /\ seq = 0 /\ InFlight = {} /\ sub = [s \in Subscribers |-> NoSubscription]
  BY DEF Init, InFlight
<1> DEFINE st == NoSubscription
<1>2. /\ st.pc = "off" /\ st.first = 0 /\ st.position = 0 /\ st.delivered = <<>>
      /\ st.events = {} /\ st.pending = {} /\ st.canceled = Nil
      /\ st.closed = FALSE /\ st.err = FALSE
  BY DEF NoSubscription
<1>3. st \in Subscription
  <2>1. <<>> \in Seq(Row) /\ {} \in SUBSET Row /\ 0 \in Nat /\ QueryAll \in Query
    BY DEF QueryAll, Query
  <2> QED
    BY <2>1 DEF NoSubscription, Subscription, SubPCs
<1>4. \A s \in Subscribers : sub[s] = st
  BY <1>1
<1> HIDE DEF st
<1>5. SubOK(st)
  <2>1. DueIn(st, log) = {} /\ DueIn(st, InFlight) = {}
    BY <1>1 DEF DueIn
  <2>2. StreamOK(st)
    BY <1>2, <2>1 DEF StreamOK, Streamed, NextBatch, RowsOf
  <2> QED
    BY <1>1, <1>2, <2>1, <2>2 DEF SubOK, BatchesOK, BarrierOK, DrainOK, CancelOK, StartOK,
                                  InDrain
<1>6. TypeOK
  BY <1>1, <1>3 DEF Init, TypeOK, st
<1>7. PositionsUnique
  BY <1>1 DEF PositionsUnique
<1> QED
  BY <1>4, <1>5, <1>6, <1>7 DEF SubInv

\* Every step preserves the invariant, and is a step of the contract or none.
LEMMA SubInvNext ==
    ASSUME SubInv, [Next]_vars
    PROVE  SubInv' /\ (Streams!Next \/ UNCHANGED Streams!streamVars)
<1>1. CASE UNCHANGED vars
  <2>1. /\ log' = log /\ seq' = seq /\ tx' = tx /\ sub' = sub /\ InFlight' = InFlight
    BY <1>1 DEF vars, storeVars, InFlight
  <2>2. \A s \in Subscribers : SubOK(sub[s])'
    BY <2>1 DEF SubInv, SubOK, StreamOK, BatchesOK, BarrierOK, DrainOK, CancelOK, StartOK
  <2>3. UNCHANGED Streams!streamVars
    BY <2>1, ContractStutter DEF AllStreams
  <2> QED
    BY <2>1, <2>2, <2>3 DEF SubInv, TypeOK, PositionsUnique
<1>2. ASSUME NEW w \in Writers, AppendInsert(w) \/ AppendCommit(w) \/ AppendAbort(w)
      PROVE  SubInv' /\ (Streams!Publish \/ UNCHANGED Streams!streamVars)
  BY <1>2, AppendInsertKeeps, AppendCommitKeeps, AppendAbortKeeps
<1>3. ASSUME NEW s \in Subscribers, Subscribe(s) \/ Barrier(s) \/ Declare(s) \/ Collect(s)
      PROVE  SubInv' /\ YieldsNothing(s)
  BY <1>3, SubscribeKeeps, BarrierKeeps, DeclareKeeps, CollectKeeps
<1>4. ASSUME NEW s \in Subscribers, NextDeliver(s)
      PROVE  SubInv' /\ Streams!Deliver(s)
  BY <1>4, NextDeliverKeeps
<1>5. ASSUME NEW s \in Subscribers, Listen(s)
      PROVE  SubInv' /\ \E q \in StreamQueries, after \in StartAfter : Streams!Open(s, q, after)
  BY <1>5, ListenKeeps
<1>6. ASSUME NEW s \in Subscribers,
             \/ Subscribe(s) \/ Acquire(s) \/ Barrier(s) \/ Step(s)
             \/ \E fault \in BOOLEAN : SubscribeFails(s, fault) \/ DrainFails(s, fault)
             \/ WaitEnds(s, "lost") \/ CloseMark(s) \/ CloseRelease(s) \/ Cancel(s)
      PROVE  /\ SubInv'
             /\ \/ YieldsNothing(s) \/ Streams!Deliver(s)
                \/ \E q \in StreamQueries, after \in StartAfter : Streams!Open(s, q, after)
  BY <1>3, <1>4, <1>5, <1>6, ControlSteps DEF Acquire, Step
<1> QED
  BY <1>1, <1>2, <1>6 DEF Next, Streams!Next, YieldsNothing

\* The invariant holds in every run of a store and its subscriptions.
LEMMA SubInvAlways == Spec => []SubInv
<1>1. SubInv /\ [Next]_vars => SubInv'
  BY SubInvNext
<1> QED
  BY <1>1, SubInvInit, PTL DEF Spec

\* Every subscription's fields keep their types: among them, the position is
\* a position, and the high-water mark never NULL.
THEOREM TypeCorrect == Spec => []TypeOK
<1>1. SubInv => TypeOK
  BY DEF SubInv
<1> QED
  BY <1>1, SubInvAlways, PTL

\* Next yields what is due in position order, each event once, and passes
\* none over, however appends take their positions and commit: the barrier
\* of a drain keeps late commits behind its high-water mark.
THEOREM SubscriptionsInOrder == Spec => []DeliversInOrder
<1>1. ASSUME SubInv, NEW s \in Subscribers
      PROVE  /\ Delivered(s) \subseteq Due(s)
             /\ \A i, j \in DOMAIN sub[s].delivered :
                   i < j => sub[s].delivered[i].pos < sub[s].delivered[j].pos
             /\ \A r \in Due(s), t \in Delivered(s) : r.pos <= t.pos => r \in Delivered(s)
  <2>1. /\ Streamed(sub[s].delivered, DueIn(sub[s], log), sub[s].position)
        /\ sub[s].position \in Nat /\ log \in SUBSET Row
    BY <1>1 DEF SubInv, SubOK, StreamOK, TypeOK, Subscription
  <2>2. Due(s) = DueIn(sub[s], log) /\ Delivered(s) = RowsOf(sub[s].delivered)
    BY DEF Due, DueIn, Delivered, RowsOf
  <2>3. Delivered(s) = {r \in Due(s) : r.pos <= sub[s].position}
    BY <2>1, <2>2 DEF Streamed
  <2>4. \A r \in Due(s) : r.pos \in Nat
    BY <2>1 DEF Due, Row, Position
  <2>5. ASSUME NEW r \in Due(s), NEW t \in Delivered(s), r.pos <= t.pos
        PROVE  r \in Delivered(s)
    BY <2>1, <2>3, <2>4, <2>5
  <2> QED
    BY <2>1, <2>3, <2>5 DEF Streamed
<1>2. SubInv => DeliversInOrder
  BY <1>1 DEF DeliversInOrder
<1> QED
  BY <1>2, SubInvAlways, PTL

\* LISTEN before the first drain leaves no window: a subscription that waits
\* on its listener, with no notification at hand and none lost, has yielded
\* everything.
THEOREM WakeupsNotLost == Spec => []NoLostWakeup
<1>1. ASSUME SubInv, NEW s \in Subscribers, sub[s].pc = "wait", sub[s].listener,
             ~sub[s].inbox, ~sub[s].missed
      PROVE  Due(s) \subseteq Delivered(s)
  <2>1. SubOK(sub[s])
    BY <1>1 DEF SubInv
  <2>2. \A r \in DueIn(sub[s], log) : r.pos <= sub[s].position
    BY <1>1, <2>1 DEF SubOK, DrainOK
  <2>3. RowsOf(sub[s].delivered) = {r \in DueIn(sub[s], log) : r.pos <= sub[s].position}
    BY <2>1 DEF SubOK, StreamOK, Streamed
  <2>4. Due(s) = DueIn(sub[s], log) /\ Delivered(s) = RowsOf(sub[s].delivered)
    BY DEF Due, DueIn, Delivered, RowsOf
  <2> QED
    BY <2>2, <2>3, <2>4
<1>2. SubInv => NoLostWakeup
  BY <1>1 DEF NoLostWakeup
<1> QED
  BY <1>2, SubInvAlways, PTL

\* Nothing that was appended after the cancellation is ever yielded: a drain
\* that the cancellation overtakes does not hand its batch over.
THEOREM CancellationIsABound == Spec => []NothingNewAfterCancel
<1>1. SubInv => NothingNewAfterCancel
  BY DEF SubInv, SubOK, CancelOK, NothingNewAfterCancel, Canceled, Delivered, RowsOf
<1> QED
  BY <1>1, SubInvAlways, PTL

\* Err is set by failures only, never by a cancellation alone.
THEOREM ErrorsAreFaults == Spec => []StopsCleanly
<1>1. SubInv => StopsCleanly
  BY DEF SubInv, SubOK, StopsCleanly
<1> QED
  BY <1>1, SubInvAlways, PTL

\* The subscription implements the contract of Subscribe: batches, polls,
\* connections, cancellations and lost notifications aside, it yields the
\* events one by one from a log that never grows behind them.
THEOREM ImplementsStream == Spec => RefinesStream
<1>1. Init => Streams!Init
  <2> SUFFICES ASSUME Init PROVE Streams!Init
    OBVIOUS
  <2>1. \A s \in Subscribers : ~Subscribed(s)
    BY DEF Init, Subscribed, NoSubscription
  <2> QED
    BY <2>1 DEF Init, Streams!Init, Streams!NoStream, Streams!QueryAll, QueryAll
<1>2. SubInv /\ [Next]_vars => [Streams!Next]_(Streams!streamVars)
  BY SubInvNext
<1> QED
  BY <1>1, <1>2, SubInvAlways, PTL DEF Spec, RefinesStream, Streams!Stream
===============================================================================
