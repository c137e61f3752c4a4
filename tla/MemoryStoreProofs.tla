-------------------------- MODULE MemoryStoreProofs ---------------------------
(***************************************************************************)
(* Proofs about the in-memory store, for any number of clients and         *)
(* subscribers, any calls and any seed.                                    *)
(***************************************************************************)
EXTENDS MemoryStore, EventStoreProofs

-------------------------------------------------------------------------------
(***************************************************************************)
(* The inductive invariant.                                                *)
(***************************************************************************)

\* The slice is finite, and a position names one event.
EventsOK ==
    /\ IsFiniteSet(events)
    /\ \A r, t \in events : r.pos = t.pos => r = t

\* A forward view has no gap up to the newest event it has seen.
NoGap(v, rows) ==
    ~v.backwards =>
        \A s \in v.seen, r \in rows :
            MatchesQuery(v.query, r) /\ r.pos <= s.pos => r \in v.seen

\* A client's call, its outcome and its view belong together.
ClientOK(c) ==
    /\ pc[c] \in {"idle", "read"} => cmds[c] = <<>>
    /\ pc[c] = "append" => ret[c] = NoReturn
    /\ pc[c] = "return" => ret[c] # NoReturn
    /\ view[c].seen \subseteq events
    /\ NoGap(view[c], events)
    /\ pc[c] = "read" =>
          /\ rd[c].query = view[c].query
          /\ rd[c].backwards = view[c].backwards
          /\ rd[c].after # Nil => \E s \in view[c].seen : s.pos = rd[c].after

\* What the subscription st is to yield of a set of rows.
DueIn(st, rows) == {r \in rows : r.pos > st.first /\ MatchesQuery(st.query, r)}

\* What was yielded is complete up to the position, the batch at hand is
\* what follows, and whoever waits on an open channel has it all.
SubOK(st) ==
    /\ st.position = st.first \/ \E r \in events : st.position <= r.pos
    /\ st.first <= st.position
    /\ Streamed(st.delivered, DueIn(st, events), st.position)
    /\ NextBatch(st.pending, DueIn(st, events), st.position)
    /\ st.waitCh <= broadcast
    /\ st.pc = "select" /\ st.waitCh = broadcast =>
          \A r \in DueIn(st, events) : r.pos <= st.position
    /\ st.pc \in {"off", "failed"} => st.query = QueryAll /\ st.first = 0 /\ st.delivered = <<>>

MemInv ==
    /\ TypeOK
    /\ EventsOK
    /\ \A c \in Clients : ClientOK(c)
    /\ \A s \in Subscribers : SubOK(sub[s])

-------------------------------------------------------------------------------
(***************************************************************************)
(* Positions.                                                              *)
(***************************************************************************)

\* lastPosition is the greatest position in the slice, 0 if it is empty.
LEMMA LastPosition ==
    ASSUME NEW rows \in SUBSET Row, IsFiniteSet(rows)
    PROVE  /\ lastPosition(rows) \in Nat
           /\ \A r \in rows : r.pos <= lastPosition(rows)
           /\ rows # {} => \E r \in rows : r.pos = lastPosition(rows)
<1>1. CASE rows = {}
  BY <1>1 DEF lastPosition
<1>2. CASE rows # {}
  <2> DEFINE P == {r.pos : r \in rows}
             f == [r \in rows |-> r.pos]
  <2>1. P \in SUBSET Int /\ P # {} /\ \A r \in rows : r.pos \in Nat
    BY <1>2 DEF Row, Position
  <2>2. f \in [rows -> P] /\ \A k \in P : \E r \in rows : f[r] = k
    OBVIOUS
  <2>3. IsFiniteSet(P)
    <3> HIDE DEF P, f
    <3> QED BY <2>2, FiniteValues
  <2>4. \E k \in P : \A j \in P : j <= k
    <3> HIDE DEF P
    <3> QED BY <2>1, <2>3, FiniteMax
  <2>5. \E k \in P : \A r \in rows : r.pos <= k
    BY <2>4
  <2>6. lastPosition(rows) \in P /\ \A r \in rows : r.pos <= lastPosition(rows)
    BY <1>2, <2>5 DEF lastPosition
  <2> QED
    BY <2>1, <2>6
<1> QED
  BY <1>1, <1>2

\* The row of a slot: its position is beyond all those in the slice.
NewEvent(cs, s) ==
    [pos |-> lastPosition(events) + Rank(cs, s),
     type |-> EventAt(cs, s).type, tags |-> EventAt(cs, s).tags]

\* The new events are one row per slot, in the order of the slots, and come
\* after all that the store held.
LEMMA NewEventsType ==
    ASSUME events \in SUBSET Row, EventsOK, NEW cs \in Seq(AppendCommand)
    PROVE  /\ NewEvents(cs) = {NewEvent(cs, s) : s \in Slots(cs)}
           /\ NewEvents(cs) \in SUBSET Row /\ IsFiniteSet(NewEvents(cs))
           /\ \A s, t \in Slots(cs) : SlotBefore(s, t) => NewEvent(cs, s).pos < NewEvent(cs, t).pos
           /\ \A r, t \in NewEvents(cs) : r.pos = t.pos => r = t
           /\ \A r \in NewEvents(cs), t \in events : r.pos > t.pos
<1>1. NewEvents(cs) = {NewEvent(cs, s) : s \in Slots(cs)}
  BY DEF NewEvents, NewEvent, Rank
<1>2. /\ lastPosition(events) \in Nat
      /\ \A t \in events : t.pos <= lastPosition(events)
  BY LastPosition DEF EventsOK
<1>3. ASSUME NEW s \in Slots(cs)
      PROVE  /\ NewEvent(cs, s) \in Row
             /\ NewEvent(cs, s).pos = lastPosition(events) + Rank(cs, s)
             /\ NewEvent(cs, s).pos > lastPosition(events)
  <2>1. EventAt(cs, s) \in Event /\ Rank(cs, s) \in Nat /\ Rank(cs, s) > 0
    BY SlotsType, RankType
  <2>2. EventAt(cs, s).type \in EventTypes /\ EventAt(cs, s).tags \in SUBSET TagValues
    BY <2>1 DEF Event
  <2> QED
    BY <1>2, <2>1, <2>2 DEF NewEvent, Row, Position
<1>4. ASSUME NEW s \in Slots(cs), NEW t \in Slots(cs), SlotBefore(s, t)
      PROVE  NewEvent(cs, s).pos < NewEvent(cs, t).pos
  <2>1. Rank(cs, s) \in Nat /\ Rank(cs, t) \in Nat /\ Rank(cs, s) < Rank(cs, t)
    BY <1>4, RankType, RankOrdered
  <2> QED
    BY <1>2, <1>3, <2>1
<1>5. IsFiniteSet(NewEvents(cs))
  <2> DEFINE f == [s \in Slots(cs) |-> NewEvent(cs, s)]
  <2>1. f \in [Slots(cs) -> NewEvents(cs)] /\ \A r \in NewEvents(cs) : \E s \in Slots(cs) : f[s] = r
    BY <1>1
  <2> HIDE DEF f
  <2> QED BY <2>1, SlotsFinite, FiniteValues
<1>6. ASSUME NEW r \in NewEvents(cs), NEW t \in NewEvents(cs), r.pos = t.pos
      PROVE  r = t
  <2>1. PICK u \in Slots(cs) : r = NewEvent(cs, u)
    BY <1>1
  <2>2. PICK v \in Slots(cs) : t = NewEvent(cs, v)
    BY <1>1
  <2>3. u = v \/ SlotBefore(u, v) \/ SlotBefore(v, u)
    BY SlotsType, SlotsOrdered
  <2>4. r.pos \in Nat /\ t.pos \in Nat
    BY <1>3, <2>1, <2>2 DEF Row, Position
  <2> QED
    BY <1>4, <1>6, <2>1, <2>2, <2>3, <2>4
<1>7. ASSUME NEW r \in NewEvents(cs), NEW t \in events
      PROVE  r.pos > t.pos
  <2>1. r.pos > lastPosition(events) /\ r.pos \in Nat /\ t.pos \in Nat
    BY <1>1, <1>3 DEF Row, Position
  <2> QED
    BY <1>2, <2>1
<1> QED
  BY <1>1, <1>3, <1>4, <1>5, <1>6, <1>7
-------------------------------------------------------------------------------
(***************************************************************************)
(* The refinement mapping of subscriptions: what StreamContract sees.      *)
(***************************************************************************)

\* A subscription as the contract sees it.
StreamOf(st) ==
    [state |-> CASE st.pc \in {"off", "failed"} -> "none"
                 [] st.pc = "done"           -> "ended"
                 [] OTHER                    -> "open",
     query |-> st.query, first |-> st.first, delivered |-> st.delivered]

AllStreams == [s \in Subscribers |-> StreamOf(sub[s])]

\* The contract does not see a step that leaves the streams and the slice alone.
LEMMA ContractStutter ==
    ASSUME events' = events, AllStreams' = AllStreams
    PROVE  UNCHANGED Streams!streamVars
BY DEF Streams!streamVars, AllStreams, StreamOf

\* An append: no new event lies behind what a stream has yielded.
LEMMA ContractPublish ==
    ASSUME events \subseteq events', AllStreams' = AllStreams,
           \A r \in events' \ events, s \in Subscribers :
              r.pos > AllStreams[s].first /\ MatchesQuery(AllStreams[s].query, r) =>
                  \A t \in RowsOf(AllStreams[s].delivered) : r.pos > t.pos
    PROVE  Streams!Publish
BY DEF Streams!Publish, Streams!InStream, Streams!Yielded, AllStreams, StreamOf, RowsOf

\* The end of a stream.
LEMMA ContractEnd ==
    ASSUME NEW s \in Subscribers, events' = events, AllStreams[s].state = "open",
           AllStreams' = [AllStreams EXCEPT ![s].state = "ended"]
    PROVE  Streams!End(s)
BY DEF Streams!End, AllStreams, StreamOf

\* The beginning of one.
LEMMA ContractOpen ==
    ASSUME NEW s \in Subscribers, NEW q \in ReadQueries, NEW after \in StartAfter,
           events' = events, AllStreams[s] = Streams!NoStream,
           AllStreams' = [AllStreams EXCEPT ![s] =
              [state |-> "open", query |-> q, first |-> IF after = Nil THEN 0 ELSE after,
               delivered |-> <<>>]]
    PROVE  Streams!Open(s, q, after)
BY DEF Streams!Open, Streams!FirstOf, AllStreams, StreamOf

\* The delivery of the first event that has not been delivered.
LEMMA ContractDeliver ==
    ASSUME NEW s \in Subscribers, events' = events, AllStreams[s].state = "open",
           \E r \in DueIn(AllStreams[s], events) \ RowsOf(AllStreams[s].delivered) :
              /\ \A t \in DueIn(AllStreams[s], events) \ RowsOf(AllStreams[s].delivered) :
                    r.pos <= t.pos
              /\ AllStreams' = [AllStreams EXCEPT ![s].delivered = Append(@, r)]
    PROVE  Streams!Deliver(s)
BY DEF Streams!Deliver, Streams!InStream, Streams!Yielded, AllStreams, StreamOf, RowsOf, DueIn

\* A subscriber's step changes its own stream.
LEMMA OneStream ==
    ASSUME TypeOK, NEW s \in Subscribers, NEW st, sub' = [sub EXCEPT ![s] = st]
    PROVE  AllStreams' = [AllStreams EXCEPT ![s] = StreamOf(st)]
<1>1. \A b \in Subscribers : sub'[b] = IF b = s THEN st ELSE sub[b]
  BY DEF TypeOK
<1>2. AllStreams' = [b \in Subscribers |-> StreamOf(sub'[b])]
  BY DEF AllStreams
<1>3. \A b \in Subscribers : StreamOf(sub'[b]) = IF b = s THEN StreamOf(st) ELSE StreamOf(sub[b])
  BY <1>1
<1> QED
  BY <1>2, <1>3 DEF AllStreams

-------------------------------------------------------------------------------
(***************************************************************************)
(* A step of one subscriber changes its own record, and leaves the slice,  *)
(* the channel and the clients alone.                                      *)
(***************************************************************************)
StoreUnchanged == UNCHANGED <<events, broadcast, clientVars>>

\* A subscriber's step preserves the invariant if its new record has it, and
\* the contract of Append and Read does not see it.
LEMMA SubscriberKeeps ==
    ASSUME MemInv, NEW s \in Subscribers, NEW st \in Subscription, SubOK(st),
           sub' = [sub EXCEPT ![s] = st], StoreUnchanged
    PROVE  MemInv' /\ UNCHANGED Dcb!dcbVars
<1>1. /\ events' = events /\ broadcast' = broadcast /\ pc' = pc /\ cmds' = cmds
      /\ rd' = rd /\ view' = view /\ ret' = ret
  BY DEF StoreUnchanged, clientVars
<1>2. TypeOK' /\ EventsOK'
  BY <1>1 DEF MemInv, TypeOK, EventsOK
<1>3. \A c \in Clients : ClientOK(c)'
  BY <1>1 DEF MemInv, ClientOK, NoGap
<1>4. ASSUME NEW b \in Subscribers
      PROVE  SubOK(sub[b])'
  <2>1. PICK t : t = sub'[b] /\ SubOK(t)
    BY <1>4 DEF MemInv, TypeOK
  <2> QED
    BY <1>1, <2>1 DEF SubOK, DueIn
<1>5. UNCHANGED Dcb!dcbVars
  BY <1>1 DEF Dcb!dcbVars
<1> QED
  BY <1>2, <1>3, <1>4, <1>5 DEF MemInv

\* A step that yields nothing leaves its stream as it is, or ends it.
LEMMA EndsOrStutters ==
    ASSUME TypeOK, NEW s \in Subscribers, NEW st, sub' = [sub EXCEPT ![s] = st],
           StoreUnchanged, sub[s].pc \notin {"off", "failed", "done"}, st.pc \notin {"off", "failed"},
           st.query = sub[s].query, st.first = sub[s].first, st.delivered = sub[s].delivered
    PROVE  Streams!End(s) \/ UNCHANGED Streams!streamVars
<1>1. AllStreams' = [AllStreams EXCEPT ![s] = StreamOf(st)]
  BY OneStream
<1>2. events' = events
  BY DEF StoreUnchanged
<1>3. AllStreams[s] = StreamOf(sub[s])
  BY DEF AllStreams
<1>4. CASE StreamOf(st) = StreamOf(sub[s])
  <2>1. AllStreams' = AllStreams
    BY <1>1, <1>3, <1>4 DEF AllStreams
  <2> QED
    BY <1>2, <2>1, ContractStutter
<1>5. CASE StreamOf(st) # StreamOf(sub[s])
  <2>1. StreamOf(sub[s]).state = "open" /\ StreamOf(st) = [StreamOf(sub[s]) EXCEPT !.state = "ended"]
    BY <1>5 DEF StreamOf
  <2> HIDE DEF StreamOf
  <2>2. AllStreams' = [AllStreams EXCEPT ![s].state = "ended"]
    BY <1>1, <1>3, <2>1
  <2> QED
    BY <1>2, <1>3, <2>1, <2>2, ContractEnd
<1> QED
  BY <1>4, <1>5

\* What both contracts see of a step of a subscription that yields nothing.
Quiet(s) == /\ Streams!End(s) \/ UNCHANGED Streams!streamVars
            /\ UNCHANGED Dcb!dcbVars

\* A step that moves the subscriber without yielding or reading anything.
LEMMA ControlStep ==
    ASSUME MemInv, NEW s \in Subscribers, NEW st \in Subscription,
           sub' = [sub EXCEPT ![s] = st], StoreUnchanged,
           sub[s].pc \notin {"off", "failed", "done"}, st.pc \notin {"off", "failed"},
           st.query = sub[s].query, st.first = sub[s].first, st.delivered = sub[s].delivered,
           st.position = sub[s].position, st.pending = sub[s].pending, st.waitCh = sub[s].waitCh,
           st.pc = "select" => sub[s].pc = "select"
    PROVE  MemInv' /\ Quiet(s)
<1>1. SubOK(sub[s]) /\ DueIn(st, events) = DueIn(sub[s], events)
  BY DEF MemInv, DueIn
<1>2. SubOK(st)
  BY <1>1 DEF SubOK
<1> QED
  BY <1>2, SubscriberKeeps, EndsOrStutters DEF MemInv, Quiet

\* Those steps: Next is called, wakes up, or returns false, and the owner
\* cancels.
LEMMA ControlSteps ==
    ASSUME MemInv, NEW s \in Subscribers,
           CallNext(s) \/ WakeBroadcast(s) \/ WakeCancel(s) \/ Cancel(s)
    PROVE  MemInv' /\ Quiet(s)
<1>0. sub[s] \in Subscription
  BY DEF MemInv, TypeOK
<1>1. ASSUME NEW p \in {"loop", "done"}, sub' = [sub EXCEPT ![s].pc = p],
             sub[s].pc \notin {"off", "failed", "done"}, StoreUnchanged
      PROVE  MemInv' /\ Quiet(s)
  <2> DEFINE st == [sub[s] EXCEPT !.pc = p]
  <2>1. sub' = [sub EXCEPT ![s] = st]
    BY <1>1
  <2>2. /\ st \in Subscription
        /\ st.pc = p /\ st.query = sub[s].query /\ st.first = sub[s].first
        /\ st.delivered = sub[s].delivered /\ st.position = sub[s].position
        /\ st.pending = sub[s].pending /\ st.waitCh = sub[s].waitCh
    BY <1>0, <1>1 DEF Subscription
  <2> HIDE DEF st
  <2> QED
    BY <1>1, <2>1, <2>2, ControlStep
<1>2. ASSUME Cancel(s)
      PROVE  MemInv' /\ Quiet(s)
  <2> DEFINE st == [sub[s] EXCEPT !.canceled = lastPosition(events)]
  <2>1. sub' = [sub EXCEPT ![s] = st] /\ StoreUnchanged /\ sub[s].pc \notin {"off", "failed", "done"}
    BY <1>2 DEF Cancel, StoreUnchanged
  <2>2. lastPosition(events) \in Nat
    BY LastPosition DEF MemInv, TypeOK, EventsOK
  <2>3. /\ st \in Subscription
        /\ st.pc = sub[s].pc /\ st.query = sub[s].query /\ st.first = sub[s].first
        /\ st.delivered = sub[s].delivered /\ st.position = sub[s].position
        /\ st.pending = sub[s].pending /\ st.waitCh = sub[s].waitCh
    BY <1>0, <2>2 DEF Subscription
  <2> HIDE DEF st
  <2> QED
    BY <2>1, <2>3, ControlStep
<1> QED
  BY <1>1, <1>2 DEF CallNext, WakeBroadcast, WakeCancel, StoreUnchanged

\* Subscribe opens a stream that has yielded nothing.
LEMMA SubscribeKeeps ==
    ASSUME MemInv, NEW s \in Subscribers, Subscribe(s)
    PROVE  /\ MemInv' /\ UNCHANGED Dcb!dcbVars
           /\ \E q \in ReadQueries, after \in StartAfter : Streams!Open(s, q, after)
<1>1. PICK q \in ReadQueries, after \in StartAfter :
         sub' = [sub EXCEPT ![s] = [NoSubscription EXCEPT
                   !.pc = "out", !.query = q, !.first = IF after = Nil THEN 0 ELSE after,
                   !.position = IF after = Nil THEN 0 ELSE after]]
  BY DEF Subscribe
<1> DEFINE first == IF after = Nil THEN 0 ELSE after
           st    == [NoSubscription EXCEPT !.pc = "out", !.query = q, !.first = first,
                                           !.position = first]
<1>2. sub' = [sub EXCEPT ![s] = st] /\ StoreUnchanged /\ sub[s].pc = "off"
  BY <1>1 DEF Subscribe, StoreUnchanged
<1>3. first \in Nat /\ q \in Query
  BY MemoryStoreAssumption DEF IsQuery
<1>4. sub[s] \in Subscription /\ SubOK(sub[s]) /\ events \in SUBSET Row /\ broadcast \in Nat
  BY DEF MemInv, TypeOK
<1> HIDE DEF first
<1>5. /\ st \in Subscription
      /\ st.pc = "out" /\ st.query = q /\ st.first = first /\ st.position = first
      /\ st.pending = {} /\ st.waitCh = 0 /\ st.delivered = <<>>
  <2>1. <<>> \in Seq(Row)
    OBVIOUS
  <2> QED
    BY <1>3, <2>1 DEF Subscription, NoSubscription
<1> HIDE DEF st
<1>6. SubOK(st)
  <2>1. \A r \in events : r.pos \in Nat
    BY <1>4 DEF Row, Position
  <2>2. Streamed(<<>>, DueIn(st, events), first)
    BY <1>3, <1>5, <2>1 DEF Streamed, RowsOf, DueIn
  <2>3. NextBatch({}, DueIn(st, events), first)
    BY DEF NextBatch
  <2> QED
    BY <1>3, <1>4, <1>5, <2>2, <2>3 DEF SubOK
<1>7. MemInv' /\ UNCHANGED Dcb!dcbVars
  BY <1>2, <1>5, <1>6, SubscriberKeeps
<1>8. StreamOf(st) = [state |-> "open", query |-> q, first |-> first, delivered |-> <<>>]
  BY <1>5 DEF StreamOf
<1>9. AllStreams[s] = Streams!NoStream
  BY <1>2, <1>4 DEF AllStreams, StreamOf, SubOK, Streams!NoStream, Streams!QueryAll, QueryAll
<1>10. AllStreams' = [AllStreams EXCEPT ![s] = StreamOf(st)] /\ events' = events
  BY <1>2, OneStream DEF MemInv, StoreUnchanged
<1>11. AllStreams' = [AllStreams EXCEPT ![s] =
          [state |-> "open", query |-> q, first |-> IF after = Nil THEN 0 ELSE after,
           delivered |-> <<>>]]
  BY <1>8, <1>10 DEF first
<1>12. Streams!Open(s, q, after)
  BY <1>9, <1>10, <1>11, ContractOpen
<1> QED
  BY <1>7, <1>12

\* A rejected Subscribe opens no stream.
LEMMA SubscribeRejectedKeeps ==
    ASSUME MemInv, NEW s \in Subscribers, SubscribeRejected(s)
    PROVE  MemInv' /\ UNCHANGED Dcb!dcbVars /\ UNCHANGED Streams!streamVars
<1> DEFINE st == [sub[s] EXCEPT !.pc = "failed"]
<1>1. sub' = [sub EXCEPT ![s] = st] /\ StoreUnchanged /\ sub[s].pc = "off"
  BY DEF SubscribeRejected, StoreUnchanged
<1>2. sub[s] \in Subscription /\ SubOK(sub[s])
  BY DEF MemInv, TypeOK
<1>3. /\ st \in Subscription
      /\ st.pc = "failed" /\ st.query = sub[s].query /\ st.first = sub[s].first
      /\ st.delivered = sub[s].delivered /\ st.position = sub[s].position
      /\ st.pending = sub[s].pending /\ st.waitCh = sub[s].waitCh
  BY <1>2 DEF Subscription
<1> HIDE DEF st
<1>4. DueIn(st, events) = DueIn(sub[s], events)
  BY <1>3 DEF DueIn
<1>5. SubOK(st)
  BY <1>1, <1>2, <1>3, <1>4 DEF SubOK
<1>6. StreamOf(st) = StreamOf(sub[s])
  BY <1>1, <1>3 DEF StreamOf
<1>7. AllStreams' = [AllStreams EXCEPT ![s] = StreamOf(st)] /\ events' = events
  BY <1>1, OneStream DEF MemInv, StoreUnchanged
<1>8. AllStreams' = AllStreams
  BY <1>6, <1>7 DEF AllStreams
<1> QED
  BY <1>1, <1>3, <1>5, <1>7, <1>8, SubscriberKeeps, ContractStutter

\* The snapshot under the mutex is the next batch; if it is empty, all that
\* is due was yielded, and the channel taken with it is still open.
LEMMA NextSnapshotKeeps ==
    ASSUME MemInv, NEW s \in Subscribers, NextSnapshot(s)
    PROVE  MemInv' /\ Quiet(s)
<1> DEFINE o  == [NoRead EXCEPT !.query = sub[s].query, !.after = sub[s].position]
           found == Matching(events, o)
           target == IF found = {} THEN "select" ELSE "loop"
           st == [sub[s] EXCEPT !.pc = target, !.pending = found, !.waitCh = broadcast]
<1>1. sub' = [sub EXCEPT ![s] = st] /\ StoreUnchanged /\ sub[s].pc = "loop"
  BY DEF NextSnapshot, StoreUnchanged
<1>2. sub[s] \in Subscription /\ SubOK(sub[s]) /\ events \in SUBSET Row /\ broadcast \in Nat
  BY DEF MemInv, TypeOK
<1>3. /\ sub[s].position \in Nat /\ sub[s].first \in Nat
      /\ sub[s].first <= sub[s].position
  BY <1>2 DEF Subscription, SubOK
<1>4. o.query = sub[s].query /\ o.after = sub[s].position /\ ~o.backwards
  BY DEF NoRead
<1> HIDE DEF o
<1>5. found = {r \in events : r.pos > sub[s].position /\ MatchesQuery(sub[s].query, r)}
  BY <1>3, <1>4, NilAssumption DEF Matching, IsAfter
<1>6. target \in {"select", "loop"} /\ (target = "select" => found = {})
  OBVIOUS
<1> HIDE DEF found, target
<1>7. /\ st \in Subscription
      /\ st.pc = target /\ st.query = sub[s].query /\ st.first = sub[s].first
      /\ st.position = sub[s].position /\ st.delivered = sub[s].delivered
      /\ st.pending = found /\ st.waitCh = broadcast
  BY <1>2, <1>5, <1>6 DEF Subscription
<1> HIDE DEF st
<1>8. \A r \in events : r.pos \in Nat
  BY <1>2 DEF Row, Position
<1>9. found = {r \in DueIn(sub[s], events) : r.pos > sub[s].position}
  BY <1>3, <1>5, <1>8 DEF DueIn
<1>10. DueIn(st, events) = DueIn(sub[s], events) /\ DueIn(sub[s], events) \subseteq events
  BY <1>7 DEF DueIn
<1>11. NextBatch(found, DueIn(sub[s], events), sub[s].position)
  BY <1>9 DEF NextBatch
<1>12. found = {} => \A r \in DueIn(sub[s], events) : r.pos <= sub[s].position
  BY <1>3, <1>8, <1>9, <1>10
<1>13. SubOK(st)
  BY <1>2, <1>6, <1>7, <1>10, <1>11, <1>12 DEF SubOK
<1> QED
  BY <1>1, <1>6, <1>7, <1>13, SubscriberKeeps, EndsOrStutters DEF MemInv, Quiet

\* Next yields the first event of its batch.
LEMMA NextDeliverKeeps ==
    ASSUME MemInv, NEW s \in Subscribers, NextDeliver(s)
    PROVE  MemInv' /\ Streams!Deliver(s) /\ UNCHANGED Dcb!dcbVars
<1>1. PICK e \in sub[s].pending :
         /\ \A t \in sub[s].pending : e.pos <= t.pos
         /\ sub' = [sub EXCEPT ![s] = [sub[s] EXCEPT
                      !.pc = "out", !.pending = @ \ {e}, !.position = e.pos,
                      !.delivered = Append(@, e)]]
  BY DEF NextDeliver, ResumeAfter
<1> DEFINE st  == [sub[s] EXCEPT !.pc = "out", !.pending = @ \ {e}, !.position = e.pos,
                                 !.delivered = Append(@, e)]
           due == DueIn(sub[s], events)
<1>2. sub[s].pc = "loop" /\ StoreUnchanged
  BY DEF NextDeliver, StoreUnchanged
<1>3. sub[s] \in Subscription /\ SubOK(sub[s]) /\ events \in SUBSET Row
  BY DEF MemInv, TypeOK
<1>4. /\ due \in SUBSET Row /\ sub[s].position \in Nat /\ sub[s].delivered \in Seq(Row)
      /\ \A r, t \in due : r.pos = t.pos => r = t
      /\ due \subseteq events
  BY <1>3 DEF DueIn, Subscription, MemInv, EventsOK
<1>5. Streamed(sub[s].delivered, due, sub[s].position) /\ NextBatch(sub[s].pending, due, sub[s].position)
  BY <1>3 DEF SubOK
<1> HIDE DEF due
<1>6. /\ Append(sub[s].delivered, e) \in Seq(Row)
      /\ Streamed(Append(sub[s].delivered, e), due, e.pos)
      /\ NextBatch(sub[s].pending \ {e}, due, e.pos)
      /\ e \in due \ RowsOf(sub[s].delivered)
      /\ \A t \in due \ RowsOf(sub[s].delivered) : e.pos <= t.pos
  <2> DEFINE del == sub[s].delivered
             b   == sub[s].pending
             p   == sub[s].position
  <2>1. /\ due \in SUBSET Row /\ p \in Nat /\ del \in Seq(Row)
        /\ \A r, t \in due : r.pos = t.pos => r = t
        /\ Streamed(del, due, p) /\ NextBatch(b, due, p)
        /\ e \in b /\ \A t \in b : e.pos <= t.pos
    BY <1>1, <1>4, <1>5
  <2> HIDE DEF del, b, p
  <2>2. YieldsNext(del, b, due, e)
    BY <2>1, BatchDelivers
  <2> QED
    BY <2>2 DEF YieldsNext, del, b
<1>7. e \in Row /\ e.pos \in Nat /\ e \in events /\ e.pos > sub[s].first
  BY <1>4, <1>6 DEF Row, Position, due, DueIn
<1>8. /\ st \in Subscription
      /\ st.pc = "out" /\ st.query = sub[s].query /\ st.first = sub[s].first
      /\ st.position = e.pos /\ st.pending = sub[s].pending \ {e}
      /\ st.waitCh = sub[s].waitCh /\ st.delivered = Append(sub[s].delivered, e)
  BY <1>3, <1>6, <1>7 DEF Subscription
<1> HIDE DEF st
<1>9. DueIn(st, events) = due
  BY <1>8 DEF due, DueIn
<1>10. sub[s].first \in Nat
  BY <1>3 DEF Subscription
<1>11. SubOK(st)
  <2>1. st.first <= st.position /\ e.pos <= e.pos
    BY <1>7, <1>8, <1>10
  <2> QED
    BY <1>3, <1>6, <1>7, <1>8, <1>9, <2>1 DEF SubOK
<1>12. sub' = [sub EXCEPT ![s] = st]
  BY <1>1 DEF st
<1>13. MemInv' /\ UNCHANGED Dcb!dcbVars
  BY <1>2, <1>8, <1>11, <1>12, SubscriberKeeps
<1>14. Streams!Deliver(s)
  <2>1. /\ AllStreams[s] = StreamOf(sub[s]) /\ AllStreams[s].state = "open"
        /\ AllStreams[s].delivered = sub[s].delivered
        /\ DueIn(AllStreams[s], events) = due
    BY <1>2 DEF AllStreams, StreamOf, due, DueIn
  <2>2. StreamOf(st) = [AllStreams[s] EXCEPT !.delivered = Append(@, e)]
    <3> DEFINE q == sub[s].query
               first == sub[s].first
               del == sub[s].delivered
               old == AllStreams[s]
    <3>1. old = [state |-> "open", query |-> q, first |-> first, delivered |-> del]
      BY <1>2, <2>1 DEF StreamOf
    <3>2. StreamOf(st) = [state |-> "open", query |-> q, first |-> first,
                          delivered |-> Append(del, e)]
      BY <1>8 DEF StreamOf
    <3> HIDE DEF q, first, del, old
    <3>3. [old EXCEPT !.delivered = Append(@, e)] =
             [state |-> "open", query |-> q, first |-> first, delivered |-> Append(del, e)]
      BY <3>1
    <3> QED
      BY <3>2, <3>3 DEF old
  <2>3. AllStreams' = [AllStreams EXCEPT ![s] = StreamOf(st)] /\ events' = events
    BY <1>2, <1>12, OneStream DEF MemInv, StoreUnchanged
  <2>4. AllStreams' = [AllStreams EXCEPT ![s].delivered = Append(@, e)]
    BY <2>2, <2>3
  <2> QED
    BY <1>6, <2>1, <2>3, <2>4, ContractDeliver
<1> QED
  BY <1>13, <1>14

-------------------------------------------------------------------------------
(***************************************************************************)
(* A step of one client changes its own entries; unless it stores events,  *)
(* it leaves the slice, the channel and the subscriptions alone.           *)
(***************************************************************************)

OthersUnchanged(c) ==
    \A d \in Clients \ {c} :
        /\ pc'[d] = pc[d] /\ cmds'[d] = cmds[d] /\ rd'[d] = rd[d]
        /\ view'[d] = view[d] /\ ret'[d] = ret[d]

\* Such a step preserves the invariant if the client's new entries have it,
\* and no stream sees it.
LEMMA ClientKeeps ==
    ASSUME MemInv, NEW c \in Clients, events' = events, broadcast' = broadcast, sub' = sub,
           OthersUnchanged(c), TypeOK', ClientOK(c)'
    PROVE  MemInv' /\ UNCHANGED Streams!streamVars
<1>1. ASSUME NEW d \in Clients \ {c}
      PROVE  ClientOK(d)'
  BY <1>1 DEF MemInv, ClientOK, NoGap, OthersUnchanged
<1>2. EventsOK' /\ \A s \in Subscribers : SubOK(sub[s])'
  BY DEF MemInv, EventsOK, SubOK, DueIn
<1>3. UNCHANGED Streams!streamVars
  BY ContractStutter DEF AllStreams
<1> QED
  BY <1>1, <1>2, <1>3 DEF MemInv

\* The outcomes of a call are outcomes.
LEMMA ReturnType ==
    /\ NoReturn \in Return /\ Error \in Return /\ NoReturn # Error
    /\ \A i \in Position :
          /\ [kind |-> "condition", idx |-> i] \in Return
          /\ [kind |-> "condition", idx |-> i] # NoReturn
          /\ [kind |-> "ok", pos |-> i] \in Return
          /\ [kind |-> "ok", pos |-> i] # NoReturn
<1>1. NoReturn \in Return /\ Error \in Return /\ NoReturn # Error
  BY DEF Return, NoReturn, Error
<1>2. ASSUME NEW i \in Position
      PROVE  /\ [kind |-> "condition", idx |-> i] \in Return
             /\ [kind |-> "condition", idx |-> i] # NoReturn
             /\ [kind |-> "ok", pos |-> i] \in Return
             /\ [kind |-> "ok", pos |-> i] # NoReturn
  <2>1. /\ [kind |-> "condition", idx |-> i].kind = "condition"
        /\ [kind |-> "ok", pos |-> i].kind = "ok" /\ NoReturn.kind = "none"
    BY DEF NoReturn
  <2> QED
    BY <2>1 DEF Return
<1> QED
  BY <1>1, <1>2

\* A rejected call, and one that has no events to store, returns an error and
\* nothing else.
LEMMA FailKeeps ==
    ASSUME MemInv, NEW c \in Clients, CallRejected(c) \/ AppendNothing(c)
    PROVE  MemInv' /\ UNCHANGED Streams!streamVars /\ Dcb!Fail(c)
<1>1. /\ ret' = [ret EXCEPT ![c] = Error]
      /\ events' = events /\ broadcast' = broadcast /\ cmds' = cmds /\ rd' = rd
      /\ view' = view /\ sub' = sub
  BY DEF CallRejected, AppendNothing
<1>2. \/ pc' = pc /\ pc[c] = "idle"
      \/ pc' = [pc EXCEPT ![c] = "return"]
  BY DEF CallRejected, AppendNothing
<1>3. TypeOK
  BY DEF MemInv
<1>4. TypeOK'
  BY <1>1, <1>2, <1>3, ReturnType DEF TypeOK
<1>5. ClientOK(c)'
  BY <1>1, <1>2, <1>3, ReturnType DEF MemInv, TypeOK, ClientOK, NoGap
<1>6. OthersUnchanged(c)
  BY <1>1, <1>2, <1>3 DEF OthersUnchanged, TypeOK
<1>7. Dcb!Fail(c)
  BY <1>1 DEF Dcb!Fail, Dcb!Error, Error
<1> QED
  BY <1>1, <1>4, <1>5, <1>6, <1>7, ClientKeeps

\* Append is called.
LEMMA AppendCallKeeps ==
    ASSUME MemInv, NEW c \in Clients, NEW cs \in AppendInputs, AppendCall(c, cs)
    PROVE  MemInv' /\ UNCHANGED Streams!streamVars /\ Dcb!Call(c, cs)
<1>1. /\ ret' = [ret EXCEPT ![c] = NoReturn]
      /\ pc' = [pc EXCEPT ![c] = "append"]
      /\ cmds' = [cmds EXCEPT ![c] = cs]
      /\ events' = events /\ broadcast' = broadcast /\ rd' = rd
      /\ view' = view /\ sub' = sub /\ pc[c] = "idle"
  BY DEF AppendCall
<1>2. TypeOK /\ cs \in Seq(AppendCommand)
  BY MemoryStoreAssumption DEF MemInv
<1>3. TypeOK'
  BY <1>1, <1>2, ReturnType DEF TypeOK
<1>4. ClientOK(c)'
  BY <1>1, <1>2 DEF MemInv, TypeOK, ClientOK, NoGap
<1>5. OthersUnchanged(c)
  BY <1>1, <1>2 DEF OthersUnchanged, TypeOK
<1>6. Dcb!Call(c, cs)
  BY <1>1 DEF Dcb!Call, Dcb!NoReturn, NoReturn, MemInv, ClientOK
<1> QED
  BY <1>1, <1>3, <1>4, <1>5, <1>6, ClientKeeps

\* A condition is violated: the call returns the index of the first such
\* command, and stores nothing.
LEMMA AppendConditionFailsKeeps ==
    ASSUME MemInv, NEW c \in Clients, AppendConditionFails(c)
    PROVE  MemInv' /\ UNCHANGED Streams!streamVars /\ Dcb!AppendConditionFails(c)
<1>1. PICK i \in DOMAIN cmds[c] :
         /\ Violates(events, cmds[c], i)
         /\ \A j \in 1..(i-1) : ~Violates(events, cmds[c], j)
         /\ ret' = [ret EXCEPT ![c] = [kind |-> "condition", idx |-> i]]
  BY DEF AppendConditionFails
<1>2. /\ pc' = [pc EXCEPT ![c] = "return"] /\ pc[c] = "append"
      /\ events' = events /\ broadcast' = broadcast /\ cmds' = cmds /\ rd' = rd
      /\ view' = view /\ sub' = sub
  BY DEF AppendConditionFails
<1>3. TypeOK
  BY DEF MemInv
<1>4. i \in Position
  BY <1>3 DEF TypeOK, Position
<1> DEFINE out == [kind |-> "condition", idx |-> i]
<1>5. out \in Return /\ out # NoReturn
  BY <1>4, ReturnType
<1>6. ret' = [ret EXCEPT ![c] = out]
  BY <1>1
<1> HIDE DEF out
<1>7. TypeOK'
  BY <1>2, <1>3, <1>5, <1>6 DEF TypeOK
<1>8. ClientOK(c)'
  BY <1>2, <1>3, <1>5, <1>6 DEF MemInv, TypeOK, ClientOK, NoGap
<1>9. OthersUnchanged(c)
  BY <1>2, <1>3, <1>6 DEF OthersUnchanged, TypeOK
<1>10. \A j \in DOMAIN cmds[c] \cup 1..(i-1) :
          Violates(events, cmds[c], j) <=> Dcb!Violates(events, cmds[c], j)
  BY DEF Violates, Dcb!Violates, AnyMatchAfter, Dcb!AnyMatchAfter, IsAfter, Dcb!IsAfter,
         MatchesQuery, Dcb!MatchesQuery, MatchesQueryItem, Dcb!MatchesQueryItem
<1>11. ret[c] = NoReturn
  BY <1>2 DEF MemInv, ClientOK
<1>12. Dcb!AppendConditionFails(c)
  BY <1>1, <1>2, <1>10, <1>11 DEF Dcb!AppendConditionFails, Dcb!NoReturn, NoReturn
<1> QED
  BY <1>2, <1>7, <1>8, <1>9, <1>12, ClientKeeps

\* Append returns.
LEMMA AppendReturnKeeps ==
    ASSUME MemInv, NEW c \in Clients, AppendReturn(c)
    PROVE  MemInv' /\ UNCHANGED Streams!streamVars /\ Dcb!CallReturns(c)
<1>1. /\ pc' = [pc EXCEPT ![c] = "idle"] /\ pc[c] = "return"
      /\ cmds' = [cmds EXCEPT ![c] = <<>>]
      /\ events' = events /\ broadcast' = broadcast /\ rd' = rd
      /\ view' = view /\ ret' = ret /\ sub' = sub
  BY DEF AppendReturn
<1>2. TypeOK /\ <<>> \in Seq(AppendCommand)
  BY DEF MemInv
<1>3. TypeOK'
  BY <1>1, <1>2 DEF TypeOK
<1>4. ClientOK(c)'
  BY <1>1, <1>2 DEF MemInv, TypeOK, ClientOK, NoGap
<1>5. OthersUnchanged(c)
  BY <1>1, <1>2 DEF OthersUnchanged, TypeOK
<1>6. Dcb!CallReturns(c)
  BY <1>1 DEF Dcb!CallReturns, Dcb!NoReturn, NoReturn, MemInv, ClientOK
<1> QED
  BY <1>1, <1>3, <1>4, <1>5, <1>6, ClientKeeps

\* A Read begins, on a new query or after the last event of the view.
LEMMA BeginReadKeeps ==
    ASSUME MemInv, NEW c \in Clients, NEW limit \in ReadLimits,
           \/ \E q \in ReadQueries, backwards \in BOOLEAN : ReadFirst(c, q, backwards, limit)
           \/ ReadMore(c, limit)
    PROVE  MemInv' /\ UNCHANGED Streams!streamVars /\ Dcb!BeginRead(c)
<1>0. TypeOK /\ limit \in Nat /\ cmds[c] \in Seq(AppendCommand) /\ view[c] \in View
  BY MemoryStoreAssumption DEF MemInv, TypeOK
<1>1. ASSUME NEW o \in ReadCall, BeginRead(c, o), NEW v \in View, view' = [view EXCEPT ![c] = v],
             v.seen \subseteq events, NoGap(v, events),
             o.query = v.query, o.backwards = v.backwards,
             o.after # Nil => \E s \in v.seen : s.pos = o.after
      PROVE  MemInv' /\ UNCHANGED Streams!streamVars
  <2>1. /\ pc' = [pc EXCEPT ![c] = "read"] /\ pc[c] = "idle"
        /\ rd' = [rd EXCEPT ![c] = o] /\ ret' = [ret EXCEPT ![c] = NoReturn]
        /\ events' = events /\ broadcast' = broadcast /\ cmds' = cmds /\ sub' = sub
    BY <1>1 DEF BeginRead
  <2>2. TypeOK'
    BY <1>0, <1>1, <2>1, ReturnType DEF TypeOK
  <2>3. /\ pc'[c] = "read" /\ cmds'[c] = <<>> /\ view'[c] = v /\ rd'[c] = o
    BY <1>0, <1>1, <2>1 DEF MemInv, TypeOK, ClientOK
  <2>4. ClientOK(c)'
    BY <1>1, <2>1, <2>3 DEF ClientOK, NoGap
  <2>5. OthersUnchanged(c)
    BY <1>0, <1>1, <2>1 DEF OthersUnchanged, TypeOK
  <2> QED
    BY <2>1, <2>2, <2>4, <2>5, ClientKeeps
<1>2. ASSUME NEW o, BeginRead(c, o),
             \/ UNCHANGED view
             \/ \E q \in ReadQueries, backwards \in BOOLEAN :
                   view' = [view EXCEPT ![c] = [query |-> q, backwards |-> backwards, seen |-> {}]]
      PROVE  Dcb!BeginRead(c)
  <2>1. /\ pc[c] = "idle" /\ ret' = [ret EXCEPT ![c] = NoReturn] /\ events' = events /\ cmds' = cmds
    BY <1>2 DEF BeginRead
  <2>2. cmds[c] = <<>>
    BY <2>1 DEF MemInv, ClientOK
  <2> QED
    BY <1>2, <2>1, <2>2 DEF Dcb!BeginRead, Dcb!NoReturn, NoReturn
<1>3. ASSUME NEW q \in ReadQueries, NEW backwards \in BOOLEAN, ReadFirst(c, q, backwards, limit)
      PROVE  MemInv' /\ UNCHANGED Streams!streamVars /\ Dcb!BeginRead(c)
  <2> DEFINE v == [query |-> q, backwards |-> backwards, seen |-> {}]
             o == [query |-> q, after |-> Nil, backwards |-> backwards, limit |-> limit]
  <2>1. view' = [view EXCEPT ![c] = v] /\ BeginRead(c, o)
    BY <1>3 DEF ReadFirst
  <2>2. q \in Query
    BY MemoryStoreAssumption DEF IsQuery
  <2>3. /\ o \in ReadCall /\ v \in View
        /\ o.query = v.query /\ o.backwards = v.backwards /\ o.after = Nil /\ v.seen = {}
    BY <1>0, <2>2 DEF ReadCall, View
  <2>4. Dcb!BeginRead(c)
    BY <1>2, <2>1
  <2> HIDE DEF v, o
  <2>5. NoGap(v, events)
    BY <2>3 DEF NoGap
  <2> QED
    BY <1>1, <2>1, <2>3, <2>4, <2>5
<1>4. ASSUME ReadMore(c, limit)
      PROVE  MemInv' /\ UNCHANGED Streams!streamVars /\ Dcb!BeginRead(c)
  <2>1. PICK s \in view[c].seen :
           BeginRead(c, [query |-> view[c].query, after |-> s.pos,
                         backwards |-> view[c].backwards, limit |-> limit])
    BY <1>4 DEF ReadMore
  <2> DEFINE o == [query |-> view[c].query, after |-> s.pos,
                   backwards |-> view[c].backwards, limit |-> limit]
  <2>2. s.pos \in Nat
    BY <1>0 DEF View, Row, Position
  <2>3. /\ o \in ReadCall /\ BeginRead(c, o)
        /\ o.query = view[c].query /\ o.backwards = view[c].backwards /\ o.after = s.pos
    BY <1>0, <2>1, <2>2 DEF ReadCall, View
  <2>4. view' = view
    BY <1>4 DEF ReadMore
  <2> HIDE DEF o
  <2>5. view' = [view EXCEPT ![c] = view[c]]
    BY <1>0, <2>4 DEF TypeOK
  <2>6. view[c].seen \subseteq events /\ NoGap(view[c], events)
    BY DEF MemInv, ClientOK
  <2>7. MemInv' /\ UNCHANGED Streams!streamVars
    BY <1>0, <1>1, <2>3, <2>5, <2>6
  <2>8. Dcb!BeginRead(c)
    BY <1>2, <2>3, <2>4
  <2> QED
    BY <2>7, <2>8
<1> QED
  BY <1>3, <1>4

\* A page that follows on the view leaves no gap.
LEMMA PageLeavesNoGap ==
    ASSUME events \in SUBSET Row, EventsOK, NEW v \in View, NEW o \in ReadCall, NEW w \in View, NEW page,
           v.seen \subseteq events, NoGap(v, events),
           o.query = v.query, o.backwards = v.backwards,
           o.after # Nil => \E s \in v.seen : s.pos = o.after,
           IsPage(page, Matching(events, o), o),
           w.query = v.query, w.backwards = v.backwards, w.seen = v.seen \cup page
    PROVE  NoGap(w, events)
<1> SUFFICES ASSUME ~w.backwards, NEW s \in w.seen, NEW r \in events,
                    MatchesQuery(w.query, r), r.pos <= s.pos
             PROVE  r \in w.seen
  BY DEF NoGap
<1>1. \A t \in events : t.pos \in Nat
  BY DEF Row, Position
<1>2. ~o.backwards /\ MatchesQuery(o.query, r) /\ page \subseteq events
  BY DEF IsPage, Matching
<1>3. \A t \in v.seen, u \in events : MatchesQuery(v.query, u) /\ u.pos <= t.pos => u \in v.seen
  BY <1>2 DEF NoGap
<1>4. CASE s \in v.seen
  BY <1>3, <1>4
<1>5. CASE s \in page
  <2>1. CASE o.after # Nil /\ ~(r.pos > o.after)
    <3>1. PICK t \in v.seen : t.pos = o.after
      BY <2>1
    <3>2. r.pos <= t.pos
      BY <1>1, <2>1, <3>1
    <3> QED
      BY <1>3, <3>2
  <2>2. CASE o.after # Nil => r.pos > o.after
    <3>1. r \in Matching(events, o)
      BY <1>2, <2>2 DEF Matching, IsAfter
    <3>2. CASE r.pos = s.pos
      BY <1>2, <1>5, <3>2 DEF EventsOK
    <3>3. CASE r.pos # s.pos
      <4>1. Precedes(r, s, o)
        BY <1>1, <1>2, <1>5, <3>3 DEF Precedes
      <4> QED
        BY <1>5, <3>1, <4>1 DEF IsPage
    <3> QED
      BY <3>2, <3>3
  <2> QED
    BY <2>1, <2>2
<1> QED
  BY <1>4, <1>5

\* Read returns a page of the slice as it was while it held the mutex.
LEMMA ReadEventsKeeps ==
    ASSUME MemInv, NEW c \in Clients, ReadEvents(c)
    PROVE  MemInv' /\ UNCHANGED Streams!streamVars /\ Dcb!ReadReturns(c)
<1>1. PICK page \in SUBSET Matching(events, rd[c]) :
         /\ IsPage(page, Matching(events, rd[c]), rd[c])
         /\ view' = [view EXCEPT ![c].seen = @ \cup page]
  BY DEF ReadEvents
<1>2. /\ pc' = [pc EXCEPT ![c] = "idle"] /\ pc[c] = "read"
      /\ rd' = [rd EXCEPT ![c] = NoRead] /\ ret' = ret
      /\ events' = events /\ broadcast' = broadcast /\ cmds' = cmds /\ sub' = sub
  BY DEF ReadEvents
<1>3. TypeOK /\ view[c] \in View /\ rd[c] \in ReadCall /\ events \in SUBSET Row /\ ClientOK(c) /\ EventsOK
  BY DEF MemInv, TypeOK
<1>4. NoRead \in ReadCall
  BY DEF NoRead, ReadCall, QueryAll, Query
<1> DEFINE v == [view[c] EXCEPT !.seen = @ \cup page]
<1>5. view' = [view EXCEPT ![c] = v]
  BY <1>1
<1>6. page \subseteq events
  BY <1>1 DEF Matching
<1>7. /\ v \in View
      /\ v.query = view[c].query /\ v.backwards = view[c].backwards /\ v.seen = view[c].seen \cup page
  BY <1>3, <1>6 DEF View
<1> HIDE DEF v
<1>8. /\ view[c].seen \subseteq events /\ NoGap(view[c], events) /\ cmds[c] = <<>>
      /\ rd[c].query = view[c].query /\ rd[c].backwards = view[c].backwards
      /\ rd[c].after # Nil => \E s \in view[c].seen : s.pos = rd[c].after
  BY <1>2, <1>3 DEF ClientOK
<1>9. NoGap(v, events)
  BY <1>1, <1>3, <1>7, <1>8, PageLeavesNoGap
<1>10. TypeOK'
  BY <1>2, <1>3, <1>4, <1>5, <1>7 DEF TypeOK
<1>11. pc'[c] = "idle" /\ cmds'[c] = <<>> /\ view'[c] = v
  BY <1>2, <1>3, <1>5, <1>8 DEF TypeOK
<1>12. ClientOK(c)'
  BY <1>2, <1>6, <1>7, <1>8, <1>9, <1>11 DEF ClientOK, NoGap
<1>13. OthersUnchanged(c)
  BY <1>2, <1>3, <1>5 DEF OthersUnchanged, TypeOK
<1>14. MemInv' /\ UNCHANGED Streams!streamVars
  BY <1>2, <1>10, <1>12, <1>13, ClientKeeps
<1>15. Dcb!ReadReturns(c)
  <2>1. page \in SUBSET {r \in events : MatchesQuery(view[c].query, r)}
    BY <1>1, <1>8 DEF Matching
  <2>2. ~view[c].backwards => Dcb!SeesPrefix(events, v)
    BY <1>7, <1>9 DEF NoGap, Dcb!SeesPrefix, Dcb!MatchesQuery, MatchesQuery, Dcb!MatchesQueryItem,
                      MatchesQueryItem
  <2>3. page \in SUBSET {r \in events : Dcb!MatchesQuery(view[c].query, r)}
    BY <2>1 DEF Dcb!MatchesQuery, MatchesQuery, Dcb!MatchesQueryItem, MatchesQueryItem
  <2> QED
    BY <1>1, <1>2, <1>8, <1>11, <2>2, <2>3 DEF Dcb!ReadReturns
<1> QED
  BY <1>14, <1>15

-------------------------------------------------------------------------------
(***************************************************************************)
(* Append stores its events.                                               *)
(***************************************************************************)

\* The rows of a call are stored in the order of its slots, as the contract
\* has it.
LEMMA ContractStores ==
    ASSUME MemInv, NEW cs \in Seq(AppendCommand)
    PROVE  Dcb!StoresCall(NewEvents(cs), cs)
<1> DEFINE f == [s \in Slots(cs) |-> NewEvent(cs, s)]
<1>1. /\ NewEvents(cs) = {NewEvent(cs, s) : s \in Slots(cs)}
      /\ \A s, t \in Slots(cs) : SlotBefore(s, t) => NewEvent(cs, s).pos < NewEvent(cs, t).pos
  BY NewEventsType DEF MemInv, TypeOK
<1>2. /\ f \in [Slots(cs) -> NewEvents(cs)]
      /\ NewEvents(cs) = {f[s] : s \in Slots(cs)}
      /\ \A s, t \in Slots(cs) : SlotBefore(s, t) => f[s].pos < f[t].pos
  BY <1>1
<1>3. \A s \in Slots(cs) : f[s].type = EventAt(cs, s).type /\ f[s].tags = EventAt(cs, s).tags
  BY DEF NewEvent
<1> HIDE DEF f
<1>4. \E g \in [Slots(cs) -> NewEvents(cs)] :
         /\ NewEvents(cs) = {g[s] : s \in Slots(cs)}
         /\ \A s \in Slots(cs) : g[s].type = EventAt(cs, s).type /\ g[s].tags = EventAt(cs, s).tags
         /\ \A s, t \in Slots(cs) : SlotBefore(s, t) => g[s].pos < g[t].pos
  BY <1>2, <1>3
<1> QED
  BY <1>4 DEF Dcb!StoresCall, Dcb!Slots, Slots, Dcb!EventAt, EventAt, Dcb!SlotBefore, SlotBefore

\* What is stored, and the position that Append returns: that of the last new
\* event.
LEMMA StoreGrows ==
    ASSUME MemInv, NEW c \in Clients, AppendEvents(c)
    PROVE  LET new == NewEvents(cmds[c]) IN
           /\ cmds[c] \in Seq(AppendCommand)
           /\ new \in SUBSET Row /\ events' = events \cup new /\ events' \ events = new
           /\ \A r \in new, t \in events : r.pos > t.pos
           /\ EventsOK'
           /\ lastPosition(events') \in Position
           /\ \E last \in new : lastPosition(events') = last.pos /\ \A r \in new : r.pos <= last.pos
<1> DEFINE cs  == cmds[c]
           new == NewEvents(cs)
<1>1. cs \in Seq(AppendCommand) /\ events \in SUBSET Row /\ EventsOK
  BY DEF MemInv, TypeOK
<1>2. events' = events \cup new /\ Slots(cs) # {}
  BY DEF AppendEvents
<1>3. /\ new = {NewEvent(cs, s) : s \in Slots(cs)}
      /\ new \in SUBSET Row /\ IsFiniteSet(new)
      /\ \A r, t \in new : r.pos = t.pos => r = t
      /\ \A r \in new, t \in events : r.pos > t.pos
  BY <1>1, NewEventsType
<1>4. new # {}
  BY <1>2, <1>3
<1> HIDE DEF new
<1>5. \A r \in events \cup new : r.pos \in Position /\ r.pos \in Nat
  BY <1>1, <1>3 DEF Row, Position
<1>6. events' \ events = new
  <2>1. \A r \in new : r \notin events
    BY <1>3, <1>5
  <2> QED
    BY <1>2, <2>1
<1>7. IsFiniteSet(events') /\ events' \in SUBSET Row
  <2>1. IsFiniteSet(events \cup new)
    BY <1>1, <1>3, FS_Union DEF EventsOK
  <2> QED
    BY <1>1, <1>2, <1>3, <2>1
<1>8. EventsOK'
  <2>1. \A r, t \in events \cup new : r.pos = t.pos => r = t
    BY <1>1, <1>3, <1>5 DEF EventsOK
  <2> QED
    BY <1>2, <1>7, <2>1 DEF EventsOK
<1>9. /\ \A r \in events' : r.pos <= lastPosition(events')
      /\ \E r \in events' : r.pos = lastPosition(events')
  BY <1>2, <1>4, <1>7, LastPosition
<1>10. PICK last \in events' : last.pos = lastPosition(events')
  BY <1>9
<1>11. last \in new
  BY <1>2, <1>3, <1>4, <1>5, <1>9, <1>10
<1>12. lastPosition(events') \in Position
  BY <1>5, <1>10, <1>11
<1>13. \A r \in new : r.pos <= last.pos
  BY <1>2, <1>9, <1>10
<1>14. \E e \in new : lastPosition(events') = e.pos /\ \A r \in new : r.pos <= e.pos
  BY <1>10, <1>11, <1>13
<1> QED
  BY <1>1, <1>2, <1>3, <1>6, <1>8, <1>12, <1>14 DEF new

\* A successful Append stores all its events at once, after every event there
\* is, and closes the channel that waiting iterators hold.
LEMMA AppendEventsKeeps ==
    ASSUME MemInv, NEW c \in Clients, AppendEvents(c)
    PROVE  MemInv' /\ Streams!Publish /\ Dcb!AppendSucceeds(c)
<1> DEFINE new == NewEvents(cmds[c])
           out == [kind |-> "ok", pos |-> lastPosition(events')]
<1>1. /\ ret' = [ret EXCEPT ![c] = out] /\ broadcast' = broadcast + 1
      /\ pc' = [pc EXCEPT ![c] = "return"] /\ pc[c] = "append"
      /\ cmds' = cmds /\ rd' = rd /\ view' = view /\ sub' = sub
  BY DEF AppendEvents, NextChannel
<1>2. TypeOK /\ \A r \in events : r.pos \in Nat
  BY DEF MemInv, TypeOK, Row, Position
<1>3. /\ cmds[c] \in Seq(AppendCommand)
      /\ new \in SUBSET Row /\ events' = events \cup new /\ events' \ events = new
      /\ \A r \in new, t \in events : r.pos > t.pos
      /\ EventsOK'
  BY StoreGrows
<1>4. out \in Return /\ out # NoReturn
  <2>1. lastPosition(events') \in Position
    BY StoreGrows
  <2> QED
    BY <2>1, ReturnType
<1>5. \E last \in new : /\ \A r \in new : r.pos <= last.pos
                        /\ ret' = [ret EXCEPT ![c] = [kind |-> "ok", pos |-> last.pos]]
  <2>1. PICK last \in new : lastPosition(events') = last.pos /\ \A r \in new : r.pos <= last.pos
    BY StoreGrows
  <2> QED
    BY <1>1, <2>1
<1>6. Dcb!StoresCall(new, cmds[c])
  BY <1>3, ContractStores
<1> HIDE DEF new, out
<1>7. \A r \in new : r.pos \in Nat
  BY <1>3 DEF Row, Position
<1>8. TypeOK'
  BY <1>1, <1>2, <1>3, <1>4 DEF TypeOK
<1>9. ASSUME NEW d \in Clients
      PROVE  ClientOK(d)'
  <2>1. ClientOK(d) /\ view[d].seen \subseteq events
    BY DEF MemInv, ClientOK
  <2>2. NoGap(view[d], events')
    <3>1. ASSUME NEW s \in view[d].seen, NEW r \in new
          PROVE  ~(r.pos <= s.pos)
      BY <1>2, <1>3, <1>7, <2>1
    <3> QED
      BY <1>3, <2>1, <3>1 DEF ClientOK, NoGap
  <2>3. d # c => pc'[d] = pc[d] /\ ret'[d] = ret[d]
    BY <1>1, <1>2 DEF TypeOK
  <2>4. pc'[c] = "return" /\ ret'[c] = out
    BY <1>1, <1>2 DEF TypeOK
  <2> QED
    BY <1>1, <1>3, <1>4, <2>1, <2>2, <2>3, <2>4 DEF ClientOK, NoGap
<1>10. ASSUME NEW b \in Subscribers
       PROVE  /\ SubOK(sub[b])'
              /\ \A r \in DueIn(sub[b], new) : r.pos > sub[b].position
  <2> DEFINE st   == sub[b]
             due  == DueIn(st, events)
             more == DueIn(st, new)
  <2>1. st \in Subscription /\ SubOK(st)
    BY <1>2 DEF MemInv, TypeOK
  <2>2. st.position \in Nat /\ st.first \in Nat /\ st.waitCh \in Nat /\ broadcast \in Nat
    BY <1>2, <2>1 DEF Subscription, TypeOK
  <2>3. /\ Streamed(st.delivered, due, st.position) /\ NextBatch(st.pending, due, st.position)
        /\ st.position = st.first \/ \E r \in events : st.position <= r.pos
        /\ st.first <= st.position /\ st.waitCh <= broadcast
        /\ st.pc \in {"off", "failed"} => st.query = QueryAll /\ st.first = 0 /\ st.delivered = <<>>
    BY <2>1 DEF SubOK
  <2>4. DueIn(st, events') = due \cup more
    BY <1>3 DEF DueIn
  <2>5. due \in SUBSET Row /\ more \in SUBSET Row /\ due \subseteq events /\ more \subseteq new
    BY <1>2, <1>3 DEF DueIn, TypeOK
  <2>6. \A r \in more : r.pos > st.position
    <3>1. ASSUME NEW r \in more
          PROVE  r.pos > st.position
      <4>1. r \in new /\ r.pos > st.first
        BY DEF DueIn
      <4> QED
        BY <1>2, <1>3, <1>7, <2>2, <2>3, <4>1
    <3> QED
      BY <3>1
  <2>7. \A r \in more, t \in st.pending : r.pos > t.pos
    BY <1>3, <2>3, <2>5 DEF NextBatch
  <2> HIDE DEF st, due, more
  <2>8. Streamed(st.delivered, due \cup more, st.position)
    BY <2>2, <2>3, <2>5, <2>6, StreamKept
  <2>9. NextBatch(st.pending, due \cup more, st.position)
    BY <2>2, <2>3, <2>5, <2>7, BatchKept
  <2>10. sub'[b] = st /\ st.waitCh <= broadcast' /\ st.waitCh # broadcast'
    BY <1>1, <2>2, <2>3 DEF st
  <2>11. SubOK(sub[b])'
    BY <1>3, <2>3, <2>4, <2>8, <2>9, <2>10 DEF SubOK
  <2> QED
    BY <2>6, <2>11 DEF st, more
<1>11. MemInv'
  BY <1>3, <1>8, <1>9, <1>10 DEF MemInv
<1>12. Streams!Publish
  <2>1. AllStreams' = AllStreams
    BY <1>1 DEF AllStreams
  <2>2. ASSUME NEW r \in events' \ events, NEW b \in Subscribers,
               r.pos > AllStreams[b].first, MatchesQuery(AllStreams[b].query, r),
               NEW t \in RowsOf(AllStreams[b].delivered)
        PROVE  r.pos > t.pos
    <3>1. SubOK(sub[b])
      BY DEF MemInv
    <3>2. /\ AllStreams[b].first = sub[b].first /\ AllStreams[b].query = sub[b].query
          /\ AllStreams[b].delivered = sub[b].delivered
      BY DEF AllStreams, StreamOf
    <3>3. t \in events
      BY <3>1, <3>2 DEF SubOK, Streamed, DueIn
    <3> QED
      BY <1>3, <3>3
  <2> QED
    BY <1>3, <2>1, <2>2, ContractPublish
<1>13. Dcb!AppendSucceeds(c)
  <2>1. cmds[c] # <<>> /\ ret[c] = NoReturn
    <3>1. Slots(cmds[c]) # {}
      BY DEF AppendEvents
    <3> QED
      BY <1>1, <3>1 DEF Slots, MemInv, ClientOK
  <2>2. \A i \in DOMAIN cmds[c] : ~Dcb!Violates(events, cmds[c], i)
    BY DEF AppendEvents, ConditionsHold, Violates, Dcb!Violates, AnyMatchAfter, Dcb!AnyMatchAfter,
           IsAfter, Dcb!IsAfter, MatchesQuery, Dcb!MatchesQuery, MatchesQueryItem, Dcb!MatchesQueryItem
  <2>3. \A r \in new, s \in events : r.pos # s.pos
    BY <1>2, <1>3, <1>7
  <2>4. \A d \in Clients : Dcb!AppendsAhead(new, d)
    <3>1. \A d \in Clients : view[d].seen \subseteq events
      BY DEF MemInv, ClientOK
    <3> QED
      BY <1>3, <3>1 DEF Dcb!AppendsAhead
  <2> QED
    BY <1>1, <1>3, <1>5, <1>6, <2>1, <2>2, <2>3, <2>4 DEF Dcb!AppendSucceeds, Dcb!NoReturn, NoReturn
<1> QED
  BY <1>11, <1>12, <1>13

-------------------------------------------------------------------------------
(***************************************************************************)
(* The invariant, and what follows from it.                                *)
(***************************************************************************)

\* New makes a store of its seed, with nobody calling or subscribed.
LEMMA MemInvInit == Init => MemInv
<1> SUFFICES ASSUME Init PROVE MemInv
  OBVIOUS
<1>1. /\ events \in SUBSET Row /\ EventsOK /\ broadcast = 0
  BY MemoryStoreAssumption DEF Init, EventsOK
<1>2. /\ NoSubscription \in Subscription /\ NoRead \in ReadCall /\ NoView \in View
      /\ NoReturn \in Return /\ <<>> \in Seq(AppendCommand)
  <2>1. <<>> \in Seq(Row) /\ {} \in SUBSET Row /\ 0 \in Nat /\ QueryAll \in Query
    BY DEF QueryAll, Query
  <2> QED
    BY <2>1, ReturnType DEF NoSubscription, Subscription, NoRead, ReadCall, NoView, View
<1>3. TypeOK
  BY <1>1, <1>2 DEF Init, TypeOK
<1>4. ASSUME NEW c \in Clients
      PROVE  ClientOK(c)
  <2>1. pc[c] = "idle" /\ cmds[c] = <<>> /\ view[c].seen = {}
    BY DEF Init, NoView
  <2> QED
    BY <2>1 DEF ClientOK, NoGap
<1>5. SubOK(NoSubscription)
  <2> DEFINE st == NoSubscription
  <2>1. /\ st.pc = "off" /\ st.query = QueryAll /\ st.first = 0 /\ st.position = 0
        /\ st.pending = {} /\ st.waitCh = 0 /\ st.delivered = <<>>
    BY DEF NoSubscription
  <2> HIDE DEF st
  <2>2. \A r \in events : r.pos \in Position
    BY <1>1 DEF Row
  <2>3. Streamed(<<>>, DueIn(st, events), 0)
    BY <2>1, <2>2 DEF Streamed, RowsOf, DueIn, Position
  <2>4. NextBatch({}, DueIn(st, events), 0)
    BY DEF NextBatch
  <2>5. SubOK(st)
    BY <1>1, <2>1, <2>3, <2>4 DEF SubOK
  <2> QED
    BY <2>5 DEF st
<1>6. \A s \in Subscribers : SubOK(sub[s])
  BY <1>5 DEF Init
<1> QED
  BY <1>1, <1>3, <1>4, <1>6 DEF MemInv

\* Every step preserves the invariant, and each contract sees a step of its
\* own or none.
LEMMA MemInvNext ==
    ASSUME MemInv, [Next]_vars
    PROVE  /\ MemInv'
           /\ Streams!Next \/ UNCHANGED Streams!streamVars
           /\ Dcb!Next \/ UNCHANGED Dcb!dcbVars
<1>1. CASE UNCHANGED vars
  <2>1. /\ events' = events /\ broadcast' = broadcast /\ pc' = pc /\ cmds' = cmds
        /\ rd' = rd /\ view' = view /\ ret' = ret /\ sub' = sub
    BY <1>1 DEF vars, clientVars
  <2>2. MemInv'
    BY <2>1 DEF MemInv, TypeOK, EventsOK, ClientOK, NoGap, SubOK, DueIn
  <2>3. UNCHANGED Streams!streamVars
    BY <2>1, ContractStutter DEF AllStreams
  <2> QED
    BY <2>1, <2>2, <2>3 DEF Dcb!dcbVars
<1>2. ASSUME NEW c \in Clients, CallRejected(c) \/ Call(c) \/ ClientStep(c)
      PROVE  /\ MemInv'
             /\ Streams!Publish \/ UNCHANGED Streams!streamVars
             /\ \/ \E cs \in AppendInputs : Dcb!Call(c, cs)
                \/ Dcb!AppendSucceeds(c) \/ Dcb!AppendConditionFails(c)
                \/ Dcb!Fail(c) \/ Dcb!CallReturns(c)
                \/ Dcb!BeginRead(c) \/ Dcb!ReadReturns(c)
  <2>1. CASE CallRejected(c) \/ AppendNothing(c)
    BY <2>1, FailKeeps
  <2>2. ASSUME NEW cs \in AppendInputs, AppendCall(c, cs)
        PROVE  MemInv' /\ UNCHANGED Streams!streamVars /\ Dcb!Call(c, cs)
    BY <2>2, AppendCallKeeps
  <2>3. ASSUME NEW limit \in ReadLimits,
               \/ \E q \in ReadQueries, backwards \in BOOLEAN : ReadFirst(c, q, backwards, limit)
               \/ ReadMore(c, limit)
        PROVE  MemInv' /\ UNCHANGED Streams!streamVars /\ Dcb!BeginRead(c)
    BY <2>3, BeginReadKeeps
  <2>4. CASE AppendConditionFails(c)
    BY <2>4, AppendConditionFailsKeeps
  <2>5. CASE AppendEvents(c)
    BY <2>5, AppendEventsKeeps
  <2>6. CASE AppendReturn(c)
    BY <2>6, AppendReturnKeeps
  <2>7. CASE ReadEvents(c)
    BY <2>7, ReadEventsKeeps
  <2> QED
    BY <1>2, <2>1, <2>2, <2>3, <2>4, <2>5, <2>6, <2>7 DEF Call, ClientStep
<1>3. ASSUME NEW s \in Subscribers,
             Subscribe(s) \/ SubscribeRejected(s) \/ SubscriberStep(s) \/ Cancel(s)
      PROVE  /\ MemInv' /\ UNCHANGED Dcb!dcbVars
             /\ \/ Streams!Deliver(s) \/ Streams!End(s) \/ UNCHANGED Streams!streamVars
                \/ \E q \in ReadQueries, after \in StartAfter : Streams!Open(s, q, after)
  <2>1. CASE Subscribe(s)
    BY <2>1, SubscribeKeeps
  <2>2. CASE CallNext(s) \/ WakeBroadcast(s) \/ WakeCancel(s) \/ Cancel(s)
    BY <2>2, ControlSteps DEF Quiet
  <2>3. CASE NextSnapshot(s)
    BY <2>3, NextSnapshotKeeps DEF Quiet
  <2>4. CASE NextDeliver(s)
    BY <2>4, NextDeliverKeeps
  <2>5. CASE SubscribeRejected(s)
    BY <2>5, SubscribeRejectedKeeps
  <2> QED
    BY <1>3, <2>1, <2>2, <2>3, <2>4, <2>5 DEF SubscriberStep
<1> QED
  BY <1>1, <1>2, <1>3 DEF Next, Streams!Next, Dcb!Next

\* The invariant holds in every run of the in-memory store.
LEMMA MemInvAlways == Spec => []MemInv
<1>1. MemInv /\ [Next]_vars => MemInv'
  BY MemInvNext
<1> QED
  BY <1>1, MemInvInit, PTL DEF Spec

\* Every field keeps its type: among them, Append returns positions that it
\* gave out and indices of its commands.
THEOREM TypeCorrect == Spec => []TypeOK
<1>1. MemInv => TypeOK
  BY DEF MemInv
<1> QED
  BY <1>1, MemInvAlways, PTL

\* Next yields what is due in position order, each event once, and passes
\* none over, however appends fall between the snapshots it takes.
THEOREM SubscriptionsInOrder == Spec => []DeliversInOrder
<1>1. ASSUME MemInv, NEW s \in Subscribers
      PROVE  /\ Delivered(s) \subseteq Due(s)
             /\ \A i, j \in DOMAIN sub[s].delivered :
                   i < j => sub[s].delivered[i].pos < sub[s].delivered[j].pos
             /\ \A r \in Due(s), t \in Delivered(s) : r.pos <= t.pos => r \in Delivered(s)
  <2>1. /\ Streamed(sub[s].delivered, DueIn(sub[s], events), sub[s].position)
        /\ sub[s].position \in Nat /\ events \in SUBSET Row
    BY <1>1 DEF MemInv, SubOK, TypeOK, Subscription
  <2>2. Due(s) = DueIn(sub[s], events) /\ Delivered(s) = RowsOf(sub[s].delivered)
    BY DEF Due, DueIn, Delivered, RowsOf
  <2>3. Delivered(s) = {r \in Due(s) : r.pos <= sub[s].position}
    BY <2>1, <2>2 DEF Streamed
  <2>4. \A r \in Due(s) : r.pos \in Nat
    BY <2>1 DEF Due, Row, Position
  <2>5. ASSUME NEW r \in Due(s), NEW t \in Delivered(s), r.pos <= t.pos
        PROVE  r \in Delivered(s)
    BY <2>1, <2>3, <2>4, <2>5
  <2> QED
    BY <2>1, <2>3, <2>5 DEF Streamed
<1>2. MemInv => DeliversInOrder
  BY <1>1 DEF DeliversInOrder
<1> QED
  BY <1>2, MemInvAlways, PTL

\* The snapshot and the channel are taken under one lock, so that there is no
\* window: an iterator that waits on an open channel has yielded everything.
THEOREM WakeupsNotLost == Spec => []NoLostWakeup
<1>1. ASSUME MemInv, NEW s \in Subscribers, sub[s].pc = "select", sub[s].waitCh = broadcast
      PROVE  Due(s) \subseteq Delivered(s)
  <2>1. SubOK(sub[s])
    BY <1>1 DEF MemInv
  <2>2. \A r \in DueIn(sub[s], events) : r.pos <= sub[s].position
    BY <1>1, <2>1 DEF SubOK
  <2>3. RowsOf(sub[s].delivered) = {r \in DueIn(sub[s], events) : r.pos <= sub[s].position}
    BY <2>1 DEF SubOK, Streamed
  <2>4. Due(s) = DueIn(sub[s], events) /\ Delivered(s) = RowsOf(sub[s].delivered)
    BY DEF Due, DueIn, Delivered, RowsOf
  <2> QED
    BY <2>2, <2>3, <2>4
<1>2. MemInv => NoLostWakeup
  BY <1>1 DEF NoLostWakeup
<1> QED
  BY <1>2, MemInvAlways, PTL

\* The in-memory subscription implements the contract of Subscribe: channels,
\* snapshots and cancellations aside, it yields the events one by one from a
\* log that never grows behind them.
THEOREM ImplementsStream == Spec => RefinesStream
<1>1. Init => Streams!Init
  <2> SUFFICES ASSUME Init PROVE Streams!Init
    OBVIOUS
  <2>1. AllStreams = [s \in Subscribers |-> Streams!NoStream]
    BY DEF Init, AllStreams, StreamOf, NoSubscription, Streams!NoStream, Streams!QueryAll, QueryAll
  <2> QED
    BY <2>1 DEF Init, Streams!Init, AllStreams, StreamOf
<1>2. MemInv /\ [Next]_vars => [Streams!Next]_(Streams!streamVars)
  BY MemInvNext
<1> QED
  BY <1>1, <1>2, MemInvAlways, PTL DEF Spec, RefinesStream, Streams!Stream

\* The in-memory store implements the contract of Append and Read: a call
\* stores all of its events or none, only if no condition is violated at that
\* moment, at positions in the order of the call and after all that any
\* client has read; the error names the first violated condition.
THEOREM ImplementsContract == Spec => RefinesContract
<1>1. Init => Dcb!Init
  BY DEF Init, Dcb!Init, Dcb!NoView, NoView, Dcb!NoReturn, NoReturn, Dcb!QueryAll, QueryAll
<1>2. MemInv /\ [Next]_vars => [Dcb!Next]_(Dcb!dcbVars)
  BY MemInvNext
<1> QED
  BY <1>1, <1>2, MemInvAlways, PTL DEF Spec, RefinesContract, Dcb!Contract
===============================================================================
