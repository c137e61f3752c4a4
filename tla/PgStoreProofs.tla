----------------------------- MODULE PgStoreProofs -----------------------------
(***************************************************************************)
(* Proofs about the Postgres store, for every set of clients, every list   *)
(* of calls and every hash function.                                       *)
(***************************************************************************)
EXTENDS PgStoreInv, EventStoreProofs

-------------------------------------------------------------------------------
(***************************************************************************)
(* What the operators return.                                              *)
(***************************************************************************)

\* The lock requests of an append are lock requests.
LEMMA WriterLocksType ==
    ASSUME NEW cs \in Seq(AppendCommand)
    PROVE  WriterLocks(cs) \subseteq Lock
<1> SUFFICES ASSUME NEW i \in DOMAIN cs
             PROVE  computeWriterLockKeys(cs[i]) \subseteq Lock
  BY DEF WriterLocks
<1>1. cs[i] \in AppendCommand
  OBVIOUS
<1>2. \A ev \in Event : EventLeafKeys(ev) \subseteq Int /\ typeIntentKey(ev.type) \in Int
  BY HashAssumption DEF EventLeafKeys, Event, leafKey, typeIntentKey
<1>3. ConditionLeafKeys(cs[i].condition) \subseteq Int
  <2>1. CASE cs[i].condition = Nil
    BY <2>1 DEF ConditionLeafKeys
  <2>2. CASE cs[i].condition \in AppendCondition
    <3>1. \A item \in cs[i].condition.failIfEventsMatch.items : item \in QueryItem
      BY <2>2 DEF AppendCondition, Query
    <3>2. \A item \in QueryItem : ItemLeafKeys(item) \subseteq Int
      BY HashAssumption DEF ItemLeafKeys, QueryItem, leafKey
    <3> QED
      BY <3>1, <3>2 DEF ConditionLeafKeys
  <2> QED
    BY <1>1, <2>1, <2>2 DEF AppendCommand
<1>4. \A ev \in {cs[i].events[j] : j \in DOMAIN cs[i].events} : ev \in Event
  BY <1>1 DEF AppendCommand
<1>5. globalIntentKey \in Int
  BY HashAssumption DEF globalIntentKey
<1> QED
  BY <1>2, <1>3, <1>4, <1>5 DEF computeWriterLockKeys, Exclusive, Shared, Lock

\* The lock requests of a read barrier are lock requests.
LEMMA ReaderLocksType ==
    ASSUME NEW q \in Query
    PROVE  computeReaderLockKeys(q) \subseteq Lock
<1>1. \A item \in q.items : ItemLeafKeys(item) \subseteq Int
  BY HashAssumption DEF ItemLeafKeys, Query, QueryItem, leafKey
<1>2. \A item \in q.items : {typeIntentKey(t) : t \in item.types} \subseteq Int
  BY HashAssumption DEF Query, QueryItem, typeIntentKey
<1>3. globalIntentKey \in Int
  BY HashAssumption DEF globalIntentKey
<1> QED
  BY <1>1, <1>2, <1>3 DEF computeReaderLockKeys, Exclusive, Shared, Lock

-------------------------------------------------------------------------------
(***************************************************************************)
(* Type correctness.                                                       *)
(***************************************************************************)

\* Slots still to be inserted are slots of the call, which types the rows
\* that InsertRow makes; locks, rows and rows read have their types.
SlotsInCall ==
    \A c \in Clients :
        /\ todo[c] \subseteq Slots(cmds[c])
        /\ pc[c] \in {"idle", "end", "r_lock", "r_end", "r_declare"} => todo[c] = {}

\* No call is in progress in the empty store.
LEMMA TypeInit == Init => TypeOK /\ SlotsInCall
<1> SUFFICES ASSUME Init PROVE TypeOK /\ SlotsInCall
  OBVIOUS
<1>1. NoRead \in ReadCall /\ NoView \in View /\ NoReturn \in Return
  BY DEF NoRead, ReadCall, NoView, View, NoReturn, Return, QueryAll, Query
<1>2. TypeOK
  BY <1>1 DEF Init, TypeOK, PCs
<1> QED
  BY <1>2 DEF Init, SlotsInCall

\* Every step of the store keeps the types.
LEMMA TypeNext == TypeOK /\ SlotsInCall /\ [Next]_vars => TypeOK' /\ SlotsInCall'
<1> SUFFICES ASSUME TypeOK, SlotsInCall, [Next]_vars
             PROVE  TypeOK' /\ SlotsInCall'
  OBVIOUS
<1> USE DEF TypeOK, SlotsInCall, PCs
<1>1. ASSUME NEW c \in Writers, NEW cs \in AppendInputs, AppendRejected(c, cs)
      PROVE  TypeOK' /\ SlotsInCall'
  <2>1. Error \in Return
    BY DEF Error, Return
  <2> QED
    BY <1>1, <2>1 DEF AppendRejected, Clients
<1>2. ASSUME NEW c \in Writers, NEW cs \in AppendInputs, AppendCall(c, cs)
      PROVE  TypeOK' /\ SlotsInCall'
  <2>1. cs \in Seq(AppendCommand)
    BY PgStoreAssumption
  <2>2. NoReturn \in Return
    BY DEF NoReturn, Return
  <2>3. WriterLocks(cs) \subseteq Lock
    BY <2>1, WriterLocksType
  <2>4. Slots(cs) \subseteq Nat \X Nat
    BY <2>1, SlotsType
  <2>5. TypeOK'
    BY <1>2, <2>1, <2>2, <2>3, <2>4 DEF AppendCall, Clients
  <2>6. SlotsInCall'
    BY <1>2 DEF AppendCall, Clients
  <2> QED
    BY <2>5, <2>6
<1>3. ASSUME NEW c \in Readers, NEW limit \in ReadLimits, NEW q \in ReadQueries,
             NEW backwards \in BOOLEAN, ReadFirst(c, q, backwards, limit)
      PROVE  TypeOK' /\ SlotsInCall'
  <2> DEFINE o == [query |-> q, after |-> Nil, backwards |-> backwards, limit |-> limit]
  <2>1. q \in Query /\ limit \in Nat
    BY PgStoreAssumption DEF IsQuery
  <2>2. o \in ReadCall /\ NoReturn \in Return
    BY <2>1 DEF ReadCall, NoReturn, Return
  <2>3. [query |-> q, backwards |-> backwards, seen |-> {}] \in View
    BY <2>1 DEF View
  <2>4. computeReaderLockKeys(o.query) \subseteq Lock
    BY <2>1, ReaderLocksType
  <2> HIDE DEF o
  <2> QED
    BY <1>3, <2>2, <2>3, <2>4 DEF ReadFirst, BeginRead, Clients, o
<1>4. ASSUME NEW c \in Readers, NEW limit \in ReadLimits, ReadMore(c, limit)
      PROVE  TypeOK' /\ SlotsInCall'
  <2>1. PICK s \in view[c].seen :
           BeginRead(c, [query |-> view[c].query, after |-> s.pos,
                         backwards |-> view[c].backwards, limit |-> limit])
    BY <1>4 DEF ReadMore
  <2> DEFINE o == [query |-> view[c].query, after |-> s.pos,
                   backwards |-> view[c].backwards, limit |-> limit]
  <2>2. view[c] \in View /\ s.pos \in Nat /\ limit \in Nat
    BY PgStoreAssumption DEF View, Row, Position, Clients
  <2>3. o \in ReadCall /\ NoReturn \in Return
    BY <2>2 DEF ReadCall, View, NoReturn, Return
  <2>4. computeReaderLockKeys(o.query) \subseteq Lock
    BY <2>2, ReaderLocksType DEF View
  <2>5. BeginRead(c, o) /\ UNCHANGED view /\ pc[c] = "idle"
    BY <1>4, <2>1 DEF ReadMore
  <2> HIDE DEF o
  <2> QED
    BY <2>3, <2>4, <2>5 DEF BeginRead, Clients
<1>5. ASSUME NEW c \in Clients, AcquireLock(c)
      PROVE  TypeOK' /\ SlotsInCall'
  BY <1>5 DEF AcquireLock, NextLocks
<1>6. ASSUME NEW c \in Clients, Step(c)
      PROVE  TypeOK' /\ SlotsInCall'
  <2>1. CASE SnapshotHwm(c)
    BY <2>1 DEF SnapshotHwm
  <2>2. CASE CheckConditionsPass(c)
    BY <2>2 DEF CheckConditionsPass
  <2>3. CASE CheckConditionsFail(c)
    <3>1. PICK i \in DOMAIN cmds[c] : ret' = [ret EXCEPT ![c] = [kind |-> "condition", idx |-> i]]
      BY <2>3 DEF CheckConditionsFail
    <3>2. i \in Position
      BY DEF Position
    <3>3. [kind |-> "condition", idx |-> i] \in Return
      BY <3>2 DEF Return
    <3> QED
      BY <2>3, <3>1, <3>3 DEF CheckConditionsFail
  <2>4. CASE InsertRow(c)
    <3>1. PICK s \in todo[c] :
             /\ todo' = [todo EXCEPT ![c] = @ \ {s}]
             /\ rows' = [rows EXCEPT ![c] = @ \cup {InsertedRow(c, s)}]
      BY <2>4 DEF InsertRow
    <3>2. EventAt(cmds[c], s) \in Event
      BY SlotsType
    <3>3. \A tags \in SUBSET TagValues : StoredTags(cmds[c], tags) \in SUBSET TagValues
      BY PgStoreAssumption DEF StoredTags, Unpack
    <3>4. InsertedRow(c, s) \in Row
      <4>1. seq + 1 \in Position
        BY DEF Position
      <4>2. /\ EventAt(cmds[c], s).type \in EventTypes
            /\ StoredTags(cmds[c], EventAt(cmds[c], s).tags) \in SUBSET TagValues
        BY <3>2, <3>3 DEF Event
      <4> QED
        BY <4>1, <4>2 DEF Row, InsertedRow
    <3> QED
      BY <2>4, <3>1, <3>4 DEF InsertRow
  <2>5. CASE Commit(c)
    <3>1. PICK last \in rows[c] : ret' = [ret EXCEPT ![c] = [kind |-> "ok", pos |-> last.pos]]
      BY <2>5 DEF Commit
    <3>2. [kind |-> "ok", pos |-> last.pos] \in Return
      BY DEF Return, Row
    <3> QED
      BY <2>5, <3>1, <3>2 DEF Commit
  <2>6. CASE BarrierHwm(c)
    BY <2>6 DEF BarrierHwm
  <2>7. CASE DeclareCursor(c)
    <3>1. PICK page \in SUBSET Selected(log, rd[c], hwm[c]) :
             view' = [view EXCEPT ![c].seen = @ \cup page]
      BY <2>7 DEF DeclareCursor
    <3>2. page \subseteq Row
      BY DEF Selected, PastAfter, WithinHwm
    <3>3. view' \in [Clients -> View]
      BY <3>1, <3>2 DEF View
    <3>4. NoRead \in ReadCall
      BY DEF NoRead, ReadCall, QueryAll, Query
    <3> QED
      BY <2>7, <3>3, <3>4 DEF DeclareCursor
  <2>8. CASE EndTransaction(c)
    BY <2>8 DEF EndTransaction
  <2> QED
    BY <1>6, <2>1, <2>2, <2>3, <2>4, <2>5, <2>6, <2>7, <2>8 DEF Step
<1>7. ASSUME NEW c \in Clients, LoseReply(c)
      PROVE  TypeOK' /\ SlotsInCall'
  BY <1>7 DEF LoseReply, Error, Return
<1>8. ASSUME NEW c \in Clients, Abort(c)
      PROVE  TypeOK' /\ SlotsInCall'
  <2>1. NoRead \in ReadCall /\ Error \in Return
    BY DEF NoRead, ReadCall, QueryAll, Query, Error, Return
  <2> QED
    BY <1>8, <2>1 DEF Abort
<1>9. CASE UNCHANGED vars
  BY <1>9 DEF vars
<1> QED
  BY <1>1, <1>2, <1>3, <1>4, <1>5, <1>6, <1>7, <1>8, <1>9 DEF Next, Call

\* Every variable keeps its type: positions, lock keys and rows are what the
\* SQL types say, whatever calls interleave.
THEOREM TypeCorrect == Spec => []TypeOK
<1>1. TypeOK /\ SlotsInCall /\ [Next]_vars => (TypeOK /\ SlotsInCall)'
  BY TypeNext
<1> QED
  BY <1>1, TypeInit, PTL DEF Spec
-------------------------------------------------------------------------------
(***************************************************************************)
(* The lock protocol.  Whatever a read or a condition looks for, a writer  *)
(* of it needs a lock that conflicts.                                      *)
(***************************************************************************)

\* A barrier's locks conflict with those of every row that its query reads.
LEMMA ReaderConflictsWithRow ==
    ASSUME NEW q \in Query, NEW r \in Row, ReadMatches(q, r)
    PROVE  \E l \in computeReaderLockKeys(q), m \in RowLocks(r) : Conflict(l, m)
<1>1. CASE q.all
  <2> DEFINE l == [key |-> globalIntentKey, mode |-> "X"]
             m == [key |-> globalIntentKey, mode |-> "S"]
  <2>1. l \in computeReaderLockKeys(q)
    BY <1>1 DEF computeReaderLockKeys, Exclusive
  <2>2. m \in RowLocks(r)
    BY DEF RowLocks, Shared
  <2>3. Conflict(l, m)
    BY DEF Conflict
  <2> QED
    BY <2>1, <2>2, <2>3
<1>2. CASE ~q.all
  <2>1. PICK item \in q.items : ItemFilter(item, r)
    BY <1>2 DEF ReadMatches
  <2>2. CASE item.tags # {}
    <3>1. PICK tag \in item.tags : tag \in r.tags
      BY <2>1, <2>2 DEF ItemFilter
    <3> DEFINE l == [key |-> leafKey(r.type, tag), mode |-> "S"]
               m == [key |-> leafKey(r.type, tag), mode |-> "X"]
    <3>2. leafKey(r.type, tag) \in ItemLeafKeys(item)
      <4>1. <<r.type, tag>> \in item.types \X item.tags
        BY <2>1 DEF ItemFilter
      <4> QED
        BY <4>1 DEF ItemLeafKeys
    <3>3. l \in Shared(ItemLeafKeys(item))
      BY <3>2 DEF Shared
    <3>4. l \in computeReaderLockKeys(q)
      BY <1>2, <2>2, <3>3 DEF computeReaderLockKeys
    <3>5. m \in RowLocks(r)
      BY <3>1 DEF RowLocks, Exclusive
    <3>6. Conflict(l, m)
      BY DEF Conflict
    <3> QED
      BY <3>4, <3>5, <3>6
  <2>3. CASE item.tags = {}
    <3> DEFINE l == [key |-> typeIntentKey(r.type), mode |-> "X"]
               m == [key |-> typeIntentKey(r.type), mode |-> "S"]
    <3>1. l \in Exclusive({typeIntentKey(t) : t \in item.types})
      BY <2>1 DEF ItemFilter, Exclusive
    <3>2. l \in computeReaderLockKeys(q)
      BY <1>2, <2>3, <3>1 DEF computeReaderLockKeys
    <3>3. m \in RowLocks(r)
      BY DEF RowLocks, Shared
    <3>4. Conflict(l, m)
      BY DEF Conflict
    <3> QED
      BY <3>2, <3>3, <3>4
  <2> QED
    BY <2>2, <2>3
<1> QED
  BY <1>1, <1>2 DEF Query

\* An append's locks conflict with those of every row that one of its
\* conditions looks for.
LEMMA ConditionConflictsWithRow ==
    ASSUME NEW cs \in Seq(AppendCommand), ConditionsValid(cs),
           NEW i \in DOMAIN cs, cs[i].condition # Nil,
           NEW r \in Row, MatchesQuery(cs[i].condition.failIfEventsMatch, r)
    PROVE  \E l \in WriterLocks(cs), m \in RowLocks(r) : Conflict(l, m)
<1> DEFINE q == cs[i].condition.failIfEventsMatch
<1>1. ~q.all /\ \A item \in q.items : item.tags # {}
  BY DEF ConditionsValid, ValidateAppendCondition
<1>2. PICK item \in q.items : MatchesQueryItem(item, r)
  BY <1>1 DEF MatchesQuery
<1>3. PICK tag \in item.tags : tag \in r.tags
  BY <1>1, <1>2 DEF MatchesQueryItem
<1> DEFINE l == [key |-> leafKey(r.type, tag), mode |-> "X"]
<1>4. leafKey(r.type, tag) \in ItemLeafKeys(item)
  <2>1. <<r.type, tag>> \in item.types \X item.tags
    BY <1>2 DEF MatchesQueryItem
  <2> QED
    BY <2>1 DEF ItemLeafKeys
<1>5. leafKey(r.type, tag) \in ConditionLeafKeys(cs[i].condition)
  BY <1>1, <1>4 DEF ConditionLeafKeys
<1>6. l \in computeWriterLockKeys(cs[i])
  BY <1>5 DEF computeWriterLockKeys, Exclusive
<1>7. l \in WriterLocks(cs)
  BY <1>6 DEF WriterLocks
<1>8. l \in RowLocks(r)
  BY <1>3 DEF RowLocks, Exclusive
<1> QED
  BY <1>7, <1>8 DEF Conflict

\* A row is written under the locks of its call, when no tag is split.
LEMMA CallCoversRow ==
    ASSUME NEW cs \in Seq(AppendCommand), NEW s \in Slots(cs), NEW r \in Row,
           r.type = EventAt(cs, s).type, r.tags = EventAt(cs, s).tags
    PROVE  RowLocks(r) \subseteq WriterLocks(cs)
<1>1. PICK i \in DOMAIN cs : s \in {i} \X DOMAIN cs[i].events
  BY DEF Slots
<1> DEFINE ev == EventAt(cs, s)
           evs == {cs[i].events[j] : j \in DOMAIN cs[i].events}
<1>2. ev \in evs
  BY <1>1 DEF EventAt
<1>3. {leafKey(r.type, tag) : tag \in r.tags} = EventLeafKeys(ev)
  BY DEF EventLeafKeys
<1> HIDE DEF ev
<1>4. Exclusive(EventLeafKeys(ev)) \subseteq computeWriterLockKeys(cs[i])
  BY <1>2 DEF computeWriterLockKeys, Exclusive
<1>5. Shared({typeIntentKey(ev.type), globalIntentKey}) \subseteq computeWriterLockKeys(cs[i])
  BY <1>2 DEF computeWriterLockKeys, Shared
<1>6. RowLocks(r) \subseteq computeWriterLockKeys(cs[i])
  BY <1>3, <1>4, <1>5 DEF RowLocks, ev
<1> QED
  BY <1>6 DEF WriterLocks

\* Matching in full is matching as reads do.
LEMMA MatchIsReadMatch ==
    ASSUME NEW q, NEW r, MatchesQuery(q, r)
    PROVE  ReadMatches(q, r)
BY DEF MatchesQuery, MatchesQueryItem, ReadMatches, ItemFilter

\* The SQL of the condition check finds what the condition looks for.
LEMMA CheckFindsViolations ==
    ASSUME DelimiterFree, NEW cs \in Seq(AppendCommand), ConditionsValid(cs),
           NEW i \in DOMAIN cs, NEW visible \in SUBSET Row, NEW high \in Nat,
           ~ConditionMatches(visible, cs, i, high),
           cs[i].condition # Nil,
           \A r \in visible : MatchesQuery(cs[i].condition.failIfEventsMatch, r) => r.pos <= high
    PROVE  ~Violates(visible, cs, i)
<1> DEFINE cond == cs[i].condition
<1>1. cond \in AppendCondition
  <2>1. cs[i] \in AppendCommand
    OBVIOUS
  <2> QED
    BY <2>1 DEF AppendCommand
<1>2. ~cond.failIfEventsMatch.all
  BY DEF ConditionsValid, ValidateAppendCondition
<1>3. \A item \in cond.failIfEventsMatch.items : Unpack(item.tags) = item.tags
  <2>1. \A item \in cond.failIfEventsMatch.items : item.tags \subseteq TagValues
    BY <1>1 DEF AppendCondition, Query, QueryItem
  <2> QED
    BY <2>1 DEF Unpack, DelimiterFree
<1> SUFFICES ASSUME NEW r \in visible,
                    cond.after # Nil => IsAfter(r.pos, cond.after),
                    MatchesQuery(cond.failIfEventsMatch, r)
             PROVE  FALSE
  BY DEF Violates, AnyMatchAfter
<1>4. PICK item \in cond.failIfEventsMatch.items : MatchesQueryItem(item, r)
  BY <1>2 DEF MatchesQuery
<1>5. r.pos > AfterPos(cond)
  BY <1>1 DEF AfterPos, IsAfter, AppendCondition, Row, Position
<1>6. r.pos <= high
  OBVIOUS
<1> QED
  BY <1>3, <1>4, <1>5, <1>6 DEF ConditionMatches, MatchesQueryItem

\* What the check's SQL finds violates the condition: the delimited strings
\* come apart into the tags they were put together from.
LEMMA MatchesAreViolations ==
    ASSUME DelimiterFree, NEW cs \in Seq(AppendCommand), NEW i \in DOMAIN cs,
           NEW visible, NEW high, ConditionMatches(visible, cs, i, high)
    PROVE  Violates(visible, cs, i)
<1> DEFINE cond == cs[i].condition
<1>1. cs[i] \in AppendCommand /\ cond # Nil
  BY DEF ConditionMatches
<1>2. cond \in AppendCondition
  BY <1>1 DEF AppendCommand
<1>3. cond.failIfEventsMatch.items \in SUBSET QueryItem
  BY <1>2 DEF AppendCondition, Query
<1> HIDE DEF cond
<1>4. PICK item \in cond.failIfEventsMatch.items, r \in visible :
         /\ r.type \in item.types
         /\ Unpack(item.tags) \subseteq r.tags
         /\ r.pos > AfterPos(cond)
  BY DEF ConditionMatches, cond
<1>5. item.tags \subseteq TagValues
  BY <1>3, <1>4 DEF QueryItem
<1>6. item.tags \subseteq Unpack(item.tags)
  BY <1>5 DEF Unpack, DelimiterFree
<1>7. MatchesQuery(cond.failIfEventsMatch, r)
  BY <1>4, <1>6 DEF MatchesQuery, MatchesQueryItem
<1>8. cond.after # Nil => IsAfter(r.pos, cond.after)
  BY <1>4 DEF AfterPos, IsAfter
<1> QED
  BY <1>1, <1>4, <1>7, <1>8 DEF Violates, AnyMatchAfter, cond

-------------------------------------------------------------------------------
(***************************************************************************)
(* Which steps change what.                                                *)
(***************************************************************************)

\* Positions are allocated, and rows come and go, in three actions.
LEMMA LogSteps ==
    ASSUME [Next]_vars
    PROVE  \/ UNCHANGED <<log, seq, rows>>
           \/ \E c \in Clients : InsertRow(c) \/ Commit(c) \/ Abort(c)
BY DEF Next, Call, vars, Step, AppendRejected, AppendCall, ReadFirst, ReadMore, BeginRead,
       AcquireLock, SnapshotHwm, CheckConditionsPass, CheckConditionsFail, BarrierHwm,
       DeclareCursor, EndTransaction, LoseReply, Clients

\* Locks are acquired one by one and released all at once.
LEMMA HeldSteps ==
    ASSUME [Next]_vars
    PROVE  \/ UNCHANGED held
           \/ \E c \in Clients : AcquireLock(c) \/ EndTransaction(c)
BY DEF Next, Call, vars, Step, AppendRejected, AppendCall, ReadFirst, ReadMore, BeginRead,
       SnapshotHwm, CheckConditionsPass, CheckConditionsFail, InsertRow, Commit, BarrierHwm,
       DeclareCursor, LoseReply, Abort, Clients

\* A view starts afresh or grows by a page.
LEMMA ViewSteps ==
    ASSUME [Next]_vars
    PROVE  \/ UNCHANGED view
           \/ \E c \in Clients : DeclareCursor(c)
           \/ \E c \in Clients, q \in ReadQueries, backwards \in BOOLEAN, limit \in ReadLimits :
                  ReadFirst(c, q, backwards, limit)
BY DEF Next, Call, vars, Step, AppendRejected, AppendCall, ReadMore, BeginRead,
       AcquireLock, SnapshotHwm, CheckConditionsPass, CheckConditionsFail, InsertRow, Commit,
       BarrierHwm, EndTransaction, LoseReply, Abort, Clients

\* Every step is one of these, or changes at most what a call returned.
LEMMA NextActions ==
    ASSUME [Next]_vars
    PROVE  \/ UNCHANGED <<log, seq, pc, want, held, cmds, todo, rows, rd, hwm, view>>
           \/ \E c \in Clients :
                 \/ \E cs \in AppendInputs : AppendCall(c, cs)
                 \/ \E q \in ReadQueries, backwards \in BOOLEAN, limit \in ReadLimits :
                        ReadFirst(c, q, backwards, limit)
                 \/ \E limit \in ReadLimits : ReadMore(c, limit)
                 \/ AcquireLock(c) \/ Step(c) \/ Abort(c)
BY DEF Next, Call, vars, AppendRejected, LoseReply, Clients

-------------------------------------------------------------------------------
(***************************************************************************)
(* The conjuncts of the inductive invariant, one by one.                   *)
(***************************************************************************)

\* nextval never repeats a position.
LEMMA PositionsUniqueNext ==
    ReadInv /\ [Next]_vars => PositionsUnique'
<1> SUFFICES ASSUME ReadInv, [Next]_vars PROVE PositionsUnique'
  OBVIOUS
<1> USE DEF ReadInv, TypeOK
<1>1. CASE UNCHANGED <<log, seq, rows>>
  BY <1>1 DEF PositionsUnique, AllRows
<1>2. ASSUME NEW c \in Clients, InsertRow(c)
      PROVE  PositionsUnique'
  <2>1. PICK s \in todo[c] : rows' = [rows EXCEPT ![c] = @ \cup {InsertedRow(c, s)}]
    BY <1>2 DEF InsertRow
  <2>2. InsertedRow(c, s).pos = seq + 1 /\ seq' = seq + 1
    BY <1>2 DEF InsertRow, InsertedRow
  <2>3. AllRows' \subseteq AllRows \cup {InsertedRow(c, s)}
    <3>1. \A d \in Clients : rows'[d] \subseteq rows[d] \cup {InsertedRow(c, s)}
      BY <2>1
    <3> QED
      BY <1>2, <3>1 DEF AllRows, InsertRow
  <2>4. \A r \in AllRows : r.pos \in Nat /\ r.pos <= seq
    <3>1. \A r \in AllRows : r \in Row
      BY DEF AllRows
    <3> QED
      BY <3>1 DEF Row, Position, PositionsUnique
  <2> SUFFICES ASSUME seq \in Nat, PositionsUnique PROVE PositionsUnique'
    OBVIOUS
  <2> HIDE DEF ReadInv, TypeOK
  <2>5. \A r \in AllRows' : r.pos <= seq'
    BY <2>2, <2>3, <2>4
  <2>6. ASSUME NEW r \in AllRows', NEW t \in AllRows', r.pos = t.pos
        PROVE  r = t
    BY <2>2, <2>3, <2>4, <2>6 DEF PositionsUnique
  <2> QED
    BY <2>5, <2>6 DEF PositionsUnique
<1>3. ASSUME NEW c \in Clients, Commit(c)
      PROVE  PositionsUnique'
  <2>1. AllRows' \subseteq AllRows
    <3>1. \A d \in Clients : rows'[d] \subseteq rows[d]
      BY <1>3 DEF Commit
    <3>2. log' \subseteq AllRows
      BY <1>3 DEF AllRows, Commit
    <3> QED
      BY <3>1, <3>2 DEF AllRows
  <2> QED
    BY <1>3, <2>1 DEF PositionsUnique, Commit
<1>4. ASSUME NEW c \in Clients, Abort(c)
      PROVE  PositionsUnique'
  <2>1. AllRows' \subseteq AllRows
    <3>1. \A d \in Clients : rows'[d] \subseteq rows[d]
      BY <1>4 DEF Abort
    <3> QED
      BY <1>4, <3>1 DEF AllRows, Abort
  <2> QED
    BY <1>4, <2>1 DEF PositionsUnique, Abort
<1> QED
  BY LogSteps, <1>1, <1>2, <1>3, <1>4

\* Locks are granted only when they conflict with no one's.
LEMMA LockExclusionNext ==
    ReadInv /\ [Next]_vars => LockExclusion'
<1> SUFFICES ASSUME ReadInv, [Next]_vars PROVE LockExclusion'
  OBVIOUS
<1> USE DEF ReadInv, TypeOK
<1>1. CASE UNCHANGED held
  BY <1>1 DEF LockExclusion
<1>2. ASSUME NEW c \in Clients, AcquireLock(c)
      PROVE  LockExclusion'
  <2>1. PICK l \in NextLocks(c) : /\ Grantable(c, l)
                                  /\ held' = [held EXCEPT ![c] = @ \cup {l}]
    BY <1>2 DEF AcquireLock
  <2>2. \A d \in Clients \ {c} : \A h \in held[d] : ~Conflict(l, h) /\ ~Conflict(h, l)
    BY <2>1 DEF Grantable, Conflict
  <2> QED
    BY <2>1, <2>2 DEF LockExclusion
<1>3. ASSUME NEW c \in Clients, EndTransaction(c)
      PROVE  LockExclusion'
  BY <1>3 DEF EndTransaction, LockExclusion
<1> QED
  BY HeldSteps, <1>1, <1>2, <1>3
\* A call keeps the locks it has, and does not check before it has them all.
LEMMA AppendLocksNext ==
    ReadInv /\ [Next]_vars => AppendLocks'
<1> SUFFICES ASSUME TypeOK, AppendLocks, [Next]_vars PROVE AppendLocks'
  BY DEF ReadInv
<1> USE DEF TypeOK, AppendLocks
<1>1. CASE UNCHANGED <<log, seq, pc, want, held, cmds, todo, rows, rd, hwm, view>>
  BY <1>1
<1>2. ASSUME NEW c \in Clients, NEW cs \in AppendInputs, AppendCall(c, cs)
      PROVE  AppendLocks'
  BY <1>2 DEF AppendCall
<1>3. ASSUME NEW c \in Clients, NEW q \in ReadQueries, NEW backwards \in BOOLEAN,
             NEW limit \in ReadLimits, ReadFirst(c, q, backwards, limit)
      PROVE  AppendLocks'
  BY <1>3 DEF ReadFirst, BeginRead
<1>4. ASSUME NEW c \in Clients, NEW limit \in ReadLimits, ReadMore(c, limit)
      PROVE  AppendLocks'
  BY <1>4 DEF ReadMore, BeginRead
<1>5. ASSUME NEW c \in Clients, AcquireLock(c)
      PROVE  AppendLocks'
  <2>1. PICK l \in want[c] : /\ want' = [want EXCEPT ![c] = @ \ {l}]
                             /\ held' = [held EXCEPT ![c] = @ \cup {l}]
    BY <1>5 DEF AcquireLock, NextLocks
  <2>2. \A d \in Clients : want[d] \cup held[d] \subseteq want'[d] \cup held'[d]
    BY <2>1
  <2>3. \A d \in Clients : held[d] \subseteq held'[d]
    BY <2>1
  <2> QED
    BY <1>5, <2>2, <2>3 DEF AcquireLock
<1>6. ASSUME NEW c \in Clients, Step(c)
      PROVE  AppendLocks'
  <2>1. CASE SnapshotHwm(c)
    BY <2>1 DEF SnapshotHwm
  <2>2. CASE CheckConditionsPass(c)
    BY <2>2 DEF CheckConditionsPass
  <2>3. CASE CheckConditionsFail(c)
    BY <2>3 DEF CheckConditionsFail
  <2>4. CASE InsertRow(c)
    BY <2>4 DEF InsertRow
  <2>5. CASE Commit(c)
    BY <2>5 DEF Commit
  <2>6. CASE BarrierHwm(c)
    BY <2>6 DEF BarrierHwm
  <2>7. CASE DeclareCursor(c)
    BY <2>7 DEF DeclareCursor
  <2>8. CASE EndTransaction(c)
    BY <2>8 DEF EndTransaction
  <2> QED
    BY <1>6, <2>1, <2>2, <2>3, <2>4, <2>5, <2>6, <2>7, <2>8 DEF Step
<1>7. ASSUME NEW c \in Clients, Abort(c)
      PROVE  AppendLocks'
  BY <1>7 DEF Abort
<1> QED
  BY NextActions, <1>1, <1>2, <1>3, <1>4, <1>5, <1>6, <1>7

\* Lock-then-allocate: a row in flight is covered by its writer's locks.
LEMMA RowsAreLockedNext ==
    DelimiterFree /\ ReadInv /\ TypeOK' /\ [Next]_vars => RowsAreLocked'
<1> SUFFICES ASSUME DelimiterFree, TypeOK, TypeOK', AppendLocks, RowsAreLocked, [Next]_vars
             PROVE  RowsAreLocked'
  BY DEF ReadInv
<1> USE DEF RowsAreLocked
<1>1. CASE UNCHANGED <<log, seq, pc, want, held, cmds, todo, rows, rd, hwm, view>>
  BY <1>1
<1>2. ASSUME NEW c \in Clients, NEW cs \in AppendInputs, AppendCall(c, cs)
      PROVE  RowsAreLocked'
  BY <1>2 DEF AppendCall, TypeOK
<1>3. ASSUME NEW c \in Clients, NEW q \in ReadQueries, NEW backwards \in BOOLEAN,
             NEW limit \in ReadLimits, ReadFirst(c, q, backwards, limit)
      PROVE  RowsAreLocked'
  BY <1>3 DEF ReadFirst, BeginRead, TypeOK
<1>4. ASSUME NEW c \in Clients, NEW limit \in ReadLimits, ReadMore(c, limit)
      PROVE  RowsAreLocked'
  <2>1. UNCHANGED <<rows, held>> /\ pc[c] = "idle"
    BY <1>4 DEF ReadMore, BeginRead
  <2>2. \A d \in Clients : d # c => pc'[d] = pc[d]
    BY <1>4 DEF ReadMore, BeginRead, TypeOK
  <2> QED
    BY <2>1, <2>2
<1>5. ASSUME NEW c \in Clients, AcquireLock(c)
      PROVE  RowsAreLocked'
  <2>1. \A d \in Clients : held[d] \subseteq held'[d]
    BY <1>5 DEF AcquireLock, TypeOK
  <2> QED
    BY <1>5, <2>1 DEF AcquireLock
<1>6. ASSUME NEW c \in Clients, Step(c)
      PROVE  RowsAreLocked'
  <2>1. CASE SnapshotHwm(c)
    BY <2>1 DEF SnapshotHwm, TypeOK
  <2>2. CASE CheckConditionsPass(c)
    BY <2>2 DEF CheckConditionsPass, TypeOK
  <2>3. CASE CheckConditionsFail(c)
    BY <2>3 DEF CheckConditionsFail, TypeOK
  <2>4. CASE InsertRow(c)
    <3>1. PICK s \in todo[c] : rows' = [rows EXCEPT ![c] = @ \cup {InsertedRow(c, s)}]
      BY <2>4 DEF InsertRow
    <3>2. s \in Slots(cmds[c]) /\ cmds[c] \in Seq(AppendCommand) /\ pc[c] = "a_insert"
      BY <2>4 DEF AppendLocks, InsertRow, TypeOK
    <3>3. WriterLocks(cmds[c]) \subseteq held[c]
      BY <3>2 DEF AppendLocks
    <3>4. InsertedRow(c, s) \in Row
      BY <3>1 DEF TypeOK
    <3>5. EventAt(cmds[c], s).tags \in SUBSET TagValues
      BY <3>2, SlotsType DEF Event
    <3>6. InsertedRow(c, s).tags = EventAt(cmds[c], s).tags
      <4>1. Unpack(EventAt(cmds[c], s).tags) = EventAt(cmds[c], s).tags
        BY <3>5 DEF Unpack, DelimiterFree
      <4> QED
        BY <4>1 DEF InsertedRow, StoredTags
    <3>7. InsertedRow(c, s).type = EventAt(cmds[c], s).type
      BY DEF InsertedRow
    <3>8. RowLocks(InsertedRow(c, s)) \subseteq held[c]
      BY <3>2, <3>3, <3>4, <3>6, <3>7, CallCoversRow
    <3> QED
      BY <2>4, <3>1, <3>8 DEF InsertRow, TypeOK
  <2>5. CASE Commit(c)
    BY <2>5 DEF Commit, TypeOK
  <2>6. CASE BarrierHwm(c)
    BY <2>6 DEF BarrierHwm, TypeOK
  <2>7. CASE DeclareCursor(c)
    BY <2>7 DEF DeclareCursor, TypeOK
  <2>8. CASE EndTransaction(c)
    BY <2>8 DEF EndTransaction, TypeOK
  <2> QED
    BY <1>6, <2>1, <2>2, <2>3, <2>4, <2>5, <2>6, <2>7, <2>8 DEF Step
<1>7. ASSUME NEW c \in Clients, Abort(c)
      PROVE  RowsAreLocked'
  BY <1>7 DEF Abort, TypeOK
<1> QED
  BY NextActions, <1>1, <1>2, <1>3, <1>4, <1>5, <1>6, <1>7
\* Only a commit changes the log.
LEMMA LogGrows ==
    ASSUME [Next]_vars
    PROVE  UNCHANGED log \/ \E d \in Clients : Commit(d)
BY LogSteps DEF InsertRow, Abort

\* An append reaches its check by taking its snapshot, and its insert by
\* passing its check; its arguments and its snapshot stay put meanwhile.
LEMMA CheckSteps ==
    ASSUME TypeOK, [Next]_vars, NEW c \in Clients
    PROVE  /\ pc'[c] = "a_check" =>
                 \/ SnapshotHwm(c)
                 \/ pc[c] = "a_check" /\ cmds'[c] = cmds[c] /\ hwm'[c] = hwm[c]
           /\ pc'[c] = "a_insert" =>
                 \/ CheckConditionsPass(c)
                 \/ pc[c] = "a_insert" /\ cmds'[c] = cmds[c]
<1> DEFINE Goal == /\ pc'[c] = "a_check" =>
                         \/ SnapshotHwm(c)
                         \/ pc[c] = "a_check" /\ cmds'[c] = cmds[c] /\ hwm'[c] = hwm[c]
                   /\ pc'[c] = "a_insert" =>
                         \/ CheckConditionsPass(c)
                         \/ pc[c] = "a_insert" /\ cmds'[c] = cmds[c]
<1>1. CASE UNCHANGED <<log, seq, pc, want, held, cmds, todo, rows, rd, hwm, view>>
  BY <1>1
<1>2. ASSUME NEW d \in Clients, NEW cs \in AppendInputs, AppendCall(d, cs)
      PROVE  Goal
  BY <1>2 DEF AppendCall, TypeOK
<1>3. ASSUME NEW d \in Clients, NEW q \in ReadQueries, NEW backwards \in BOOLEAN,
             NEW limit \in ReadLimits, ReadFirst(d, q, backwards, limit)
      PROVE  Goal
  BY <1>3 DEF ReadFirst, BeginRead, TypeOK
<1>4. ASSUME NEW d \in Clients, NEW limit \in ReadLimits, ReadMore(d, limit)
      PROVE  Goal
  <2>1. UNCHANGED <<cmds, hwm>>
    BY <1>4 DEF ReadMore, BeginRead
  <2>2. \E p \in {"r_lock", "r_declare"} : pc' = [pc EXCEPT ![d] = p]
    BY <1>4 DEF ReadMore, BeginRead
  <2> QED
    BY <2>1, <2>2 DEF TypeOK
<1>5. ASSUME NEW d \in Clients, AcquireLock(d)
      PROVE  Goal
  BY <1>5 DEF AcquireLock
<1>6. ASSUME NEW d \in Clients, Step(d)
      PROVE  Goal
  <2>1. CASE SnapshotHwm(d)
    BY <2>1 DEF SnapshotHwm, TypeOK
  <2>2. CASE CheckConditionsPass(d)
    BY <2>2 DEF CheckConditionsPass, TypeOK
  <2>3. CASE CheckConditionsFail(d)
    BY <2>3 DEF CheckConditionsFail, TypeOK
  <2>4. CASE InsertRow(d)
    BY <2>4 DEF InsertRow
  <2>5. CASE Commit(d)
    BY <2>5 DEF Commit, TypeOK
  <2>6. CASE BarrierHwm(d)
    BY <2>6 DEF BarrierHwm, TypeOK
  <2>7. CASE DeclareCursor(d)
    BY <2>7 DEF DeclareCursor, TypeOK
  <2>8. CASE EndTransaction(d)
    BY <2>8 DEF EndTransaction, TypeOK
  <2> QED
    BY <1>6, <2>1, <2>2, <2>3, <2>4, <2>5, <2>6, <2>7, <2>8 DEF Step
<1>7. ASSUME NEW d \in Clients, Abort(d)
      PROVE  Goal
  BY <1>7 DEF Abort, TypeOK
<1> QED
  BY NextActions, <1>1, <1>2, <1>3, <1>4, <1>5, <1>6, <1>7

\* While an append holds its locks, no one else has a row in flight that its
\* conditions look for.
LEMMA LocksKeepConditions ==
    ASSUME TypeOK, LockExclusion, AppendLocks, RowsAreLocked,
           NEW c \in Clients, NEW d \in Clients, c # d, pc[c] \in {"a_check", "a_insert"},
           NEW i \in DOMAIN cmds[c], cmds[c][i].condition # Nil, NEW r \in rows[d]
    PROVE  ~MatchesQuery(cmds[c][i].condition.failIfEventsMatch, r)
<1> SUFFICES ASSUME MatchesQuery(cmds[c][i].condition.failIfEventsMatch, r)
             PROVE  FALSE
  OBVIOUS
<1>1. cmds[c] \in Seq(AppendCommand) /\ r \in Row
  BY DEF TypeOK
<1>2. ConditionsValid(cmds[c]) /\ WriterLocks(cmds[c]) \subseteq held[c]
  BY DEF AppendLocks
<1>3. PICK l \in WriterLocks(cmds[c]), m \in RowLocks(r) : Conflict(l, m)
  BY <1>1, <1>2, ConditionConflictsWithRow
<1>4. l \in held[c] /\ m \in held[d]
  BY <1>2 DEF RowsAreLocked
<1> QED
  BY <1>3, <1>4 DEF LockExclusion

\* What commits after an append's snapshot is nothing its check looks for.
LEMMA ChecksAreCompleteNext ==
    ReadInv /\ ChecksAreComplete /\ [Next]_vars => ChecksAreComplete'
<1> SUFFICES ASSUME ReadInv, ChecksAreComplete, [Next]_vars, NEW c \in Clients, pc'[c] = "a_check",
                    NEW i \in DOMAIN cmds'[c], cmds'[c][i].condition # Nil,
                    NEW r \in log', MatchesQuery(cmds'[c][i].condition.failIfEventsMatch, r)
             PROVE  r.pos <= hwm'[c]
  BY DEF ChecksAreComplete
<1>1. CASE SnapshotHwm(c)
  <2>1. r \in AllRows /\ hwm'[c] = seq
    BY <1>1 DEF SnapshotHwm, AllRows, ReadInv, TypeOK
  <2> QED
    BY <2>1 DEF ReadInv, PositionsUnique
<1>2. CASE pc[c] = "a_check" /\ cmds'[c] = cmds[c] /\ hwm'[c] = hwm[c]
  <2>1. r \in log
    <3>1. ASSUME NEW d \in Clients, Commit(d), r \in rows[d]
          PROVE  FALSE
      <4>1. d # c
        BY <1>2, <3>1 DEF Commit
      <4> QED
        BY <1>2, <3>1, <4>1, LocksKeepConditions DEF ReadInv
    <3> QED
      BY <3>1, LogGrows DEF Commit
  <2> QED
    BY <1>2, <2>1 DEF ReadInv, ChecksAreComplete
<1> QED
  BY <1>1, <1>2, CheckSteps DEF ReadInv

\* A check of the committed log that finds nothing establishes the condition.
LEMMA CheckEstablishes ==
    ASSUME DelimiterFree, ReadInv, ChecksAreComplete, NEW c \in Clients, pc[c] = "a_check",
           NEW i \in DOMAIN cmds[c], ~ConditionMatches(log, cmds[c], i, hwm[c])
    PROVE  ~Violates(log, cmds[c], i)
<1>1. cmds[c] \in Seq(AppendCommand) /\ log \in SUBSET Row /\ hwm[c] \in Nat
  BY DEF ReadInv, TypeOK
<1>2. ConditionsValid(cmds[c])
  BY DEF ReadInv, AppendLocks
<1>3. CASE cmds[c][i].condition = Nil
  BY <1>3 DEF Violates
<1>4. CASE cmds[c][i].condition # Nil
  <2>1. \A r \in log : MatchesQuery(cmds[c][i].condition.failIfEventsMatch, r) => r.pos <= hwm[c]
    BY <1>4 DEF ChecksAreComplete
  <2> QED
    BY <1>1, <1>2, <1>4, <2>1, CheckFindsViolations
<1> QED
  BY <1>3, <1>4

\* A condition that holds under an append's locks goes on holding.
LEMMA LockedConditionsStay ==
    ASSUME ReadInv, [Next]_vars, NEW c \in Clients, pc[c] = "a_insert", pc'[c] = "a_insert",
           NEW i \in DOMAIN cmds[c], ~Violates(log, cmds[c], i)
    PROVE  ~Violates(log', cmds[c], i)
<1>1. ASSUME NEW r \in log', cmds[c][i].condition # Nil,
             MatchesQuery(cmds[c][i].condition.failIfEventsMatch, r)
      PROVE  r \in log
  <2>1. ASSUME NEW d \in Clients, Commit(d), r \in rows[d]
        PROVE  FALSE
    <3>1. d # c
      BY <2>1 DEF Commit, ReadInv, TypeOK
    <3> QED
      BY <1>1, <2>1, <3>1, LocksKeepConditions DEF ReadInv
  <2> QED
    BY <2>1, LogGrows DEF Commit
<1> QED
  BY <1>1 DEF Violates, AnyMatchAfter

\* A condition that passed its check stays true until the commit.
LEMMA ConditionsHoldNext ==
    DelimiterFree /\ IInv /\ [Next]_vars => ConditionsHoldUntilCommit'
<1> SUFFICES ASSUME DelimiterFree, IInv, [Next]_vars, NEW c \in Clients, pc'[c] = "a_insert",
                    NEW i \in DOMAIN cmds'[c]
             PROVE  ~Violates(log', cmds'[c], i)
  BY DEF ConditionsHoldUntilCommit, Violates, AnyMatchAfter
<1>1. CASE CheckConditionsPass(c)
  <2>1. /\ log' = log /\ cmds'[c] = cmds[c] /\ pc[c] = "a_check"
        /\ ~ConditionMatches(log, cmds[c], i, hwm[c])
    BY <1>1 DEF CheckConditionsPass
  <2> QED
    BY <2>1, CheckEstablishes DEF IInv
<1>2. CASE pc[c] = "a_insert" /\ cmds'[c] = cmds[c]
  <2>1. ~Violates(log, cmds[c], i)
    BY <1>2 DEF IInv, ConditionsHoldUntilCommit
  <2> QED
    BY <1>2, <2>1, LockedConditionsStay DEF IInv
<1> QED
  BY <1>1, <1>2, CheckSteps DEF IInv, ReadInv

\* Reads take their arguments from the view they extend.
LEMMA ReadsFollowViewsNext ==
    ReadInv /\ [Next]_vars => ReadsFollowViews'
<1> SUFFICES ASSUME TypeOK, ReadsFollowViews, [Next]_vars PROVE ReadsFollowViews'
  BY DEF ReadInv
<1> USE DEF ReadsFollowViews
<1>1. CASE UNCHANGED <<log, seq, pc, want, held, cmds, todo, rows, rd, hwm, view>>
  BY <1>1
<1>2. ASSUME NEW c \in Clients, NEW cs \in AppendInputs, AppendCall(c, cs)
      PROVE  ReadsFollowViews'
  BY <1>2 DEF AppendCall, TypeOK
<1>3. ASSUME NEW c \in Clients, NEW o,
             pc[c] = "idle", BeginRead(c, o),
             \A d \in Clients : d # c => view'[d] = view[d],
             o.query = view'[c].query, o.backwards = view'[c].backwards, o.backwards \in BOOLEAN,
             o.after # Nil => \E s \in view'[c].seen : s.pos = o.after
      PROVE  ReadsFollowViews'
  <2>1. rd'[c] = o /\ \A d \in Clients : d # c => rd'[d] = rd[d]
    BY <1>3 DEF BeginRead, TypeOK
  <2>2. UNCHANGED held /\ \A d \in Clients : d # c => pc'[d] = pc[d] /\ want'[d] = want[d]
    BY <1>3 DEF BeginRead, TypeOK
  <2>3. \/ pc'[c] = "r_declare" /\ o.backwards
        \/ /\ pc'[c] = "r_lock" /\ ~o.backwards
           /\ want'[c] = computeReaderLockKeys(o.query)
    BY <1>3 DEF BeginRead, TypeOK
  <2> QED
    BY <1>3, <2>1, <2>2, <2>3
<1>4. ASSUME NEW c \in Clients, NEW q \in ReadQueries, NEW backwards \in BOOLEAN,
             NEW limit \in ReadLimits, ReadFirst(c, q, backwards, limit)
      PROVE  ReadsFollowViews'
  <2> DEFINE o == [query |-> q, after |-> Nil, backwards |-> backwards, limit |-> limit]
  <2>1. /\ pc[c] = "idle" /\ BeginRead(c, o)
        /\ view' = [view EXCEPT ![c] = [query |-> q, backwards |-> backwards, seen |-> {}]]
    BY <1>4 DEF ReadFirst
  <2>2. /\ \A d \in Clients : d # c => view'[d] = view[d]
        /\ o.query = view'[c].query /\ o.backwards = view'[c].backwards
    BY <2>1 DEF TypeOK
  <2>3. o.after = Nil /\ o.backwards \in BOOLEAN
    OBVIOUS
  <2> HIDE DEF o
  <2> QED
    BY <1>3, <2>1, <2>2, <2>3
<1>5. ASSUME NEW c \in Clients, NEW limit \in ReadLimits, ReadMore(c, limit)
      PROVE  ReadsFollowViews'
  <2>1. PICK s \in view[c].seen :
           BeginRead(c, [query |-> view[c].query, after |-> s.pos,
                         backwards |-> view[c].backwards, limit |-> limit])
    BY <1>5 DEF ReadMore
  <2> DEFINE o == [query |-> view[c].query, after |-> s.pos,
                   backwards |-> view[c].backwards, limit |-> limit]
  <2>2. pc[c] = "idle" /\ view' = view /\ view[c].backwards \in BOOLEAN
    BY <1>5 DEF ReadMore, TypeOK, View
  <2>3. o.query = view[c].query /\ o.backwards = view[c].backwards /\ o.after = s.pos
    OBVIOUS
  <2>4. BeginRead(c, o)
    BY <2>1
  <2> HIDE DEF o
  <2> QED
    BY <1>3, <2>2, <2>3, <2>4
<1>6. ASSUME NEW c \in Clients, AcquireLock(c)
      PROVE  ReadsFollowViews'
  <2>1. PICK l \in want[c] : /\ want' = [want EXCEPT ![c] = @ \ {l}]
                             /\ held' = [held EXCEPT ![c] = @ \cup {l}]
    BY <1>6 DEF AcquireLock, NextLocks
  <2>2. \A d \in Clients : want[d] \cup held[d] \subseteq want'[d] \cup held'[d]
    BY <2>1 DEF TypeOK
  <2> QED
    BY <1>6, <2>2 DEF AcquireLock
<1>7. ASSUME NEW c \in Clients, Step(c)
      PROVE  ReadsFollowViews'
  <2>1. CASE SnapshotHwm(c)
    BY <2>1 DEF SnapshotHwm, TypeOK
  <2>2. CASE CheckConditionsPass(c)
    BY <2>2 DEF CheckConditionsPass, TypeOK
  <2>3. CASE CheckConditionsFail(c)
    BY <2>3 DEF CheckConditionsFail, TypeOK
  <2>4. CASE InsertRow(c)
    BY <2>4 DEF InsertRow
  <2>5. CASE Commit(c)
    BY <2>5 DEF Commit, TypeOK
  <2>6. CASE BarrierHwm(c)
    BY <2>6 DEF BarrierHwm, TypeOK
  <2>7. CASE DeclareCursor(c)
    <3>1. \A d \in Clients : d # c => view'[d] = view[d] /\ rd'[d] = rd[d] /\ pc'[d] = pc[d]
      BY <2>7 DEF DeclareCursor, TypeOK
    <3>2. pc'[c] = "idle" /\ UNCHANGED <<want, held>>
      BY <2>7 DEF DeclareCursor, TypeOK
    <3> QED
      BY <3>1, <3>2
  <2>8. CASE EndTransaction(c)
    <3>1. UNCHANGED <<want, rd, view>>
      BY <2>8 DEF EndTransaction
    <3>2. \A d \in Clients : d # c => pc'[d] = pc[d] /\ held'[d] = held[d]
      BY <2>8 DEF EndTransaction, TypeOK
    <3>3. pc'[c] = "idle" \/ (pc'[c] = "r_declare" /\ pc[c] = "r_end")
      BY <2>8 DEF EndTransaction, TypeOK
    <3> QED
      BY <3>1, <3>2, <3>3
  <2> QED
    BY <1>7, <2>1, <2>2, <2>3, <2>4, <2>5, <2>6, <2>7, <2>8 DEF Step
<1>8. ASSUME NEW c \in Clients, Abort(c)
      PROVE  ReadsFollowViews'
  BY <1>8 DEF Abort, TypeOK
<1> QED
  BY NextActions, <1>1, <1>2, <1>4, <1>5, <1>6, <1>7, <1>8

\* A forward read gets past its barrier by the barrier's snapshot, and keeps
\* that snapshot until its cursor is declared.
LEMMA BarrierSteps ==
    ASSUME TypeOK, [Next]_vars, NEW c \in Clients,
           pc'[c] \in {"r_end", "r_declare"}, ~rd'[c].backwards
    PROVE  \/ BarrierHwm(c)
           \/ /\ pc[c] \in {"r_end", "r_declare"} /\ ~rd[c].backwards
              /\ rd'[c] = rd[c] /\ hwm'[c] = hwm[c]
<1> DEFINE Goal == \/ BarrierHwm(c)
                   \/ /\ pc[c] \in {"r_end", "r_declare"} /\ ~rd[c].backwards
                      /\ rd'[c] = rd[c] /\ hwm'[c] = hwm[c]
<1>1. CASE UNCHANGED <<log, seq, pc, want, held, cmds, todo, rows, rd, hwm, view>>
  BY <1>1
<1>2. ASSUME NEW d \in Clients, NEW cs \in AppendInputs, AppendCall(d, cs)
      PROVE  Goal
  BY <1>2 DEF AppendCall, TypeOK
<1>3. ASSUME NEW d \in Clients, NEW o, BeginRead(d, o)
      PROVE  Goal
  <2>1. rd' = [rd EXCEPT ![d] = o] /\ UNCHANGED hwm
    BY <1>3 DEF BeginRead
  <2>2. \/ o.backwards /\ pc' = [pc EXCEPT ![d] = "r_declare"]
        \/ pc' = [pc EXCEPT ![d] = "r_lock"]
    BY <1>3 DEF BeginRead
  <2> QED
    BY <2>1, <2>2 DEF TypeOK
<1>4. ASSUME NEW d \in Clients, AcquireLock(d)
      PROVE  Goal
  BY <1>4 DEF AcquireLock
<1>5. ASSUME NEW d \in Clients, Step(d)
      PROVE  Goal
  <2>1. CASE SnapshotHwm(d)
    BY <2>1 DEF SnapshotHwm, TypeOK
  <2>2. CASE CheckConditionsPass(d)
    BY <2>2 DEF CheckConditionsPass, TypeOK
  <2>3. CASE CheckConditionsFail(d)
    BY <2>3 DEF CheckConditionsFail, TypeOK
  <2>4. CASE InsertRow(d)
    BY <2>4 DEF InsertRow
  <2>5. CASE Commit(d)
    BY <2>5 DEF Commit, TypeOK
  <2>6. CASE BarrierHwm(d)
    BY <2>6 DEF BarrierHwm, TypeOK
  <2>7. CASE DeclareCursor(d)
    BY <2>7 DEF DeclareCursor, TypeOK
  <2>8. CASE EndTransaction(d)
    BY <2>8 DEF EndTransaction, TypeOK
  <2> QED
    BY <1>5, <2>1, <2>2, <2>3, <2>4, <2>5, <2>6, <2>7, <2>8 DEF Step
<1>6. ASSUME NEW d \in Clients, Abort(d)
      PROVE  Goal
  BY <1>6 DEF Abort, TypeOK
<1>7. ASSUME NEW d \in Clients, NEW limit \in ReadLimits, ReadMore(d, limit)
      PROVE  Goal
  BY <1>3, <1>7 DEF ReadMore
<1>8. ASSUME NEW d \in Clients, NEW q \in ReadQueries, NEW backwards \in BOOLEAN,
             NEW limit \in ReadLimits, ReadFirst(d, q, backwards, limit)
      PROVE  Goal
  BY <1>3, <1>8 DEF ReadFirst
<1> QED
  BY NextActions, <1>1, <1>2, <1>4, <1>5, <1>6, <1>7, <1>8
\* A row in flight was in flight before, or has just taken the next position.
LEMMA RowSteps ==
    ASSUME TypeOK, [Next]_vars, NEW d \in Clients, NEW r \in rows'[d]
    PROVE  \/ r \in rows[d]
           \/ r.pos = seq + 1 /\ UNCHANGED <<log, view>>
<1>1. ASSUME NEW c \in Clients, InsertRow(c)
      PROVE  r \in rows[d] \/ (r.pos = seq + 1 /\ UNCHANGED <<log, view>>)
  <2>1. PICK s \in todo[c] : rows' = [rows EXCEPT ![c] = @ \cup {InsertedRow(c, s)}]
    BY <1>1 DEF InsertRow
  <2>2. r \in rows[d] \/ r = InsertedRow(c, s)
    BY <2>1 DEF TypeOK
  <2> QED
    BY <1>1, <2>2 DEF InsertRow, InsertedRow
<1>2. ASSUME NEW c \in Clients, Commit(c) \/ Abort(c)
      PROVE  r \in rows[d]
  BY <1>2 DEF Commit, Abort, TypeOK
<1> QED
  BY <1>1, <1>2, LogSteps

\* A barrier that has its locks meets no row that its query reads: such a row
\* is under locks that conflict with the barrier's.
LEMMA BarrierMeetsNoRow == ReadInv => BarrierExcludesWriters
<1> SUFFICES ASSUME ReadInv, NEW c \in Clients, pc[c] = "r_lock", want[c] = {},
                    NEW d \in Clients, NEW r \in rows[d], ReadMatches(rd[c].query, r)
             PROVE  FALSE
  BY DEF BarrierExcludesWriters
<1>1. d # c
  BY DEF ReadInv, RowsAreLocked
<1>2. rd[c].query \in Query /\ r \in Row
  BY DEF ReadInv, TypeOK, ReadCall
<1>3. PICK l \in computeReaderLockKeys(rd[c].query), m \in RowLocks(r) : Conflict(l, m)
  BY <1>2, ReaderConflictsWithRow
<1>4. l \in held[c] /\ m \in held[d]
  BY DEF ReadInv, ReadsFollowViews, RowsAreLocked
<1> QED
  BY <1>1, <1>3, <1>4 DEF ReadInv, LockExclusion

\* When a barrier has its locks, nothing its query reads is in flight.
LEMMA BarrierHoldsNext ==
    ReadInv /\ TypeOK' /\ [Next]_vars => BarrierHolds'
<1> SUFFICES ASSUME ReadInv, TypeOK', [Next]_vars, NEW c \in Clients,
                    pc'[c] \in {"r_end", "r_declare"}, ~rd'[c].backwards
             PROVE  /\ hwm'[c] <= seq'
                    /\ \A d \in Clients : \A r \in rows'[d] :
                          ReadMatches(rd'[c].query, r) => r.pos > hwm'[c]
  BY DEF BarrierHolds
<1>1. CASE BarrierHwm(c)
  <2>1. /\ hwm'[c] = seq /\ seq' = seq /\ rows' = rows /\ rd' = rd
        /\ pc[c] = "r_lock" /\ want[c] = {}
    BY <1>1 DEF BarrierHwm, ReadInv, TypeOK
  <2>2. \A d \in Clients : \A r \in rows[d] : ~ReadMatches(rd[c].query, r)
    BY <2>1, BarrierMeetsNoRow DEF BarrierExcludesWriters
  <2>3. seq \in Nat
    BY DEF ReadInv, TypeOK
  <2> QED
    BY <2>1, <2>2, <2>3
<1>2. CASE /\ pc[c] \in {"r_end", "r_declare"} /\ ~rd[c].backwards
           /\ rd'[c] = rd[c] /\ hwm'[c] = hwm[c]
  <2>1. /\ hwm[c] <= seq
        /\ \A d \in Clients : \A r \in rows[d] : ReadMatches(rd[c].query, r) => r.pos > hwm[c]
    BY <1>2 DEF ReadInv, BarrierHolds
  <2>2. seq \in Nat /\ hwm[c] \in Nat /\ seq <= seq'
    BY LogSteps DEF ReadInv, TypeOK, InsertRow, Commit, Abort
  <2>3. hwm'[c] <= seq'
    BY <1>2, <2>1, <2>2 DEF ReadInv, TypeOK
  <2>4. ASSUME NEW d \in Clients, NEW r \in rows'[d], ReadMatches(rd'[c].query, r)
        PROVE  r.pos > hwm'[c]
    <3>1. CASE r \in rows[d]
      BY <1>2, <2>1, <2>4, <3>1
    <3>2. CASE r.pos = seq + 1
      BY <1>2, <2>1, <2>2, <3>2
    <3> QED
      BY <3>1, <3>2, RowSteps DEF ReadInv
  <2> QED
    BY <2>3, <2>4
<1> QED
  BY <1>1, <1>2, BarrierSteps DEF ReadInv

\* What DeclareCursor adds to a view.
LEMMA CursorPage ==
    ASSUME ReadInv, NEW c \in Clients, DeclareCursor(c)
    PROVE  /\ UNCHANGED <<log, rows, seq>>
           /\ \A d \in Clients : d # c => view'[d] = view[d]
           /\ view'[c].query = view[c].query /\ view'[c].backwards = view[c].backwards
           /\ \E page \in SUBSET Selected(log, rd[c], hwm[c]) :
                 /\ IsPage(page, Selected(log, rd[c], hwm[c]), rd[c])
                 /\ view'[c].seen = view[c].seen \cup page
<1>1. PICK page \in SUBSET Selected(log, rd[c], hwm[c]) :
         /\ IsPage(page, Selected(log, rd[c], hwm[c]), rd[c])
         /\ view' = [view EXCEPT ![c].seen = @ \cup page]
  BY DEF DeclareCursor
<1>2. view[c] \in View /\ view \in [Clients -> View]
  BY DEF ReadInv, TypeOK
<1>3. /\ view'[c].query = view[c].query /\ view'[c].backwards = view[c].backwards
      /\ view'[c].seen = view[c].seen \cup page
      /\ \A d \in Clients : d # c => view'[d] = view[d]
  BY <1>1, <1>2 DEF View
<1> QED
  BY <1>1, <1>3 DEF DeclareCursor

\* A view is a part of the log, and rows in flight stay beyond it.
LEMMA ViewsAreBehindNext ==
    ReadInv /\ TypeOK' /\ [Next]_vars => ViewsAreBehind'
<1> SUFFICES ASSUME ReadInv, TypeOK', [Next]_vars, NEW c \in Clients
             PROVE  /\ view'[c].seen \subseteq log'
                    /\ ~view'[c].backwards =>
                          \A d \in Clients : \A r \in rows'[d], s \in view'[c].seen :
                              ReadMatches(view'[c].query, r) => r.pos > s.pos
  BY DEF ViewsAreBehind
<1>1. log \subseteq log'
  BY LogGrows DEF Commit
<1>2. CASE view'[c] = view[c]
  <2>1. view'[c].seen \subseteq log'
    BY <1>1, <1>2 DEF ReadInv, ViewsAreBehind
  <2>2. ASSUME ~view'[c].backwards, NEW d \in Clients, NEW r \in rows'[d],
               NEW s \in view'[c].seen, ReadMatches(view'[c].query, r)
        PROVE  r.pos > s.pos
    <3>1. CASE r \in rows[d]
      BY <1>2, <2>2, <3>1 DEF ReadInv, ViewsAreBehind
    <3>2. CASE r.pos = seq + 1
      <4>1. s \in AllRows /\ s \in Row
        BY <1>2 DEF ReadInv, ViewsAreBehind, AllRows, TypeOK
      <4>2. s.pos <= seq /\ s.pos \in Nat /\ seq \in Nat
        BY <4>1 DEF ReadInv, PositionsUnique, Row, Position, TypeOK
      <4> QED
        BY <3>2, <4>2
    <3> QED
      BY <3>1, <3>2, RowSteps DEF ReadInv
  <2> QED
    BY <2>1, <2>2
<1>3. CASE view'[c].seen = {}
  BY <1>3
<1>4. CASE DeclareCursor(c)
  <2>1. PICK page \in SUBSET Selected(log, rd[c], hwm[c]) :
           view'[c].seen = view[c].seen \cup page
    BY <1>4, CursorPage
  <2>2. /\ UNCHANGED <<log, rows>> /\ pc[c] = "r_declare"
        /\ view'[c].query = view[c].query /\ view'[c].backwards = view[c].backwards
    BY <1>4, CursorPage DEF DeclareCursor
  <2>3. page \subseteq log
    BY DEF Selected, PastAfter, WithinHwm
  <2>4. view[c].seen \subseteq log
    BY DEF ReadInv, ViewsAreBehind
  <2>5. ASSUME ~view[c].backwards, NEW d \in Clients, NEW r \in rows[d],
               NEW s \in page, ReadMatches(view[c].query, r)
        PROVE  r.pos > s.pos
    <3>1. ~rd[c].backwards /\ rd[c].query = view[c].query
      BY <2>2, <2>5 DEF ReadInv, ReadsFollowViews
    <3>2. r.pos > hwm[c]
      BY <2>2, <2>5, <3>1 DEF ReadInv, BarrierHolds
    <3>3. s.pos <= hwm[c]
      BY <3>1 DEF Selected, PastAfter, WithinHwm
    <3>4. s \in Row /\ r \in Row /\ hwm[c] \in Nat
      BY <2>3 DEF ReadInv, TypeOK
    <3>5. s.pos \in Nat /\ r.pos \in Nat
      BY <3>4 DEF Row, Position
    <3> QED
      BY <3>2, <3>3, <3>4, <3>5
  <2> QED
    BY <2>1, <2>2, <2>3, <2>4, <2>5 DEF ReadInv, ViewsAreBehind
<1>5. ASSUME NEW e \in Clients, NEW q \in ReadQueries, NEW backwards \in BOOLEAN,
             NEW limit \in ReadLimits, ReadFirst(e, q, backwards, limit)
      PROVE  view'[c] = view[c] \/ view'[c].seen = {}
  BY <1>5 DEF ReadFirst, ReadInv, TypeOK
<1>6. ASSUME NEW e \in Clients, e # c, DeclareCursor(e)
      PROVE  view'[c] = view[c]
  BY <1>6, CursorPage
<1> QED
  BY ViewSteps, <1>2, <1>3, <1>4, <1>5, <1>6

\* No commit and no page leaves a gap behind a forward view.
LEMMA ForwardReadsNext ==
    ReadInv /\ [Next]_vars => ForwardReadsNeverSkip'
<1> SUFFICES ASSUME ReadInv, [Next]_vars, NEW c \in Clients, ~view'[c].backwards,
                    NEW s \in view'[c].seen, NEW r \in log',
                    ReadMatches(view'[c].query, r), r.pos <= s.pos
             PROVE  r \in view'[c].seen
  BY DEF ForwardReadsNeverSkip
<1>1. CASE view'[c] = view[c]
  <2>1. CASE r \in log
    BY <1>1, <2>1 DEF ReadInv, ForwardReadsNeverSkip
  <2>2. ASSUME NEW d \in Clients, r \in rows[d]
        PROVE  FALSE
    <3>1. r.pos > s.pos
      BY <1>1, <2>2 DEF ReadInv, ViewsAreBehind
    <3>2. s \in Row /\ r \in Row
      BY <1>1, <2>2 DEF ReadInv, TypeOK, View
    <3> QED
      BY <3>1, <3>2 DEF Row, Position
  <2> QED
    BY <2>1, <2>2, LogGrows DEF Commit
<1>2. CASE view'[c].seen = {}
  BY <1>2
<1>3. CASE DeclareCursor(c)
  <2> DEFINE sel == Selected(log, rd[c], hwm[c])
  <2>1. PICK page \in SUBSET sel :
           IsPage(page, sel, rd[c]) /\ view'[c].seen = view[c].seen \cup page
    BY <1>3, CursorPage
  <2>2. /\ log' = log /\ pc[c] = "r_declare"
        /\ view'[c].query = view[c].query /\ view'[c].backwards = view[c].backwards
    BY <1>3, CursorPage DEF DeclareCursor
  <2>3. ~rd[c].backwards /\ rd[c].query = view[c].query
    BY <2>2 DEF ReadInv, ReadsFollowViews
  <2>4. \A t \in view[c].seen : r.pos <= t.pos => r \in view[c].seen
    BY <2>2 DEF ReadInv, ForwardReadsNeverSkip
  <2>5. CASE s \in view[c].seen
    BY <2>1, <2>4, <2>5
  <2>6. CASE s \in page
    <3>1. s \in log /\ s.pos <= hwm[c]
      BY <2>3, <2>6 DEF Selected, PastAfter, WithinHwm
    <3>2. s \in Row /\ r \in Row /\ hwm[c] \in Nat /\ rd[c] \in ReadCall
      BY <2>2, <3>1 DEF ReadInv, TypeOK
    <3>3. s.pos \in Nat /\ r.pos \in Nat /\ rd[c].after \in Nat \cup {Nil}
      BY <3>2 DEF Row, Position, ReadCall
    <3>4. CASE rd[c].after # Nil /\ r.pos <= rd[c].after
      <4>1. PICK t \in view[c].seen : t.pos = rd[c].after
        BY <2>2, <3>4 DEF ReadInv, ReadsFollowViews
      <4> QED
        BY <2>1, <2>4, <3>4, <4>1
    <3>5. CASE rd[c].after = Nil \/ r.pos > rd[c].after
      <4>1. r.pos <= hwm[c]
        BY <3>1, <3>2, <3>3
      <4>2. r \in sel
        BY <2>2, <2>3, <3>5, <4>1 DEF Selected, PastAfter, WithinHwm
      <4>3. CASE r.pos < s.pos
        BY <2>1, <2>3, <2>6, <4>2, <4>3 DEF IsPage, Precedes
      <4>4. CASE r.pos = s.pos
        <5>1. r \in AllRows /\ s \in AllRows
          BY <2>2, <3>1 DEF AllRows
        <5>2. r = s
          BY <4>4, <5>1 DEF ReadInv, PositionsUnique
        <5> QED
          BY <2>1, <2>6, <5>2
      <4> HIDE DEF sel
      <4> QED
        BY <2>1, <3>3, <4>3, <4>4
    <3> QED
      BY <3>3, <3>4, <3>5
  <2> QED
    BY <2>1, <2>5, <2>6
<1>4. ASSUME NEW e \in Clients, NEW q \in ReadQueries, NEW backwards \in BOOLEAN,
             NEW limit \in ReadLimits, ReadFirst(e, q, backwards, limit)
      PROVE  view'[c] = view[c] \/ view'[c].seen = {}
  BY <1>4 DEF ReadFirst, ReadInv, TypeOK
<1>5. ASSUME NEW e \in Clients, e # c, DeclareCursor(e)
      PROVE  view'[c] = view[c]
  BY <1>5, CursorPage
<1> QED
  BY ViewSteps, <1>1, <1>2, <1>3, <1>4, <1>5
-------------------------------------------------------------------------------
(***************************************************************************)
(* The theorems.                                                           *)
(***************************************************************************)

\* Nothing is stored, locked or read yet.
LEMMA IInvInit == Init => IInv
<1> SUFFICES ASSUME Init PROVE IInv
  OBVIOUS
<1>1. TypeOK
  BY TypeInit
<1>2. AllRows = {}
  BY DEF Init, AllRows
<1>3. PositionsUnique
  BY <1>2 DEF PositionsUnique
<1>4. LockExclusion /\ AppendLocks /\ RowsAreLocked
  BY DEF Init, LockExclusion, AppendLocks, RowsAreLocked
<1>5. ChecksAreComplete /\ ConditionsHoldUntilCommit /\ ReadsFollowViews /\ BarrierHolds
  BY DEF Init, ChecksAreComplete, ConditionsHoldUntilCommit, ReadsFollowViews, BarrierHolds
<1>6. \A c \in Clients : view[c].seen = {}
  BY DEF Init, NoView
<1>7. ViewsAreBehind /\ ForwardReadsNeverSkip
  BY <1>6 DEF ViewsAreBehind, ForwardReadsNeverSkip
<1> QED
  BY <1>1, <1>3, <1>4, <1>5, <1>7 DEF IInv, ReadInv

\* Every statement of every transaction preserves what reads rely on.
LEMMA ReadInvNext == DelimiterFree /\ ReadInv /\ [Next]_vars => ReadInv'
<1> SUFFICES ASSUME DelimiterFree, ReadInv, [Next]_vars PROVE ReadInv'
  OBVIOUS
<1>1. SlotsInCall
  BY DEF ReadInv, AppendLocks, SlotsInCall
<1>2. TypeOK'
  BY <1>1, TypeNext DEF ReadInv
<1>3. PositionsUnique' /\ LockExclusion' /\ AppendLocks' /\ RowsAreLocked'
  BY <1>2, PositionsUniqueNext, LockExclusionNext, AppendLocksNext, RowsAreLockedNext
<1>4. ReadsFollowViews' /\ BarrierHolds' /\ ViewsAreBehind' /\ ForwardReadsNeverSkip'
  BY <1>2, ReadsFollowViewsNext, BarrierHoldsNext, ViewsAreBehindNext, ForwardReadsNext
<1> QED
  BY <1>2, <1>3, <1>4 DEF ReadInv

\* And the rest of the invariant.
LEMMA IInvNext == DelimiterFree /\ IInv /\ [Next]_vars => IInv'
<1> SUFFICES ASSUME DelimiterFree, IInv, [Next]_vars PROVE IInv'
  OBVIOUS
<1>1. ReadInv'
  BY ReadInvNext DEF IInv
<1>2. ChecksAreComplete' /\ ConditionsHoldUntilCommit'
  BY ChecksAreCompleteNext, ConditionsHoldNext DEF IInv
<1> QED
  BY <1>1, <1>2 DEF IInv

\* The invariant holds of every behaviour of a store whose tags are free of
\* the delimiter.
THEOREM Invariance == DelimiterFree => (Spec => []IInv)
<1> SUFFICES ASSUME DelimiterFree PROVE Spec => []IInv
  OBVIOUS
<1>1. IInv /\ [Next]_vars => IInv'
  BY IInvNext
<1> QED
  BY <1>1, IInvInit, PTL DEF Spec

\* No append commits on a condition that has become false: from its check on,
\* nothing that violates it can be committed by anyone else.
THEOREM AppendsAreSerialized == DelimiterFree => (Spec => []ConditionsHoldUntilCommit)
<1> SUFFICES ASSUME DelimiterFree PROVE Spec => []ConditionsHoldUntilCommit
  OBVIOUS
<1>1. Spec => []IInv
  BY Invariance
<1>2. IInv => ConditionsHoldUntilCommit
  BY DEF IInv, ReadInv
<1> QED
  BY <1>1, <1>2, PTL

\* A forward reader that has seen an event has seen all that it filters for
\* up to there, and nothing is ever committed behind it.
THEOREM ReadersMissNothing == DelimiterFree => (Spec => []ForwardReadsNeverSkip)
<1> SUFFICES ASSUME DelimiterFree PROVE Spec => []ForwardReadsNeverSkip
  OBVIOUS
<1>1. Spec => []IInv
  BY Invariance
<1>2. IInv => ForwardReadsNeverSkip
  BY DEF IInv, ReadInv
<1> QED
  BY <1>1, <1>2, PTL

\* The append half and the read half together: a decision that gets past its
\* check was made in full knowledge of the events that bear on it.
THEOREM DecisionsAreCurrent == DelimiterFree => (Spec => []DecisionIsCurrent)
<1> SUFFICES ASSUME DelimiterFree PROVE Spec => []DecisionIsCurrent
  OBVIOUS
<1>1. Spec => []IInv
  BY Invariance
<1>2. IInv => DecisionIsCurrent
  <2> SUFFICES ASSUME IInv, NEW c \in Clients, pc[c] = "a_insert", ~view[c].backwards,
                      NEW i \in DOMAIN cmds[c], cmds[c][i].condition # Nil,
                      cmds[c][i].condition.failIfEventsMatch = view[c].query,
                      IsNewest(view[c].seen, cmds[c][i].condition.after),
                      NEW r \in log, MatchesQuery(view[c].query, r)
               PROVE  r \in view[c].seen
    BY DEF DecisionIsCurrent
  <2> DEFINE after == cmds[c][i].condition.after
  <2>1. after # Nil /\ ~(r.pos > after)
    <3>1. ~Violates(log, cmds[c], i)
      BY DEF IInv, ReadInv, ConditionsHoldUntilCommit
    <3> QED
      BY <3>1 DEF Violates, AnyMatchAfter, IsAfter
  <2>2. PICK s \in view[c].seen : s.pos = after
    BY <2>1 DEF IsNewest
  <2>3. r.pos <= s.pos
    <3>1. s \in Row /\ r \in Row
      BY DEF IInv, ReadInv, TypeOK, View
    <3> QED
      BY <2>1, <2>2, <3>1 DEF Row, Position
  <2>4. ReadMatches(view[c].query, r)
    BY MatchIsReadMatch
  <2> QED
    BY <2>3, <2>4 DEF IInv, ReadInv, ForwardReadsNeverSkip
<1> QED
  BY <1>1, <1>2, PTL

-------------------------------------------------------------------------------
(***************************************************************************)
(* Deadlock.                                                               *)
(***************************************************************************)

\* A writer's locks are exclusive on leaf keys and shared on intent keys.
LEMMA WriterLocksKinds ==
    ASSUME NEW cs \in Seq(AppendCommand)
    PROVE  WriterLocks(cs) \subseteq Exclusive(LeafKeys) \cup Shared(IntentKeys)
<1> SUFFICES ASSUME NEW i \in DOMAIN cs
             PROVE  computeWriterLockKeys(cs[i]) \subseteq Exclusive(LeafKeys) \cup Shared(IntentKeys)
  BY DEF WriterLocks
<1>1. cs[i] \in AppendCommand
  OBVIOUS
<1>2. \A t \in EventTypes, tag \in TagValues : leafKey(t, tag) \in LeafKeys
  BY DEF leafKey, LeafKeys
<1>3. \A t \in EventTypes : typeIntentKey(t) \in IntentKeys
  BY DEF typeIntentKey, IntentKeys
<1>4. globalIntentKey \in IntentKeys
  BY DEF globalIntentKey, IntentKeys
<1>5. \A ev \in Event : EventLeafKeys(ev) \subseteq LeafKeys /\ typeIntentKey(ev.type) \in IntentKeys
  BY <1>2, <1>3 DEF EventLeafKeys, Event
<1>6. ConditionLeafKeys(cs[i].condition) \subseteq LeafKeys
  <2>1. CASE cs[i].condition = Nil
    BY <2>1 DEF ConditionLeafKeys
  <2>2. CASE cs[i].condition \in AppendCondition
    <3>1. \A item \in cs[i].condition.failIfEventsMatch.items : item \in QueryItem
      BY <2>2 DEF AppendCondition, Query
    <3>2. \A item \in QueryItem : ItemLeafKeys(item) \subseteq LeafKeys
      BY <1>2 DEF ItemLeafKeys, QueryItem
    <3> QED
      BY <3>1, <3>2 DEF ConditionLeafKeys
  <2> QED
    BY <1>1, <2>1, <2>2 DEF AppendCommand
<1> DEFINE evs == {cs[i].events[j] : j \in DOMAIN cs[i].events}
<1>7. evs \subseteq Event
  <2>1. cs[i].events \in Seq(Event)
    BY <1>1 DEF AppendCommand
  <2> QED
    BY <2>1
<1> HIDE DEF evs
<1>8. Exclusive(ConditionLeafKeys(cs[i].condition) \cup UNION {EventLeafKeys(ev) : ev \in evs})
        \subseteq Exclusive(LeafKeys)
  BY <1>5, <1>6, <1>7 DEF Exclusive
<1>9. /\ Shared({typeIntentKey(ev.type) : ev \in evs}) \subseteq Shared(IntentKeys)
      /\ Shared({globalIntentKey : ev \in evs}) \subseteq Shared(IntentKeys)
  BY <1>4, <1>5, <1>7 DEF Shared
<1> QED
  BY <1>8, <1>9 DEF computeWriterLockKeys, evs

\* A barrier's are shared on leaf keys and exclusive on intent keys.
LEMMA ReaderLocksKinds ==
    ASSUME NEW q \in Query
    PROVE  computeReaderLockKeys(q) \subseteq Shared(LeafKeys) \cup Exclusive(IntentKeys)
<1>1. \A item \in q.items : ItemLeafKeys(item) \subseteq LeafKeys
  BY DEF ItemLeafKeys, Query, QueryItem, leafKey, LeafKeys
<1>2. \A item \in q.items : {typeIntentKey(t) : t \in item.types} \subseteq IntentKeys
  BY DEF Query, QueryItem, typeIntentKey, IntentKeys
<1>3. globalIntentKey \in IntentKeys
  BY DEF globalIntentKey, IntentKeys
<1> QED
  BY <1>1, <1>2, <1>3 DEF computeReaderLockKeys, Exclusive, Shared

\* No leaf key is an intent key, so that no statement asks for one key in
\* both modes.
KeysApart == LeafKeys \cap IntentKeys = {}

OneModePerKey(locks) ==
    /\ \A l, m \in locks : l.key = m.key => l = m
    /\ \A l \in locks : l.key \in LeafKeys \cup IntentKeys

\* A lock statement, a writer's or a barrier's, asks for each key in one mode.
LEMMA LocksHaveOneMode ==
    ASSUME KeysApart, NEW locks,
           \/ locks \subseteq Exclusive(LeafKeys) \cup Shared(IntentKeys)
           \/ locks \subseteq Shared(LeafKeys) \cup Exclusive(IntentKeys)
    PROVE  OneModePerKey(locks)
<1>1. ASSUME NEW l \in Exclusive(LeafKeys) \cup Shared(IntentKeys),
             NEW m \in Exclusive(LeafKeys) \cup Shared(IntentKeys), l.key = m.key
      PROVE  l = m
  BY <1>1 DEF KeysApart, Exclusive, Shared
<1>2. ASSUME NEW l \in Shared(LeafKeys) \cup Exclusive(IntentKeys),
             NEW m \in Shared(LeafKeys) \cup Exclusive(IntentKeys), l.key = m.key
      PROVE  l = m
  BY <1>2 DEF KeysApart, Exclusive, Shared
<1>3. \A l \in Exclusive(LeafKeys) \cup Shared(IntentKeys) \cup Shared(LeafKeys) \cup Exclusive(IntentKeys) :
         l.key \in LeafKeys \cup IntentKeys
  BY DEF Exclusive, Shared
<1> QED
  BY <1>1, <1>2, <1>3 DEF OneModePerKey

\* Every step keeps requests in ascending order.
LEMMA LockOrderNext ==
    ASSUME KeysApart, TypeOK, LockOrder, [Next]_vars
    PROVE  LockOrder'
<1> DEFINE Ordered(w, h) ==
              /\ \A l \in h, m \in w : l.key < m.key
              /\ OneModePerKey(w)
<1>0. \A c \in Clients : Ordered(want[c], held[c])
  BY DEF LockOrder, OneModePerKey
<1>1. ASSUME \A c \in Clients :
                /\ want'[c] # {} => pc'[c] \in {"a_lock", "r_lock"}
                /\ pc'[c] \in {"idle", "r_declare"} => held'[c] = {}
                /\ Ordered(want'[c], held'[c])
      PROVE  LockOrder'
  BY <1>1 DEF LockOrder, OneModePerKey
<1> HIDE DEF Ordered
<1>2. CASE UNCHANGED <<pc, want, held>>
  BY <1>2 DEF LockOrder
<1>4. \A h : Ordered({}, h)
  BY DEF Ordered, OneModePerKey
<1>5. ASSUME NEW c \in Clients, NEW cs \in AppendInputs, AppendCall(c, cs)
      PROVE  LockOrder'
  <2>1. /\ pc[c] = "idle" /\ pc' = [pc EXCEPT ![c] = "a_lock"]
        /\ want' = [want EXCEPT ![c] = WriterLocks(cs)] /\ held' = held
    BY <1>5 DEF AppendCall
  <2>2. OneModePerKey(WriterLocks(cs))
    BY PgStoreAssumption, WriterLocksKinds, LocksHaveOneMode
  <2>3. Ordered(want'[c], held'[c])
    <3>1. want'[c] = WriterLocks(cs) /\ held'[c] = {}
      BY <2>1 DEF LockOrder, TypeOK
    <3> QED
      BY <2>2, <3>1 DEF Ordered
  <2>4. \A b \in Clients :
           /\ want'[b] # {} => pc'[b] \in {"a_lock", "r_lock"}
           /\ pc'[b] \in {"idle", "r_declare"} => held'[b] = {}
    BY <2>1 DEF LockOrder, TypeOK
  <2>5. \A b \in Clients : Ordered(want'[b], held'[b])
    BY <1>0, <2>1, <2>3 DEF TypeOK
  <2> QED
    BY <1>1, <2>4, <2>5
<1>6. ASSUME NEW c \in Clients, NEW o, pc[c] = "idle", o.query \in Query, BeginRead(c, o)
      PROVE  LockOrder'
  <2>1. CASE o.backwards
    <3>1. pc' = [pc EXCEPT ![c] = "r_declare"] /\ want' = want /\ held' = held
      BY <1>6, <2>1 DEF BeginRead
    <3> QED
      BY <1>0, <1>1, <1>6, <3>1 DEF LockOrder, TypeOK
  <2>2. CASE ~o.backwards
    <3>1. /\ pc' = [pc EXCEPT ![c] = "r_lock"] /\ held' = held
          /\ want' = [want EXCEPT ![c] = computeReaderLockKeys(o.query)]
      BY <1>6, <2>2 DEF BeginRead
    <3>2. OneModePerKey(computeReaderLockKeys(o.query))
      BY <1>6, ReaderLocksKinds, LocksHaveOneMode
    <3>3. Ordered(want'[c], held'[c])
      <4>1. want'[c] = computeReaderLockKeys(o.query) /\ held'[c] = {}
        BY <1>6, <3>1 DEF LockOrder, TypeOK
      <4> QED
        BY <3>2, <4>1 DEF Ordered
    <3>4. \A b \in Clients :
             /\ want'[b] # {} => pc'[b] \in {"a_lock", "r_lock"}
             /\ pc'[b] \in {"idle", "r_declare"} => held'[b] = {}
      BY <3>1 DEF LockOrder, TypeOK
    <3>5. \A b \in Clients : Ordered(want'[b], held'[b])
      BY <1>0, <3>1, <3>3 DEF TypeOK
    <3> QED
      BY <1>1, <3>4, <3>5
  <2> QED
    BY <2>1, <2>2
<1>7. ASSUME NEW c \in Clients, NEW q \in ReadQueries, NEW backwards \in BOOLEAN,
             NEW limit \in ReadLimits, ReadFirst(c, q, backwards, limit)
      PROVE  LockOrder'
  <2> DEFINE o == [query |-> q, after |-> Nil, backwards |-> backwards, limit |-> limit]
  <2>1. pc[c] = "idle" /\ BeginRead(c, o) /\ o.query \in Query
    BY <1>7, PgStoreAssumption DEF ReadFirst, IsQuery
  <2> HIDE DEF o
  <2> QED
    BY <1>6, <2>1
<1>8. ASSUME NEW c \in Clients, NEW limit \in ReadLimits, ReadMore(c, limit)
      PROVE  LockOrder'
  <2>1. PICK s \in view[c].seen :
           BeginRead(c, [query |-> view[c].query, after |-> s.pos,
                         backwards |-> view[c].backwards, limit |-> limit])
    BY <1>8 DEF ReadMore
  <2> DEFINE o == [query |-> view[c].query, after |-> s.pos,
                   backwards |-> view[c].backwards, limit |-> limit]
  <2>2. view[c].query \in Query
    BY DEF TypeOK, View
  <2>3. pc[c] = "idle" /\ BeginRead(c, o) /\ o.query \in Query
    BY <1>8, <2>1, <2>2 DEF ReadMore
  <2> HIDE DEF o
  <2> QED
    BY <1>6, <2>3
<1>9. ASSUME NEW c \in Clients, AcquireLock(c)
      PROVE  LockOrder'
  <2>1. PICK l \in NextLocks(c) : /\ want' = [want EXCEPT ![c] = @ \ {l}]
                                  /\ held' = [held EXCEPT ![c] = @ \cup {l}]
    BY <1>9 DEF AcquireLock
  <2>2. pc[c] \in {"a_lock", "r_lock"} /\ pc' = pc
    BY <1>9 DEF AcquireLock
  <2>3. l \in want[c] /\ \A m \in want[c] : l.key <= m.key
    BY <2>1 DEF NextLocks
  <2>4. \A m \in want[c] : m # l => l.key < m.key
    <3>1. \A m \in want[c] : m.key \in Int
      BY DEF TypeOK, Lock
    <3>2. \A m \in want[c] : m.key = l.key => m = l
      BY <2>3 DEF LockOrder
    <3> QED
      BY <2>3, <3>1, <3>2
  <2>5. want'[c] = want[c] \ {l} /\ held'[c] = held[c] \cup {l}
    BY <2>1 DEF TypeOK
  <2>6. Ordered(want'[c], held'[c])
    BY <1>0, <2>4, <2>5 DEF Ordered, OneModePerKey
  <2> QED
    BY <1>0, <1>1, <2>1, <2>2, <2>6 DEF LockOrder, TypeOK
<1>10. ASSUME NEW c \in Clients, SnapshotHwm(c) \/ BarrierHwm(c)
       PROVE  LockOrder'
  <2>1. /\ want[c] = {} /\ UNCHANGED <<want, held>>
        /\ \E p \in {"a_check", "r_end"} : pc' = [pc EXCEPT ![c] = p]
    BY <1>10 DEF SnapshotHwm, BarrierHwm
  <2> QED
    BY <1>0, <1>1, <2>1 DEF LockOrder, TypeOK
<1>11. ASSUME NEW c \in Clients, CheckConditionsPass(c) \/ CheckConditionsFail(c) \/ Commit(c)
       PROVE  LockOrder'
  <2>1. /\ pc[c] \in {"a_check", "a_insert"} /\ UNCHANGED <<want, held>>
        /\ \E p \in {"a_insert", "end"} : pc' = [pc EXCEPT ![c] = p]
    BY <1>11 DEF CheckConditionsPass, CheckConditionsFail, Commit
  <2>2. want[c] = {}
    BY <2>1 DEF LockOrder
  <2> QED
    BY <1>0, <1>1, <2>1, <2>2 DEF LockOrder, TypeOK
<1>12. ASSUME NEW c \in Clients, InsertRow(c)
       PROVE  LockOrder'
  BY <1>2, <1>12 DEF InsertRow
<1>13. ASSUME NEW c \in Clients, DeclareCursor(c)
       PROVE  LockOrder'
  <2>1. pc[c] = "r_declare" /\ UNCHANGED <<want, held>> /\ pc' = [pc EXCEPT ![c] = "idle"]
    BY <1>13 DEF DeclareCursor
  <2>2. want[c] = {}
    BY <2>1 DEF LockOrder
  <2> QED
    BY <1>0, <1>1, <2>1, <2>2 DEF LockOrder, TypeOK
<1>14. ASSUME NEW c \in Clients, EndTransaction(c)
       PROVE  LockOrder'
  <2>1. /\ pc[c] \in {"end", "r_end"} /\ UNCHANGED want
        /\ held' = [held EXCEPT ![c] = {}]
        /\ \E p \in {"idle", "r_declare"} : pc' = [pc EXCEPT ![c] = p]
    BY <1>14 DEF EndTransaction
  <2>2. want'[c] = {} /\ held'[c] = {}
    BY <2>1 DEF LockOrder, TypeOK
  <2> QED
    BY <1>0, <1>1, <1>4, <2>1, <2>2 DEF LockOrder, TypeOK
<1>15. ASSUME NEW c \in Clients, Abort(c)
       PROVE  LockOrder'
  <2>1. /\ pc' = [pc EXCEPT ![c] = "end"] /\ want' = [want EXCEPT ![c] = {}] /\ UNCHANGED held
    BY <1>15 DEF Abort
  <2>2. Ordered(want'[c], held'[c])
    BY <1>4, <2>1 DEF TypeOK
  <2> QED
    BY <1>0, <1>1, <2>1, <2>2 DEF LockOrder, TypeOK
<1> QED
  BY <1>2, <1>5, <1>7, <1>8, <1>9, <1>10, <1>11, <1>12, <1>13, <1>14, <1>15, NextActions DEF Step

\* Among clients that all wait for each other, look at the one whose next
\* request has the greatest key: the lock in its way is held by a client whose
\* own next request is beyond it.
LEMMA OrderPreventsDeadlock ==
    ASSUME IsFiniteSet(LeafKeys \cup IntentKeys), TypeOK, LockOrder
    PROVE  NoDeadlock
<1> SUFFICES ASSUME NEW S \in SUBSET Clients, S # {}, \A c \in S : WaitsFor(c, S)
             PROVE  FALSE
  BY DEF NoDeadlock
<1> DEFINE Keys  == LeafKeys \cup IntentKeys
           K     == {k \in Keys : \E c \in S : \E l \in NextLocks(c) : l.key = k}
<1>0. Keys \in SUBSET Int
  BY HashAssumption DEF LeafKeys, IntentKeys
<1>1. ASSUME NEW c \in S
      PROVE  \E l \in NextLocks(c) : l.key \in K
  <2> DEFINE W == {k \in Keys : \E l \in want[c] : l.key = k}
  <2>1. want[c] # {} /\ \A l \in want[c] : l.key \in Keys
    BY <1>1 DEF WaitsFor, LockOrder
  <2>2. W # {} /\ W \in SUBSET Int /\ IsFiniteSet(W)
    BY <1>0, <2>1, FS_Subset
  <2>3. PICK k \in W : \A j \in W : k <= j
    <3> HIDE DEF W
    <3> QED BY <2>2, FiniteMin
  <2>4. PICK l \in want[c] : l.key = k
    OBVIOUS
  <2>5. l \in NextLocks(c)
    BY <2>1, <2>3, <2>4 DEF NextLocks
  <2> QED
    BY <1>1, <2>1, <2>4, <2>5
<1>2. K # {} /\ K \in SUBSET Int /\ IsFiniteSet(K)
  BY <1>0, <1>1, FS_Subset
<1>3. PICK k \in K : \A j \in K : j <= k
  <2> HIDE DEF K
  <2> QED BY <1>2, FiniteMax
<1>4. PICK c \in S : \E l \in NextLocks(c) : l.key = k
  OBVIOUS
<1>5. PICK l \in NextLocks(c) : l.key = k
  BY <1>4
<1>6. PICK d \in S : \E h \in held[d] : Conflict(l, h)
  BY <1>5 DEF WaitsFor
<1>61. PICK h \in held[d] : Conflict(l, h)
  BY <1>6
<1>7. PICK m \in NextLocks(d) : m.key \in K
  BY <1>1
<1>8. m \in want[d] /\ h.key < m.key /\ h.key = k
  BY <1>5, <1>61, <1>7 DEF LockOrder, NextLocks, Conflict
<1>9. k \in Int /\ m.key \in Int /\ m.key <= k
  BY <1>2, <1>3, <1>7
<1> QED
  BY <1>8, <1>9

\* Appends and read barriers never wait for each other in a cycle, however
\* many there are: a lock statement takes its keys ORDER BY k.  There are
\* finitely many keys (they are 64-bit integers), and no leaf key may collide
\* with an intent key.
THEOREM DeadlockFree ==
    KeysApart /\ IsFiniteSet(LeafKeys \cup IntentKeys) => (Spec => []NoDeadlock)
<1> SUFFICES ASSUME KeysApart, IsFiniteSet(LeafKeys \cup IntentKeys)
             PROVE  Spec => []NoDeadlock
  OBVIOUS
<1>1. Init => LockOrder
  BY DEF Init, LockOrder
<1>2. TypeOK /\ LockOrder /\ [Next]_vars => LockOrder'
  BY LockOrderNext
<1>3. TypeOK /\ LockOrder => NoDeadlock
  BY OrderPreventsDeadlock
<1> QED
  BY <1>1, <1>2, <1>3, TypeCorrect, PTL DEF Spec
===============================================================================
