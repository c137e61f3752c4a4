-------------------------- MODULE PgRefinementProofs --------------------------
(***************************************************************************)
(* The Postgres store implements DcbContract, for any number of clients,   *)
(* any calls and any hash function, under two hypotheses that              *)
(* MCPgDelimiter.cfg and the run pg_overlap show to be needed: no tag      *)
(* contains tagDelimiter, and no item of a query that is read has two tags.*)
(*                                                                         *)
(* And the store with transaction snapshots, PgSnapshots: reads are recent *)
(* and miss nothing, and calls do not deadlock, at any isolation level;    *)
(* and if the condition checks see what is committed, which the COPY path  *)
(* asks for and the stored procedure gets from a Read Committed server, it *)
(* implements PgStore, whose theorems then hold of it.                     *)
(***************************************************************************)
EXTENDS PgSnapshots, PgStoreProofs

\* No item of a query that is read names more than one tag, so that sharing
\* one of its tags is having all of them.
SingleTagReads ==
    \A q \in ReadQueries : \A item \in q.items : \A t, u \in item.tags : t = u

-------------------------------------------------------------------------------
(***************************************************************************)
(* What the contract needs beyond IInv.                                    *)
(***************************************************************************)

\* The rows of different transactions, and of the log, are different rows.
RowsApart ==
    \A c \in Clients :
        /\ rows[c] \cap log = {}
        /\ \A d \in Clients : c # d => rows[c] \cap rows[d] = {}

\* A client has arguments while it appends and at no other time, and an
\* outcome from the moment that its transaction ends.
CallOK(c) ==
    /\ pc[c] \in {"idle", "r_lock", "r_end", "r_declare"} => cmds[c] = <<>>
    /\ pc[c] \in {"a_lock", "a_check", "a_insert"} => cmds[c] # <<>> /\ ret[c] = NoReturn
    /\ pc[c] = "end" => ret[c] # NoReturn
    /\ view[c].query \in ReadQueries \cup {QueryAll}

\* The rows in `new` are those of the slots in `done` of the call cs, in order.
StoresSlots(new, cs, done) ==
    \E f \in [done -> new] :
        /\ new = {f[s] : s \in done}
        /\ \A s \in done : /\ f[s].type = EventAt(cs, s).type
                           /\ f[s].tags = EventAt(cs, s).tags
        /\ \A s, t \in done : SlotBefore(s, t) => f[s].pos < f[t].pos

\* Those in `new` are the rows of the call up to the slots that are left.
WritesPrefix(new, cs, left) ==
    /\ StoresSlots(new, cs, Slots(cs) \ left)
    /\ \A s \in Slots(cs) \ left, t \in left : SlotBefore(s, t)

\* The INSERT or COPY has done a prefix of the call.
InsertOK(c) ==
    /\ pc[c] \in {"a_lock", "a_check"} => todo[c] = Slots(cmds[c])
    /\ pc[c] = "a_insert" => WritesPrefix(rows[c], cmds[c], todo[c])

ContractInv ==
    /\ RowsApart
    /\ \A c \in Clients : CallOK(c) /\ InsertOK(c)

-------------------------------------------------------------------------------
(***************************************************************************)
(* A step of one client.                                                   *)
(***************************************************************************)
OthersUnchanged(c) ==
    \A d \in Clients \ {c} :
        /\ pc'[d] = pc[d] /\ cmds'[d] = cmds[d] /\ todo'[d] = todo[d]
        /\ rows'[d] = rows[d] /\ view'[d] = view[d] /\ ret'[d] = ret[d]

\* What a step leaves to be shown: the client's own part.
LEMMA OneClient ==
    ASSUME ContractInv, NEW c \in Clients, OthersUnchanged(c), RowsApart',
           CallOK(c)', InsertOK(c)'
    PROVE  ContractInv'
<1>1. ASSUME NEW d \in Clients \ {c}
      PROVE  CallOK(d)' /\ InsertOK(d)'
  BY <1>1 DEF ContractInv, CallOK, InsertOK, OthersUnchanged
<1> QED
  BY <1>1 DEF ContractInv

\* Rows stay apart when none is added.
LEMMA SameRows ==
    ASSUME ContractInv, NEW c \in Clients, OthersUnchanged(c), log' = log,
           rows'[c] \subseteq rows[c]
    PROVE  RowsApart'
<1>1. \A d \in Clients : rows'[d] \subseteq rows[d]
  BY DEF OthersUnchanged
<1> QED
  BY <1>1 DEF ContractInv, RowsApart

\* The outcomes of a call are told apart.
LEMMA ReturnKinds ==
    /\ Error # NoReturn
    /\ \A i : [kind |-> "condition", idx |-> i] # NoReturn
    /\ \A i : [kind |-> "ok", pos |-> i] # NoReturn
<1>1. NoReturn.kind = "none" /\ Error.kind = "error"
  BY DEF NoReturn, Error
<1>2. \A i : /\ [kind |-> "condition", idx |-> i].kind = "condition"
             /\ [kind |-> "ok", pos |-> i].kind = "ok"
  OBVIOUS
<1> QED
  BY <1>1, <1>2

\* A call that is rejected, aborted, or whose reply is lost, fails.
LEMMA FailSteps ==
    ASSUME IInv, ContractInv, NEW c \in Clients,
           (\E cs \in AppendInputs : AppendRejected(c, cs)) \/ LoseReply(c) \/ Abort(c)
    PROVE  ContractInv' /\ Dcb!Fail(c)
<1>1. /\ ret' = [ret EXCEPT ![c] = Error]
      /\ log' = log /\ cmds' = cmds /\ view' = view
      /\ \/ pc' = pc /\ todo' = todo /\ rows' = rows /\ pc[c] \in {"idle", "end"}
         \/ /\ pc' = [pc EXCEPT ![c] = "end"]
            /\ todo' = [todo EXCEPT ![c] = {}] /\ rows' = [rows EXCEPT ![c] = {}]
  BY DEF AppendRejected, LoseReply, Abort
<1>2. TypeOK
  BY DEF IInv, ReadInv
<1>3. OthersUnchanged(c) /\ rows'[c] \subseteq rows[c]
  BY <1>1, <1>2 DEF OthersUnchanged, TypeOK
<1>4. /\ pc'[c] \in {"idle", "end"} /\ (pc'[c] = "idle" => pc[c] = "idle")
      /\ ret'[c] = Error
  BY <1>1, <1>2 DEF TypeOK
<1>5. CallOK(c)' /\ InsertOK(c)'
  BY <1>1, <1>4, ReturnKinds DEF ContractInv, CallOK, InsertOK
<1>6. ContractInv'
  BY <1>1, <1>3, <1>5, SameRows, OneClient
<1> QED
  BY <1>1, <1>6 DEF Dcb!Fail, Dcb!Error, Error

\* Append is called.
LEMMA CallSteps ==
    ASSUME IInv, ContractInv, NEW c \in Clients, NEW cs \in AppendInputs, AppendCall(c, cs)
    PROVE  ContractInv' /\ Dcb!Call(c, cs)
<1>1. /\ pc[c] = "idle" /\ Slots(cs) # {}
      /\ pc' = [pc EXCEPT ![c] = "a_lock"] /\ cmds' = [cmds EXCEPT ![c] = cs]
      /\ todo' = [todo EXCEPT ![c] = Slots(cs)] /\ ret' = [ret EXCEPT ![c] = NoReturn]
      /\ log' = log /\ rows' = rows /\ view' = view
  BY DEF AppendCall
<1>2. TypeOK
  BY DEF IInv, ReadInv
<1>3. OthersUnchanged(c) /\ rows'[c] \subseteq rows[c]
  BY <1>1, <1>2 DEF OthersUnchanged, TypeOK
<1>4. pc'[c] = "a_lock" /\ cmds'[c] = cs /\ todo'[c] = Slots(cs) /\ ret'[c] = NoReturn
  BY <1>1, <1>2 DEF TypeOK
<1>5. cs # <<>>
  BY <1>1 DEF Slots
<1>6. CallOK(c)' /\ InsertOK(c)'
  BY <1>1, <1>4, <1>5 DEF ContractInv, CallOK, InsertOK
<1>7. ContractInv'
  BY <1>1, <1>3, <1>6, SameRows, OneClient
<1>8. cmds[c] = <<>>
  BY <1>1 DEF ContractInv, CallOK
<1> QED
  BY <1>1, <1>7, <1>8 DEF Dcb!Call, Dcb!NoReturn, NoReturn

\* Locks, snapshots of the high-water mark and a check that passes are not
\* seen by the contract.
LEMMA HiddenSteps ==
    ASSUME IInv, ContractInv, NEW c \in Clients,
           AcquireLock(c) \/ SnapshotHwm(c) \/ CheckConditionsPass(c) \/ BarrierHwm(c)
    PROVE  ContractInv' /\ UNCHANGED Dcb!dcbVars
<1>1. /\ log' = log /\ cmds' = cmds /\ todo' = todo /\ rows' = rows /\ view' = view /\ ret' = ret
  BY DEF AcquireLock, SnapshotHwm, CheckConditionsPass, BarrierHwm
<1>2. \/ pc' = pc
      \/ pc[c] = "a_lock" /\ pc' = [pc EXCEPT ![c] = "a_check"]
      \/ pc[c] = "a_check" /\ pc' = [pc EXCEPT ![c] = "a_insert"]
      \/ pc[c] = "r_lock" /\ pc' = [pc EXCEPT ![c] = "r_end"]
  BY DEF AcquireLock, SnapshotHwm, CheckConditionsPass, BarrierHwm
<1>3. TypeOK /\ CallOK(c) /\ InsertOK(c)
  BY DEF IInv, ReadInv, ContractInv
<1>4. OthersUnchanged(c) /\ rows'[c] \subseteq rows[c]
  BY <1>1, <1>2, <1>3 DEF OthersUnchanged, TypeOK
<1>5. CallOK(c)'
  BY <1>1, <1>2, <1>3 DEF CallOK, TypeOK
<1>6. InsertOK(c)'
  <2>1. CASE pc[c] = "a_check" /\ pc' = [pc EXCEPT ![c] = "a_insert"]
    <3>1. todo[c] = Slots(cmds[c]) /\ pc'[c] = "a_insert"
      BY <1>3, <2>1 DEF InsertOK, TypeOK
    <3>2. rows[c] = {}
      BY <2>1 DEF IInv, ReadInv, RowsAreLocked
    <3> DEFINE f == [s \in {} |-> s]
    <3>3. f \in [{} -> {}] /\ {} = {f[s] : s \in {}}
      OBVIOUS
    <3>4. StoresSlots({}, cmds[c], {})
      <4> HIDE DEF f
      <4> QED
        BY <3>3 DEF StoresSlots
    <3>5. Slots(cmds[c]) \ todo[c] = {}
      BY <3>1
    <3> QED
      BY <1>1, <3>1, <3>2, <3>4, <3>5 DEF InsertOK, WritesPrefix
  <2>2. CASE ~(pc[c] = "a_check" /\ pc' = [pc EXCEPT ![c] = "a_insert"])
    BY <1>1, <1>2, <1>3, <2>2 DEF InsertOK, TypeOK
  <2> QED
    BY <2>1, <2>2
<1>7. ContractInv'
  BY <1>1, <1>4, <1>5, <1>6, SameRows, OneClient
<1> QED
  BY <1>1, <1>7 DEF Dcb!dcbVars

\* The transaction of an append ends and the call returns, or that of a
\* barrier ends, which the contract does not see.
LEMMA EndSteps ==
    ASSUME IInv, ContractInv, NEW c \in Clients, EndTransaction(c)
    PROVE  ContractInv' /\ (Dcb!CallReturns(c) \/ UNCHANGED Dcb!dcbVars)
<1>1. /\ pc[c] \in {"end", "r_end"}
      /\ pc' = [pc EXCEPT ![c] = IF pc[c] = "end" THEN "idle" ELSE "r_declare"]
      /\ cmds' = [cmds EXCEPT ![c] = <<>>]
      /\ log' = log /\ todo' = todo /\ rows' = rows /\ view' = view /\ ret' = ret
  BY DEF EndTransaction
<1>2. TypeOK /\ CallOK(c)
  BY DEF IInv, ReadInv, ContractInv
<1>3. OthersUnchanged(c) /\ rows'[c] \subseteq rows[c]
  BY <1>1, <1>2 DEF OthersUnchanged, TypeOK
<1>4. pc'[c] \in {"idle", "r_declare"} /\ cmds'[c] = <<>>
  BY <1>1, <1>2 DEF TypeOK
<1>5. CallOK(c)' /\ InsertOK(c)'
  BY <1>1, <1>2, <1>4 DEF CallOK, InsertOK
<1>6. ContractInv'
  BY <1>1, <1>3, <1>5, SameRows, OneClient
<1>7. CASE pc[c] = "end"
  BY <1>1, <1>2, <1>6, <1>7 DEF CallOK, Dcb!CallReturns, Dcb!NoReturn, NoReturn
<1>8. CASE pc[c] = "r_end"
  <2>1. cmds' = cmds
    BY <1>1, <1>2, <1>8 DEF CallOK, TypeOK
  <2> QED
    BY <1>1, <1>6, <2>1 DEF Dcb!dcbVars
<1> QED
  BY <1>1, <1>7, <1>8

\* A Read begins, on a new query or after the last event of the view.
LEMMA BeginReadSteps ==
    ASSUME IInv, ContractInv, NEW c \in Clients,
           \/ \E q \in ReadQueries, backwards \in BOOLEAN, limit \in ReadLimits :
                 ReadFirst(c, q, backwards, limit)
           \/ \E limit \in ReadLimits : ReadMore(c, limit)
    PROVE  ContractInv' /\ Dcb!BeginRead(c)
<1>1. PICK o : BeginRead(c, o)
  BY DEF ReadFirst, ReadMore
<1>2. /\ pc[c] = "idle"
      /\ \/ UNCHANGED view
         \/ \E q \in ReadQueries, backwards \in BOOLEAN :
               view' = [view EXCEPT ![c] = [query |-> q, backwards |-> backwards, seen |-> {}]]
  BY DEF ReadFirst, ReadMore
<1>3. /\ ret' = [ret EXCEPT ![c] = NoReturn]
      /\ \/ pc' = [pc EXCEPT ![c] = "r_declare"]
         \/ pc' = [pc EXCEPT ![c] = "r_lock"]
      /\ log' = log /\ cmds' = cmds /\ todo' = todo /\ rows' = rows
  BY <1>1 DEF BeginRead
<1>4. TypeOK /\ CallOK(c)
  BY DEF IInv, ReadInv, ContractInv
<1>5. OthersUnchanged(c) /\ rows'[c] \subseteq rows[c]
  BY <1>2, <1>3, <1>4 DEF OthersUnchanged, TypeOK
<1>6. pc'[c] \in {"r_declare", "r_lock"} /\ cmds'[c] = <<>>
  BY <1>2, <1>3, <1>4 DEF CallOK, TypeOK
<1>7. view'[c].query \in ReadQueries \cup {QueryAll}
  <2>1. CASE UNCHANGED view
    BY <1>4, <2>1 DEF CallOK
  <2>2. ASSUME NEW q \in ReadQueries, NEW backwards \in BOOLEAN,
               view' = [view EXCEPT ![c] = [query |-> q, backwards |-> backwards, seen |-> {}]]
        PROVE  view'[c].query \in ReadQueries \cup {QueryAll}
    BY <1>4, <2>2 DEF TypeOK
  <2> QED
    BY <1>2, <2>1, <2>2
<1>8. CallOK(c)' /\ InsertOK(c)'
  BY <1>6, <1>7 DEF CallOK, InsertOK
<1>9. ContractInv'
  BY <1>3, <1>5, <1>8, SameRows, OneClient
<1>10. cmds[c] = <<>>
  BY <1>2, <1>4 DEF CallOK
<1> QED
  BY <1>2, <1>3, <1>9, <1>10 DEF Dcb!BeginRead, Dcb!NoReturn, NoReturn

\* With one tag per item, what the read's SQL selects is what the query matches.
LEMMA ReadMatchIsMatch ==
    ASSUME SingleTagReads, NEW q \in ReadQueries \cup {QueryAll}, NEW r, ReadMatches(q, r)
    PROVE  MatchesQuery(q, r)
<1>1. CASE q.all
  BY <1>1 DEF MatchesQuery
<1>2. CASE ~q.all
  <2>1. PICK item \in q.items : ItemFilter(item, r)
    BY <1>2 DEF ReadMatches
  <2>2. q \in ReadQueries
    BY <1>2 DEF QueryAll
  <2>3. \A t, u \in item.tags : t = u
    BY <2>1, <2>2 DEF SingleTagReads
  <2>4. item.tags \subseteq r.tags
    BY <2>1, <2>3 DEF ItemFilter
  <2> QED
    BY <2>1, <2>4 DEF MatchesQuery, MatchesQueryItem, ItemFilter
<1> QED
  BY <1>1, <1>2

\* The cursor of a read returns a page of matches, and leaves no gap if it
\* reads forward.
LEMMA CursorSteps ==
    ASSUME SingleTagReads, IInv, ForwardReadsNeverSkip', ContractInv,
           NEW c \in Clients, DeclareCursor(c)
    PROVE  ContractInv' /\ Dcb!ReadReturns(c)
<1>1. PICK page \in SUBSET Selected(log, rd[c], hwm[c]) :
         view' = [view EXCEPT ![c].seen = @ \cup page]
  BY DEF DeclareCursor
<1>2. /\ pc[c] = "r_declare" /\ pc' = [pc EXCEPT ![c] = "idle"]
      /\ log' = log /\ cmds' = cmds /\ todo' = todo /\ rows' = rows /\ ret' = ret
  BY DEF DeclareCursor
<1>3. TypeOK /\ CallOK(c) /\ view[c] \in View
  BY DEF IInv, ReadInv, ContractInv, TypeOK
<1>4. view'[c].query = view[c].query /\ view'[c].backwards = view[c].backwards
  BY <1>1, <1>3 DEF TypeOK, View
<1>5. OthersUnchanged(c) /\ rows'[c] \subseteq rows[c]
  BY <1>1, <1>2, <1>3 DEF OthersUnchanged, TypeOK
<1>6. pc'[c] = "idle" /\ cmds[c] = <<>>
  BY <1>2, <1>3 DEF CallOK, TypeOK
<1>7. CallOK(c)' /\ InsertOK(c)'
  BY <1>2, <1>3, <1>4, <1>6 DEF CallOK, InsertOK
<1>8. ContractInv'
  BY <1>2, <1>5, <1>7, SameRows, OneClient
<1>9. page \in SUBSET {r \in log : Dcb!MatchesQuery(view[c].query, r)}
  <2>1. rd[c].query = view[c].query
    BY <1>2 DEF IInv, ReadInv, ReadsFollowViews
  <2>2. ASSUME NEW r \in page
        PROVE  r \in log /\ MatchesQuery(view[c].query, r)
    <3>1. r \in log /\ ReadMatches(view[c].query, r)
      BY <2>1 DEF Selected
    <3>2. view[c].query \in ReadQueries \cup {QueryAll}
      BY <1>3 DEF CallOK
    <3> QED
      BY <3>1, <3>2, ReadMatchIsMatch
  <2> QED
    BY <2>2 DEF Dcb!MatchesQuery, MatchesQuery, Dcb!MatchesQueryItem, MatchesQueryItem
<1>10. ~view[c].backwards => Dcb!SeesPrefix(log, view'[c])
  <2>1. ASSUME ~view[c].backwards, NEW s \in view'[c].seen, NEW r \in log,
               MatchesQuery(view'[c].query, r), r.pos <= s.pos
        PROVE  r \in view'[c].seen
    <3>1. ReadMatches(view'[c].query, r)
      BY <2>1, MatchIsReadMatch
    <3> QED
      BY <1>2, <1>4, <2>1, <3>1 DEF ForwardReadsNeverSkip
  <2> QED
    BY <2>1 DEF Dcb!SeesPrefix, Dcb!MatchesQuery, MatchesQuery, Dcb!MatchesQueryItem,
                MatchesQueryItem
<1> QED
  BY <1>1, <1>2, <1>6, <1>8, <1>9, <1>10 DEF Dcb!ReadReturns

-------------------------------------------------------------------------------
(***************************************************************************)
(* The condition check.                                                    *)
(***************************************************************************)

\* The contract's notion of a violation is the store's.
LEMMA ContractViolates ==
    ASSUME NEW R, NEW cs, NEW i
    PROVE  Dcb!Violates(R, cs, i) <=> Violates(R, cs, i)
BY DEF Violates, Dcb!Violates, AnyMatchAfter, Dcb!AnyMatchAfter, IsAfter, Dcb!IsAfter,
       MatchesQuery, Dcb!MatchesQuery, MatchesQueryItem, Dcb!MatchesQueryItem

\* A check that fails names the first condition that is violated.
LEMMA CheckFailSteps ==
    ASSUME DelimiterFree, IInv, ContractInv, NEW c \in Clients, CheckConditionsFail(c)
    PROVE  ContractInv' /\ Dcb!AppendConditionFails(c)
<1>1. PICK i \in DOMAIN cmds[c] :
         /\ ConditionMatches(log, cmds[c], i, hwm[c])
         /\ \A j \in 1..(i-1) : ~ConditionMatches(log, cmds[c], j, hwm[c])
         /\ ret' = [ret EXCEPT ![c] = [kind |-> "condition", idx |-> i]]
  BY DEF CheckConditionsFail
<1>2. /\ pc[c] = "a_check" /\ pc' = [pc EXCEPT ![c] = "end"]
      /\ todo' = [todo EXCEPT ![c] = {}]
      /\ log' = log /\ cmds' = cmds /\ rows' = rows /\ view' = view
  BY DEF CheckConditionsFail
<1>3. /\ TypeOK /\ CallOK(c) /\ cmds[c] \in Seq(AppendCommand) /\ log \in SUBSET Row
      /\ hwm[c] \in Nat
  BY DEF IInv, ReadInv, ContractInv, TypeOK
<1>4. OthersUnchanged(c) /\ rows'[c] \subseteq rows[c]
  BY <1>1, <1>2, <1>3 DEF OthersUnchanged, TypeOK
<1>5. pc'[c] = "end" /\ ret'[c] # NoReturn
  BY <1>1, <1>2, <1>3, ReturnKinds DEF TypeOK
<1>6. CallOK(c)' /\ InsertOK(c)'
  BY <1>2, <1>3, <1>5 DEF CallOK, InsertOK
<1>7. ContractInv'
  BY <1>2, <1>4, <1>6, SameRows, OneClient
<1>8. Dcb!Violates(log, cmds[c], i)
  BY <1>1, <1>3, MatchesAreViolations, ContractViolates
<1>9. ASSUME NEW j \in 1..(i-1)
      PROVE  ~Dcb!Violates(log, cmds[c], j)
  <2>1. j \in DOMAIN cmds[c]
    BY <1>1, <1>3
  <2>2. CASE cmds[c][j].condition = Nil
    BY <2>2, ContractViolates DEF Violates
  <2>3. CASE cmds[c][j].condition # Nil
    <3>1. ConditionsValid(cmds[c])
      BY <1>2 DEF IInv, ReadInv, AppendLocks
    <3>2. \A r \in log : MatchesQuery(cmds[c][j].condition.failIfEventsMatch, r) => r.pos <= hwm[c]
      BY <1>2, <2>1, <2>3 DEF IInv, ReadInv, ChecksAreComplete
    <3>3. ~ConditionMatches(log, cmds[c], j, hwm[c])
      BY <1>1
    <3>4. ~Violates(log, cmds[c], j)
      BY <1>3, <2>1, <2>3, <3>1, <3>2, <3>3, CheckFindsViolations
    <3> QED
      BY <3>4, ContractViolates
  <2> QED
    BY <2>2, <2>3
<1>10. ret[c] = NoReturn
  BY <1>2, <1>3 DEF CallOK
<1> QED
  BY <1>1, <1>2, <1>7, <1>8, <1>9, <1>10 DEF Dcb!AppendConditionFails, Dcb!NoReturn, NoReturn

-------------------------------------------------------------------------------
(***************************************************************************)
(* Rows are written in order, and become visible together.                 *)
(***************************************************************************)

\* Writing the row of the least slot that is left extends the prefix.
LEMMA NextSlot ==
    ASSUME NEW cs \in Seq(AppendCommand), NEW left \in SUBSET Slots(cs), NEW s \in left,
           \A t \in left : ~SlotBefore(t, s),
           NEW written, WritesPrefix(written, cs, left),
           NEW row, row.type = EventAt(cs, s).type, row.tags = EventAt(cs, s).tags,
           \A r \in written : r.pos < row.pos
    PROVE  WritesPrefix(written \cup {row}, cs, left \ {s})
<1> DEFINE done == Slots(cs) \ left
           more == Slots(cs) \ (left \ {s})
<1>1. more = done \cup {s} /\ s \notin done
  OBVIOUS
<1>2. \A u \in Slots(cs) : u \in Nat \X Nat
  BY SlotsType
<1>3. PICK f \in [done -> written] :
         /\ written = {f[u] : u \in done}
         /\ \A u \in done : f[u].type = EventAt(cs, u).type /\ f[u].tags = EventAt(cs, u).tags
         /\ \A u, t \in done : SlotBefore(u, t) => f[u].pos < f[t].pos
  BY DEF WritesPrefix, StoresSlots
<1> DEFINE g == [u \in more |-> IF u = s THEN row ELSE f[u]]
<1>4. \A u \in done : ~SlotBefore(s, u)
  BY <1>2, SlotsOrdered DEF WritesPrefix
<1>5. ~SlotBefore(s, s)
  BY <1>2, SlotsOrdered
<1> HIDE DEF done, more
<1>6. g \in [more -> written \cup {row}]
  BY <1>1, <1>3
<1>7. g[s] = row /\ \A u \in done : g[u] = f[u] /\ g[u] \in written
  BY <1>1, <1>3
<1> HIDE DEF g
<1>8. written \cup {row} = {g[u] : u \in more}
  BY <1>1, <1>3, <1>7
<1>9. \A u \in more : g[u].type = EventAt(cs, u).type /\ g[u].tags = EventAt(cs, u).tags
  BY <1>1, <1>3, <1>7
<1>10. ASSUME NEW u \in more, NEW t \in more, SlotBefore(u, t)
       PROVE  g[u].pos < g[t].pos
  <2>1. u \in done
    BY <1>1, <1>4, <1>5, <1>10
  <2> QED
    BY <1>1, <1>3, <1>7, <1>10, <2>1
<1>11. StoresSlots(written \cup {row}, cs, more)
  BY <1>6, <1>8, <1>9, <1>10 DEF StoresSlots
<1>12. ASSUME NEW t \in left \ {s}
       PROVE  SlotBefore(s, t)
  BY <1>2, SlotsOrdered
<1> QED
  BY <1>1, <1>11, <1>12 DEF more, done, WritesPrefix

\* A row is inserted, at a position beyond all others; the contract does not
\* see it yet.
LEMMA InsertSteps ==
    ASSUME DelimiterFree, IInv, ContractInv, NEW c \in Clients, InsertRow(c)
    PROVE  ContractInv' /\ UNCHANGED Dcb!dcbVars
<1>1. PICK s \in todo[c] :
         /\ \A t \in todo[c] : ~SlotBefore(t, s)
         /\ todo' = [todo EXCEPT ![c] = @ \ {s}]
         /\ rows' = [rows EXCEPT ![c] = @ \cup {InsertedRow(c, s)}]
  BY DEF InsertRow
<1>2. /\ pc[c] = "a_insert" /\ pc' = pc /\ cmds' = cmds
      /\ log' = log /\ view' = view /\ ret' = ret
  BY DEF InsertRow
<1>3. /\ TypeOK /\ CallOK(c) /\ InsertOK(c) /\ cmds[c] \in Seq(AppendCommand) /\ seq \in Nat
      /\ RowsApart
  BY DEF IInv, ReadInv, ContractInv, TypeOK
<1>4. todo[c] \subseteq Slots(cmds[c])
  BY <1>2 DEF IInv, ReadInv, AppendLocks
<1> DEFINE row == InsertedRow(c, s)
           ev  == EventAt(cmds[c], s)
<1>5. row.pos = seq + 1 /\ row.type = ev.type /\ row.tags = ev.tags
  <2>1. ev \in Event
    BY <1>1, <1>3, <1>4, SlotsType
  <2>2. ev.tags \subseteq TagValues
    BY <2>1 DEF Event
  <2>3. Unpack(ev.tags) = ev.tags
    BY <2>2 DEF Unpack, DelimiterFree
  <2> QED
    BY <2>3 DEF InsertedRow, StoredTags
<1> HIDE DEF row, ev
<1>6. /\ todo'[c] = todo[c] \ {s} /\ rows'[c] = rows[c] \cup {row}
      /\ \A d \in Clients \ {c} : rows'[d] = rows[d]
  BY <1>1, <1>3 DEF TypeOK, row
<1>7. \A r \in AllRows : r.pos \in Nat /\ r.pos <= seq
  BY <1>3 DEF IInv, ReadInv, PositionsUnique, AllRows, TypeOK, Row, Position
<1>8. row \notin AllRows
  BY <1>3, <1>5, <1>7
<1>9. RowsApart'
  <2>1. \A d \in Clients : row \notin rows[d] /\ row \notin log
    BY <1>8 DEF AllRows
  <2> QED
    BY <1>2, <1>3, <1>6, <2>1 DEF RowsApart
<1>10. OthersUnchanged(c)
  BY <1>1, <1>2, <1>3 DEF OthersUnchanged, TypeOK
<1>11. CallOK(c)'
  BY <1>2, <1>3 DEF CallOK
<1>12. WritesPrefix(rows[c] \cup {row}, cmds[c], todo[c] \ {s})
  <2> DEFINE cs      == cmds[c]
             left    == todo[c]
             written == rows[c]
  <2>1. WritesPrefix(written, cs, left)
    BY <1>2, <1>3 DEF InsertOK
  <2>2. \A r \in written : r.pos < row.pos
    BY <1>3, <1>5, <1>7 DEF AllRows
  <2>3. /\ cs \in Seq(AppendCommand) /\ left \in SUBSET Slots(cs) /\ s \in left
        /\ \A t \in left : ~SlotBefore(t, s)
        /\ row.type = EventAt(cs, s).type /\ row.tags = EventAt(cs, s).tags
    BY <1>1, <1>3, <1>4, <1>5 DEF ev
  <2> HIDE DEF cs, left, written
  <2>4. WritesPrefix(written \cup {row}, cs, left \ {s})
    BY <2>1, <2>2, <2>3, NextSlot
  <2> QED
    BY <2>4 DEF cs, left, written
<1>13. InsertOK(c)'
  BY <1>2, <1>6, <1>12 DEF InsertOK
<1>14. ContractInv'
  BY <1>9, <1>10, <1>11, <1>13, OneClient
<1> QED
  BY <1>2, <1>14 DEF Dcb!dcbVars

\* The commit is where a call takes effect: its rows appear together, in
\* order, with all of its conditions true of the log as it is.
LEMMA CommitSteps ==
    ASSUME IInv, ContractInv, NEW c \in Clients, Commit(c)
    PROVE  ContractInv' /\ Dcb!AppendSucceeds(c)
<1>1. PICK last \in rows[c] :
         /\ \A r \in rows[c] : r.pos <= last.pos
         /\ ret' = [ret EXCEPT ![c] = [kind |-> "ok", pos |-> last.pos]]
  BY DEF Commit
<1>2. /\ pc[c] = "a_insert" /\ todo[c] = {} /\ pc' = [pc EXCEPT ![c] = "end"]
      /\ log' = log \cup rows[c] /\ rows' = [rows EXCEPT ![c] = {}]
      /\ cmds' = cmds /\ todo' = todo /\ view' = view
  BY DEF Commit
<1>3. /\ TypeOK /\ CallOK(c) /\ InsertOK(c) /\ RowsApart
  BY DEF IInv, ReadInv, ContractInv
<1>4. OthersUnchanged(c) /\ rows'[c] = {}
  BY <1>1, <1>2, <1>3 DEF OthersUnchanged, TypeOK
<1>5. RowsApart'
  BY <1>2, <1>3, <1>4 DEF RowsApart, OthersUnchanged
<1>6. pc'[c] = "end" /\ ret'[c] # NoReturn
  BY <1>1, <1>2, <1>3, ReturnKinds DEF TypeOK
<1>7. CallOK(c)' /\ InsertOK(c)'
  BY <1>2, <1>3, <1>6 DEF CallOK, InsertOK
<1>8. ContractInv'
  BY <1>4, <1>5, <1>7, OneClient
<1>9. log' \ log = rows[c]
  BY <1>2, <1>3 DEF RowsApart
<1>10. \A i \in DOMAIN cmds[c] : ~Dcb!Violates(log, cmds[c], i)
  BY <1>2, ContractViolates DEF IInv, ReadInv, ConditionsHoldUntilCommit
<1>11. Dcb!StoresCall(rows[c], cmds[c])
  <2>1. StoresSlots(rows[c], cmds[c], Slots(cmds[c]))
    <3>1. Slots(cmds[c]) \ todo[c] = Slots(cmds[c])
      BY <1>2
    <3> QED
      BY <1>2, <1>3, <3>1 DEF InsertOK, WritesPrefix
  <2> QED
    BY <2>1 DEF StoresSlots, Dcb!StoresCall, Dcb!Slots, Slots, Dcb!EventAt, EventAt,
                Dcb!SlotBefore, SlotBefore
<1>12. \A r \in rows[c], s \in log : r.pos # s.pos
  BY <1>3 DEF RowsApart, IInv, ReadInv, PositionsUnique, AllRows
<1>13. \A d \in Clients : Dcb!AppendsAhead(rows[c], d)
  <2>1. ASSUME NEW d \in Clients, ~view[d].backwards, NEW r \in rows[c], NEW s \in view[d].seen,
               MatchesQuery(view[d].query, r)
        PROVE  r.pos > s.pos
    <3>1. ReadMatches(view[d].query, r)
      BY <2>1, MatchIsReadMatch
    <3> QED
      BY <2>1, <3>1 DEF IInv, ReadInv, ViewsAreBehind
  <2> QED
    BY <2>1 DEF Dcb!AppendsAhead, Dcb!MatchesQuery, MatchesQuery, Dcb!MatchesQueryItem,
                MatchesQueryItem
<1>14. cmds[c] # <<>> /\ ret[c] = NoReturn
  BY <1>2, <1>3 DEF CallOK
<1> QED
  BY <1>1, <1>2, <1>8, <1>9, <1>10, <1>11, <1>12, <1>13, <1>14
     DEF Dcb!AppendSucceeds, Dcb!NoReturn, NoReturn

-------------------------------------------------------------------------------
(***************************************************************************)
(* The refinement.                                                         *)
(***************************************************************************)

\* Every step of the store preserves the invariant, and is a step of the
\* contract or none.
LEMMA ContractNext ==
    ASSUME DelimiterFree, SingleTagReads, IInv, IInv', ContractInv, [Next]_vars
    PROVE  ContractInv' /\ (Dcb!Next \/ UNCHANGED Dcb!dcbVars)
<1>1. CASE UNCHANGED vars
  <2>1. /\ log' = log /\ pc' = pc /\ cmds' = cmds /\ todo' = todo /\ rows' = rows
        /\ view' = view /\ ret' = ret
    BY <1>1 DEF vars
  <2> QED
    BY <2>1 DEF ContractInv, RowsApart, CallOK, InsertOK, Dcb!dcbVars
<1>2. ASSUME NEW c \in Clients, Call(c) \/ AcquireLock(c) \/ Step(c) \/ LoseReply(c) \/ Abort(c)
      PROVE  /\ ContractInv'
             /\ \/ UNCHANGED Dcb!dcbVars
                \/ \E cs \in AppendInputs : Dcb!Call(c, cs)
                \/ Dcb!AppendSucceeds(c) \/ Dcb!AppendConditionFails(c)
                \/ Dcb!Fail(c) \/ Dcb!CallReturns(c)
                \/ Dcb!BeginRead(c) \/ Dcb!ReadReturns(c)
  <2>1. CASE (\E cs \in AppendInputs : AppendRejected(c, cs)) \/ LoseReply(c) \/ Abort(c)
    BY <2>1, FailSteps
  <2>2. ASSUME NEW cs \in AppendInputs, AppendCall(c, cs)
        PROVE  ContractInv' /\ Dcb!Call(c, cs)
    BY <2>2, CallSteps
  <2>3. CASE \/ \E q \in ReadQueries, backwards \in BOOLEAN, limit \in ReadLimits :
                   ReadFirst(c, q, backwards, limit)
             \/ \E limit \in ReadLimits : ReadMore(c, limit)
    BY <2>3, BeginReadSteps
  <2>4. CASE AcquireLock(c) \/ SnapshotHwm(c) \/ CheckConditionsPass(c) \/ BarrierHwm(c)
    BY <2>4, HiddenSteps
  <2>5. CASE CheckConditionsFail(c)
    BY <2>5, CheckFailSteps
  <2>6. CASE InsertRow(c)
    BY <2>6, InsertSteps
  <2>7. CASE Commit(c)
    BY <2>7, CommitSteps
  <2>8. CASE DeclareCursor(c)
    BY <2>8, CursorSteps DEF IInv, ReadInv
  <2>9. CASE EndTransaction(c)
    BY <2>9, EndSteps
  <2> QED
    BY <1>2, <2>1, <2>2, <2>3, <2>4, <2>5, <2>6, <2>7, <2>8, <2>9 DEF Call, Step
<1> QED
  BY <1>1, <1>2 DEF Next, Dcb!Next

\* Nobody has called, and nothing is stored.
LEMMA ContractInit == Init => ContractInv /\ Dcb!Init
<1> SUFFICES ASSUME Init PROVE ContractInv /\ Dcb!Init
  OBVIOUS
<1>1. RowsApart
  BY DEF Init, RowsApart
<1>2. \A c \in Clients : CallOK(c) /\ InsertOK(c)
  BY DEF Init, CallOK, InsertOK, NoView
<1>3. Dcb!Init
  BY DEF Init, Dcb!Init, Dcb!NoView, NoView, Dcb!NoReturn, NoReturn, Dcb!QueryAll, QueryAll
<1> QED
  BY <1>1, <1>2, <1>3 DEF ContractInv

\* The Postgres store implements the contract of Append and Read: each call
\* takes effect in one step, its commit or its failed check, with every
\* condition judged on the whole log at that step, its events stored together
\* and in order, and none of them behind what a forward reader has seen.
THEOREM ImplementsContract ==
    DelimiterFree /\ SingleTagReads => (Spec => RefinesContract)
<1> SUFFICES ASSUME DelimiterFree, SingleTagReads PROVE Spec => RefinesContract
  OBVIOUS
<1>1. Spec => []IInv
  BY Invariance
<1>2. ContractInv /\ IInv /\ IInv' /\ [Next]_vars => ContractInv' /\ [Dcb!Next]_(Dcb!dcbVars)
  BY ContractNext
<1>3. Spec => Init /\ [][Next]_vars
  BY DEF Spec
<1>4. Init => ContractInv /\ Dcb!Init
  BY ContractInit
<1> QED
  BY <1>1, <1>2, <1>3, <1>4, PTL DEF RefinesContract, Dcb!Contract


-------------------------------------------------------------------------------
(***************************************************************************)
(* The inductive invariant.                                                *)
(***************************************************************************)

\* Positions come from the sequence.
RowsWithinSeq == \A r \in AllRows : r.pos <= seq

\* A snapshot is an earlier log, and a barrier's high-water mark is beyond it.
SnapshotOK(c) ==
    /\ snap[c] \subseteq log
    /\ pc[c] \in {"r_end", "r_declare"} /\ ~rd[c].backwards =>
          \A r \in snap[c] : r.pos <= hwm[c]

InAppend == {"a_lock", "a_check", "a_insert"}

\* A call carries the arguments it was made with.
CallIsInput(c) == pc[c] \in InAppend => cmds[c] \in AppendInputs

SnapInv ==
    /\ TypeOK
    /\ SlotsInCall
    /\ snap \in [Clients -> SUBSET Row]
    /\ RowsWithinSeq
    /\ \A c \in Clients : SnapshotOK(c) /\ CallIsInput(c)

-------------------------------------------------------------------------------
(***************************************************************************)
(* Steps.                                                                  *)
(***************************************************************************)

\* A step is one of PgStore, or a condition check on what is visible.
LEMMA SnapActions ==
    ASSUME [SnapNext]_snapVars
    PROVE  \/ [Next]_vars
           \/ \E c \in Clients : CheckPasses(c) \/ CheckFails(c)
BY DEF SnapNext, snapVars, BeginCall, SnapStep, SnapAcquireLock, Fault, Next, Step

\* A snapshot is taken when a call begins, and kept until the next one.
LEMMA SnapChanges ==
    ASSUME TypeOK, snap \in [Clients -> SUBSET Row], [SnapNext]_snapVars
    PROVE  /\ snap' \in [Clients -> SUBSET Row]
           /\ \A c \in Clients : \/ snap'[c] = snap[c]
                                 \/ snap'[c] = log /\ log' = log /\ pc[c] = "idle"
<1>1. CASE UNCHANGED snap
  BY <1>1
<1>2. ASSUME NEW d \in Clients, BeginCall(d)
      PROVE  /\ snap' = [snap EXCEPT ![d] = log] /\ log' = log /\ pc[d] = "idle"
  BY <1>2 DEF BeginCall, Call, AppendRejected, AppendCall, ReadFirst, ReadMore, BeginRead
<1>3. log \in SUBSET Row
  BY DEF TypeOK
<1>4. ASSUME NEW d \in Clients, BeginCall(d)
      PROVE  /\ snap' \in [Clients -> SUBSET Row]
             /\ \A c \in Clients : \/ snap'[c] = snap[c]
                                   \/ snap'[c] = log /\ log' = log /\ pc[c] = "idle"
  BY <1>2, <1>3, <1>4
<1> QED
  BY <1>1, <1>4 DEF SnapNext, snapVars, SnapStep, SnapAcquireLock, Fault

\* An append's arguments are fixed when it is called.
LEMMA AppendSteps ==
    ASSUME TypeOK, [Next]_vars, NEW c \in Clients, CallIsInput(c)
    PROVE  CallIsInput(c)'
<1> DEFINE Same == pc'[c] \in InAppend => pc[c] \in InAppend /\ cmds'[c] = cmds[c]
<1>1. CASE UNCHANGED <<log, seq, pc, want, held, cmds, todo, rows, rd, hwm, view>>
  BY <1>1 DEF CallIsInput
<1>2. ASSUME NEW d \in Clients, NEW cs \in AppendInputs, AppendCall(d, cs)
      PROVE  CallIsInput(c)'
  BY <1>2 DEF AppendCall, TypeOK, CallIsInput
<1>3. ASSUME NEW d \in Clients, NEW o, BeginRead(d, o)
      PROVE  Same
  BY <1>3 DEF BeginRead, TypeOK, InAppend
<1>4. ASSUME NEW d \in Clients, AcquireLock(d) \/ Abort(d)
      PROVE  Same
  BY <1>4 DEF AcquireLock, Abort, TypeOK, InAppend
<1>5. ASSUME NEW d \in Clients, Step(d)
      PROVE  Same
  <2>1. CASE SnapshotHwm(d) \/ CheckConditionsPass(d) \/ CheckConditionsFail(d)
    BY <2>1 DEF SnapshotHwm, CheckConditionsPass, CheckConditionsFail, TypeOK, InAppend
  <2>2. CASE InsertRow(d) \/ Commit(d)
    BY <2>2 DEF InsertRow, Commit, TypeOK, InAppend
  <2>3. CASE BarrierHwm(d) \/ DeclareCursor(d)
    BY <2>3 DEF BarrierHwm, DeclareCursor, TypeOK, InAppend
  <2>4. CASE EndTransaction(d)
    BY <2>4 DEF EndTransaction, TypeOK, InAppend
  <2> QED
    BY <1>5, <2>1, <2>2, <2>3, <2>4 DEF Step
<1>6. \/ UNCHANGED <<log, seq, pc, want, held, cmds, todo, rows, rd, hwm, view>>
      \/ \E d \in Clients, cs \in AppendInputs : AppendCall(d, cs)
      \/ Same
  BY NextActions, <1>3, <1>4, <1>5 DEF ReadFirst, ReadMore
<1> QED
  BY <1>1, <1>2, <1>6 DEF CallIsInput

\* Rows take the next position, commit, or vanish.
LEMMA RowsStayWithinSeq ==
    ASSUME TypeOK, RowsWithinSeq, [Next]_vars
    PROVE  RowsWithinSeq' /\ log \subseteq log'
<1>0. seq \in Nat /\ \A r \in AllRows : r.pos \in Nat
  BY DEF TypeOK, AllRows, Row, Position
<1>1. CASE UNCHANGED <<log, seq, rows>>
  BY <1>1 DEF RowsWithinSeq, AllRows
<1>2. ASSUME NEW c \in Clients, InsertRow(c)
      PROVE  RowsWithinSeq' /\ log \subseteq log'
  <2>1. PICK s : rows' = [rows EXCEPT ![c] = @ \cup {InsertedRow(c, s)}]
    BY <1>2 DEF InsertRow
  <2>2. seq' = seq + 1 /\ log' = log /\ InsertedRow(c, s).pos = seq + 1
    BY <1>2 DEF InsertRow, InsertedRow
  <2>3. \A r \in AllRows' : r \in AllRows \/ r = InsertedRow(c, s)
    BY <2>1, <2>2 DEF AllRows, TypeOK
  <2> QED
    BY <1>0, <2>2, <2>3 DEF RowsWithinSeq
<1>3. ASSUME NEW c \in Clients, Commit(c) \/ Abort(c)
      PROVE  RowsWithinSeq' /\ log \subseteq log'
  <2>1. /\ rows' = [rows EXCEPT ![c] = {}] /\ seq' = seq
        /\ log' = log \/ log' = log \cup rows[c]
    BY <1>3 DEF Commit, Abort
  <2>2. AllRows' \subseteq AllRows
    BY <2>1 DEF AllRows, TypeOK
  <2> QED
    BY <2>1, <2>2 DEF RowsWithinSeq
<1> QED
  BY <1>1, <1>2, <1>3, LogSteps

-------------------------------------------------------------------------------
(***************************************************************************)
(* The invariant is preserved.                                             *)
(***************************************************************************)

\* No call has begun.
LEMMA SnapInvInit == SnapInit => SnapInv
<1> SUFFICES ASSUME SnapInit PROVE SnapInv
  OBVIOUS
<1>1. TypeOK /\ SlotsInCall
  BY TypeInit DEF SnapInit
<1>2. RowsWithinSeq
  BY DEF SnapInit, Init, RowsWithinSeq, AllRows
<1>3. \A c \in Clients : SnapshotOK(c) /\ CallIsInput(c)
  BY DEF SnapInit, Init, SnapshotOK, CallIsInput, InAppend
<1> QED
  BY <1>1, <1>2, <1>3 DEF SnapInv, SnapInit

\* A condition check, whatever it sees, moves its call on or ends it.
CheckEffect(d) ==
    /\ log' = log /\ seq' = seq /\ want' = want /\ held' = held /\ cmds' = cmds
    /\ rows' = rows /\ rd' = rd /\ hwm' = hwm /\ view' = view
    /\ pc[d] = "a_check"
    /\ \/ /\ pc' = [pc EXCEPT ![d] = "a_insert"] /\ todo' = todo /\ ret' = ret
       \/ /\ pc' = [pc EXCEPT ![d] = "end"] /\ todo' = [todo EXCEPT ![d] = {}]
          /\ \E i \in DOMAIN cmds[d] : ret' = [ret EXCEPT ![d] = [kind |-> "condition", idx |-> i]]

\* Neither outcome touches anything else.
LEMMA CheckIsLocal ==
    ASSUME NEW d \in Clients, CheckPasses(d) \/ CheckFails(d)
    PROVE  CheckEffect(d)
BY DEF CheckPasses, CheckFails, CheckEffect

\* So a check keeps what the snapshots satisfy.
LEMMA CheckKeeps ==
    ASSUME SnapInv, [SnapNext]_snapVars, NEW d \in Clients, CheckPasses(d) \/ CheckFails(d)
    PROVE  SnapInv'
<1>1. /\ log' = log /\ seq' = seq /\ want' = want /\ held' = held /\ cmds' = cmds
      /\ rows' = rows /\ rd' = rd /\ hwm' = hwm /\ view' = view
      /\ pc[d] = "a_check"
      /\ \/ /\ pc' = [pc EXCEPT ![d] = "a_insert"] /\ todo' = todo /\ ret' = ret
         \/ /\ pc' = [pc EXCEPT ![d] = "end"] /\ todo' = [todo EXCEPT ![d] = {}]
            /\ \E i \in DOMAIN cmds[d] : ret' = [ret EXCEPT ![d] = [kind |-> "condition", idx |-> i]]
  BY CheckIsLocal DEF CheckEffect
<1>2. TypeOK /\ SlotsInCall
  BY DEF SnapInv
<1>3. ret' \in [Clients -> Return]
  <2>1. ASSUME NEW i \in DOMAIN cmds[d]
        PROVE  [kind |-> "condition", idx |-> i] \in Return
    <3>1. i \in Position
      BY <1>2 DEF TypeOK, Position
    <3> QED
      BY <3>1 DEF Return
  <2>2. ret \in [Clients -> Return]
    BY <1>2 DEF TypeOK
  <2>3. ASSUME NEW i \in DOMAIN cmds[d], ret' = [ret EXCEPT ![d] = [kind |-> "condition", idx |-> i]]
        PROVE  ret' \in [Clients -> Return]
    <3>1. ASSUME NEW v \in Return, ret' = [ret EXCEPT ![d] = v]
          PROVE  ret' \in [Clients -> Return]
      BY <2>2, <3>1
    <3> QED
      BY <2>1, <2>3, <3>1
  <2> QED
    BY <1>1, <2>2, <2>3
<1>4. TypeOK'
  <2>1. pc' \in [Clients -> PCs]
    BY <1>1, <1>2 DEF TypeOK, PCs
  <2>2. todo' \in [Clients -> SUBSET (Nat \X Nat)]
    BY <1>1, <1>2 DEF TypeOK
  <2> QED
    BY <1>1, <1>2, <1>3, <2>1, <2>2 DEF TypeOK
<1>5. SlotsInCall'
  BY <1>1, <1>2 DEF TypeOK, SlotsInCall
<1>6. snap' \in [Clients -> SUBSET Row]
  BY SnapChanges DEF SnapInv
<1>7. RowsWithinSeq'
  BY <1>1 DEF SnapInv, RowsWithinSeq, AllRows
<1>8. ASSUME NEW c \in Clients
      PROVE  SnapshotOK(c)' /\ CallIsInput(c)'
  <2>1. SnapshotOK(c) /\ CallIsInput(c)
    BY DEF SnapInv
  <2>2. /\ pc'[c] \in {"r_end", "r_declare"} => pc[c] = pc'[c]
        /\ pc'[c] \in InAppend => pc[c] \in InAppend
    BY <1>1, <1>2 DEF TypeOK, InAppend
  <2>3. \/ snap'[c] = snap[c]
        \/ snap'[c] = log /\ pc[c] = "idle"
    BY SnapChanges DEF SnapInv
  <2> QED
    BY <1>1, <2>1, <2>2, <2>3 DEF SnapshotOK, CallIsInput
<1> QED
  BY <1>4, <1>5, <1>6, <1>7, <1>8 DEF SnapInv

\* So does every other step: in particular, the barrier's snapshot of the
\* sequence is beyond whatever was committed when the read was called.
LEMMA SnapInvNext ==
    ASSUME SnapInv, [SnapNext]_snapVars
    PROVE  SnapInv'
<1>1. CASE \E c \in Clients : CheckPasses(c) \/ CheckFails(c)
  BY <1>1, CheckKeeps
<1>2. CASE [Next]_vars
  <2>1. TypeOK' /\ SlotsInCall'
    BY <1>2, TypeNext DEF SnapInv
  <2>2. RowsWithinSeq' /\ log \subseteq log'
    BY <1>2, RowsStayWithinSeq DEF SnapInv
  <2>3. snap' \in [Clients -> SUBSET Row]
    BY SnapChanges DEF SnapInv
  <2>4. ASSUME NEW c \in Clients
        PROVE  CallIsInput(c)'
    BY <1>2, AppendSteps DEF SnapInv
  <2>5. ASSUME NEW c \in Clients
        PROVE  SnapshotOK(c)'
    <3>1. SnapshotOK(c) /\ TypeOK /\ RowsWithinSeq
      BY DEF SnapInv
    <3>2. \/ snap'[c] = snap[c]
          \/ snap'[c] = log /\ log' = log /\ pc[c] = "idle"
      BY SnapChanges DEF SnapInv
    <3>3. snap'[c] \subseteq log'
      BY <2>2, <3>1, <3>2 DEF SnapshotOK
    <3>4. ASSUME pc'[c] \in {"r_end", "r_declare"}, ~rd'[c].backwards, NEW r \in snap'[c]
          PROVE  r.pos <= hwm'[c]
      <4>1. CASE BarrierHwm(c)
        <5>1. hwm'[c] = seq /\ log' = log
          BY <3>1, <4>1 DEF BarrierHwm, TypeOK
        <5> QED
          BY <3>1, <3>3, <5>1 DEF RowsWithinSeq, AllRows
      <4>2. CASE /\ pc[c] \in {"r_end", "r_declare"} /\ ~rd[c].backwards
                 /\ rd'[c] = rd[c] /\ hwm'[c] = hwm[c]
        BY <3>1, <3>2, <4>2 DEF SnapshotOK
      <4> QED
        BY <1>2, <3>1, <3>4, <4>1, <4>2, BarrierSteps
    <3> QED
      BY <3>3, <3>4 DEF SnapshotOK
  <2> QED
    BY <2>1, <2>2, <2>3, <2>4, <2>5 DEF SnapInv
<1> QED
  BY <1>1, <1>2, SnapActions

\* The invariant holds at any isolation level.
LEMMA SnapInvAlways == SnapSpec => []SnapInv
<1>1. SnapInv /\ [SnapNext]_snapVars => SnapInv'
  BY SnapInvNext
<1>2. SnapSpec => SnapInit /\ [][SnapNext]_snapVars
  BY DEF SnapSpec
<1> QED
  BY <1>1, <1>2, SnapInvInit, PTL

-------------------------------------------------------------------------------
(***************************************************************************)
(* Reads are recent.                                                       *)
(***************************************************************************)

\* A read returns to its client by declaring its cursor, or not at all.
LEMMA OnlyTheCursorReturns ==
    ASSUME TypeOK, [SnapNext]_snapVars, NEW c \in Clients,
           pc[c] = "r_declare", pc'[c] = "idle"
    PROVE  DeclareCursor(c)
<1>1. pc \in [Clients -> PCs]
  BY DEF TypeOK
<1>2. ASSUME NEW d \in Clients, DeclareCursor(d)
      PROVE  DeclareCursor(c)
  <2>1. pc' = [pc EXCEPT ![d] = "idle"]
    BY <1>2 DEF DeclareCursor
  <2>2. d = c
    BY <1>1, <2>1
  <2> QED
    BY <1>2, <2>2
<1>3. ASSUME NEW d \in Clients, NEW to \in PCs, to # "idle", pc' = [pc EXCEPT ![d] = to]
      PROVE  FALSE
  BY <1>1, <1>3
<1>4. ASSUME NEW d \in Clients, CheckPasses(d) \/ CheckFails(d) \/ Abort(d)
      PROVE  FALSE
  BY <1>3, <1>4 DEF CheckPasses, CheckFails, Abort, PCs
<1>5. ASSUME NEW d \in Clients, SnapshotHwm(d) \/ BarrierHwm(d) \/ Commit(d)
      PROVE  FALSE
  BY <1>3, <1>5 DEF SnapshotHwm, BarrierHwm, Commit, PCs
<1>6. ASSUME NEW d \in Clients, EndTransaction(d)
      PROVE  FALSE
  BY <1>1, <1>6 DEF EndTransaction
<1>7. ASSUME NEW d \in Clients, NEW cs, AppendCall(d, cs)
      PROVE  FALSE
  BY <1>3, <1>7 DEF AppendCall, PCs
<1>8. ASSUME NEW d \in Clients, NEW o, BeginRead(d, o)
      PROVE  FALSE
  BY <1>3, <1>8 DEF BeginRead, PCs
<1>9. CASE UNCHANGED pc
  BY <1>9
<1> QED
  BY <1>2, <1>4, <1>5, <1>6, <1>7, <1>8, <1>9
     DEF SnapNext, snapVars, vars, BeginCall, Call, AppendRejected, ReadFirst, ReadMore,
         SnapStep, InsertRow, SnapAcquireLock, AcquireLock, Fault, LoseReply

\* An unlimited page is all that the query selects, and the high-water mark
\* of the barrier is beyond what was committed when the read was called.
LEMMA CursorIsRecent ==
    ASSUME SnapInv, NEW c \in Clients, DeclareCursor(c), rd[c].limit = 0,
           NEW r \in snap[c], PastAfter(r, rd[c]), ReadMatches(rd[c].query, r)
    PROVE  r \in view'[c].seen
<1> DEFINE sel == Selected(log, rd[c], hwm[c])
<1>1. PICK page \in SUBSET sel :
         /\ IsPage(page, sel, rd[c])
         /\ view' = [view EXCEPT ![c].seen = @ \cup page]
  BY DEF DeclareCursor
<1>2. page = sel
  <2>1. ~(rd[c].limit > 0)
    OBVIOUS
  <2> QED
    BY <1>1, <2>1 DEF IsPage
<1>3. view'[c].seen = view[c].seen \cup page
  <2>1. view[c] \in View /\ view \in [Clients -> View]
    BY DEF SnapInv, TypeOK
  <2> QED
    BY <1>1, <2>1 DEF View
<1>4. r \in log /\ WithinHwm(r, rd[c], hwm[c])
  BY DEF SnapInv, SnapshotOK, DeclareCursor, WithinHwm
<1>5. r \in sel
  BY <1>4 DEF Selected
<1> QED
  BY <1>2, <1>3, <1>5

\* A Read without a limit returns whatever it asks for and was committed when
\* it was called, at any isolation level and with any tags.
THEOREM ReadsRecent == SnapSpec => ReadsAreRecent
<1> DEFINE Recent ==
      \A c \in Clients :
          pc[c] = "r_declare" /\ pc'[c] = "idle" /\ rd[c].limit = 0 =>
              \A r \in snap[c] :
                  PastAfter(r, rd[c]) /\ ReadMatches(rd[c].query, r) => r \in view'[c].seen
<1>1. SnapInv /\ [SnapNext]_snapVars => [Recent]_snapVars
  <2> SUFFICES ASSUME SnapInv, [SnapNext]_snapVars PROVE Recent
    OBVIOUS
  <2> QED
    BY OnlyTheCursorReturns, CursorIsRecent DEF SnapInv
<1>2. SnapSpec => [][SnapNext]_snapVars
  BY DEF SnapSpec
<1> QED
  BY <1>1, <1>2, SnapInvAlways, PTL DEF ReadsAreRecent

-------------------------------------------------------------------------------
(***************************************************************************)
(* When the checks see what is committed.                                  *)
(***************************************************************************)

\* No condition is checked in an old snapshot: the server's default is Read
\* Committed, or the calls that carry a condition have more events than
\* CopyThreshold, while those below it are unconditional.
ChecksSeeCommits ==
    RepeatableRead => \A cs \in AppendInputs :
        (\E i \in DOMAIN cs : cs[i].condition # Nil) => ~ViaFunction(cs)

\* Then a check finds what a check of the committed log would.
LEMMA CheckOfTheLog ==
    ASSUME SnapInv, ChecksSeeCommits, NEW c \in Clients, pc[c] = "a_check",
           NEW i \in DOMAIN cmds[c]
    PROVE  ConditionMatches(Visible(c), cmds[c], i, hwm[c])
             <=> ConditionMatches(log, cmds[c], i, hwm[c])
<1>1. CASE Visible(c) = log
  BY <1>1
<1>2. CASE RepeatableRead /\ ViaFunction(cmds[c])
  <2>1. cmds[c] \in AppendInputs
    BY DEF SnapInv, CallIsInput, InAppend
  <2>2. cmds[c][i].condition = Nil
    BY <1>2, <2>1 DEF ChecksSeeCommits
  <2> QED
    BY <2>2 DEF ConditionMatches
<1> QED
  BY <1>1, <1>2 DEF Visible

\* Then a step with snapshots is a step of PgStore.
LEMMA StepsSeeCommits ==
    ASSUME SnapInv, ChecksSeeCommits, [SnapNext]_snapVars
    PROVE  [Next]_vars
<1>1. ASSUME NEW c \in Clients, CheckPasses(c)
      PROVE  CheckConditionsPass(c)
  <2>1. \A i \in DOMAIN cmds[c] : ~ConditionMatches(log, cmds[c], i, hwm[c])
    BY <1>1, CheckOfTheLog DEF CheckPasses
  <2> QED
    BY <1>1, <2>1 DEF CheckPasses, CheckConditionsPass
<1>2. ASSUME NEW c \in Clients, CheckFails(c)
      PROVE  CheckConditionsFail(c)
  <2>1. PICK i \in DOMAIN cmds[c] :
          /\ ConditionMatches(Visible(c), cmds[c], i, hwm[c])
          /\ \A j \in 1..(i-1) : ~ConditionMatches(Visible(c), cmds[c], j, hwm[c])
          /\ ret' = [ret EXCEPT ![c] = [kind |-> "condition", idx |-> i]]
    BY <1>2 DEF CheckFails
  <2>2. pc[c] = "a_check" /\ \A j \in 1..(i-1) : j \in DOMAIN cmds[c]
    BY <1>2, <2>1 DEF CheckFails, SnapInv, TypeOK
  <2>3. /\ ConditionMatches(log, cmds[c], i, hwm[c])
        /\ \A j \in 1..(i-1) : ~ConditionMatches(log, cmds[c], j, hwm[c])
    BY <2>1, <2>2, CheckOfTheLog
  <2> QED
    BY <1>2, <2>1, <2>3 DEF CheckFails, CheckConditionsFail
<1> QED
  BY <1>1, <1>2, SnapActions DEF Next, Step

\* The store with snapshots is the store without, whatever the server's
\* default isolation level, if the calls with conditions go through COPY:
\* appendViaCopy asks for Read Committed itself.
THEOREM SnapshotsDoNotMatter == ChecksSeeCommits => (SnapSpec => Spec)
<1> SUFFICES ASSUME ChecksSeeCommits PROVE SnapSpec => Spec
  OBVIOUS
<1>1. SnapInv /\ [SnapNext]_snapVars => [Next]_vars
  BY StepsSeeCommits
<1>2. SnapSpec => SnapInit /\ [][SnapNext]_snapVars
  BY DEF SnapSpec
<1>3. SnapInit => Init
  BY DEF SnapInit
<1> QED
  BY <1>1, <1>2, <1>3, SnapInvAlways, PTL DEF Spec

\* Hence it keeps the contract of Append and Read.
THEOREM ImplementsContractAtAnyLevel ==
    DelimiterFree /\ SingleTagReads /\ ChecksSeeCommits => (SnapSpec => RefinesContract)
<1> SUFFICES ASSUME DelimiterFree, SingleTagReads, ChecksSeeCommits
             PROVE  SnapSpec => RefinesContract
  OBVIOUS
<1>1. SnapSpec => Spec
  BY SnapshotsDoNotMatter
<1>2. Spec => RefinesContract
  BY ImplementsContract
<1> QED
  BY <1>1, <1>2, PTL

-------------------------------------------------------------------------------
(***************************************************************************)
(* What does not depend on what a check sees.                              *)
(***************************************************************************)

\* A check takes no lock, inserts no row and belongs to no read.
LEMMA CheckKeepsReads ==
    ASSUME ReadInv, TypeOK', NEW d \in Clients, CheckEffect(d)
    PROVE  ReadInv'
<1>1. TypeOK /\ pc \in [Clients -> PCs] /\ todo \in [Clients -> SUBSET (Nat \X Nat)]
  BY DEF ReadInv, TypeOK
<1>2. PositionsUnique' /\ LockExclusion' /\ ViewsAreBehind' /\ ForwardReadsNeverSkip'
  BY DEF CheckEffect, ReadInv, PositionsUnique, AllRows, LockExclusion, ViewsAreBehind,
         ForwardReadsNeverSkip
<1>3. \A c \in Clients : c # d => pc'[c] = pc[c] /\ todo'[c] = todo[c]
  BY <1>1 DEF CheckEffect
<1>4. \/ pc'[d] = "a_insert" /\ todo'[d] = todo[d]
      \/ pc'[d] = "end" /\ todo'[d] = {}
  BY <1>1 DEF CheckEffect
<1>5. /\ pc[d] = "a_check" /\ want' = want /\ held' = held /\ cmds' = cmds
      /\ rows' = rows /\ seq' = seq /\ rd' = rd /\ hwm' = hwm /\ view' = view
  BY DEF CheckEffect
<1>6. AppendLocks'
  BY <1>3, <1>4, <1>5 DEF ReadInv, AppendLocks
<1>7. RowsAreLocked'
  <2>1. rows[d] = {}
    BY <1>5 DEF ReadInv, RowsAreLocked
  <2> QED
    BY <1>3, <1>5, <2>1 DEF ReadInv, RowsAreLocked
<1>8. \A c \in Clients : pc'[c] \in {"r_lock", "r_end", "r_declare"} => pc[c] = pc'[c]
  BY <1>3, <1>4
<1>9. ReadsFollowViews'
  BY <1>5, <1>8 DEF ReadInv, ReadsFollowViews
<1>10. BarrierHolds'
  BY <1>5, <1>8 DEF ReadInv, BarrierHolds
<1> QED
  BY <1>2, <1>6, <1>7, <1>9, <1>10 DEF ReadInv

\* What reads rely on holds at any isolation level.
LEMMA ReadInvAlways == DelimiterFree => (SnapSpec => []ReadInv)
<1> SUFFICES ASSUME DelimiterFree PROVE SnapSpec => []ReadInv
  OBVIOUS
<1>1. SnapInit => ReadInv
  BY IInvInit DEF SnapInit, IInv
<1>2. SnapInv' /\ ReadInv /\ [SnapNext]_snapVars => ReadInv'
  <2> SUFFICES ASSUME SnapInv', ReadInv, [SnapNext]_snapVars PROVE ReadInv'
    OBVIOUS
  <2>1. TypeOK'
    BY DEF SnapInv
  <2>2. CASE \E c \in Clients : CheckPasses(c) \/ CheckFails(c)
    BY <2>1, <2>2, CheckIsLocal, CheckKeepsReads
  <2>3. CASE [Next]_vars
    BY <2>3, ReadInvNext
  <2> QED
    BY <2>2, <2>3, SnapActions
<1>3. SnapSpec => SnapInit /\ [][SnapNext]_snapVars
  BY DEF SnapSpec
<1> QED
  BY <1>1, <1>2, <1>3, SnapInvAlways, PTL

\* A forward reader misses nothing at any isolation level: what a read relies
\* on is the locks of rows in flight, and not what anyone's condition check
\* saw, so that even an append that slipped past its check on an old snapshot
\* commits nothing behind a reader.
THEOREM ReadersMissNothingAtAnyLevel == DelimiterFree => (SnapSpec => []ForwardReadsNeverSkip)
<1> SUFFICES ASSUME DelimiterFree PROVE SnapSpec => []ForwardReadsNeverSkip
  OBVIOUS
<1>1. SnapSpec => []ReadInv
  BY ReadInvAlways
<1>2. ReadInv => ForwardReadsNeverSkip
  BY DEF ReadInv
<1> QED
  BY <1>1, <1>2, PTL

\* When the barrier takes the high-water mark, nothing that the read filters
\* for is in flight: a row in flight is under its leaf and intent locks, and
\* one of them conflicts with one of the barrier's, even if keys collide.
\* This is the guard of Barrier in PgSubscribe.
THEOREM BarriersExcludeWriters == DelimiterFree => (SnapSpec => []BarrierExcludesWriters)
<1> SUFFICES ASSUME DelimiterFree PROVE SnapSpec => []BarrierExcludesWriters
  OBVIOUS
<1>1. SnapSpec => []ReadInv
  BY ReadInvAlways
<1>2. ReadInv => BarrierExcludesWriters
  BY BarrierMeetsNoRow
<1> QED
  BY <1>1, <1>2, PTL

-------------------------------------------------------------------------------
(***************************************************************************)
(* Appends through COPY, next to appends through the procedure.            *)
(***************************************************************************)

\* What a COPY append's check relies on does not depend on what the checks of
\* the others see.
LEMMA CopySteps ==
    ASSUME DelimiterFree, ReadInv, ChecksAreComplete, CopyConditionsHold, [SnapNext]_snapVars
    PROVE  ChecksAreComplete' /\ CopyConditionsHold'
<1>1. CASE \E d \in Clients : CheckPasses(d) \/ CheckFails(d)
  <2>1. PICK d \in Clients : CheckPasses(d) \/ CheckFails(d)
    BY <1>1
  <2>2. /\ pc \in [Clients -> PCs] /\ pc[d] = "a_check"
        /\ log' = log /\ cmds' = cmds /\ hwm' = hwm
        /\ \E p \in {"a_insert", "end"} : pc' = [pc EXCEPT ![d] = p]
    BY <2>1, CheckIsLocal DEF CheckEffect, ReadInv, TypeOK
  <2>3. ChecksAreComplete'
    BY <2>2 DEF ChecksAreComplete
  <2>4. ASSUME NEW c \in Clients, pc'[c] = "a_insert", ~ViaFunction(cmds[c]),
               NEW i \in DOMAIN cmds[c]
        PROVE  ~Violates(log, cmds[c], i)
    <3>1. CASE c = d
      <4>1. CheckPasses(c)
        BY <2>1, <2>2, <2>4, <3>1 DEF CheckFails
      <4>2. ~ConditionMatches(log, cmds[c], i, hwm[c])
        BY <2>4, <4>1 DEF CheckPasses, Visible
      <4> QED
        BY <2>2, <3>1, <4>2, CheckEstablishes
    <3>2. CASE c # d
      BY <2>2, <2>4, <3>2 DEF CopyConditionsHold
    <3> QED
      BY <3>1, <3>2
  <2> QED
    BY <2>2, <2>3, <2>4 DEF CopyConditionsHold, Violates, AnyMatchAfter
<1>2. CASE [Next]_vars
  <2>1. ChecksAreComplete'
    BY <1>2, ChecksAreCompleteNext
  <2>2. ASSUME NEW c \in Clients, pc'[c] = "a_insert", ~ViaFunction(cmds'[c]),
               NEW i \in DOMAIN cmds'[c]
        PROVE  ~Violates(log', cmds'[c], i)
    <3>1. CASE CheckConditionsPass(c)
      <4>1. /\ log' = log /\ cmds'[c] = cmds[c] /\ pc[c] = "a_check"
            /\ ~ConditionMatches(log, cmds[c], i, hwm[c])
        BY <2>2, <3>1 DEF CheckConditionsPass
      <4> QED
        BY <2>2, <4>1, CheckEstablishes
    <3>2. CASE pc[c] = "a_insert" /\ cmds'[c] = cmds[c]
      <4>1. ~Violates(log, cmds[c], i)
        BY <2>2, <3>2 DEF CopyConditionsHold
      <4> QED
        BY <1>2, <2>2, <3>2, <4>1, LockedConditionsStay
    <3> QED
      BY <1>2, <2>2, <3>1, <3>2, CheckSteps DEF ReadInv
  <2> QED
    BY <2>1, <2>2 DEF CopyConditionsHold, Violates, AnyMatchAfter
<1> QED
  BY <1>1, <1>2, SnapActions

\* An append through COPY commits on no condition that has become false, on a
\* server with any default level and at any CopyThreshold, although appends
\* through the procedure that it competes with may have checked theirs in an
\* old snapshot: it sees every commit before its own locks, and its locks
\* keep out the rest.
THEOREM CopyAppendsSerialized == DelimiterFree => (SnapSpec => []CopyConditionsHold)
<1> SUFFICES ASSUME DelimiterFree PROVE SnapSpec => []CopyConditionsHold
  OBVIOUS
<1>1. SnapInit => ChecksAreComplete /\ CopyConditionsHold
  BY DEF SnapInit, Init, ChecksAreComplete, CopyConditionsHold
<1>2. ReadInv /\ ChecksAreComplete /\ CopyConditionsHold /\ [SnapNext]_snapVars
        => ChecksAreComplete' /\ CopyConditionsHold'
  BY CopySteps
<1>3. SnapSpec => []ReadInv
  BY ReadInvAlways
<1>4. SnapSpec => SnapInit /\ [][SnapNext]_snapVars
  BY DEF SnapSpec
<1> QED
  BY <1>1, <1>2, <1>3, <1>4, PTL

\* A check neither requests nor releases a lock.
LEMMA CheckKeepsLockOrder ==
    ASSUME TypeOK, LockOrder, NEW d \in Clients, CheckEffect(d)
    PROVE  LockOrder'
<1>1. /\ pc[d] = "a_check" /\ UNCHANGED <<want, held>>
      /\ \E p \in {"a_insert", "end"} : pc' = [pc EXCEPT ![d] = p]
  BY DEF CheckEffect
<1>2. want[d] = {}
  BY <1>1 DEF LockOrder
<1>3. \A c \in Clients :
         /\ want'[c] # {} => pc'[c] \in {"a_lock", "r_lock"}
         /\ pc'[c] \in {"idle", "r_declare"} => held'[c] = {}
  BY <1>1, <1>2 DEF LockOrder, TypeOK
<1> QED
  BY <1>1, <1>3 DEF LockOrder

\* Nor does the isolation level matter to deadlock: calls never wait for each
\* other in a cycle, whatever the condition checks see.
THEOREM DeadlockFreeAtAnyLevel ==
    KeysApart /\ IsFiniteSet(LeafKeys \cup IntentKeys) => (SnapSpec => []NoDeadlock)
<1> SUFFICES ASSUME KeysApart, IsFiniteSet(LeafKeys \cup IntentKeys)
             PROVE  SnapSpec => []NoDeadlock
  OBVIOUS
<1>1. SnapInit => LockOrder
  BY DEF SnapInit, Init, LockOrder
<1>2. SnapInv /\ LockOrder /\ [SnapNext]_snapVars => LockOrder'
  BY SnapActions, LockOrderNext, CheckIsLocal, CheckKeepsLockOrder DEF SnapInv
<1>3. SnapInv /\ LockOrder => NoDeadlock
  BY OrderPreventsDeadlock DEF SnapInv
<1>4. SnapSpec => SnapInit /\ [][SnapNext]_snapVars
  BY DEF SnapSpec
<1> QED
  BY <1>1, <1>2, <1>3, <1>4, SnapInvAlways, PTL
===============================================================================
