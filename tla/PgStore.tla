-------------------------------- MODULE PgStore --------------------------------
(***************************************************************************)
(* The Postgres store: Append (postgres/append.go and the events_append    *)
(* procedure of postgres/store.go) and Read (postgres/read.go, readsql.go  *)
(* and the barrier procedure), as concurrent transactions.                 *)
(*                                                                         *)
(* A client is a goroutine that makes one call at a time.  Each SQL        *)
(* statement of its transaction is one action, so clients interleave       *)
(* between statements, between the lock acquisitions of one statement, and *)
(* between the rows of one INSERT or COPY.  What Postgres supplies         *)
(* (advisory locks, a sequence that is never rolled back, Read Committed   *)
(* snapshots, commit before lock release) is modelled from how that code   *)
(* uses it.                                                                *)
(***************************************************************************)
EXTENDS LockKeys, ReadSQL

CONSTANTS
    Writers,          \* goroutines that call Append
    Readers,          \* goroutines that call Read; one may do both
    AppendInputs,     \* argument lists that Append is called with
    ReadQueries,      \* queries that Read is called with
    ReadLimits,       \* values of ReadOptions.Limit; 0 is no limit
    SplitTag,         \* what string_to_array cuts a tag into at tagDelimiter
    CopyThreshold,    \* store.copyThreshold; only a test sets it to 0
    MaxPos            \* bound: no Append call starts that could take seq beyond it

Clients == Writers \cup Readers

ASSUME PgStoreAssumption ==
    /\ \A cmds \in AppendInputs :
            /\ cmds \in Seq(AppendCommand)
            /\ \A i \in DOMAIN cmds : cmds[i].condition # Nil =>
                    IsQuery(cmds[i].condition.failIfEventsMatch)
    /\ \A q \in ReadQueries : IsQuery(q)
    /\ ReadLimits \subseteq Nat
    /\ SplitTag \in [TagValues -> SUBSET TagValues]
    /\ CopyThreshold \in Nat
    /\ MaxPos \in Nat

VARIABLES
    log,    \* committed rows of the events table
    seq,    \* last value of the sequence behind sequence_position, 0 if unused
    pc,     \* where each client is in its call
    want,   \* advisory locks its current statement still has to acquire
    held,   \* advisory locks its transaction holds
    cmds,   \* the arguments of its Append call
    todo,   \* slots of that call whose row is not inserted yet
    rows,   \* rows its transaction inserted and has not committed
    rd,     \* the arguments of its Read call
    hwm,    \* the high-water mark its transaction snapshotted
    view,   \* what its reads have told it: query, direction, rows seen
    ret     \* what its last call returned (the rows of a Read are in view)

vars == <<log, seq, pc, want, held, cmds, todo, rows, rd, hwm, view, ret>>

-------------------------------------------------------------------------------
(***************************************************************************)
(* Types and initial state.                                                *)
(***************************************************************************)
PCs == {"idle", "a_lock", "a_check", "a_insert", "end",
        "r_lock", "r_end", "r_declare"}

TypeOK ==
    /\ log \in SUBSET Row
    /\ seq \in Nat
    /\ pc \in [Clients -> PCs]
    /\ want \in [Clients -> SUBSET Lock]
    /\ held \in [Clients -> SUBSET Lock]
    /\ cmds \in [Clients -> Seq(AppendCommand)]
    /\ todo \in [Clients -> SUBSET (Nat \X Nat)]
    /\ rows \in [Clients -> SUBSET Row]
    /\ rd \in [Clients -> ReadCall]
    /\ hwm \in [Clients -> Nat]
    /\ view \in [Clients -> View]
    /\ ret \in [Clients -> Return]

Init ==
    /\ log = {}
    /\ seq = 0
    /\ pc = [c \in Clients |-> "idle"]
    /\ want = [c \in Clients |-> {}]
    /\ held = [c \in Clients |-> {}]
    /\ cmds = [c \in Clients |-> <<>>]
    /\ todo = [c \in Clients |-> {}]
    /\ rows = [c \in Clients |-> {}]
    /\ rd = [c \in Clients |-> NoRead]
    /\ hwm = [c \in Clients |-> 0]
    /\ view = [c \in Clients |-> NoView]
    /\ ret = [c \in Clients |-> NoReturn]

-------------------------------------------------------------------------------
(***************************************************************************)
(* serialize.go.  Tags travel as one delimited string, which the procedure *)
(* cuts up again with string_to_array.  The COPY path sends the events'    *)
(* tags as an array, but its conditions still travel as strings.           *)
(***************************************************************************)
Unpack(tags) == UNION {SplitTag[t] : t \in tags}

\* totalEvents <= s.copyThreshold
ViaFunction(cs) == Cardinality(Slots(cs)) <= CopyThreshold

StoredTags(cs, tags) == IF ViaFunction(cs) THEN Unpack(tags) ELSE tags

\* serializeConditions: one row per type of each item, a nil After becomes 0.
AfterPos(cond) == IF cond.after = Nil THEN 0 ELSE cond.after

\* A bug for the model to catch: the event at the high-water mark itself
\* escapes the check.
ConditionMatchesBelowHwm(visible, cs, i, high) ==
    /\ cs[i].condition # Nil
    /\ \E item \in cs[i].condition.failIfEventsMatch.items, r \in visible :
          /\ r.type \in item.types
          /\ Unpack(item.tags) \subseteq r.tags
          /\ r.pos > AfterPos(cs[i].condition)
          /\ r.pos < high

\* The events_check_conditions query, for command i: some visible event has
\* the type, all the tags, and a position in (after, hwm].
ConditionMatches(visible, cs, i, high) ==
    /\ cs[i].condition # Nil
    /\ \E item \in cs[i].condition.failIfEventsMatch.items, r \in visible :
          /\ r.type \in item.types
          /\ Unpack(item.tags) \subseteq r.tags
          /\ r.pos > AfterPos(cs[i].condition)
          /\ r.pos <= high

(***************************************************************************)
(* Advisory locks.  A request is granted when no other transaction holds a *)
(* conflicting lock.                                                       *)
(***************************************************************************)
Grantable(c, l) == \A d \in Clients \ {c} : \A h \in held[d] : ~Conflict(l, h)

\* A bug for the model to catch: no ORDER BY.
NextLocksUnordered(c) == want[c]

\* ORDER BY k: the next request of a lock statement is one with least key.
NextLocks(c) == {l \in want[c] : \A m \in want[c] : l.key <= m.key}

AcquireLock(c) ==
    /\ pc[c] \in {"a_lock", "r_lock"}
    /\ \E l \in NextLocks(c) :
          /\ Grantable(c, l)
          /\ want' = [want EXCEPT ![c] = @ \ {l}]
          /\ held' = [held EXCEPT ![c] = @ \cup {l}]
    /\ UNCHANGED <<log, seq, pc, cmds, todo, rows, rd, hwm, view, ret>>

-------------------------------------------------------------------------------
(***************************************************************************)
(* Append.                                                                 *)
(***************************************************************************)
\* A condition that is not scoped, or no event at all: nothing is sent.
AppendRejected(c, cs) ==
    /\ pc[c] = "idle"
    /\ ~ConditionsValid(cs) \/ Slots(cs) = {}
    /\ ret' = [ret EXCEPT ![c] = Error]
    /\ UNCHANGED <<log, seq, pc, want, held, cmds, todo, rows, rd, hwm, view>>

\* The bound: the positions that calls in progress, and this one, still take.
WithinMaxPos(cs) ==
    seq + Cardinality(UNION {{d} \X todo[d] : d \in Clients}) + Cardinality(Slots(cs))
        <= MaxPos

\* The call computes its lock keys and sends the lock statement.
AppendCall(c, cs) ==
    /\ pc[c] = "idle"
    /\ ConditionsValid(cs)
    /\ Slots(cs) # {}
    /\ WithinMaxPos(cs)
    /\ pc' = [pc EXCEPT ![c] = "a_lock"]
    /\ want' = [want EXCEPT ![c] = WriterLocks(cs)]
    /\ cmds' = [cmds EXCEPT ![c] = cs]
    /\ todo' = [todo EXCEPT ![c] = Slots(cs)]
    /\ ret' = [ret EXCEPT ![c] = NoReturn]
    /\ UNCHANGED <<log, seq, held, rows, rd, hwm, view>>

\* A bug for the model to catch: pg_sequence_last_value is NULL until the
\* first nextval, and COALESCE is forgotten.
SnapshotHwmWithoutCoalesce(c) ==
    /\ pc[c] = "a_lock"
    /\ want[c] = {}
    /\ hwm' = [hwm EXCEPT ![c] = IF seq = 0 THEN Nil ELSE seq]
    /\ pc' = [pc EXCEPT ![c] = "a_check"]
    /\ UNCHANGED <<log, seq, want, held, cmds, todo, rows, rd, view, ret>>

\* All locks held: SELECT pg_sequence_last_value(...) INTO v_hwm.
SnapshotHwm(c) ==
    /\ pc[c] = "a_lock"
    /\ want[c] = {}
    /\ hwm' = [hwm EXCEPT ![c] = seq]
    /\ pc' = [pc EXCEPT ![c] = "a_check"]
    /\ UNCHANGED <<log, seq, want, held, cmds, todo, rows, rd, view, ret>>

CheckConditionsPass(c) ==
    /\ pc[c] = "a_check"
    /\ \A i \in DOMAIN cmds[c] : ~ConditionMatches(log, cmds[c], i, hwm[c])
    /\ pc' = [pc EXCEPT ![c] = "a_insert"]
    /\ UNCHANGED <<log, seq, want, held, cmds, todo, rows, rd, hwm, view, ret>>

\* ORDER BY cmd_idx LIMIT 1 names the first command that fails; the
\* exception (or the deferred Rollback) ends the transaction.
CheckConditionsFail(c) ==
    /\ pc[c] = "a_check"
    /\ \E i \in DOMAIN cmds[c] :
          /\ ConditionMatches(log, cmds[c], i, hwm[c])
          /\ \A j \in 1..(i-1) : ~ConditionMatches(log, cmds[c], j, hwm[c])
          /\ ret' = [ret EXCEPT ![c] = [kind |-> "condition", idx |-> i]]
    /\ pc' = [pc EXCEPT ![c] = "end"]
    /\ todo' = [todo EXCEPT ![c] = {}]
    /\ UNCHANGED <<log, seq, want, held, cmds, rows, rd, hwm, view>>

\* The row of slot s, as the INSERT or the COPY writes it.
InsertedRow(c, s) ==
    [pos  |-> seq + 1,
     type |-> EventAt(cmds[c], s).type,
     tags |-> StoredTags(cmds[c], EventAt(cmds[c], s).tags)]

\* One row of the INSERT or COPY: its position comes from nextval.
InsertRow(c) ==
    /\ pc[c] = "a_insert"
    /\ \E s \in todo[c] :
          /\ \A t \in todo[c] : ~SlotBefore(t, s)
          /\ todo' = [todo EXCEPT ![c] = @ \ {s}]
          /\ rows' = [rows EXCEPT ![c] = @ \cup {InsertedRow(c, s)}]
    /\ seq' = seq + 1
    /\ UNCHANGED <<log, pc, want, held, cmds, rd, hwm, view, ret>>

\* currval is the session's own last position.  Commit makes the rows
\* visible; the locks are released after that.
Commit(c) ==
    /\ pc[c] = "a_insert"
    /\ todo[c] = {}
    /\ \E last \in rows[c] :
          /\ \A r \in rows[c] : r.pos <= last.pos
          /\ ret' = [ret EXCEPT ![c] = [kind |-> "ok", pos |-> last.pos]]
    /\ log' = log \cup rows[c]
    /\ rows' = [rows EXCEPT ![c] = {}]
    /\ pc' = [pc EXCEPT ![c] = "end"]
    /\ UNCHANGED <<seq, want, held, cmds, todo, rd, hwm, view>>

-------------------------------------------------------------------------------
(***************************************************************************)
(* Read.  A forward read first runs the barrier procedure in a transaction *)
(* of its own; a backwards read goes straight to its cursor.  A client     *)
(* either starts reading a query from the beginning or asks for the page   *)
(* after the last row it saw.                                              *)
(***************************************************************************)
\* Read with the arguments o: compute the reader keys, or skip the barrier.
BeginRead(c, o) ==
    /\ rd' = [rd EXCEPT ![c] = o]
    /\ ret' = [ret EXCEPT ![c] = NoReturn]
    /\ IF o.backwards
         THEN /\ pc' = [pc EXCEPT ![c] = "r_declare"]
              /\ UNCHANGED want
         ELSE /\ pc' = [pc EXCEPT ![c] = "r_lock"]
              /\ want' = [want EXCEPT ![c] = computeReaderLockKeys(o.query)]
    /\ UNCHANGED <<log, seq, held, cmds, todo, rows, hwm>>

ReadFirst(c, q, backwards, limit) ==
    /\ pc[c] = "idle"
    /\ view' = [view EXCEPT ![c] = [query |-> q, backwards |-> backwards, seen |-> {}]]
    /\ BeginRead(c, [query |-> q, after |-> Nil, backwards |-> backwards, limit |-> limit])

ReadMore(c, limit) ==
    /\ pc[c] = "idle"
    /\ \E s \in view[c].seen :
          /\ \A t \in view[c].seen : ~Precedes(s, t, view[c])
          /\ BeginRead(c, [query |-> view[c].query, after |-> s.pos,
                           backwards |-> view[c].backwards, limit |-> limit])
    /\ UNCHANGED view

\* All barrier locks held: snapshot the high-water mark and return it.
BarrierHwm(c) ==
    /\ pc[c] = "r_lock"
    /\ want[c] = {}
    /\ hwm' = [hwm EXCEPT ![c] = seq]
    /\ pc' = [pc EXCEPT ![c] = "r_end"]
    /\ UNCHANGED <<log, seq, want, held, cmds, todo, rows, rd, view, ret>>

\* DECLARE fixes the cursor's snapshot and its ORDER BY ... LIMIT; the client
\* then collects the page.
DeclareCursor(c) ==
    /\ pc[c] = "r_declare"
    /\ LET sel == Selected(log, rd[c], hwm[c])
       IN  \E page \in SUBSET sel :
              /\ IsPage(page, sel, rd[c])
              /\ view' = [view EXCEPT ![c].seen = @ \cup page]
    /\ pc' = [pc EXCEPT ![c] = "idle"]
    /\ rd' = [rd EXCEPT ![c] = NoRead]
    /\ hwm' = [hwm EXCEPT ![c] = 0]
    /\ UNCHANGED <<log, seq, want, held, cmds, todo, rows, ret>>

-------------------------------------------------------------------------------
(***************************************************************************)
(* Ends of transactions.  A transaction may also fail at any statement:    *)
(* the context is cancelled, the connection or the server is lost.  Its    *)
(* rows vanish, the positions it took do not come back, and its locks are  *)
(* released last.                                                          *)
(***************************************************************************)
\* A bug for the model to catch: session-level advisory locks, which outlive
\* the transaction.
EndTransactionKeepingLocks(c) ==
    /\ pc[c] \in {"end", "r_end"}
    /\ pc' = [pc EXCEPT ![c] = IF pc[c] = "end" THEN "idle" ELSE "r_declare"]
    /\ cmds' = [cmds EXCEPT ![c] = <<>>]
    /\ hwm' = [hwm EXCEPT ![c] = IF pc[c] = "end" THEN 0 ELSE @]
    /\ UNCHANGED <<log, seq, want, held, todo, rows, rd, view, ret>>

\* Locks are released and the call returns, or a read goes on to its cursor.
EndTransaction(c) ==
    /\ pc[c] \in {"end", "r_end"}
    /\ held' = [held EXCEPT ![c] = {}]
    /\ pc' = [pc EXCEPT ![c] = IF pc[c] = "end" THEN "idle" ELSE "r_declare"]
    /\ cmds' = [cmds EXCEPT ![c] = <<>>]
    /\ hwm' = [hwm EXCEPT ![c] = IF pc[c] = "end" THEN 0 ELSE @]
    /\ UNCHANGED <<log, seq, want, todo, rows, rd, view, ret>>

\* The transaction ended as above, but the reply did not reach the caller.
LoseReply(c) ==
    /\ pc[c] = "end"
    /\ ret[c].kind # "error"
    /\ ret' = [ret EXCEPT ![c] = Error]
    /\ UNCHANGED <<log, seq, pc, want, held, cmds, todo, rows, rd, hwm, view>>

Abort(c) ==
    /\ pc[c] \notin {"idle", "end"}
    /\ pc' = [pc EXCEPT ![c] = "end"]
    /\ want' = [want EXCEPT ![c] = {}]
    /\ todo' = [todo EXCEPT ![c] = {}]
    /\ rows' = [rows EXCEPT ![c] = {}]
    /\ rd' = [rd EXCEPT ![c] = NoRead]
    /\ ret' = [ret EXCEPT ![c] = Error]
    /\ UNCHANGED <<log, seq, held, cmds, hwm, view>>

-------------------------------------------------------------------------------
\* A client calls Append or Read.
Call(c) ==
    \/ /\ c \in Writers
       /\ \E cs \in AppendInputs : AppendRejected(c, cs) \/ AppendCall(c, cs)
    \/ /\ c \in Readers
       /\ \E limit \in ReadLimits :
             \/ \E q \in ReadQueries, backwards \in BOOLEAN : ReadFirst(c, q, backwards, limit)
             \/ ReadMore(c, limit)

\* What the server does for a client whose call is in progress.
Step(c) ==
    \/ SnapshotHwm(c) \/ CheckConditionsPass(c) \/ CheckConditionsFail(c)
    \/ InsertRow(c) \/ Commit(c)
    \/ BarrierHwm(c) \/ DeclareCursor(c)
    \/ EndTransaction(c)

Next ==
    \E c \in Clients : Call(c) \/ AcquireLock(c) \/ Step(c) \/ LoseReply(c) \/ Abort(c)

Spec == Init /\ [][Next]_vars

-------------------------------------------------------------------------------
(***************************************************************************)
(* Properties.                                                             *)
(***************************************************************************)

\* Between an append's condition check and its commit, no event appears that
\* violates one of its conditions: at any position, not only up to the
\* high-water mark the check looked at.  The leaf locks of events and
\* conditions are what keeps such an event away.
ConditionsHoldUntilCommit ==
    \A c \in Clients : pc[c] = "a_insert" =>
        \A i \in DOMAIN cmds[c] : ~Violates(log, cmds[c], i)

\* Once a forward read has returned an event, every committed event that it
\* filters for at a lower position has been returned too, now and for ever:
\* positions are allocated before commit, yet a reader that pages on from its
\* last event never misses one that committed late.
ForwardReadsNeverSkip ==
    \A c \in Clients : ~view[c].backwards =>
        \A s \in view[c].seen, r \in log :
            ReadMatches(view[c].query, r) /\ r.pos <= s.pos => r \in view[c].seen

\* When a read's barrier has all of its locks and takes the high-water mark,
\* no transaction has an uncommitted row that the read filters for, whichever
\* leaf and intent keys the two of them locked.  Subscribe's drain relies on
\* the same barrier.
BarrierExcludesWriters ==
    \A c \in Clients : pc[c] = "r_lock" /\ want[c] = {} =>
        \A d \in Clients : \A r \in rows[d] : ~ReadMatches(rd[c].query, r)

\* `after` is the newest position in `seen`, Nil when nothing was seen.
IsNewest(seen, after) ==
    IF after = Nil THEN seen = {}
    ELSE /\ \E s \in seen : s.pos = after
         /\ \A s \in seen : s.pos <= after

\* The pattern DCB exists for: a client reads a query, decides, and appends
\* on condition that nothing matching the query follows the newest event it
\* saw.  When the append gets past its check, the client has seen every
\* committed event that matches, however its pages and its append
\* interleaved with other writers.
DecisionIsCurrent ==
    \A c \in Clients : pc[c] = "a_insert" /\ ~view[c].backwards =>
        \A i \in DOMAIN cmds[c] :
            LET cond == cmds[c][i].condition IN
            (/\ cond # Nil
             /\ cond.failIfEventsMatch = view[c].query
             /\ IsNewest(view[c].seen, cond.after))
            => \A r \in log : MatchesQuery(view[c].query, r) => r \in view[c].seen

\* Client c waits for a lock that some other client in S holds, whichever of
\* its next requests it makes first.
WaitsFor(c, S) ==
    /\ want[c] # {}
    /\ \A l \in NextLocks(c) :
          \E d \in S \ {c} : \E h \in held[d] : Conflict(l, h)

\* No set of clients waits in a cycle for each other's locks: leaf and
\* intent keys of both modes are requested in one ascending order, by
\* writers and by reader barriers alike.
NoDeadlock ==
    \A S \in (SUBSET Clients) \ {{}} : \E c \in S : ~WaitsFor(c, S)

\* A read returns only events that match its query.
ReadsReturnMatches ==
    \A c \in Clients : \A r \in view[c].seen : MatchesQuery(view[c].query, r)

\* What read.go says of backwards reads: they "can't advance past an
\* invisible gap", so that an event between two that were returned has been
\* returned too.
BackwardsReadsNeverSkip ==
    \A c \in Clients : view[c].backwards =>
        \A s, t \in view[c].seen, r \in log :
            ReadMatches(view[c].query, r) /\ s.pos <= r.pos /\ r.pos <= t.pos
                => r \in view[c].seen

\* What copy_conformance_test.go says of the two append paths: they are
\* behaviourally identical, so that an event is stored with the tags it was
\* appended with, whichever path its call took.
RowsKeepTheirTags ==
    \A r \in log : \E cs \in AppendInputs : \E s \in Slots(cs) :
        r.type = EventAt(cs, s).type /\ r.tags = EventAt(cs, s).tags

Dcb == INSTANCE DcbContract WITH call <- cmds, InitialLogs <- {{}}

\* The Postgres store implements the contract: each call takes effect at one
\* step, its commit or its failed check, with every condition true of the
\* whole log at that step and no reader's prefix disturbed.
RefinesContract == Dcb!Contract

\* Every call returns: the locks it waits for are released in the end.
CallsReturn == \A c \in Clients : pc[c] # "idle" ~> pc[c] = "idle"
===============================================================================
