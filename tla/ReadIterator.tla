----------------------------- MODULE ReadIterator -----------------------------
(***************************************************************************)
(* What Read of the Postgres store does with connections, and the iterator *)
(* it returns (postgres/read.go, cursor.go, position.go and the payload    *)
(* encoding of serialize.go).  Which rows a cursor selects is the affair   *)
(* of ReadSQL and PgStore; here the result is any of Results, and the      *)
(* question is whether the caller gets all of it, and the pool gets its    *)
(* connections back.                                                       *)
(*                                                                         *)
(* A caller reads, iterates (appending in the loop body if it likes) and   *)
(* closes, as Collect and All do, over and over.                           *)
(***************************************************************************)
EXTENDS Integers, Sequences, FiniteSets

CONSTANTS
    Callers,     \* goroutines that call Read
    Results,     \* what a cursor may return: sequences of appended events
    Afters,      \* values of ReadOptions.After
    PoolSize,    \* connections in the pool
    BatchSize,   \* readBatchSize
    IntMax       \* the largest bigint

-------------------------------------------------------------------------------
(***************************************************************************)
(* Payloads.  Data is nil, JSON, or other bytes; Metadata is treated the   *)
(* same way and left out.  A stored row has the payload as text, which is  *)
(* a JSON document or not.  The tags of a row are read back with TagsFrom. *)
(***************************************************************************)
AppendedEvent == [pos: Nat \ {0}, data: {"nil", "json", "bytes"}, tags: SUBSET {"tag", ""}]

ASSUME ReadIteratorAssumption ==
    /\ Results \subseteq Seq(AppendedEvent)
    /\ Afters \subseteq Nat
    /\ PoolSize \in Nat \ {0}
    /\ BatchSize \in Nat \ {0}
    /\ IntMax \in Nat

\* A bug for the model to catch: nil is written as the empty string.
WriteNothingForNil(data) == IF data = "nil" THEN "bytes" ELSE data

serializePayload(data) == IF data = "nil" THEN "json" ELSE data

\* No tag that is appended has whitespace, so that of a row can only be empty.
isValidTagToken(t) == t # ""

Decodable(r) == serializePayload(r.data) = "json" /\ \A t \in r.tags : isValidTagToken(t)

SequencedEvent == [pos: Nat \ {0}, tags: SUBSET {"tag"}]

rowToSequencedEvent(r) == [pos |-> r.pos, tags |-> r.tags]

-------------------------------------------------------------------------------
VARIABLES
    pool,   \* free connections
    it      \* each caller's Read call and iterator

vars == <<pool, it>>

(***************************************************************************)
(* In Read: "b_acquire" and "barrier" (barrierSnapshot), "r_acquire",      *)
(* "begin", "declare".  With an iterator: "open" in the caller's hands,    *)
(* "next" in Next, "end" when Next has returned false; "append",           *)
(* "appending" and "again" when the loop body calls Append.                *)
(*                                                                         *)
(* `conn` is the transaction status of the connection that the call holds. *)
(* `result` and `yielded` are what the cursor was declared for and what    *)
(* Next has yielded; `broken` says that a statement was cut short, by a    *)
(* lost connection or by a cancellation that caught it in flight; `lost`   *)
(* that Close gave up the connection.                                      *)
(***************************************************************************)
Iterator ==
    [pc: {"idle", "b_acquire", "barrier", "r_acquire", "begin", "declare",
          "open", "again", "next", "end", "append", "appending", "panic"},
     after: Nat, canceled: BOOLEAN,
     conn: {"none", "idle", "tx", "failed", "dead"},
     cursor: Seq(AppendedEvent), buffer: Seq(AppendedEvent), idx: Nat,
     exhausted: BOOLEAN, err: BOOLEAN,
     result: Seq(AppendedEvent), yielded: Seq(SequencedEvent),
     broken: BOOLEAN, lost: BOOLEAN]

NoIterator ==
    [pc |-> "idle", after |-> 0, canceled |-> FALSE, conn |-> "none",
     cursor |-> <<>>, buffer |-> <<>>, idx |-> 0, exhausted |-> FALSE,
     err |-> FALSE, result |-> <<>>, yielded |-> <<>>,
     broken |-> FALSE, lost |-> FALSE]

TypeOK == pool \in 0..PoolSize /\ it \in [Callers -> Iterator]

Init == pool = PoolSize /\ it = [c \in Callers |-> NoIterator]

Put(c, i) == it' = [it EXCEPT ![c] = i]

-------------------------------------------------------------------------------
(***************************************************************************)
(* Read.                                                                   *)
(***************************************************************************)
ReadCall(c, after, backwards) ==
    /\ it[c].pc = "idle"
    /\ Put(c, [NoIterator EXCEPT !.pc = IF backwards THEN "r_acquire" ELSE "b_acquire",
                                 !.after = after])
    /\ UNCHANGED pool

Acquire(c) ==
    /\ it[c].pc \in {"b_acquire", "r_acquire", "append"}
    /\ ~it[c].canceled
    /\ pool > 0
    /\ pool' = pool - 1
    /\ Put(c, CASE it[c].pc = "b_acquire" -> [it[c] EXCEPT !.pc = "barrier", !.conn = "idle"]
                [] it[c].pc = "r_acquire" -> [it[c] EXCEPT !.pc = "begin", !.conn = "idle"]
                [] it[c].pc = "append"    -> [it[c] EXCEPT !.pc = "appending"])

\* barrierSnapshot has its result and its connection is back.
Barrier(c) ==
    /\ it[c].pc = "barrier"
    /\ pool' = pool + 1
    /\ Put(c, [it[c] EXCEPT !.pc = "r_acquire", !.conn = "none"])

Begin(c) ==
    /\ it[c].pc = "begin"
    /\ Put(c, [it[c] EXCEPT !.pc = "declare", !.conn = "tx"])
    /\ UNCHANGED pool

\* positionToInt64 panics on a position that is no bigint.
Overflows(pos) == pos > IntMax

\* buildReadSQL needs After as a bigint; DECLARE fixes what the iterator will
\* return.
Declare(c) ==
    /\ it[c].pc = "declare"
    /\ IF Overflows(it[c].after)
         THEN Put(c, [it[c] EXCEPT !.pc = "panic"])
         ELSE \E rows \in Results :
                 Put(c, [it[c] EXCEPT !.pc = "open", !.cursor = rows, !.result = rows])
    /\ UNCHANGED pool

\* Bugs for the model to catch: an error path forgets the Release, or has it
\* before there is a connection.
KeptAfterError(c) == pool
ReleasedRegardless(c) == pool + 1

\* Every error path of Read gives back the connection it has.
ReleasedAfterError(c) == IF it[c].conn = "none" THEN pool ELSE pool + 1

\* A statement fails, or ctx is done before it is sent: Read returns an error.
ReadFails(c, fault) ==
    /\ it[c].pc \in {"b_acquire", "barrier", "r_acquire", "begin", "declare"}
    /\ fault \/ it[c].canceled
    /\ pool' = ReleasedAfterError(c)
    /\ Put(c, NoIterator)

-------------------------------------------------------------------------------
(***************************************************************************)
(* The iterator.                                                           *)
(***************************************************************************)
\* Next returns true; Event is buffer[idx-1].
Yield(i) == [i EXCEPT !.pc = "open",
                      !.yielded = Append(@, rowToSequencedEvent(i.buffer[i.idx]))]

\* Next without a round trip: an error, the next row of the batch, or the
\* end; otherwise it has to FETCH.
NextRow(c) ==
    LET i == it[c] IN
    /\ i.pc \in {"open", "again", "end"}
    /\ Put(c, IF i.err THEN [i EXCEPT !.pc = "end"]
              ELSE IF i.idx < Len(i.buffer) THEN Yield([i EXCEPT !.idx = @ + 1])
              ELSE [i EXCEPT !.pc = IF i.exhausted THEN "end" ELSE "next"])
    /\ UNCHANGED pool

\* A bug for the model to catch: a full batch is taken for the last one.
FullBatchIsLast(n) == n <= BatchSize

ShortBatch(n) == n < BatchSize

\* FETCH BatchSize rows.  A row that does not decode makes the whole batch
\* an error.
Fetch(c) ==
    LET i     == it[c]
        n     == IF Len(i.cursor) < BatchSize THEN Len(i.cursor) ELSE BatchSize
        batch == SubSeq(i.cursor, 1, n)
        j     == [i EXCEPT !.cursor = SubSeq(@, n + 1, Len(@)), !.buffer = batch,
                           !.idx = 1, !.exhausted = ShortBatch(n)]
    IN
    /\ i.pc = "next"
    /\ ~i.canceled
    /\ Put(c, IF \E k \in 1..n : ~Decodable(batch[k])
                THEN [i EXCEPT !.pc = "end", !.err = TRUE,
                               !.cursor = SubSeq(@, n + 1, Len(@))]
              ELSE IF n > 0 THEN Yield(j) ELSE [j EXCEPT !.pc = "end"])
    /\ UNCHANGED pool

\* ctx is done and nothing is sent; or the server reports an error; or the
\* connection is lost or was closed because ctx ended during the FETCH.
FetchFails(c, conn) ==
    /\ it[c].pc = "next"
    /\ conn = "tx" => it[c].canceled
    /\ Put(c, [it[c] EXCEPT !.pc = "end", !.err = TRUE, !.conn = conn,
                            !.broken = conn # "tx"])
    /\ UNCHANGED pool

\* A bug for the model to catch: Close sends CLOSE and ROLLBACK with the
\* context of the read.
CleanWithReadCtx(i) == i.conn # "dead" /\ ~i.canceled

\* CLOSE and ROLLBACK are sent with a context of their own, so they reach
\* the server unless the connection is dead.
Cleaned(i) == i.conn # "dead"

\* A connection that is not idle when it is released is discarded by the
\* pool, which opens another in its place.
Close(c) ==
    /\ it[c].pc \in {"open", "again", "end"}
    /\ pool' = pool + 1
    /\ Put(c, [it[c] EXCEPT !.pc = "idle", !.conn = "none", !.lost = ~Cleaned(it[c])])

-------------------------------------------------------------------------------
(***************************************************************************)
(* The caller.                                                             *)
(***************************************************************************)
\* The loop body calls Append, which needs a connection of its own.
AppendInBody(c) ==
    /\ it[c].pc = "open"
    /\ it[c].yielded # <<>>
    /\ Put(c, [it[c] EXCEPT !.pc = "append"])
    /\ UNCHANGED pool

AppendReturns(c) ==
    /\ \/ it[c].pc = "appending" /\ pool' = pool + 1
       \/ it[c].pc = "append" /\ it[c].canceled /\ UNCHANGED pool
    /\ Put(c, [it[c] EXCEPT !.pc = "again"])

Cancel(c) ==
    /\ it[c].pc \notin {"idle", "panic"}
    /\ ~it[c].canceled
    /\ Put(c, [it[c] EXCEPT !.canceled = TRUE])
    /\ UNCHANGED pool

Step(c) ==
    \/ Barrier(c) \/ Begin(c) \/ Declare(c) \/ ReadFails(c, FALSE)
    \/ NextRow(c) \/ Fetch(c) \/ FetchFails(c, "tx") \/ AppendReturns(c)
    \/ it[c].pc = "end" /\ Close(c)

Next ==
    \E c \in Callers :
        \/ \E after \in Afters, backwards \in BOOLEAN : ReadCall(c, after, backwards)
        \/ Acquire(c) \/ Step(c)
        \/ ReadFails(c, TRUE)
        \/ \E conn \in {"failed", "dead"} : FetchFails(c, conn)
        \/ Close(c) \/ AppendInBody(c) \/ Cancel(c)

Spec == Init /\ [][Next]_vars

\* Callers run and close what they have iterated over; the pool serves its
\* waiters in order.
FairSpec == Spec /\ \A c \in Callers : WF_vars(Step(c)) /\ SF_vars(Acquire(c))

-------------------------------------------------------------------------------
(***************************************************************************)
(* Properties.                                                             *)
(***************************************************************************)

\* What Next has yielded is always the beginning of the result, row by row,
\* across batches; and when it returns false without an error, whether the
\* last batch was short, full or empty, that is all of it.
IterationIsComplete ==
    \A c \in Callers :
        LET i == it[c] IN
        /\ Len(i.yielded) <= Len(i.result)
        /\ \A k \in DOMAIN i.yielded : i.yielded[k].pos = i.result[k].pos
        /\ i.pc = "end" /\ ~i.err => Len(i.yielded) = Len(i.result)

\* An event that Append takes and Read cannot return: its data is no JSON, or
\* it has an empty tag.
Unreadable(r) == r.data = "bytes" \/ "" \in r.tags

\* Where no statement failed and ctx did not end, only an unreadable event
\* stops an iteration, and only when its batch is due: all events before that
\* batch are yielded, and no unreadable one ever is.
OnlyUnreadableStops ==
    \A c \in Callers :
        LET i == it[c]
            n == Len(i.yielded) IN
        /\ \A k \in 1..n : ~Unreadable(i.result[k])
        /\ i.err /\ ~i.canceled /\ ~i.broken =>
              \E k \in (n + 1)..(n + BatchSize) : k <= Len(i.result) /\ Unreadable(i.result[k])

\* What event.go says: "Data and Metadata are opaque", so that an iteration
\* fails only when a statement failed or ctx ended.
EventsStayReadable ==
    \A c \in Callers : it[c].err => it[c].canceled \/ it[c].broken

\* Who has a connection: a call for its read, or for the append of its body.
Holders ==
    {h \in Callers \X {"read", "append"} :
        IF h[2] = "read" THEN it[h[1]].conn # "none" ELSE it[h[1]].pc = "appending"}

\* A connection is in the pool or with a call that has yet to give it back:
\* no path through Read, Next, Close or an append in the loop body leaks one
\* or gives one back twice, whatever fails on the way.
PoolConserved == pool + Cardinality(Holders) = PoolSize

\* Close returns the connection in working order unless a statement on it
\* was cut short; ending ctx between two statements does not cost one.
CloseKeepsConnection == \A c \in Callers : it[c].lost => it[c].broken

\* Callers that wait for a connection to append while they hold that of their
\* iterator, or that panicked with one, have all connections between them.
Starved ==
    Cardinality({c \in Callers : it[c].pc \in {"append", "panic"}}) = PoolSize

\* Every Read comes to an end, unless it panics on a position that is no
\* bigint: there are only two ways to use the pool up for good, and no
\* sequence of calls, failures and cancellations is a third.
ReadsEnd ==
    \/ <>[]Starved
    \/ \A c \in Callers : it[c].pc # "idle" ~> it[c].pc \in {"idle", "panic"}

\* What eventstore/store.go says: the iterator "is bounded: it terminates
\* once matching events are exhausted", whatever else the caller does.
EveryReadEnds == \A c \in Callers : it[c].pc # "idle" ~> it[c].pc = "idle"

\* What position.go says: every position "either came from int64ToPosition
\* or from SequencePositionInitial", so that none is too large.
ReadNeverPanics == \A c \in Callers : it[c].pc # "panic"
===============================================================================
