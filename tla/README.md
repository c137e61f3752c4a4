# Verification of dcb-event-store-pg-go

TLA+ models of the event store in this repository (packages `eventstore`,
`memory` and `postgres`), the TLC runs that check them on small instances, and
TLAPS proofs of the central safety properties for every instance. Paths below
are relative to the repository root, which is called `src/` in `PROJECT.json`.

The system implements *Dynamic Consistency Boundaries*: a client reads the
events that match a query, decides, and appends on the condition that nothing
matching the query has been added after what it saw. Everything hard about the
code is in making that safe between concurrent clients of Postgres without a
global lock.

## 1. Inventory

| component | state | operations | what is hard | what makes it correct |
|---|---|---|---|---|
| contract and types (`eventstore/`) | none | query matching, condition validation | three readings of one query (memory, read SQL, condition SQL) | they agree |
| lock keys (`postgres/lockkeys.go`) | none | `computeWriterLockKeys`, `computeReaderLockKeys` | keys and modes must make exactly the dangerous pairs conflict | a condition conflicts with every event it could match, a barrier with every writer it filters for |
| Append (`postgres/append.go`, `events_append` and `events_check_conditions` in `postgres/store.go`) | events table, position sequence, advisory locks, the open transaction | lock, snapshot the high-water mark, check, insert, commit; two paths, procedure and COPY | interleaving between statements and locks, write skew, failures between positions and commit, lost replies | a checked condition still holds at commit; no deadlock; all or nothing |
| Read (`postgres/read.go`, `readsql.go`, `events_barrier_hwm`) | barrier locks, cursor snapshot | barrier, DECLARE, FETCH | positions are allocated before commit, so low positions appear late; barrier and scan are two transactions | a forward reader never misses an event |
| cursor iterator (`postgres/cursor.go`) | connection, buffer, `exhausted` | Next, Close | batch boundary, failure between batches, rows that do not decode | yields exactly the cursor's rows; the pool gets its connection back |
| Subscribe (`postgres/subscribe.go`) | listener connection, position, pending events | Next, Close | lost notifications, poll, cancellation, pool exhaustion, Close during Next | every event in order, once, in the end |
| construction and installation (`New`, `EnsureInstalled`) | names, session-level migration lock, schema | create everything | concurrent starts; the unlock uses the caller's context; the server cuts off and folds names | nil means complete; one migration at a time; lock released |
| in-memory store (`memory/`) | slice, mutex, broadcast channel, iterator | Append, Read, Subscribe, Next | lost wake-up, select between broadcast and cancellation | the same contract; no lost wake-up |
| conformance suite (`eventstore/eventstoretest`) | none | tests | | states the intent |

Interaction: a Postgres `Append` and the barrier of a `Read` meet only in
advisory locks and in the sequence; `Append` tells `Subscribe` through
`pg_notify`; `Subscribe` drains with `Read`; all take connections from one
pool. In memory, everything meets in one mutex and one channel that `Append`
closes and replaces.

`PROJECT.json` lists every component and, under `hazards`, what in this code a
test would hardly reach, each at its line.

## 2. Modules

| module | contents |
|---|---|
| `EventStore` | data types; `MatchesQuery`, `ValidateAppendCondition`, pages of a read. No state. |
| `LockKeys` | the lock sets, over *arbitrary* hash functions (constants `LeafHash`, `TypeHash`, `GlobalHash`) |
| `ReadSQL` | what `buildReadSQL` selects. No state. |
| `PgStore` | Append and Read as concurrent transactions, with their properties |
| `PgSnapshots` | `PgStore` with the log as it was when each call began: isolation level, recency, fairness |
| `PgSubscribe` | Subscribe: drain, LISTEN/NOTIFY, poll, cancellation, Close, connection pool |
| `ReadIterator` | the connections of a Read, the cursor iterator, payload and position codecs |
| `Install` | names, `EnsureInstalled`, the migration lock on pooled connections |
| `MemoryStore` | the in-memory store, with its properties |
| `DcbContract` | abstract: what `eventstore.Store` promises of Append and Read |
| `StreamContract` | abstract: what it promises of Subscribe |
| `Conformance` | the sequential tests of `eventstoretest`, as data |
| `ConformanceSuite` | those tests and the concurrency tests, run against the models of both stores |
| `EventStoreProofs` | lemmas about slots, positions and streams that several proofs share |
| `PgStoreInv`, `PgStoreProofs` | the inductive invariant of `PgStore`, and theorems |
| `PgRefinementProofs` | `PgStore` implements `DcbContract`; `PgSnapshots` implements `PgStore`; what holds at any isolation level |
| `PgSubscribeProofs`, `MemoryStoreProofs`, `ReadIteratorProofs`, `InstallProofs` | inductive invariants and theorems of those components |
| `ConformanceSuiteProofs` | both stores pass the concurrency tests, for any number of goroutines |
| `MC...` | finite instances for TLC |

`PgStore` EXTENDS `LockKeys` and `ReadSQL`, which EXTEND `EventStore`;
`PgStoreInv`, `PgSnapshots` and `ConformanceSuite` EXTEND `PgStore`. Both stores
instantiate `DcbContract`; `MemoryStore` and `PgSubscribe` instantiate
`StreamContract`. Definitions whose comment begins "A
bug for the model to catch" are deliberately wrong variants of the definition
that follows; they are not part of any specification, and show that the
properties notice.

### EventStore and LockKeys

Event types and tags are opaque. An event's `Data` and `Metadata` are opaque to
every operation and left out. A stored event is a record `[pos, type, tags]`.
Position 0 is `SequencePositionInitial`; stored events start at 1. A lock is a
key with a mode; a key is what the hash constants say. No assumption makes
hashes injective, so collisions are covered, including those of the
concatenation `"L:" + type + "|" + tag`.

### PgStore

A client is a goroutine with one call at a time. One statement of its
transaction is one action; a lock statement and an INSERT or COPY are one action
per lock and per row, because that is where other transactions get in.

| action | code |
|---|---|
| `AppendRejected` | the early returns of `Append` |
| `AppendCall` | keys computed, lock statement sent |
| `AcquireLock` | one row of the `ORDER BY k` lock statement (`acquireWriterLocksSQL`, `events_append`, `events_barrier_hwm`) |
| `SnapshotHwm` | `pg_sequence_last_value` with `COALESCE` |
| `CheckConditionsPass`, `CheckConditionsFail` | `events_check_conditions` and the exception it leads to; the procedure's shortcut for a single condition row has the same meaning |
| `InsertRow` | one row: `nextval`, the tags as this path stores them |
| `Commit` | `currval`, then the rows become visible |
| `EndTransaction` | locks are released, the call returns; a read goes on to its cursor |
| `ReadFirst`, `ReadMore` | a Read from the start, or with `After` the last row seen |
| `BarrierHwm` | end of the barrier procedure |
| `DeclareCursor` | `buildReadSQL` evaluated in the snapshot of `DECLARE`; the caller collects the page |
| `Abort` | any statement fails: context, connection or server |
| `LoseReply` | the transaction ended, the caller gets an error all the same |

External behaviour, modelled from how the code uses it: advisory locks are
granted when no *other* transaction holds a conflicting one; the sequence does
not roll back; each statement sees what was committed when it started (Read
Committed); a commit is visible before its locks are free. The stored-procedure
path does not ask for Read Committed, so `PgStore` is of a server with its
default setting; `PgSnapshots` has the setting as a constant. The two paths differ in how tags travel: one delimited string,
cut up again by `string_to_array`, or an array. `SplitTag` gives what the cut
makes of a tag. `view` is a history of what a client's reads have told it; the
code has no such variable.

### DcbContract

State: the log, each client's call, view and outcome. An append succeeds in one
step, with no condition violated by the whole log at that step and with no new
row behind what a forward reader has seen; or it fails at a step where its first
violated condition is violated; or it fails for other reasons, possibly after it
took effect. A forward read returns matching rows without a gap. Backwards reads
are only promised rows that match: the Postgres store gives no more (section 4).

### MemoryStore

What a goroutine does under the mutex is one action. The broadcast channel is a
generation number: `Append` closes generation *n* and makes *n+1*, so an
iterator waiting on a lower generation is ready. `first`, `delivered` and
`canceled` of a subscription are history. The `select` is two actions, since Go
picks either ready case. The slice is modelled by the set of its rows, and
`lastPosition` by the greatest position in it, which is the last element's as
long as the slice is in position order. `Append` keeps it so; a call of `New`
with events out of order, which its signature permits, is outside the model.

### StreamContract

State: the log and, per subscriber, the query, the starting point and the events
yielded so far. A stream yields the first matching event it has not yielded;
the log never grows behind what a stream has yielded; a stream may end.

### PgSubscribe

One action per statement or return of `Subscribe`, `Next`, `drain` and `Close`
(the module's table of control points names them). A subscription holds its
listener's connection from `AcquireListener` to `CloseRelease`, and a second one
during the barrier and again from `Declare` to the end of `Collect`; an append
holds one while it is in progress.

`Append` is reduced to its rows, which take positions one by one and are then
committed together or aborted, and the barrier to a guard: no uncommitted row
matches the query. For safety that is what `PgStore` shows of the two: its
`BarrierExcludesWriters`, proved in `PgRefinementProofs` at any isolation level,
says that when a barrier has all its locks the guard is true. The locks also make
a barrier wait for appends that have no row yet, which costs time only and is left
to `CallsReturn` of `pg_calls`. `Collect` is atomic here; its batches are
`ReadIterator`. A notification reaches every connection that has executed
LISTEN and stays with it until the next wait; with `Lossy` it may not. `inbox` is
one bit, since several notifications wake a waiter no differently from one: the
code drains everything either way. `first`, `delivered`, `canceled`, `missed` (a
notification was lost) and `faulty` are history.

`WaitEnds` is the wait with all that can come of it: a notification, the poll's
deadline, the end of the subscription's context, a lost connection. Several can
be possible at once, and `GoesOn` and `IsError` are what `Next` makes of the one
that `WaitForNotification` returned. `Close` is two actions that may fall
anywhere, also between the steps of a `Next` in another goroutine:
`event_iterator.go` forbids that, a test does it (section 4). From then on the
subscription has no listener, and a `Next` that gets to its wait panics.

### ReadIterator

A caller's Read call and iterator: control point, transaction status of the
connection, buffer, index, `exhausted`, `err`; and the number of free
connections in the pool. Which rows the cursor returns is any member of
`Results`. Data is nil, JSON or other bytes; `serializePayload` says what is
stored and `Decodable` whether it can be read back, as `json.Unmarshal` and
`TagsFrom` decide it; `Unreadable` says the same of the event as it was appended.
`Holders` are the reads and the appends of loop bodies that have a connection. `Close` sends CLOSE and ROLLBACK with a context of its
own; the pool discards a connection that is released in a transaction and opens
another, so the count goes up either way, and `lost` records that it happened.

### Install

A call's control point, connection and remaining statements; the schema as the
set of objects created; the migration lock as holder and depth, because a
session that already has it gets it again. A call can fail at every statement:
not sent, refused, or the connection gone, with or without the statement's
effect. A cancelled context leaves the unlock unsent. Names are a length and a
case: Postgres cuts an identifier off at 63 characters, and folds it unless it
is quoted.

### Conformance and ConformanceSuite

A test is the sequence of calls it makes of a fresh store, each with what it
asserts of the result. The models of both stores are driven through them as the
suite drives the stores: they are the repository's own check on whether the
models say what the code does. The concurrency tests release all goroutines at
once; here, in every interleaving. A behaviour runs one test against one store.
The clients of the two stores have the same variables, so `MemoryStore` is
instantiated on those of `PgStore`.

## 3. Passing runs

| run | instance | checks |
|---|---|---|
| `pg_append` | 3 writers, 7 argument lists, 4 positions | `TypeOK`, `ConditionsHoldUntilCommit` |
| `pg_calls` | 2 writers, one of whom also reads, queries of each lock shape, 3 positions; server default Repeatable Read, appends on both paths; fairness | `ForwardReadsNeverSkip`, `BarrierExcludesWriters`, `CopyConditionsHold`, `ReadsAreRecent`, `CallsReturn` |
| `pg_contract` | 1 client that reads and appends on what it read, 2 writers in its scope that do not conflict with each other, 3 positions | `RefinesContract`, `DecisionIsCurrent`, `NoDeadlock` |
| `pg_subscribe` | 1 subscriber, 2 writers, 3 positions, pool of 3, lossy notifications, failures, `Close` at any time; fairness | `TypeOK`, `DeliversInOrder`, `NoLostWakeup`, `NothingNewAfterCancel`, `StopsCleanly`, `RefinesStream`, `EventuallyDelivered`, `CancelStops` |
| `read_iterator` | 2 callers who append in the loop body, pool of 2, batches of 2, results of 0 to 4 rows, some unreadable, positions up to and above the largest bigint; fairness | `TypeOK`, `IterationIsComplete`, `OnlyUnreadableStops`, `PoolConserved`, `CloseKeepsConnection`, `ReadsEnd` |
| `install` | 2 callers, 2 connections, table name of 60 characters; fairness | `TypeOK`, `OneMigrationAtATime`, `InstalledMeansComplete`, `InstallReturns` |
| `memory_store` | 2 appenders, one of whom also reads, 1 subscriber, empty and seeded store; fairness | `TypeOK`, `RefinesContract`, `DeliversInOrder`, `NoLostWakeup`, `EventuallyDelivered`, `CancelStops`, `RefinesStream` |
| `conformance` | both stores, 26 sequential tests, 3 concurrency tests with 3 goroutines | `TestsPass`, `RacesPass` |

What they show, beyond the names. `pg_calls`: whatever
the condition checks see, reads miss nothing, and a barrier and its scan, two
transactions, together return all that was committed when Read was called. The
COPY path asks for Read Committed, so its appends commit on no
violated condition whatever the server's default, although the calls through the
procedure that they compete with may do so there (`pg_isolation`, section 4). `pg_subscribe`: an append that commits late, below an event already
yielded, never happens behind a subscription's back, because every drain goes
through the barrier; LISTEN before the first drain means that a wait with no
notification at hand has missed nothing but what the server lost; and for that
there is the poll, whose deadline is not taken for an error. `StopsCleanly` and `NothingNewAfterCancel` hold wherever in a
drain the cancellation strikes, since `drain` uses the subscription's own
context. `read_iterator` covers a full last batch, which takes one more, empty,
FETCH, and an unreadable event in the first or in a later batch. Its pool is
small enough to be used up, by callers that append while they iterate and by
callers that panicked, and `ReadsEnd` says that nothing else uses it up. `install`: interrupted migrations never let two run at once, and whoever
gets nil finds everything there.

*Bounds.* `MaxPos` bounds the sequence: an Append call starts only if it and the
calls in progress cannot take it further. `MaxEvents` of `MemoryStore` stops new
calls once that many events are there. Two writers are enough for write skew and
for a late commit below an early one, and a third (in `pg_append`) can come in
between a check and a commit of either of two others that already hold locks. Two
event types and one tag give conflicting, disjoint and partly overlapping leaf
sets; queries for tags, for types only and for everything give each lock shape of
the barrier. `CopyThreshold = 1` sends calls of one event through the procedure
and calls of two through COPY. No run has the threshold of 0, of which `New` makes
10000. Only `copy_conformance_test.go` sets it, in the struct;
`MCConformanceCopy.cfg` runs `ConformanceSuite` that way, with the same result as
`conformance`.
Lock keys are distinct, with intent keys between leaf keys, so that
both kinds are acquired in mixed order; one query of `pg_calls` has a type-only
item and an item with a tag, so that its barrier mixes modes against writers that
mix them the other way round. `pg_contract` needs three clients and three
positions: 2 is committed and read while 1 is in flight in the same scope, and
the decision becomes 3. Symmetry permutes clients that only write among
themselves; no run with a liveness property uses it.

`pg_subscribe` needs two writers for a commit out of order and a third position
for an event after the drain that it happens to. A subscription needs two of the
pool's three connections, and the writers can hold two, so drains wait for
appends and appends for drains; one query, which half of the events match, leaves
room for `Close` at every step. In `read_iterator` the pool has as
many connections as there are iterators. `BatchSize` is 2 for the code's 5000, and results
have sizes around one batch. A `TableLength` of 60 is the longest for which the
two index names differ. `MaxDepth` bounds how often the migration lock can be
left behind on one connection, `Large` stands for the 100 000 events of the suite's
largest test.

*Deadlock checking* is on except where the system may come to rest:
`PgSubscribe`, once every subscription has ended and the bound on positions is
reached, and `ReadIterator`, once every caller has panicked. Idle clients of
`PgStore` can always start a read or a rejected append, so TLC's own deadlock
check says little there; `NoDeadlock` states the absence of a waiting cycle
directly.

*Fairness.* `PgSnapshots`: weak fairness of each client's statements (the server
executes what it was sent), and strong fairness of each client's lock requests.
Postgres queues requests for a key in order, so a request that is grantable again
and again is granted. With three or more clients strong fairness alone is weaker
than that queue: shared locks that overlap in time can keep an exclusive request
from ever being grantable, which Postgres prevents by making later requests wait
behind it. `pg_calls` therefore has two clients, and a queue is on the plan. No
client has to make calls, and aborts are never required. `MemoryStore`: weak
fairness per goroutine (scheduler and mutex are fair enough for that), and a
consumer that calls `Next` again after it returned true. Its `CancelStops` relies on
the bound on appends: with endless appends the code gives no such guarantee (next
section). `PgSubscribe`: weak fairness of what a goroutine can do alone, the
passing of the poll interval and the return of a call whose context is done
included; strong fairness of taking a connection (pgxpool serves waiters in
order) and of the barrier's locks (as above; a single writer cannot hold them off
for ever, and two can only until the bound on positions); appends end; a consumer that `Next` told there is no more calls
`Close`, as `event_iterator.go` demands and the suite's `stop` does.
`ReadIterator`: callers run and close, connections are served in order.
`Install`: statements execute, waiters of pool and lock are served in order, and
pgxpool closes a connection at the end of its lifetime (`MaxConnLifetime`, an
hour by default): without that, `InstallReturns` fails behind a lock that was
left in the pool.

## 4. Where the code and its documentation disagree

Four runs state what a comment, a document or a test says and are refuted by TLC.

* `pg_backwards` (`postgres/read.go:11`). The comment says backwards reads
  "can't advance past an invisible gap". With positions 1 and 3 committed and 2
  in flight, a backwards read returns 3 and 1, then 2 commits between them.
* `pg_overlap` (`postgres/readsql.go:90`). `tags &&` returns events that share
  *a* tag with the item; `eventstore/query.go` says the event's tags are a
  superset. The forward-read properties are stated with the filter the code
  uses (`ReadMatches`). `DecisionIsCurrent` is stated with the documented one,
  and holds because the filter returns too much, never too little. In
  `pg_contract` items have one tag, where the two agree.
* `pg_sub_pool` (`postgres/subscribe.go:28`). As many subscriptions as the pool has
  connections: each holds one and waits for another.
* `pg_isolation` (`postgres/append.go:55`). Read Committed, which the comment says
  the check "has to" have, is requested on the COPY path only. Where the server's
  default is Repeatable Read, the procedure checks in the snapshot from before it
  had its locks, and two appends under one condition both commit. With the
  default threshold of 10000 that is nearly every append. Postgres' own default
  is Read Committed.
Further disagreements, each refuted by TLC in the instance named: a `.cfg` with the
`MC` module of its component, or a run with a change.

| code | instance | property | what happens |
|---|---|---|---|
| `postgres/store.go:214` | `MCPgDelimiter.cfg`, `MCPgStore` | `RowsKeepTheirTags` | a tag that contains `\x1F`, which `TagsFrom` accepts, is stored as two by the procedure and as one by COPY; `copy_conformance_test.go` calls the paths "behaviourally identical" |
| `postgres/append.go:142` | `MCPgCollision.cfg`, `MCPgStore` | `NoDeadlock` | "writers with partially overlapping scopes can't deadlock": they can if a leaf key and an intent key hash to one number, because both modes are then requested and shared may come first. Postgres fails one of the appends; the safety theorems need no assumption on hashes |
| `postgres/subscribe.go:129` | `MCPgSubClose.cfg`, `MCPgSubscribe` | `NextNeverPanics` | `TestSubscribe_CloseIsSafeWhileNextLoopsInBackground` expects what `event_iterator.go` rules out: `Next` dereferences the released connection if `Close` falls into its drain. All that `pg_subscribe` checks holds with such a `Close` |
| `postgres/serialize.go:59` | `MCReadOpaque.cfg`, `MCReadIterator` | `EventsStayReadable` | `event.go` says "Data and Metadata are opaque"; data that is not JSON is stored and can never be read again, and the batch it is in fails. `OnlyUnreadableStops` says that nothing else does |
| `postgres/position.go:16` | `MCReadPosition.cfg`, `MCReadIterator` | `ReadNeverPanics` | `ParseSequencePosition` accepts positions that are no bigint; Read panics on them while it holds a connection |
| `postgres/read.go:22` | `MCReadPool.cfg`, `MCReadIterator` | `EveryReadEnds` | as many callers as the pool has connections, all appending while they iterate: each holds one and waits for another. `ReadsEnd` allows for this |
| `postgres/store.go:105` | `MCInstallNames.cfg`, `MCInstall` | `InstalledMeansComplete` | with a table name of 61 characters or more, which `New` accepts, the two index names are the same after truncation, and nil is returned without the second index |
| `memory/iterator.go:53` | `memory_store`: check this property | `NothingNewAfterCancel` | `eventstore/store.go` promises matches "until ctx is canceled"; the in-memory iterator also yields events appended afterwards |
| `postgres/store.go:89` | `install`: check this property | `LockOnlyDuringMigration` | the unlock uses the caller's context; once that is cancelled the lock goes back to the pool with the connection |
| `postgres/append.go:117` | `install`: `MixedCase = TRUE` | `NamesAgree` | capitals in `TablePrefix` are accepted, but COPY quotes the name that DDL folds, and `pg_notify` takes the channel literally that LISTEN folds |

## 5. Proofs

Checked by TLAPS, for every value of the constants: any sets of clients, callers
and subscribers, any argument lists and queries the package's constructors can
return, any limits, hash functions, results, batch and pool sizes.

| module | theorem | states | under |
|---|---|---|---|
| `PgStoreProofs` | `TypeCorrect` | `TypeOK` | |
| | `AppendsAreSerialized` | `ConditionsHoldUntilCommit` | `DelimiterFree` |
| | `ReadersMissNothing` | `ForwardReadsNeverSkip` | `DelimiterFree` |
| | `DecisionsAreCurrent` | `DecisionIsCurrent` | `DelimiterFree` |
| | `DeadlockFree` | `NoDeadlock` | `KeysApart`, finitely many keys |
| `PgRefinementProofs` | `ImplementsContract` | `RefinesContract` of `PgStore` | `DelimiterFree`, `SingleTagReads` |
| | `ReadsRecent` | `ReadsAreRecent` of `PgSnapshots` | |
| | `SnapshotsDoNotMatter` | `SnapSpec => Spec` | `ChecksSeeCommits` |
| | `CopyAppendsSerialized` | `CopyConditionsHold` of `PgSnapshots` | `DelimiterFree` |
| | `ImplementsContractAtAnyLevel` | `RefinesContract` of `PgSnapshots` | `DelimiterFree`, `SingleTagReads`, `ChecksSeeCommits` |
| | `ReadersMissNothingAtAnyLevel` | `ForwardReadsNeverSkip` of `PgSnapshots` | `DelimiterFree` |
| | `BarriersExcludeWriters` | `BarrierExcludesWriters` of `PgSnapshots` | `DelimiterFree` |
| | `DeadlockFreeAtAnyLevel` | `NoDeadlock` of `PgSnapshots` | `KeysApart`, finitely many keys |
| `PgSubscribeProofs` | `TypeCorrect`, `SubscriptionsInOrder`, `WakeupsNotLost`, `CancellationIsABound`, `ErrorsAreFaults` | `TypeOK`, `DeliversInOrder`, `NoLostWakeup`, `NothingNewAfterCancel`, `StopsCleanly` | |
| | `ImplementsStream` | `RefinesStream` | |
| `MemoryStoreProofs` | `TypeCorrect`, `SubscriptionsInOrder`, `WakeupsNotLost` | `TypeOK`, `DeliversInOrder`, `NoLostWakeup` | |
| | `ImplementsStream`, `ImplementsContract` | `RefinesStream`, `RefinesContract` | |
| `ReadIteratorProofs` | `TypeCorrect`, `IterationComplete`, `StopsAtUnreadable` | `TypeOK`, `IterationIsComplete`, `OnlyUnreadableStops` | |
| | `NoConnectionLeaks`, `ConnectionsKept` | `PoolConserved`, `CloseKeepsConnection` | |
| `InstallProofs` | `TypeCorrect`, `MigrationsExclusive` | `TypeOK`, `OneMigrationAtATime` | |
| | `InstallComplete` | `InstalledMeansComplete` | `NamesDiffer` |
| `ConformanceSuiteProofs` | `StoresPassRaces` | `RacesPass` of both stores | `DelimiterFree` |

*Hypotheses.* Each is one that the code does not enforce, and for each an
instance in section 4 shows what goes wrong without it:

* `DelimiterFree`: no tag contains the delimiter; otherwise an event's row can
  carry tags its append took no lock for (`MCPgDelimiter.cfg`);
* `SingleTagReads`: items of queries that are *read* have at most one tag;
  otherwise a read returns events that do not match (`pg_overlap`). Conditions of
  appends may have any number;
* `KeysApart`: no leaf key collides with an intent key (`MCPgCollision.cfg`). That there
  are finitely many keys is no restriction: they are 64-bit integers;
* `ChecksSeeCommits`: the server's default is Read Committed, or the calls that
  carry a condition have more events than `CopyThreshold` (`pg_isolation`). Under
  Repeatable Read that is a restriction on the callers, which the code does not
  impose; what holds of any mixture of calls is `CopyAppendsSerialized`;
* `NamesDiffer`: table and index names stay different when cut off; the lemma
  `ShortNamesDiffer` proves it for table names of up to 60 characters
  (`MCInstallNames.cfg` has 61).

The assumptions on constants are the named `ASSUME`s, which TLC evaluates in the
runs.

### Append and Read

None of the properties is inductive. `IInv` (in `PgStoreInv`) adds:

* `PositionsUnique`: positions, committed or in flight, are distinct and at most `seq`;
* `LockExclusion`: no two transactions hold conflicting locks;
* `AppendLocks`: from its high-water mark on, an append holds all its locks;
* `RowsAreLocked`: a row in flight is covered by its own leaf keys (X), its type
  key and the global key (S), all held by its writer;
* `ChecksAreComplete`: while an append is between snapshot and check, no matching
  committed row lies beyond its high-water mark;
* `ReadsFollowViews`, `BarrierHolds`, `ViewsAreBehind`: a read belongs to its
  view; once past the barrier, matching rows in flight lie beyond the high-water
  mark; rows in flight lie beyond all a forward view has seen.

The argument has two halves that share one lemma pattern. *Appends*: a condition
has at least one type and one tag in each item, so a row it matches shares a
(type, tag) leaf with it (`ConditionConflictsWithRow`). The condition's
transaction holds that leaf exclusively, `RowsAreLocked` says the row's writer
does too, and `LockExclusion` makes them the same transaction. So nothing that
matches commits between snapshot and commit, and what committed before has a
position within the high-water mark. *Reads*: a query's barrier locks conflict
with the locks of every row the query filters for
(`ReaderConflictsWithRow`, one case per lock shape). When the barrier is
complete, no such row is in flight, so later ones get positions above the
high-water mark, and the scan stops there. `DecisionsAreCurrent` combines the
two: what the read has not seen lies after its last event, where the condition
looks.

`TypeNext` has one step per action; each of the other conjuncts has a lemma
`...Next` of its own with a step per action that can disturb it, and
`IInvNext` joins them. TLC has also checked `IInv` itself as an invariant of the
`pg_append` and `pg_contract` instances.

*Deadlock.* `LockOrder`: what a transaction holds lies below what its statement
still wants, and it wants each key in one mode. If everyone in a set waited for
someone in it, take a client that holds the highest key anyone waits for: its own
next key is higher still (`OrderPreventsDeadlock`). One mode per key is where
`KeysApart` comes in: writers lock leaf keys X and intent keys S, barriers the
other way round.

*Contract.* `ContractInv` is what the abstract step needs beyond `IInv`: rows of
different transactions and of the log are different rows, a client has an outcome
exactly from the end of its transaction on, and the rows in flight are those of a
prefix of the call's slots, in order (`WritesPrefix`). `Commit` and
`CheckConditionsFail` map to `DcbContract`'s success and failure, `DeclareCursor`
to its read, `Abort` to its failure for other reasons; all else stutters. At
`Commit`, `ConditionsHoldUntilCommit` gives the abstract guard on conditions and
`ViewsAreBehind` the one on readers.

*Snapshots.* `SnapInv`: a snapshot is a part of the log, and past the barrier it
lies within the high-water mark, since the sequence was beyond every committed row
when the barrier read it. It needs nothing of the condition checks, so reads are
recent at any isolation level. Under `ChecksSeeCommits` what a check finds is what
a check of the log would find (`CheckOfTheLog`): a call without a condition finds
nothing in either, one with a condition is on the COPY path. So each step is one of `PgStore`, and the theorems about `PgStore` carry over.

*Any isolation level.* Where `ChecksSeeCommits` fails, `IInv` fails with it: an
append may get past its check although a matching row has been committed. What
reads rest on does not. `ReadInv` is the part of `IInv` without
`ChecksAreComplete` and `ConditionsHoldUntilCommit`; `ReadInvNext` shows it
inductive by itself, and `IInvNext` adds the rest to it. Of the steps of
`PgSnapshots` only the check differs from `PgStore`'s, and a check writes nothing
but its own client's control point, rows to insert and outcome (`CheckIsLocal`), so it keeps
`ReadInv` (`CheckKeepsReads`) and `LockOrder` (`CheckKeepsLockOrder`), whatever it
saw. `CopyAppendsSerialized` puts the half about appends back for the calls that do
see the log: `ReadInv` has the locks, `ChecksAreComplete` is inductive beside it at
any level, `CheckEstablishes` shows what a check of the log under those locks gives,
and `LockedConditionsStay` that no commit, of an append that slipped through either,
takes it away before the client's own. `BarrierMeetsNoRow` is the fact about locks that both the step `BarrierHwm`
and the theorem `BarriersExcludeWriters` use.

### Subscribe

`SubInv` (Postgres) and `MemInv` (memory) have the same core: what was yielded is
exactly what is due up to the iterator's position (`Streamed`), the batch at hand
is what follows (`NextBatch`), and nothing still in flight lies below either.
`StreamOK` is disturbed by a commit only if a due row in flight lay below the
position, which `BarrierOK` excludes: such a row is beyond the high-water mark of
every drain in progress. `DrainOK` and, in memory, the clause on `waitCh` say
what a waiting iterator has missed: nothing that it is not going to be told of.
Steps that only move control are handled by one lemma (`ControlStep`), so that
the lemmas about `Declare`, `Collect`, `NextDeliver`, appends and commits carry the
argument. The refinement mapping shows `StreamContract` one stream per
subscription; only yields, opening and ending are visible in it.
`EventStoreProofs` has the facts about such streams, about slots and about
finite sets of positions that these and `PgRefinementProofs` share.

### Iterator and installation

`IterInv`: what Next has not yielded of the result is in the rest of the buffer
and then behind the cursor, in order (`Continues`), and an exhausted cursor has
nothing behind it. That makes the full last batch, the empty batch and the
failure between batches one argument. `PoolInv` counts the connections with their
holders; each step moves one between the pool and one holder or none (`Effect`).
`Explained` keeps the cause of a failure that is neither a lost statement nor a
cancellation: by `Continues`, the rows of the batch that failed to decode are those
of the result that come after what was yielded.

`LockInv`: the connections of calls are exclusive, and whoever migrates is on the
connection that has the migration lock, however deep. A lock left behind by a
cancelled call stays with its connection, so only a call on that connection gets
it again. `MigrationProgress`: the statements before a call's next one have had
their effect, whoever executed them; with `NamesDiffer` that is the whole schema
at the end.

### The concurrency tests

`SuiteInv` says of each goroutine how far it is in its one call (`RacerOK`) and of
the results what the log says of them (`ResultsOK`): the position an append returned
is that of its row, and every row is some append's. It includes `IInv` when Postgres is under
test. *At most one success* of the racing appends is the conditions' doing: two rows
in the log would both match the condition, and `ConditionsHoldUntilCommit` is about
the later of the two at the moment it commits. *At least one*: an append is refused
only for a row that is there, so some append has succeeded when the first is refused,
and if none is refused all have. Appends to disjoint scopes are never refused because
no row of another goroutine has the tag of their condition. The theorem is for every number of goroutines;
the suite has 20 and the run 3.

### Only model-checked

Liveness (`CallsReturn`, `EventuallyDelivered`, `CancelStops`, `ReadsEnd`,
`InstallReturns`): fairness and ENABLED are out of the prover's reach. `TestsPass`:
each test is one computation on given data, which TLC carries out and which has
nothing to generalise. What the tests exemplify is in the theorems on the
contract.

## 6. Not modelled, and the plan

Left out:

* the text of SQL, logging, index and planner settings (`SET LOCAL`), and the
  bodies of the stored procedures where `Install` creates them (they are actions
  of `PgStore`);
* the syntax of tags (`TagsFrom`, `TagsFromMap`) beyond the empty token, and the
  decimal form of positions beyond their limit: string handling without state;
* of the conformance suite, the subscribe tests as such (their assertions are
  weaker than the properties of `PgSubscribe` and `MemoryStore`) and the order of
  events within one result;
* crash of the server: Postgres' durability is taken for granted, a lost
  connection is modelled everywhere.

Still to do:

1. A FIFO lock queue in `PgStore`, and liveness with three clients.
2. A module in which subscriptions drain through the transactions of `PgStore`
   itself, in place of the reduction that `BarriersExcludeWriters` justifies.
