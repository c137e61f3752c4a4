-------------------------------- MODULE Install --------------------------------
(***************************************************************************)
(* New and EnsureInstalled of the Postgres store (postgres/store.go): the  *)
(* names a store derives from its table name, and the schema migration,    *)
(* which runs on a pooled connection under a session-level advisory lock.  *)
(*                                                                         *)
(* Such a lock belongs to the connection, not to a transaction: it counts  *)
(* how often it was taken, and it is gone only when it was given back as   *)
(* often, or with the connection.                                          *)
(***************************************************************************)
EXTENDS Integers

CONSTANTS
    Callers,      \* goroutines or processes that call EnsureInstalled
    Conns,        \* connections of the pool
    TableLength,  \* length of the table name, TablePrefix included
    MixedCase,    \* does the table name have upper-case letters?
    Nil,
    MaxDepth      \* bound: no call starts while the lock is held so often

\* validIdentifier: the table name has at most 63 characters.
MaxIdentifier == 63

ASSUME InstallAssumption ==
    /\ TableLength \in 1..MaxIdentifier
    /\ MixedCase \in BOOLEAN
    /\ Nil \notin Conns
    /\ MaxDepth \in Nat

-------------------------------------------------------------------------------
(***************************************************************************)
(* Names.  Postgres cuts an identifier off at 63 characters, so what is    *)
(* left of table name and suffix is the table name itself, or the table    *)
(* name with as much of the suffix as there is room for; of the suffixes   *)
(* _type_pos_idx and _tags_gin the first two characters are the same.  It  *)
(* folds an identifier to lower case unless it is quoted.                  *)
(***************************************************************************)
Room(n) == IF MaxIdentifier - TableLength < n THEN MaxIdentifier - TableLength ELSE n

Relation(suffix, n) ==
    [suffix |-> CASE Room(n) = 0 -> "" [] Room(n) \in 1..2 -> "_t" [] OTHER -> suffix,
     kept   |-> Room(n)]

Table   == Relation("", 0)
TypeIdx == Relation("_type_pos_idx", 13)
TagsIdx == Relation("_tags_gin", 9)

\* The functions have different parameters, and are told apart by these even
\* where their names are cut off alike.
Procedures == {"check_conditions", "append", "barrier_hwm"}

\* What EnsureInstalled is to create.
Schema == {<<"table", Table>>, <<"type_index", TypeIdx>>, <<"tags_index", TagsIdx>>}
          \cup ({"function"} \X Procedures)

\* CREATE ... IF NOT EXISTS does nothing if a relation has the name.
Create(db, what, name) ==
    IF \E obj \in db : obj[1] # "function" /\ obj[2] = name THEN db
    ELSE db \cup {<<what, name>>}

\* The four statements; the first creates the table and its indexes.
Migrate(db, n) ==
    CASE n = 1 -> Create(Create(Create(db, "table", Table), "type_index", TypeIdx),
                         "tags_index", TagsIdx)
      [] n = 2 -> db \cup {<<"function", "check_conditions">>}
      [] n = 3 -> db \cup {<<"function", "append">>}
      [] n = 4 -> db \cup {<<"function", "barrier_hwm">>}

\* A name as a statement has it, and as Postgres takes it.
Unquoted == "lower"
Literal  == IF MixedCase THEN "mixed" ELSE "lower"

\* The table that DDL creates and that COPY (pgx.Identifier) asks for; the
\* channel of LISTEN and that of pg_notify.
CreatedTable  == Unquoted
CopyTable     == Literal
ListenChannel == Unquoted
NotifyChannel == Literal

-------------------------------------------------------------------------------
VARIABLES
    objects,   \* tables, indexes and functions of the database
    mlock,     \* the migration lock: the connection that has it, how often
    free,      \* idle connections of the pool
    call       \* each caller's call

vars == <<objects, mlock, free, call>>

Calls == [pc: {"idle", "acquire", "lock", "migrate", "unlock"}, conn: Conns \cup {Nil},
          dead: BOOLEAN, step: 1..4, canceled: BOOLEAN, ret: {"none", "ok", "error"}]

NoCall == [pc |-> "idle", conn |-> Nil, dead |-> FALSE, step |-> 1,
           canceled |-> FALSE, ret |-> "none"]

Unlocked == [holder |-> Nil, depth |-> 0]

TypeOK ==
    /\ objects \subseteq Schema
    /\ mlock \in [holder: Conns \cup {Nil}, depth: Nat]
    /\ mlock.holder = Nil <=> mlock.depth = 0
    /\ free \subseteq Conns
    /\ call \in [Callers -> Calls]

Init ==
    /\ objects = {}
    /\ mlock = Unlocked
    /\ free = Conns
    /\ call = [c \in Callers |-> NoCall]

\* The locks of a connection that is closed are gone.
Without(k) == IF mlock.holder = k THEN Unlocked ELSE mlock

-------------------------------------------------------------------------------
EnsureInstalled(c) ==
    /\ call[c].pc = "idle"
    /\ mlock.depth < MaxDepth
    /\ call' = [call EXCEPT ![c] = [NoCall EXCEPT !.pc = "acquire"]]
    /\ UNCHANGED <<objects, mlock, free>>

AcquireConn(c) ==
    /\ call[c].pc = "acquire"
    /\ ~call[c].canceled
    /\ \E k \in free :
          /\ free' = free \ {k}
          /\ call' = [call EXCEPT ![c].pc = "lock", ![c].conn = k]
    /\ UNCHANGED <<objects, mlock>>

\* A bug for the model to catch: pg_try_advisory_lock, its answer unread.
LockUnread(k) == TRUE

Lockable(k) == mlock.holder \in {Nil, k}

MigrationLock(c) ==
    LET k == call[c].conn IN
    /\ call[c].pc = "lock"
    /\ Lockable(k)
    /\ mlock' = [holder |-> k, depth |-> IF mlock.holder = k THEN mlock.depth + 1 ELSE 1]
    /\ call' = [call EXCEPT ![c].pc = "migrate"]
    /\ UNCHANGED <<objects, free>>

MigrationStep(c) ==
    LET n == call[c].step IN
    /\ call[c].pc = "migrate"
    /\ objects' = Migrate(objects, n)
    /\ call' = [call EXCEPT ![c] = IF n < 4 THEN [@ EXCEPT !.step = n + 1]
                                   ELSE [@ EXCEPT !.pc = "unlock", !.ret = "ok"]]
    /\ UNCHANGED <<mlock, free>>

\* Bugs for the model to catch: defer Release comes after the lock, or before
\* the error of Acquire is looked at.
KeptIfNotLocked(c) == IF call[c].pc = "unlock" THEN free \cup {call[c].conn} ELSE free
ReleasedRegardless(c) == free \cup {call[c].conn}

\* defer conn.Release(): a connection that died is replaced.
ReleasedBy(c) == IF call[c].conn = Nil THEN free ELSE free \cup {call[c].conn}

\* Acquire or the lock statement fails, or ctx ends before or while it waits;
\* the connection of a lock statement that was interrupted is closed.
InstallFails(c, fault) ==
    /\ call[c].pc \in {"acquire", "lock"}
    /\ fault \/ call[c].canceled
    /\ free' = ReleasedBy(c)
    /\ mlock' \in {mlock, Without(call[c].conn)}
    /\ call' = [call EXCEPT ![c] = [NoCall EXCEPT !.ret = "error"]]
    /\ UNCHANGED objects

\* A bug for the model to catch: a shadowed err.
ErrShadowed(c) == "ok"

RetAfterFailure(c) == "error"

\* A statement of the migration fails: it was not sent, because ctx is done;
\* or the server refused it; or the connection is gone, closed perhaps by a
\* ctx that ended in mid-statement, and nobody knows what became of it.
MigrationFails(c, dead) ==
    /\ call[c].pc = "migrate"
    /\ objects' \in {objects} \cup (IF dead THEN {Migrate(objects, call[c].step)} ELSE {})
    /\ mlock' = IF dead THEN Without(call[c].conn) ELSE mlock
    /\ call' = [call EXCEPT ![c].pc = "unlock", ![c].dead = dead,
                            ![c].ret = RetAfterFailure(c)]
    /\ UNCHANGED free

\* The deferred calls: unlock with the caller's ctx, which does nothing if
\* that is done or the connection dead; then Release.
Unlock(c) ==
    /\ call[c].pc = "unlock"
    /\ mlock' = IF call[c].canceled \/ call[c].dead THEN mlock
                ELSE IF mlock.depth = 1 THEN Unlocked
                ELSE [mlock EXCEPT !.depth = @ - 1]
    /\ free' = ReleasedBy(c)
    /\ call' = [call EXCEPT ![c] = [NoCall EXCEPT !.ret = call[c].ret]]
    /\ UNCHANGED objects

Cancel(c) ==
    /\ call[c].pc # "idle"
    /\ ~call[c].canceled
    /\ call' = [call EXCEPT ![c].canceled = TRUE]
    /\ UNCHANGED <<objects, mlock, free>>

\* The pool closes connections that have been idle, or have lived, too long.
Retire(k) ==
    /\ k \in free
    /\ mlock' = Without(k)
    /\ UNCHANGED <<objects, free, call>>

Step(c) == MigrationStep(c) \/ InstallFails(c, FALSE) \/ Unlock(c)

Next ==
    \/ \E c \in Callers :
          \/ EnsureInstalled(c) \/ AcquireConn(c) \/ MigrationLock(c) \/ Step(c)
          \/ InstallFails(c, TRUE) \/ Cancel(c)
          \/ \E dead \in BOOLEAN : MigrationFails(c, dead)
    \/ \E k \in Conns : Retire(k)

Spec == Init /\ [][Next]_vars

\* Statements are executed, waiters of the pool and of the lock are served
\* in order, and no connection outlives MaxConnLifetime, however often it is
\* borrowed in between.
FairSpec ==
    /\ Spec
    /\ \A c \in Callers : /\ WF_vars(Step(c))
                          /\ SF_vars(AcquireConn(c)) /\ SF_vars(MigrationLock(c))
    /\ \A k \in Conns : SF_vars(Retire(k))

-------------------------------------------------------------------------------
(***************************************************************************)
(* Properties.                                                             *)
(***************************************************************************)

\* Migrations exclude each other, whatever is left of the lock by calls that
\* were cancelled: two CREATE OR REPLACE of one function do not meet.
OneMigrationAtATime ==
    \A c, d \in Callers : call[c].pc = "migrate" /\ call[d].pc = "migrate" => c = d

\* When EnsureInstalled has returned nil, the table, its indexes and its
\* procedures are there, whichever of several calls, interrupted or not,
\* created them.
InstalledMeansComplete ==
    \A c \in Callers : call[c].ret = "ok" => Schema \subseteq objects

\* Every call returns, even if one that was cancelled has left the lock
\* behind on a connection of the pool.
InstallReturns == \A c \in Callers : call[c].pc # "idle" ~> call[c].pc = "idle"

\* What store.go says of the lock: it guards "the schema migration below",
\* so that nobody has it once no migration is in progress.
LockOnlyDuringMigration ==
    mlock.holder # Nil =>
        \E c \in Callers : call[c].conn = mlock.holder /\ call[c].pc \in {"migrate", "unlock"}

\* What store.go and copy_conformance_test.go say: the events table is the
\* one that TablePrefix names, and both append paths behave alike.  So COPY
\* finds the table, and subscribers hear of every append.
NamesAgree ==
    \A c \in Callers : call[c].ret = "ok" =>
        CopyTable = CreatedTable /\ NotifyChannel = ListenChannel
===============================================================================
