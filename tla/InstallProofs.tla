----------------------------- MODULE InstallProofs -----------------------------
(***************************************************************************)
(* Proofs about EnsureInstalled, for any number of callers and connections *)
(* and any failure or cancellation.                                        *)
(***************************************************************************)
EXTENDS Install, TLAPS

-------------------------------------------------------------------------------
(***************************************************************************)
(* The inductive invariant.                                                *)
(***************************************************************************)

\* A call has a connection from Acquire to Release, and nobody else has it.
ConnsAreExclusive ==
    \A c \in Callers :
        /\ call[c].conn # Nil <=> call[c].pc \in {"lock", "migrate", "unlock"}
        /\ call[c].conn \notin free
        /\ \A d \in Callers : call[c].conn # Nil /\ call[d].conn = call[c].conn => c = d

\* The connection of a call that migrates, or is about to unlock and alive,
\* is the one that has the migration lock.
MigratorHasLock ==
    \A c \in Callers :
        \/ call[c].pc = "migrate"
        \/ call[c].pc = "unlock" /\ ~call[c].dead
        => mlock.holder = call[c].conn

\* The first n statements of the migration have had their effect on db.
Created(n, db) ==
    /\ n >= 1 => {<<"table", Table>>, <<"type_index", TypeIdx>>, <<"tags_index", TagsIdx>>} \subseteq db
    /\ n >= 2 => <<"function", "check_conditions">> \in db
    /\ n >= 3 => <<"function", "append">> \in db
    /\ n >= 4 => <<"function", "barrier_hwm">> \in db

\* Nothing that a migration has created disappears again.
MigrationProgress ==
    \A c \in Callers :
        /\ call[c].pc # "unlock" => Created(call[c].step - 1, objects)
        /\ call[c].ret = "ok" => Schema \subseteq objects

LockInv == TypeOK /\ ConnsAreExclusive /\ MigratorHasLock

-------------------------------------------------------------------------------
(***************************************************************************)
(* The names.                                                              *)
(***************************************************************************)

\* The names of the table and of the two indexes, as far as Postgres keeps
\* them, are different.
NamesDiffer == Table # TypeIdx /\ Table # TagsIdx /\ TypeIdx # TagsIdx

\* Up to 60 characters of table name leave enough of the suffixes.
LEMMA ShortNamesDiffer ==
    ASSUME TableLength <= 60
    PROVE  NamesDiffer
<1>1. TableLength \in Int /\ TableLength <= 60 /\ TableLength >= 1
  BY InstallAssumption DEF MaxIdentifier
<1>2. Room(0) = 0 /\ Room(13) > 2 /\ Room(9) > 2
  BY <1>1 DEF Room, MaxIdentifier
<1>3. Table.suffix = "" /\ TypeIdx.suffix = "_type_pos_idx" /\ TagsIdx.suffix = "_tags_gin"
  BY <1>2 DEF Table, TypeIdx, TagsIdx, Relation
<1> QED
  BY <1>3 DEF NamesDiffer

\* The objects that EnsureInstalled is to create, one by one.
LEMMA SchemaObjects ==
    Schema = {<<"table", Table>>, <<"type_index", TypeIdx>>, <<"tags_index", TagsIdx>>,
              <<"function", "check_conditions">>, <<"function", "append">>,
              <<"function", "barrier_hwm">>}
<1>1. {"function"} \X Procedures = {<<"function", p>> : p \in Procedures}
  OBVIOUS
<1>2. {<<"function", p>> : p \in Procedures}
        = {<<"function", "check_conditions">>, <<"function", "append">>, <<"function", "barrier_hwm">>}
  BY DEF Procedures
<1> QED
  BY <1>1, <1>2 DEF Schema

\* CREATE IF NOT EXISTS adds a part of the schema at most.
LEMMA CreateType ==
    ASSUME NEW db \in SUBSET Schema, NEW what, NEW name, <<what, name>> \in Schema
    PROVE  Create(db, what, name) \in SUBSET Schema /\ db \subseteq Create(db, what, name)
BY DEF Create

\* Statements of the migration add to the database what is in the schema.
LEMMA MigrateType ==
    ASSUME NEW db \in SUBSET Schema, NEW n \in 1..4
    PROVE  Migrate(db, n) \in SUBSET Schema /\ db \subseteq Migrate(db, n)
<1>1. CASE n = 1
  <2> DEFINE db1 == Create(db, "table", Table)
             db2 == Create(db1, "type_index", TypeIdx)
  <2>1. /\ <<"table", Table>> \in Schema
        /\ <<"type_index", TypeIdx>> \in Schema
        /\ <<"tags_index", TagsIdx>> \in Schema
    BY SchemaObjects
  <2>2. db1 \in SUBSET Schema /\ db \subseteq db1
    BY <2>1, CreateType
  <2>3. db2 \in SUBSET Schema /\ db1 \subseteq db2
    <3> HIDE DEF db1
    <3> QED BY <2>1, <2>2, CreateType
  <2>4. Migrate(db, n) = Create(db2, "tags_index", TagsIdx)
    BY <1>1 DEF Migrate
  <2> HIDE DEF db1, db2
  <2> QED
    BY <2>1, <2>2, <2>3, <2>4, CreateType
<1>2. CASE n # 1
  <2>1. /\ <<"function", "check_conditions">> \in Schema
        /\ <<"function", "append">> \in Schema
        /\ <<"function", "barrier_hwm">> \in Schema
    BY SchemaObjects
  <2>2. \E obj \in Schema : Migrate(db, n) = db \cup {obj}
    BY <1>2, <2>1 DEF Migrate
  <2> QED
    BY <2>2
<1> QED
  BY <1>1, <1>2

\* CREATE IF NOT EXISTS leaves the object there, as no other has its name.
LEMMA CreateCreates ==
    ASSUME NamesDiffer, NEW db \in SUBSET Schema, NEW what, NEW name,
           <<what, name>> \in {<<"table", Table>>, <<"type_index", TypeIdx>>, <<"tags_index", TagsIdx>>}
    PROVE  <<what, name>> \in Create(db, what, name)
<1>1. ASSUME NEW obj \in db, obj[1] # "function", obj[2] = name
      PROVE  obj = <<what, name>>
  <2>1. obj \in {<<"table", Table>>, <<"type_index", TypeIdx>>, <<"tags_index", TagsIdx>>}
    BY <1>1, SchemaObjects
  <2> QED
    BY <1>1, <2>1 DEF NamesDiffer
<1> QED
  BY <1>1 DEF Create

\* After its n-th statement a migration has created all it should have.
LEMMA MigrateCreates ==
    ASSUME NamesDiffer, NEW db \in SUBSET Schema, NEW n \in 1..4, Created(n - 1, db)
    PROVE  Created(n, Migrate(db, n))
<1>1. CASE n = 1
  <2> DEFINE db1 == Create(db, "table", Table)
             db2 == Create(db1, "type_index", TypeIdx)
             db3 == Create(db2, "tags_index", TagsIdx)
  <2>1. /\ <<"table", Table>> \in Schema
        /\ <<"type_index", TypeIdx>> \in Schema
        /\ <<"tags_index", TagsIdx>> \in Schema
    BY SchemaObjects
  <2>2. db1 \in SUBSET Schema /\ <<"table", Table>> \in db1
    BY <2>1, CreateType, CreateCreates
  <2>3. db2 \in SUBSET Schema /\ db1 \subseteq db2 /\ <<"type_index", TypeIdx>> \in db2
    <3> HIDE DEF db1
    <3> QED BY <2>1, <2>2, CreateType, CreateCreates
  <2>4. db2 \subseteq db3 /\ <<"tags_index", TagsIdx>> \in db3
    <3> HIDE DEF db2
    <3> QED BY <2>1, <2>3, CreateType, CreateCreates
  <2>5. Migrate(db, n) = db3
    BY <1>1 DEF Migrate
  <2> HIDE DEF db1, db2, db3
  <2> QED
    BY <1>1, <2>2, <2>3, <2>4, <2>5 DEF Created
<1>2. CASE n = 2
  BY <1>2 DEF Migrate, Created
<1>3. CASE n = 3
  BY <1>3 DEF Migrate, Created
<1>4. CASE n = 4
  BY <1>4 DEF Migrate, Created
<1> QED
  BY <1>1, <1>2, <1>3, <1>4

\* Four statements create the whole schema.
LEMMA FourStatements ==
    ASSUME NEW db, Created(4, db)
    PROVE  Schema \subseteq db
BY SchemaObjects DEF Created

-------------------------------------------------------------------------------
(***************************************************************************)
(* The lock.                                                               *)
(***************************************************************************)
LEMMA LockInit == Init => LockInv
BY InstallAssumption DEF Init, LockInv, TypeOK, ConnsAreExclusive, MigratorHasLock,
       Unlocked, NoCall, Calls

\* Closing a connection keeps the type of the lock.
LEMMA WithoutType ==
    ASSUME TypeOK, NEW k
    PROVE  /\ Without(k) \in [holder: Conns \cup {Nil}, depth: Nat]
           /\ Without(k).holder = Nil <=> Without(k).depth = 0
           /\ mlock.holder # k => Without(k) = mlock
BY DEF Without, Unlocked, TypeOK

\* A call at its start, and one that has returned.
LEMMA NewCall ==
    /\ [NoCall EXCEPT !.pc = "acquire"] \in Calls
    /\ \A r \in {"none", "ok", "error"} : [NoCall EXCEPT !.ret = r] \in Calls
<1>1. NoCall \in Calls
  BY DEF NoCall, Calls
<1>2. \A x \in Calls : [x EXCEPT !.pc = "acquire"] \in Calls
  BY DEF Calls
<1>3. \A x \in Calls, r \in {"none", "ok", "error"} : [x EXCEPT !.ret = r] \in Calls
  BY DEF Calls
<1> QED
  BY <1>1, <1>2, <1>3

\* What becomes of the calls when that of c is r.
LEMMA CallUpdate ==
    ASSUME TypeOK, NEW c \in Callers, NEW r \in Calls,
           call' = [call EXCEPT ![c] = r]
    PROVE  /\ call' \in [Callers -> Calls]
           /\ call'[c] = r
           /\ \A d \in Callers : d # c => call'[d] = call[d]
BY DEF TypeOK

\* A call that keeps its connection, and the pool its own, disturb nobody.
LEMMA ConnKept ==
    ASSUME ConnsAreExclusive, NEW c \in Callers, free' = free,
           \A d \in Callers : d # c => call'[d] = call[d],
           call'[c].conn = call[c].conn,
           call'[c].conn # Nil <=> call'[c].pc \in {"lock", "migrate", "unlock"}
    PROVE  ConnsAreExclusive'
<1>1. \A d \in Callers : call'[d].conn = call[d].conn
  OBVIOUS
<1>2. \A d \in Callers : call'[d].conn # Nil <=> call'[d].pc \in {"lock", "migrate", "unlock"}
  BY DEF ConnsAreExclusive
<1> QED
  BY <1>1, <1>2 DEF ConnsAreExclusive

\* A call that is over leaves its connection, if it had one, to the pool.
LEMMA ConnReleased ==
    ASSUME ConnsAreExclusive, NEW c \in Callers, Nil \notin free,
           free' = IF call[c].conn = Nil THEN free ELSE free \cup {call[c].conn},
           \A d \in Callers : d # c => call'[d] = call[d],
           call'[c].conn = Nil, call'[c].pc = "idle"
    PROVE  ConnsAreExclusive'
<1>1. ASSUME NEW d \in Callers
      PROVE  /\ call'[d].conn # Nil <=> call'[d].pc \in {"lock", "migrate", "unlock"}
             /\ call'[d].conn \notin free'
  BY <1>1 DEF ConnsAreExclusive
<1>2. ASSUME NEW d \in Callers, NEW e \in Callers, call'[d].conn # Nil, call'[e].conn = call'[d].conn
      PROVE  d = e
  BY <1>2 DEF ConnsAreExclusive
<1> QED
  BY <1>1, <1>2 DEF ConnsAreExclusive

\* Every step keeps connections exclusive and the lock with the migrator: a
\* lock left behind on a pooled connection can be taken over by the next
\* call that borrows this connection, but by no other.
LEMMA LockNext == LockInv /\ [Next]_vars => LockInv'
<1> SUFFICES ASSUME TypeOK, ConnsAreExclusive, MigratorHasLock, [Next]_vars
             PROVE  TypeOK' /\ ConnsAreExclusive' /\ MigratorHasLock'
  BY DEF LockInv
<1>0. /\ Nil \notin Conns /\ Nil \notin free
      /\ \A d \in Callers : call[d] \in Calls
      /\ [NoCall EXCEPT !.pc = "acquire"] \in Calls
      /\ \A r \in {"none", "ok", "error"} : [NoCall EXCEPT !.ret = r] \in Calls
  <2>1. Nil \notin Conns /\ Nil \notin free
    BY InstallAssumption DEF TypeOK
  <2>2. \A d \in Callers : call[d] \in Calls
    BY DEF TypeOK
  <2> QED
    BY <2>1, <2>2, NewCall
<1>1. ASSUME NEW c \in Callers, EnsureInstalled(c)
      PROVE  TypeOK' /\ ConnsAreExclusive' /\ MigratorHasLock'
  <2>1. /\ call' = [call EXCEPT ![c] = [NoCall EXCEPT !.pc = "acquire"]]
        /\ call[c].pc = "idle" /\ UNCHANGED <<objects, mlock, free>>
    BY <1>1 DEF EnsureInstalled
  <2>2. /\ call' \in [Callers -> Calls]
        /\ call'[c] = [NoCall EXCEPT !.pc = "acquire"]
        /\ \A d \in Callers : d # c => call'[d] = call[d]
    BY <1>0, <2>1, CallUpdate
  <2>3. call'[c].pc = "acquire" /\ call'[c].conn = Nil /\ call[c].conn = Nil
    BY <2>1, <2>2 DEF NoCall, ConnsAreExclusive
  <2>4. TypeOK'
    BY <2>1, <2>2 DEF TypeOK
  <2>5. ConnsAreExclusive'
    BY <2>1, <2>2, <2>3, ConnKept
  <2>6. MigratorHasLock'
    BY <2>1, <2>2, <2>3 DEF MigratorHasLock
  <2> QED
    BY <2>4, <2>5, <2>6
<1>2. ASSUME NEW c \in Callers, AcquireConn(c)
      PROVE  TypeOK' /\ ConnsAreExclusive' /\ MigratorHasLock'
  <2>1. PICK k \in free : /\ free' = free \ {k}
                          /\ call' = [call EXCEPT ![c].pc = "lock", ![c].conn = k]
    BY <1>2 DEF AcquireConn
  <2>2. k \in Conns /\ call[c].pc = "acquire" /\ UNCHANGED <<objects, mlock>>
    BY <1>2 DEF AcquireConn, TypeOK
  <2> DEFINE r == [call[c] EXCEPT !.pc = "lock", !.conn = k]
  <2>3. r \in Calls /\ r.pc = "lock" /\ r.conn = k
    BY <1>0, <2>2 DEF Calls
  <2>4. call' = [call EXCEPT ![c] = r]
    BY <2>1 DEF TypeOK
  <2> HIDE DEF r
  <2>5. /\ call' \in [Callers -> Calls] /\ call'[c] = r
        /\ \A d \in Callers : d # c => call'[d] = call[d]
    BY <2>3, <2>4, CallUpdate
  <2>6. TypeOK'
    BY <2>1, <2>2, <2>5 DEF TypeOK
  <2>7. ConnsAreExclusive'
    <3>1. ASSUME NEW d \in Callers
          PROVE  /\ call'[d].conn # Nil <=> call'[d].pc \in {"lock", "migrate", "unlock"}
                 /\ call'[d].conn \notin free'
      BY <1>0, <2>1, <2>2, <2>3, <2>5 DEF ConnsAreExclusive
    <3>2. ASSUME NEW d \in Callers, NEW e \in Callers,
                 call'[d].conn # Nil, call'[e].conn = call'[d].conn
          PROVE  d = e
      BY <2>1, <2>3, <2>5, <3>2 DEF ConnsAreExclusive
    <3> QED
      BY <3>1, <3>2 DEF ConnsAreExclusive
  <2>8. MigratorHasLock'
    BY <2>2, <2>3, <2>5 DEF MigratorHasLock
  <2> QED
    BY <2>6, <2>7, <2>8
<1>3. ASSUME NEW c \in Callers, MigrationLock(c)
      PROVE  TypeOK' /\ ConnsAreExclusive' /\ MigratorHasLock'
  <2> DEFINE k == call[c].conn
             r == [call[c] EXCEPT !.pc = "migrate"]
  <2>1. /\ call[c].pc = "lock" /\ mlock.holder \in {Nil, k} /\ UNCHANGED <<objects, free>>
        /\ call' = [call EXCEPT ![c].pc = "migrate"]
        /\ mlock' = [holder |-> k, depth |-> IF mlock.holder = k THEN mlock.depth + 1 ELSE 1]
    BY <1>3 DEF MigrationLock, Lockable
  <2>2. k \in Conns /\ k # Nil
    BY <1>0, <2>1 DEF ConnsAreExclusive, Calls
  <2>3. r \in Calls /\ r.pc = "migrate" /\ r.conn = k
    BY <1>0 DEF Calls
  <2>4. call' = [call EXCEPT ![c] = r]
    BY <2>1 DEF TypeOK
  <2> HIDE DEF r
  <2>5. /\ call' \in [Callers -> Calls] /\ call'[c] = r
        /\ \A d \in Callers : d # c => call'[d] = call[d]
    BY <2>3, <2>4, CallUpdate
  <2>6. TypeOK'
    <3>1. mlock' \in [holder: Conns \cup {Nil}, depth: Nat] /\ mlock'.depth # 0 /\ mlock'.holder = k
      BY <2>1, <2>2 DEF TypeOK
    <3> QED
      BY <2>1, <2>2, <2>5, <3>1 DEF TypeOK
  <2>7. ConnsAreExclusive'
    BY <2>1, <2>2, <2>3, <2>5, ConnKept
  <2>8. ASSUME NEW d \in Callers, d # c,
               call[d].pc = "migrate" \/ (call[d].pc = "unlock" /\ ~call[d].dead)
        PROVE  FALSE
    <3>1. mlock.holder = call[d].conn /\ call[d].conn # Nil
      BY <2>8 DEF ConnsAreExclusive, MigratorHasLock
    <3> QED
      BY <1>0, <2>1, <2>2, <2>8, <3>1 DEF ConnsAreExclusive
  <2>9. MigratorHasLock'
    BY <2>1, <2>3, <2>5, <2>8 DEF MigratorHasLock
  <2> QED
    BY <2>6, <2>7, <2>9
<1>4. ASSUME NEW c \in Callers, MigrationStep(c)
      PROVE  TypeOK' /\ ConnsAreExclusive' /\ MigratorHasLock'
  <2> DEFINE n == call[c].step
             r == IF n < 4 THEN [call[c] EXCEPT !.step = n + 1]
                  ELSE [call[c] EXCEPT !.pc = "unlock", !.ret = "ok"]
  <2>1. /\ call[c].pc = "migrate" /\ UNCHANGED <<mlock, free>>
        /\ objects' = Migrate(objects, n)
        /\ call' = [call EXCEPT ![c] = r]
    BY <1>4 DEF MigrationStep, TypeOK
  <2>2. n \in 1..4 /\ Migrate(objects, n) \in SUBSET Schema
    BY <1>0, MigrateType DEF Calls, TypeOK
  <2>3. /\ r \in Calls /\ r.pc \in {"migrate", "unlock"}
        /\ r.conn = call[c].conn /\ r.dead = call[c].dead
    <3>1. CASE n < 4
      <4>1. r = [call[c] EXCEPT !.step = n + 1] /\ n + 1 \in 1..4
        BY <2>2, <3>1
      <4> QED
        BY <1>0, <2>1, <4>1 DEF Calls
    <3>2. CASE ~(n < 4)
      <4>1. r = [call[c] EXCEPT !.pc = "unlock", !.ret = "ok"]
        BY <3>2
      <4> QED
        BY <1>0, <2>1, <4>1 DEF Calls
    <3> QED
      BY <3>1, <3>2
  <2> HIDE DEF r
  <2>4. /\ call' \in [Callers -> Calls] /\ call'[c] = r
        /\ \A d \in Callers : d # c => call'[d] = call[d]
    BY <2>1, <2>3, CallUpdate
  <2>5. TypeOK'
    BY <2>1, <2>2, <2>4 DEF TypeOK
  <2>6. ConnsAreExclusive'
    <3>1. call[c].conn # Nil
      BY <2>1 DEF ConnsAreExclusive
    <3> QED
      BY <2>1, <2>3, <2>4, <3>1, ConnKept
  <2>7. MigratorHasLock'
    BY <2>1, <2>3, <2>4 DEF MigratorHasLock
  <2> QED
    BY <2>5, <2>6, <2>7
<1>5. ASSUME NEW c \in Callers, NEW fault \in BOOLEAN, InstallFails(c, fault)
      PROVE  TypeOK' /\ ConnsAreExclusive' /\ MigratorHasLock'
  <2> DEFINE k == call[c].conn
  <2>1. /\ call[c].pc \in {"acquire", "lock"} /\ UNCHANGED objects
        /\ free' = IF k = Nil THEN free ELSE free \cup {k}
        /\ mlock' \in {mlock, Without(k)}
        /\ call' = [call EXCEPT ![c] = [NoCall EXCEPT !.ret = "error"]]
    BY <1>5 DEF InstallFails, ReleasedBy
  <2>2. /\ call' \in [Callers -> Calls] /\ call'[c] = [NoCall EXCEPT !.ret = "error"]
        /\ \A d \in Callers : d # c => call'[d] = call[d]
    BY <1>0, <2>1, CallUpdate
  <2>3. TypeOK'
    <3>1. free' \subseteq Conns
      BY <1>0, <2>1 DEF TypeOK, Calls
    <3> QED
      BY <2>1, <2>2, <3>1, WithoutType DEF TypeOK
  <2>4. call'[c].pc = "idle" /\ call'[c].conn = Nil
    BY <2>2 DEF NoCall
  <2>5. ConnsAreExclusive'
    BY <1>0, <2>1, <2>2, <2>4, ConnReleased
  <2>6. MigratorHasLock'
    <3>1. ASSUME NEW d \in Callers, d # c, call[d].conn # Nil
          PROVE  mlock.holder = call[d].conn => mlock' = mlock
      <4>1. call[d].conn # k
        BY <3>1 DEF ConnsAreExclusive
      <4> QED
        BY <2>1, <4>1, WithoutType
    <3>2. \A d \in Callers : call[d].pc \in {"migrate", "unlock"} => call[d].conn # Nil
      BY DEF ConnsAreExclusive
    <3> QED
      BY <2>2, <2>4, <3>1, <3>2 DEF MigratorHasLock
  <2> QED
    BY <2>3, <2>5, <2>6
<1>6. ASSUME NEW c \in Callers, NEW dead \in BOOLEAN, MigrationFails(c, dead)
      PROVE  TypeOK' /\ ConnsAreExclusive' /\ MigratorHasLock'
  <2> DEFINE k == call[c].conn
             r == [call[c] EXCEPT !.pc = "unlock", !.dead = dead, !.ret = "error"]
  <2>1. /\ call[c].pc = "migrate" /\ UNCHANGED free
        /\ objects' \in {objects, Migrate(objects, call[c].step)}
        /\ mlock' = IF dead THEN Without(k) ELSE mlock
        /\ call' = [call EXCEPT ![c].pc = "unlock", ![c].dead = dead, ![c].ret = "error"]
    BY <1>6 DEF MigrationFails, RetAfterFailure
  <2>2. Migrate(objects, call[c].step) \in SUBSET Schema
    BY <1>0, MigrateType DEF Calls, TypeOK
  <2>3. r \in Calls /\ r.pc = "unlock" /\ r.conn = k /\ r.dead = dead
    BY <1>0 DEF Calls
  <2>4. call' = [call EXCEPT ![c] = r]
    BY <2>1 DEF TypeOK
  <2> HIDE DEF r
  <2>5. /\ call' \in [Callers -> Calls] /\ call'[c] = r
        /\ \A d \in Callers : d # c => call'[d] = call[d]
    BY <2>3, <2>4, CallUpdate
  <2>6. TypeOK'
    BY <2>1, <2>2, <2>5, WithoutType DEF TypeOK
  <2>7. ConnsAreExclusive'
    <3>1. call[c].conn # Nil
      BY <2>1 DEF ConnsAreExclusive
    <3> QED
      BY <2>1, <2>3, <2>5, <3>1, ConnKept
  <2>8. MigratorHasLock'
    <3>1. ASSUME NEW d \in Callers, d # c, call[d].conn # Nil
          PROVE  mlock.holder # call[d].conn
      BY <2>1, <3>1 DEF ConnsAreExclusive, MigratorHasLock
    <3> QED
      BY <2>1, <2>3, <2>5, <3>1 DEF MigratorHasLock, ConnsAreExclusive
  <2> QED
    BY <2>6, <2>7, <2>8
<1>7. ASSUME NEW c \in Callers, Unlock(c)
      PROVE  TypeOK' /\ ConnsAreExclusive' /\ MigratorHasLock'
  <2> DEFINE k == call[c].conn
             r == [NoCall EXCEPT !.ret = call[c].ret]
  <2>1. /\ call[c].pc = "unlock" /\ UNCHANGED objects
        /\ mlock' = IF call[c].canceled \/ call[c].dead THEN mlock
                    ELSE IF mlock.depth = 1 THEN Unlocked
                    ELSE [mlock EXCEPT !.depth = @ - 1]
        /\ free' = IF k = Nil THEN free ELSE free \cup {k}
        /\ call' = [call EXCEPT ![c] = r]
    BY <1>7 DEF Unlock, ReleasedBy
  <2>2. k \in Conns /\ k # Nil
    BY <1>0, <2>1 DEF ConnsAreExclusive, Calls
  <2>3. ~call[c].dead => mlock.holder = k
    BY <2>1 DEF MigratorHasLock
  <2>4. r \in Calls /\ r.pc = "idle" /\ r.conn = Nil
    BY <1>0 DEF Calls, NoCall
  <2> HIDE DEF r
  <2>5. /\ call' \in [Callers -> Calls] /\ call'[c] = r
        /\ \A d \in Callers : d # c => call'[d] = call[d]
    BY <2>1, <2>4, CallUpdate
  <2>6. TypeOK'
    <3>1. mlock' \in [holder: Conns \cup {Nil}, depth: Nat] /\ (mlock'.holder = Nil <=> mlock'.depth = 0)
      BY <1>0, <2>1, <2>2, <2>3 DEF TypeOK, Unlocked
    <3> QED
      BY <2>1, <2>2, <2>5, <3>1 DEF TypeOK
  <2>7. ConnsAreExclusive'
    BY <1>0, <2>1, <2>4, <2>5, ConnReleased
  <2>8. MigratorHasLock'
    <3>1. ASSUME NEW d \in Callers, d # c, call[d].conn # Nil, mlock.holder = call[d].conn
          PROVE  mlock' = mlock
      <4>1. call[d].conn # k
        BY <3>1 DEF ConnsAreExclusive
      <4> QED
        BY <2>1, <2>3, <3>1, <4>1
    <3> QED
      BY <2>4, <2>5, <3>1 DEF MigratorHasLock, ConnsAreExclusive
  <2> QED
    BY <2>6, <2>7, <2>8
<1>8. ASSUME NEW c \in Callers, Cancel(c)
      PROVE  TypeOK' /\ ConnsAreExclusive' /\ MigratorHasLock'
  <2> DEFINE r == [call[c] EXCEPT !.canceled = TRUE]
  <2>1. call' = [call EXCEPT ![c] = r] /\ UNCHANGED <<objects, mlock, free>>
    BY <1>8 DEF Cancel, TypeOK
  <2>2. /\ r \in Calls /\ r.pc = call[c].pc /\ r.conn = call[c].conn /\ r.dead = call[c].dead
    BY <1>0 DEF Calls
  <2> HIDE DEF r
  <2>3. /\ call' \in [Callers -> Calls] /\ call'[c] = r
        /\ \A d \in Callers : d # c => call'[d] = call[d]
    BY <2>1, <2>2, CallUpdate
  <2>4. TypeOK'
    BY <2>1, <2>3 DEF TypeOK
  <2>5. ConnsAreExclusive'
    <3>1. call[c].conn # Nil <=> call[c].pc \in {"lock", "migrate", "unlock"}
      BY DEF ConnsAreExclusive
    <3> QED
      BY <2>1, <2>2, <2>3, <3>1, ConnKept
  <2>6. MigratorHasLock'
    BY <2>1, <2>2, <2>3 DEF MigratorHasLock
  <2> QED
    BY <2>4, <2>5, <2>6
<1>9. ASSUME NEW k \in Conns, Retire(k)
      PROVE  TypeOK' /\ ConnsAreExclusive' /\ MigratorHasLock'
  <2>1. k \in free /\ mlock' = Without(k) /\ UNCHANGED <<objects, free, call>>
    BY <1>9 DEF Retire
  <2>2. TypeOK'
    BY <2>1, WithoutType DEF TypeOK
  <2>3. \A d \in Callers : call[d].conn # k
    BY <2>1 DEF ConnsAreExclusive
  <2>4. \A d \in Callers : mlock.holder = call[d].conn => mlock' = mlock
    BY <2>1, <2>3, WithoutType
  <2> QED
    BY <2>1, <2>2, <2>4 DEF ConnsAreExclusive, MigratorHasLock
<1>10. CASE UNCHANGED vars
  BY <1>10 DEF vars, TypeOK, ConnsAreExclusive, MigratorHasLock
<1> QED
  BY <1>1, <1>2, <1>3, <1>4, <1>5, <1>6, <1>7, <1>8, <1>9, <1>10 DEF Next, Step

-------------------------------------------------------------------------------
(***************************************************************************)
(* The theorems.                                                           *)
(***************************************************************************)

\* LockInv holds throughout.
LEMMA LockAlways == Spec => []LockInv
BY LockInit, LockNext, PTL DEF Spec

\* The database has objects of the schema only, and the migration lock is
\* somebody's exactly as long as it was taken more often than given back.
THEOREM TypeCorrect == Spec => []TypeOK
BY LockAlways, PTL DEF LockInv

\* EnsureInstalled never runs two migrations at once, whatever calls were
\* cancelled with the lock still on their connection, and whatever
\* connections died: two migrators would have one connection.
THEOREM MigrationsExclusive == Spec => []OneMigrationAtATime
<1>1. LockInv => OneMigrationAtATime
  BY DEF LockInv, OneMigrationAtATime, ConnsAreExclusive, MigratorHasLock
<1> QED
  BY <1>1, LockAlways, PTL

\* What a call of EnsureInstalled has created is there, as long as the names
\* are different: no step, of whatever migration, removes anything.
LEMMA ProgressNext ==
    ASSUME NamesDiffer, TypeOK, MigrationProgress, [Next]_vars
    PROVE  MigrationProgress'
<1>0. /\ objects \in SUBSET Schema
      /\ \A d \in Callers : call[d] \in Calls /\ call[d].step \in 1..4
  BY DEF TypeOK, Calls
<1>1. ASSUME objects \subseteq objects', NEW c \in Callers,
             \A d \in Callers : d # c => call'[d] = call[d],
             call'[c].pc # "unlock" => Created(call'[c].step - 1, objects'),
             call'[c].ret = "ok" => Schema \subseteq objects'
      PROVE  MigrationProgress'
  <2>1. ASSUME NEW n \in Int, Created(n, objects)
        PROVE  Created(n, objects')
    BY <1>1, <2>1 DEF Created
  <2>2. ASSUME NEW d \in Callers, d # c
        PROVE  /\ call'[d].pc # "unlock" => Created(call'[d].step - 1, objects')
               /\ call'[d].ret = "ok" => Schema \subseteq objects'
    <3>1. call'[d] = call[d] /\ call[d].step - 1 \in Int
      BY <1>0, <1>1, <2>2
    <3> QED
      BY <1>1, <2>1, <3>1 DEF MigrationProgress
  <2> QED
    BY <1>1, <2>2 DEF MigrationProgress
\* A call that is no further than before, or over, or new.
<1>2. ASSUME UNCHANGED objects, NEW c \in Callers, NEW r,
             call' = [call EXCEPT ![c] = r],
             r.step \in {1, call[c].step},
             call[c].pc = "unlock" => r.step = 1,
             r.ret \in {"none", "error", call[c].ret}
      PROVE  MigrationProgress'
  <2>1. /\ \A d \in Callers : d # c => call'[d] = call[d]
        /\ call'[c] = r
    BY <1>2 DEF TypeOK
  <2>2. Created(r.step - 1, objects)
    <3>1. CASE r.step = 1
      BY <3>1 DEF Created
    <3>2. CASE r.step # 1
      BY <1>2, <3>2 DEF MigrationProgress
    <3> QED
      BY <3>1, <3>2
  <2>3. r.ret = "ok" => Schema \subseteq objects
    BY <1>2 DEF MigrationProgress
  <2> QED
    BY <1>1, <1>2, <2>1, <2>2, <2>3
<1>3. ASSUME NEW c \in Callers, EnsureInstalled(c)
      PROVE  MigrationProgress'
  <2> DEFINE r == [NoCall EXCEPT !.pc = "acquire"]
  <2>1. UNCHANGED objects /\ call' = [call EXCEPT ![c] = r]
    BY <1>3 DEF EnsureInstalled
  <2>2. r.step = 1 /\ r.ret = "none"
    BY DEF NoCall
  <2> HIDE DEF r
  <2> QED
    BY <1>2, <2>1, <2>2
<1>4. ASSUME NEW c \in Callers, NEW fault \in BOOLEAN, InstallFails(c, fault)
      PROVE  MigrationProgress'
  <2> DEFINE r == [NoCall EXCEPT !.ret = "error"]
  <2>1. UNCHANGED objects /\ call' = [call EXCEPT ![c] = r]
    BY <1>4 DEF InstallFails
  <2>2. r.step = 1 /\ r.ret = "error"
    BY DEF NoCall
  <2> HIDE DEF r
  <2> QED
    BY <1>2, <2>1, <2>2
<1>5. ASSUME NEW c \in Callers, Unlock(c)
      PROVE  MigrationProgress'
  <2> DEFINE r == [NoCall EXCEPT !.ret = call[c].ret]
  <2>1. UNCHANGED objects /\ call' = [call EXCEPT ![c] = r]
    BY <1>5 DEF Unlock
  <2>2. r.step = 1 /\ r.ret = call[c].ret
    BY DEF NoCall
  <2> HIDE DEF r
  <2> QED
    BY <1>2, <2>1, <2>2
<1>6. ASSUME NEW c \in Callers, AcquireConn(c)
      PROVE  MigrationProgress'
  <2>1. PICK k \in free : call' = [call EXCEPT ![c].pc = "lock", ![c].conn = k]
    BY <1>6 DEF AcquireConn
  <2> DEFINE r == [call[c] EXCEPT !.pc = "lock", !.conn = k]
  <2>2. /\ UNCHANGED objects /\ call[c].pc = "acquire"
        /\ call' = [call EXCEPT ![c] = r]
    BY <1>6, <2>1 DEF AcquireConn, TypeOK
  <2>3. r.step = call[c].step /\ r.ret = call[c].ret
    BY <1>0 DEF Calls
  <2> HIDE DEF r
  <2> QED
    BY <1>2, <2>2, <2>3
<1>7. ASSUME NEW c \in Callers, MigrationLock(c)
      PROVE  MigrationProgress'
  <2> DEFINE r == [call[c] EXCEPT !.pc = "migrate"]
  <2>1. /\ UNCHANGED objects /\ call[c].pc = "lock"
        /\ call' = [call EXCEPT ![c] = r]
    BY <1>7 DEF MigrationLock, TypeOK
  <2>2. r.step = call[c].step /\ r.ret = call[c].ret
    BY <1>0 DEF Calls
  <2> HIDE DEF r
  <2> QED
    BY <1>2, <2>1, <2>2
<1>8. ASSUME NEW c \in Callers, Cancel(c)
      PROVE  MigrationProgress'
  <2> DEFINE r == [call[c] EXCEPT !.canceled = TRUE]
  <2>1. UNCHANGED objects /\ call' = [call EXCEPT ![c] = r]
    BY <1>8 DEF Cancel, TypeOK
  <2>2. r.step = call[c].step /\ r.ret = call[c].ret /\ r.pc = call[c].pc
    BY <1>0 DEF Calls
  <2> HIDE DEF r
  <2>3. /\ \A d \in Callers : d # c => call'[d] = call[d]
        /\ call'[c] = r
    BY <2>1 DEF TypeOK
  <2> QED
    BY <1>1, <2>1, <2>2, <2>3 DEF MigrationProgress
<1>9. ASSUME NEW c \in Callers, MigrationStep(c)
      PROVE  MigrationProgress'
  <2> DEFINE n == call[c].step
             r == IF n < 4 THEN [call[c] EXCEPT !.step = n + 1]
                  ELSE [call[c] EXCEPT !.pc = "unlock", !.ret = "ok"]
  <2>1. /\ call[c].pc = "migrate"
        /\ objects' = Migrate(objects, n)
        /\ call' = [call EXCEPT ![c] = r]
    BY <1>9 DEF MigrationStep, TypeOK
  <2>2. n \in 1..4 /\ Created(n - 1, objects)
    BY <1>0, <2>1 DEF MigrationProgress
  <2>3. Created(n, objects') /\ objects \subseteq objects'
    BY <1>0, <2>1, <2>2, MigrateCreates, MigrateType
  <2>4. /\ \A d \in Callers : d # c => call'[d] = call[d]
        /\ call'[c] = r
    BY <2>1 DEF TypeOK
  <2>5. CASE n < 4
    <3>1. r.step = n + 1 /\ r.ret = call[c].ret
      BY <1>0, <2>5 DEF Calls
    <3>2. r.step - 1 = n
      BY <2>2, <3>1
    <3>3. call[c].ret = "ok" => Schema \subseteq objects
      BY DEF MigrationProgress
    <3> HIDE DEF r, n
    <3> QED
      BY <1>1, <2>3, <2>4, <3>1, <3>2, <3>3
  <2>6. CASE ~(n < 4)
    <3>1. r.pc = "unlock"
      BY <1>0, <2>6 DEF Calls
    <3>2. n = 4
      BY <2>2, <2>6
    <3>3. Schema \subseteq objects'
      BY <2>3, <3>2, FourStatements
    <3> HIDE DEF r, n
    <3> QED
      BY <1>1, <2>3, <2>4, <3>1, <3>3
  <2> QED
    BY <2>5, <2>6
<1>10. ASSUME NEW c \in Callers, NEW dead \in BOOLEAN, MigrationFails(c, dead)
       PROVE  MigrationProgress'
  <2> DEFINE r == [call[c] EXCEPT !.pc = "unlock", !.dead = dead, !.ret = "error"]
  <2>1. /\ call[c].pc = "migrate"
        /\ objects' \in {objects, Migrate(objects, call[c].step)}
        /\ call' = [call EXCEPT ![c].pc = "unlock", ![c].dead = dead, ![c].ret = "error"]
    BY <1>10 DEF MigrationFails, RetAfterFailure
  <2>2. call' = [call EXCEPT ![c] = r]
    BY <2>1 DEF TypeOK
  <2>3. r.pc = "unlock" /\ r.ret = "error"
    BY <1>0 DEF Calls
  <2> HIDE DEF r
  <2>4. /\ \A d \in Callers : d # c => call'[d] = call[d]
        /\ call'[c] = r
    BY <2>2 DEF TypeOK
  <2>5. objects \subseteq objects'
    BY <1>0, <2>1, MigrateType
  <2> QED
    BY <1>1, <2>3, <2>4, <2>5
<1>11. CASE UNCHANGED <<objects, call>>
  BY <1>11 DEF MigrationProgress
<1>12. ASSUME NEW k \in Conns, Retire(k)
       PROVE  MigrationProgress'
  BY <1>11, <1>12 DEF Retire
<1> QED
  BY <1>3, <1>4, <1>5, <1>6, <1>7, <1>8, <1>9, <1>10, <1>11, <1>12 DEF Next, Step, vars

\* When EnsureInstalled has returned nil, everything is installed, if only the
\* names of the table and of the indexes stay different when Postgres cuts
\* them off, as up to 60 characters do (ShortNamesDiffer).
THEOREM InstallComplete == NamesDiffer => (Spec => []InstalledMeansComplete)
<1> SUFFICES ASSUME NamesDiffer PROVE Spec => []InstalledMeansComplete
  OBVIOUS
<1>1. Init => MigrationProgress
  <2>1. Created(0, {})
    BY DEF Created
  <2>2. NoCall.step - 1 = 0 /\ NoCall.ret # "ok"
    BY DEF NoCall
  <2> QED
    BY <2>1, <2>2 DEF Init, MigrationProgress
<1>2. LockInv /\ MigrationProgress /\ [Next]_vars => MigrationProgress'
  BY ProgressNext DEF LockInv
<1>3. MigrationProgress => InstalledMeansComplete
  BY DEF MigrationProgress, InstalledMeansComplete
<1> QED
  BY <1>1, <1>2, <1>3, LockAlways, PTL DEF Spec
===============================================================================
