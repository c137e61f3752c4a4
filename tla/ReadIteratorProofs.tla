-------------------------- MODULE ReadIteratorProofs --------------------------
(***************************************************************************)
(* Proofs about the cursor iterator and the connections of a Read, for any *)
(* number of callers, any results, batch size and pool.                    *)
(***************************************************************************)
EXTENDS ReadIterator, FiniteSetTheorems, SequenceTheorems, TLAPS

-------------------------------------------------------------------------------
(***************************************************************************)
(* The inductive invariant: what is left of the result is in the buffer    *)
(* and behind the cursor, in order, and nowhere else.                      *)
(***************************************************************************)

\* How many rows of the batch Next has not yielded.
Rest(buf, idx) == IF idx < Len(buf) THEN Len(buf) - idx ELSE 0

\* y is the beginning of res, whose rows decode so far.
Begins(y, res) ==
    /\ Len(y) <= Len(res)
    /\ \A k \in 1..Len(y) : y[k].pos = res[k].pos /\ Decodable(res[k])

\* After y, the rows of res are the rest of the batch and then those of cur.
Continues(y, res, buf, idx, cur) ==
    /\ Len(res) = Len(y) + Rest(buf, idx) + Len(cur)
    /\ \A k \in 1..Rest(buf, idx) : buf[idx + k] = res[Len(y) + k]
    /\ \A k \in 1..Len(cur) : cur[k] = res[Len(y) + Rest(buf, idx) + k]

\* The states of a Read that has not declared its cursor.
Undeclared == {"b_acquire", "barrier", "r_acquire", "begin", "declare", "panic"}

ProgressOK(i) ==
    /\ Begins(i.yielded, i.result)
    /\ ~i.err => Continues(i.yielded, i.result, i.buffer, i.idx, i.cursor)
    /\ i.exhausted /\ ~i.err => Len(i.cursor) = 0
    /\ i.pc = "end" /\ ~i.err => Rest(i.buffer, i.idx) = 0 /\ Len(i.cursor) = 0
    /\ i.pc = "next" => Rest(i.buffer, i.idx) = 0
    /\ i.pc \in Undeclared => i.yielded = <<>> /\ i.buffer = <<>> /\ ~i.exhausted
    /\ i.err => i.pc \in {"end", "idle"}
    /\ \A k \in 1..Len(i.buffer) : Decodable(i.buffer[k])

ConnOK(i) ==
    /\ i.conn = "none" <=> i.pc \in {"idle", "b_acquire", "r_acquire"}
    /\ i.conn = "dead" => i.broken
    /\ i.lost => i.broken /\ i.pc = "idle"

PoolInv ==
    /\ IsFiniteSet(Holders)
    /\ pool = PoolSize - Cardinality(Holders)
    /\ pool >= 0

IterInv ==
    /\ it \in [Callers -> Iterator]
    /\ \A c \in Callers : ProgressOK(it[c]) /\ ConnOK(it[c])
    /\ PoolInv

-------------------------------------------------------------------------------
(***************************************************************************)
(* The sequences.                                                          *)
(***************************************************************************)

\* Next moves on within the batch: one row more of the result is yielded.
LEMMA YieldNext ==
    ASSUME NEW y \in Seq(SequencedEvent), NEW res \in Seq(AppendedEvent),
           NEW buf \in Seq(AppendedEvent), NEW cur \in Seq(AppendedEvent), NEW idx \in Nat,
           Begins(y, res), Continues(y, res, buf, idx, cur),
           idx < Len(buf), Decodable(buf[idx + 1]),
           NEW z, z = Append(y, rowToSequencedEvent(buf[idx + 1]))
    PROVE  /\ z \in Seq(SequencedEvent)
           /\ Begins(z, res)
           /\ Continues(z, res, buf, idx + 1, cur)
<1>1. Len(y) \in Nat /\ Len(res) \in Nat /\ Len(buf) \in Nat /\ Len(cur) \in Nat
  BY LenProperties
<1>2. buf[idx + 1] \in AppendedEvent
  BY <1>1, ElementOfSeq
<1> DEFINE e == rowToSequencedEvent(buf[idx + 1])
<1>3. e \in SequencedEvent /\ e.pos = buf[idx + 1].pos
  BY <1>2 DEF rowToSequencedEvent, SequencedEvent, AppendedEvent, Decodable, isValidTagToken
<1> HIDE DEF e
<1>4. /\ z \in Seq(SequencedEvent)
      /\ Len(z) = Len(y) + 1
      /\ \A k \in 1..Len(y) : z[k] = y[k]
      /\ z[Len(y) + 1] = e
  BY <1>3, AppendProperties DEF e
<1>5. /\ Rest(buf, idx) \in Nat /\ Rest(buf, idx) > 0
      /\ Rest(buf, idx + 1) \in Nat /\ Rest(buf, idx + 1) = Rest(buf, idx) - 1
  BY <1>1 DEF Rest
<1>6. buf[idx + 1] = res[Len(y) + 1]
  BY <1>1, <1>5 DEF Continues
<1>7. Begins(z, res)
  BY <1>1, <1>3, <1>4, <1>5, <1>6 DEF Begins, Continues
<1>8. Len(res) = Len(z) + Rest(buf, idx + 1) + Len(cur)
  BY <1>1, <1>4, <1>5 DEF Continues
<1>9. ASSUME NEW k \in 1..Rest(buf, idx + 1)
      PROVE  buf[(idx + 1) + k] = res[Len(z) + k]
  <2>1. k + 1 \in 1..Rest(buf, idx) /\ idx + (k + 1) = (idx + 1) + k /\ Len(y) + (k + 1) = Len(z) + k
    BY <1>1, <1>4, <1>5
  <2> QED
    BY <2>1 DEF Continues
<1>10. ASSUME NEW k \in 1..Len(cur)
       PROVE  cur[k] = res[Len(z) + Rest(buf, idx + 1) + k]
  <2>1. Len(z) + Rest(buf, idx + 1) + k = Len(y) + Rest(buf, idx) + k
    BY <1>1, <1>4, <1>5
  <2> QED
    BY <2>1 DEF Continues
<1> QED
  BY <1>4, <1>7, <1>8, <1>9, <1>10 DEF Continues

\* FETCH moves the first rows behind the cursor into the buffer, which was
\* used up: what follows the rows yielded so far is the same as before.
LEMMA FetchContinues ==
    ASSUME NEW y \in Seq(SequencedEvent), NEW res \in Seq(AppendedEvent),
           NEW buf \in Seq(AppendedEvent), NEW cur \in Seq(AppendedEvent), NEW idx \in Nat,
           Continues(y, res, buf, idx, cur), Rest(buf, idx) = 0,
           NEW n \in 0..Len(cur)
    PROVE  /\ SubSeq(cur, 1, n) \in Seq(AppendedEvent) /\ Len(SubSeq(cur, 1, n)) = n
           /\ \A k \in 1..n : SubSeq(cur, 1, n)[k] = cur[k]
           /\ SubSeq(cur, n + 1, Len(cur)) \in Seq(AppendedEvent)
           /\ Len(SubSeq(cur, n + 1, Len(cur))) = Len(cur) - n
           /\ Continues(y, res, SubSeq(cur, 1, n), 0, SubSeq(cur, n + 1, Len(cur)))
<1> DEFINE batch == SubSeq(cur, 1, n)
           more  == SubSeq(cur, n + 1, Len(cur))
<1>1. Len(y) \in Nat /\ Len(res) \in Nat /\ Len(cur) \in Nat /\ n \in Nat /\ n <= Len(cur)
  BY LenProperties
<1>2. \A k \in 1..Len(cur) : cur[k] \in AppendedEvent
  BY ElementOfSeq
<1>3. batch \in Seq(AppendedEvent) /\ Len(batch) = n /\ \A k \in 1..n : batch[k] = cur[k]
  <2>1. \A k \in 1..n : cur[k] \in AppendedEvent
    BY <1>1, <1>2
  <2>2. /\ batch \in Seq(AppendedEvent)
        /\ Len(batch) = IF 1 <= n THEN n - 1 + 1 ELSE 0
        /\ \A k \in 1..(n - 1 + 1) : batch[k] = cur[1 + k - 1]
    BY <1>1, <2>1, SubSeqProperties
  <2>3. \A k \in 1..n : 1 + k - 1 = k /\ k \in 1..(n - 1 + 1)
    BY <1>1
  <2> HIDE DEF batch
  <2> QED
    BY <1>1, <2>2, <2>3
<1>4. /\ more \in Seq(AppendedEvent) /\ Len(more) = Len(cur) - n
      /\ \A k \in 1..(Len(cur) - n) : more[k] = cur[n + k]
  <2>1. \A k \in (n + 1)..Len(cur) : cur[k] \in AppendedEvent
    BY <1>1, <1>2
  <2>2. /\ more \in Seq(AppendedEvent)
        /\ Len(more) = IF n + 1 <= Len(cur) THEN Len(cur) - (n + 1) + 1 ELSE 0
        /\ \A k \in 1..(Len(cur) - (n + 1) + 1) : more[k] = cur[n + 1 + k - 1]
    BY <1>1, <2>1, SubSeqProperties
  <2>3. \A k \in 1..(Len(cur) - n) : n + 1 + k - 1 = n + k /\ k \in 1..(Len(cur) - (n + 1) + 1)
    BY <1>1
  <2> HIDE DEF more
  <2> QED
    BY <1>1, <2>2, <2>3
<1>5. Rest(batch, 0) = n
  BY <1>1, <1>3 DEF Rest
<1> HIDE DEF batch, more
<1>6. Continues(y, res, batch, 0, more)
  <2>1. Len(res) = Len(y) + n + Len(more) /\ Len(res) = Len(y) + Len(cur)
    BY <1>1, <1>4 DEF Continues
  <2>2. ASSUME NEW k \in 1..n PROVE batch[0 + k] = res[Len(y) + k]
    <3>1. k \in 1..Len(cur) /\ 0 + k = k /\ Len(y) + 0 + k = Len(y) + k
      BY <1>1
    <3> QED
      BY <1>3, <3>1 DEF Continues
  <2>3. ASSUME NEW k \in 1..Len(more) PROVE more[k] = res[Len(y) + n + k]
    <3>1. n + k \in 1..Len(cur) /\ Len(y) + 0 + (n + k) = Len(y) + n + k
      BY <1>1, <1>4
    <3> QED
      BY <1>4, <3>1 DEF Continues
  <2> QED
    BY <1>5, <2>1, <2>2, <2>3 DEF Continues
<1> QED
  BY <1>3, <1>4, <1>6 DEF batch, more

-------------------------------------------------------------------------------
(***************************************************************************)
(* The steps.  Each replaces the state of one call and takes a connection  *)
(* from the pool, gives one back, or leaves the pool alone.                *)
(***************************************************************************)
SameRows(i, j) ==
    /\ j.yielded = i.yielded /\ j.result = i.result /\ j.buffer = i.buffer /\ j.idx = i.idx
    /\ j.cursor = i.cursor /\ j.exhausted = i.exhausted /\ j.err = i.err

HoldsRead(i)   == i.conn # "none"
HoldsAppend(i) == i.pc = "appending"

Effect(c, j) ==
    /\ it' = [it EXCEPT ![c] = j]
    /\ j \in Iterator /\ ProgressOK(j) /\ ConnOK(j)
    /\ \/ /\ pool' = pool
          /\ HoldsRead(j) <=> HoldsRead(it[c])
          /\ HoldsAppend(j) <=> HoldsAppend(it[c])
       \/ /\ pool' = pool - 1 /\ pool > 0
          /\ HoldsRead(j) /\ ~HoldsRead(it[c])
          /\ HoldsAppend(j) <=> HoldsAppend(it[c])
       \/ /\ pool' = pool - 1 /\ pool > 0
          /\ HoldsAppend(j) /\ ~HoldsAppend(it[c])
          /\ HoldsRead(j) <=> HoldsRead(it[c])
       \/ /\ pool' = pool + 1
          /\ ~HoldsRead(j) /\ HoldsRead(it[c])
          /\ HoldsAppend(j) <=> HoldsAppend(it[c])
       \/ /\ pool' = pool + 1
          /\ ~HoldsAppend(j) /\ HoldsAppend(it[c])
          /\ HoldsRead(j) <=> HoldsRead(it[c])

\* A step that leaves rows alone keeps the progress of the iteration.
LEMMA RowsKept ==
    ASSUME NEW i, NEW j, ProgressOK(i), SameRows(i, j),
           j.pc = "end" => i.pc = "end",
           j.pc = "next" => i.pc = "next",
           j.pc \in Undeclared => i.pc \in Undeclared,
           j.err => j.pc \in {"end", "idle"}
    PROVE  ProgressOK(j)
BY DEF ProgressOK, SameRows

\* A call that has not begun.
LEMMA NoIteratorOK ==
    ASSUME NEW j \in Iterator, SameRows(NoIterator, j), j.pc \in {"idle", "b_acquire", "r_acquire"}
    PROVE  ProgressOK(j)
<1>1. /\ j.yielded = <<>> /\ j.result = <<>> /\ j.buffer = <<>> /\ j.cursor = <<>>
      /\ j.idx = 0 /\ ~j.exhausted /\ ~j.err
  BY DEF SameRows, NoIterator
<1>2. Len(<<>>) = 0 /\ \A k \in 1..0 : FALSE
  BY EmptySeq
<1>3. Rest(<<>>, 0) = 0
  BY <1>2 DEF Rest
<1>4. Begins(<<>>, <<>>) /\ Continues(<<>>, <<>>, <<>>, 0, <<>>)
  BY <1>2, <1>3 DEF Begins, Continues
<1> QED
  BY <1>1, <1>2, <1>3, <1>4 DEF ProgressOK

\* A caller without an iterator is well typed, and so is one that Read is
\* called for.
LEMMA NoIteratorType ==
    /\ NoIterator \in Iterator
    /\ \A x \in {"b_acquire", "r_acquire"}, after \in Nat :
          LET j == [NoIterator EXCEPT !.pc = x, !.after = after] IN
          j \in Iterator /\ SameRows(NoIterator, j) /\ j.pc = x /\ j.conn = "none" /\ ~j.lost
<1>1. NoIterator \in Iterator
  <2>1. <<>> \in Seq(AppendedEvent) /\ <<>> \in Seq(SequencedEvent)
    BY EmptySeq
  <2> QED
    BY <2>1 DEF NoIterator, Iterator
<1>2. ASSUME NEW i \in Iterator, NEW x \in {"b_acquire", "r_acquire"}, NEW after \in Nat
      PROVE  [i EXCEPT !.pc = x, !.after = after] \in Iterator
  BY DEF Iterator
<1>3. ASSUME NEW x \in {"b_acquire", "r_acquire"}, NEW after \in Nat, NEW j,
             j = [NoIterator EXCEPT !.pc = x, !.after = after]
      PROVE  SameRows(NoIterator, j) /\ j.pc = x /\ j.conn = "none" /\ ~j.lost
  BY <1>3 DEF SameRows, NoIterator
<1> QED
  BY <1>1, <1>2, <1>3

\* The steps of Read up to DECLARE.
LEMMA ReadEffect ==
    ASSUME IterInv, NEW c \in Callers,
           \/ \E after \in Afters, backwards \in BOOLEAN : ReadCall(c, after, backwards)
           \/ Acquire(c) \/ Barrier(c) \/ Begin(c) \/ Declare(c)
           \/ \E fault \in BOOLEAN : ReadFails(c, fault)
    PROVE  \E j : Effect(c, j)
<1> DEFINE i == it[c]
<1>0. i \in Iterator /\ ProgressOK(i) /\ ConnOK(i)
  BY DEF IterInv
<1>1. ASSUME NEW after \in Afters, NEW backwards \in BOOLEAN, ReadCall(c, after, backwards)
      PROVE  \E j : Effect(c, j)
  <2> DEFINE x == IF backwards THEN "r_acquire" ELSE "b_acquire"
             j == [NoIterator EXCEPT !.pc = x, !.after = after]
  <2>1. /\ it' = [it EXCEPT ![c] = j] /\ pool' = pool
        /\ i.pc = "idle"
    BY <1>1 DEF ReadCall, Put
  <2>2. /\ j \in Iterator /\ SameRows(NoIterator, j)
        /\ j.pc \in {"b_acquire", "r_acquire"} /\ j.conn = "none" /\ ~j.lost
    <3>1. after \in Nat /\ x \in {"b_acquire", "r_acquire"}
      BY ReadIteratorAssumption
    <3> HIDE DEF x
    <3> QED
      BY <3>1, NoIteratorType
  <2> HIDE DEF j
  <2>3. ProgressOK(j)
    BY <2>2, NoIteratorOK
  <2>4. ConnOK(j)
    BY <2>2 DEF ConnOK
  <2> QED
    BY <1>0, <2>1, <2>2, <2>3, <2>4 DEF Effect, HoldsRead, HoldsAppend, ConnOK
<1>2. ASSUME Acquire(c)
      PROVE  \E j : Effect(c, j)
  <2>1. pool > 0 /\ pool' = pool - 1
    BY <1>2 DEF Acquire
  <2>2. CASE i.pc = "append"
    <3> DEFINE j == [i EXCEPT !.pc = "appending"]
    <3>1. it' = [it EXCEPT ![c] = j]
      BY <1>2, <2>2 DEF Acquire, Put
    <3>2. /\ j \in Iterator /\ SameRows(i, j) /\ j.pc = "appending" /\ j.conn = i.conn
          /\ j.lost = i.lost /\ j.broken = i.broken
      BY <1>0 DEF Iterator, SameRows
    <3> HIDE DEF j
    <3>3. ProgressOK(j)
      BY <1>0, <2>2, <3>2, RowsKept DEF Undeclared, ProgressOK, SameRows
    <3>4. ConnOK(j)
      BY <1>0, <2>2, <3>2 DEF ConnOK
    <3> QED
      BY <2>1, <2>2, <3>1, <3>2, <3>3, <3>4 DEF Effect, HoldsRead, HoldsAppend
  <2>3. CASE i.pc \in {"b_acquire", "r_acquire"}
    <3> DEFINE x == IF i.pc = "b_acquire" THEN "barrier" ELSE "begin"
               j == [i EXCEPT !.pc = x, !.conn = "idle"]
    <3>1. it' = [it EXCEPT ![c] = j]
      BY <1>2, <2>3 DEF Acquire, Put
    <3>2. /\ j \in Iterator /\ SameRows(i, j) /\ j.pc \in {"barrier", "begin"} /\ j.conn = "idle"
          /\ j.lost = i.lost /\ j.broken = i.broken
      BY <1>0 DEF Iterator, SameRows
    <3> HIDE DEF j
    <3>3. ProgressOK(j)
      <4>1. ~i.err
        BY <1>0, <2>3 DEF ProgressOK
      <4> QED
        BY <1>0, <2>3, <3>2, <4>1, RowsKept DEF Undeclared, SameRows
    <3>4. ConnOK(j)
      BY <1>0, <2>3, <3>2 DEF ConnOK
    <3> QED
      BY <1>0, <2>1, <2>3, <3>1, <3>2, <3>3, <3>4 DEF Effect, HoldsRead, HoldsAppend, ConnOK
  <2> QED
    BY <1>2, <2>2, <2>3 DEF Acquire
<1>3. ASSUME Barrier(c)
      PROVE  \E j : Effect(c, j)
  <2> DEFINE j == [i EXCEPT !.pc = "r_acquire", !.conn = "none"]
  <2>1. it' = [it EXCEPT ![c] = j] /\ pool' = pool + 1 /\ i.pc = "barrier"
    BY <1>3 DEF Barrier, Put
  <2>2. /\ j \in Iterator /\ SameRows(i, j) /\ j.pc = "r_acquire" /\ j.conn = "none"
        /\ j.lost = i.lost /\ j.broken = i.broken
    BY <1>0 DEF Iterator, SameRows
  <2> HIDE DEF j
  <2>3. ProgressOK(j)
    <3>1. ~i.err
      BY <1>0, <2>1 DEF ProgressOK
    <3> QED
      BY <1>0, <2>1, <2>2, <3>1, RowsKept DEF Undeclared, SameRows
  <2>4. ConnOK(j)
    BY <1>0, <2>1, <2>2 DEF ConnOK
  <2> QED
    BY <1>0, <2>1, <2>2, <2>3, <2>4 DEF Effect, HoldsRead, HoldsAppend, ConnOK
<1>4. ASSUME Begin(c)
      PROVE  \E j : Effect(c, j)
  <2> DEFINE j == [i EXCEPT !.pc = "declare", !.conn = "tx"]
  <2>1. it' = [it EXCEPT ![c] = j] /\ pool' = pool /\ i.pc = "begin"
    BY <1>4 DEF Begin, Put
  <2>2. /\ j \in Iterator /\ SameRows(i, j) /\ j.pc = "declare" /\ j.conn = "tx"
        /\ j.lost = i.lost /\ j.broken = i.broken
    BY <1>0 DEF Iterator, SameRows
  <2> HIDE DEF j
  <2>3. ProgressOK(j)
    <3>1. ~i.err
      BY <1>0, <2>1 DEF ProgressOK
    <3> QED
      BY <1>0, <2>1, <2>2, <3>1, RowsKept DEF Undeclared, SameRows
  <2>4. ConnOK(j)
    BY <1>0, <2>1, <2>2 DEF ConnOK
  <2> QED
    BY <1>0, <2>1, <2>2, <2>3, <2>4 DEF Effect, HoldsRead, HoldsAppend, ConnOK
<1>5. ASSUME Declare(c)
      PROVE  \E j : Effect(c, j)
  <2>1. i.pc = "declare" /\ pool' = pool
    BY <1>5 DEF Declare
  <2>2. i.conn # "none" /\ ~i.err /\ i.yielded = <<>> /\ i.buffer = <<>> /\ ~i.exhausted /\ ~i.lost
    BY <1>0, <2>1 DEF ConnOK, ProgressOK, Undeclared
  <2>3. CASE Overflows(i.after)
    <3> DEFINE j == [i EXCEPT !.pc = "panic"]
    <3>1. it' = [it EXCEPT ![c] = j]
      BY <1>5, <2>3 DEF Declare, Put
    <3>2. /\ j \in Iterator /\ SameRows(i, j) /\ j.pc = "panic" /\ j.conn = i.conn
          /\ j.lost = i.lost /\ j.broken = i.broken
      BY <1>0 DEF Iterator, SameRows
    <3> HIDE DEF j
    <3>3. ProgressOK(j)
      BY <1>0, <2>1, <2>2, <3>2, RowsKept DEF Undeclared, SameRows
    <3>4. ConnOK(j)
      BY <1>0, <2>1, <2>2, <3>2 DEF ConnOK
    <3> QED
      BY <2>1, <3>1, <3>2, <3>3, <3>4 DEF Effect, HoldsRead, HoldsAppend
  <2>4. CASE ~Overflows(i.after)
    <3>1. PICK rows \in Results :
             it' = [it EXCEPT ![c] = [i EXCEPT !.pc = "open", !.cursor = rows, !.result = rows]]
      BY <1>5, <2>4 DEF Declare, Put
    <3>2. rows \in Seq(AppendedEvent)
      BY ReadIteratorAssumption
    <3> DEFINE j == [i EXCEPT !.pc = "open", !.cursor = rows, !.result = rows]
    <3>3. /\ j \in Iterator /\ j.pc = "open" /\ j.cursor = rows /\ j.result = rows
          /\ j.conn = i.conn /\ j.lost = i.lost /\ j.broken = i.broken /\ j.err = i.err
          /\ j.yielded = i.yielded /\ j.buffer = i.buffer /\ j.idx = i.idx /\ j.exhausted = i.exhausted
      BY <1>0, <3>2 DEF Iterator
    <3> HIDE DEF j
    <3>4. ProgressOK(j)
      <4>1. Len(<<>>) = 0 /\ Len(rows) \in Nat /\ \A k \in 1..0 : FALSE
        BY <3>2, EmptySeq, LenProperties
      <4>2. i.idx \in Nat
        BY <1>0 DEF Iterator
      <4>3. Rest(<<>>, i.idx) = 0
        BY <4>1, <4>2 DEF Rest
      <4>4. Begins(<<>>, rows)
        BY <4>1 DEF Begins
      <4>5. Continues(<<>>, rows, <<>>, i.idx, rows)
        BY <4>1, <4>3 DEF Continues
      <4> QED
        BY <2>2, <3>3, <4>1, <4>4, <4>5 DEF ProgressOK, Undeclared
    <3>5. ConnOK(j)
      BY <1>0, <2>1, <2>2, <3>3 DEF ConnOK
    <3> QED
      BY <2>1, <3>1, <3>3, <3>4, <3>5 DEF Effect, HoldsRead, HoldsAppend, j
  <2> QED
    BY <2>3, <2>4
<1>6. ASSUME NEW fault \in BOOLEAN, ReadFails(c, fault)
      PROVE  \E j : Effect(c, j)
  <2>1. /\ it' = [it EXCEPT ![c] = NoIterator]
        /\ i.pc \in {"b_acquire", "barrier", "r_acquire", "begin", "declare"}
        /\ pool' = IF i.conn = "none" THEN pool ELSE pool + 1
    BY <1>6 DEF ReadFails, Put, ReleasedAfterError
  <2>2. NoIterator.pc = "idle" /\ NoIterator.conn = "none" /\ ~NoIterator.lost
    BY DEF NoIterator
  <2>3. NoIterator \in Iterator /\ ProgressOK(NoIterator)
    BY <2>2, NoIteratorType, NoIteratorOK DEF SameRows
  <2>4. ConnOK(NoIterator)
    BY <2>2 DEF ConnOK
  <2>5. Effect(c, NoIterator)
    <3>1. CASE i.conn = "none"
      BY <2>1, <2>2, <2>3, <2>4, <3>1 DEF Effect, HoldsRead, HoldsAppend
    <3>2. CASE i.conn # "none"
      BY <2>1, <2>2, <2>3, <2>4, <3>2 DEF Effect, HoldsRead, HoldsAppend
    <3> QED
      BY <3>1, <3>2
  <2> QED
    BY <2>5
<1> QED
  BY <1>1, <1>2, <1>3, <1>4, <1>5, <1>6

\* Next, within a batch or at its end.
LEMMA NextRowEffect ==
    ASSUME IterInv, NEW c \in Callers, NextRow(c)
    PROVE  \E j : Effect(c, j)
<1> DEFINE i == it[c]
<1>0. i \in Iterator /\ ProgressOK(i) /\ ConnOK(i)
  BY DEF IterInv
<1>1. i.pc \in {"open", "again", "end"} /\ pool' = pool
  BY DEF NextRow
<1>2. i.conn # "none" /\ ~i.lost
  BY <1>0, <1>1 DEF ConnOK
<1>3. CASE i.err
  <2> DEFINE j == [i EXCEPT !.pc = "end"]
  <2>1. it' = [it EXCEPT ![c] = j]
    BY <1>3 DEF NextRow, Put
  <2>2. /\ j \in Iterator /\ SameRows(i, j) /\ j.pc = "end" /\ j.conn = i.conn
        /\ j.lost = i.lost /\ j.broken = i.broken
    BY <1>0 DEF Iterator, SameRows
  <2> HIDE DEF j
  <2>3. ProgressOK(j)
    BY <1>0, <1>3, <2>2 DEF ProgressOK, SameRows, Undeclared
  <2>4. ConnOK(j)
    BY <1>0, <1>2, <2>2 DEF ConnOK
  <2> QED
    BY <1>1, <2>1, <2>2, <2>3, <2>4 DEF Effect, HoldsRead, HoldsAppend
<1>4. CASE ~i.err /\ i.idx < Len(i.buffer)
  <2> DEFINE z == Append(i.yielded, rowToSequencedEvent(i.buffer[i.idx + 1]))
             j == [i EXCEPT !.pc = "open", !.idx = i.idx + 1, !.yielded = z]
  <2>1. it' = [it EXCEPT ![c] = j]
    <3>1. it' = [it EXCEPT ![c] = Yield([i EXCEPT !.idx = i.idx + 1])]
      BY <1>4 DEF NextRow, Put
    <3>2. Yield([i EXCEPT !.idx = i.idx + 1]) = j
      BY <1>0 DEF Yield, Iterator
    <3> QED
      BY <3>1, <3>2
  <2>2. /\ i.yielded \in Seq(SequencedEvent) /\ i.result \in Seq(AppendedEvent)
        /\ i.buffer \in Seq(AppendedEvent) /\ i.cursor \in Seq(AppendedEvent) /\ i.idx \in Nat
    BY <1>0 DEF Iterator
  <2>3. /\ Begins(i.yielded, i.result)
        /\ Continues(i.yielded, i.result, i.buffer, i.idx, i.cursor)
    BY <1>0, <1>4 DEF ProgressOK
  <2>4. Decodable(i.buffer[i.idx + 1])
    <3>1. i.idx + 1 \in 1..Len(i.buffer)
      BY <1>4, <2>2, LenProperties
    <3> QED
      BY <1>0, <3>1 DEF ProgressOK
  <2>5. /\ z \in Seq(SequencedEvent) /\ Begins(z, i.result)
        /\ Continues(z, i.result, i.buffer, i.idx + 1, i.cursor)
    BY <1>4, <2>2, <2>3, <2>4, YieldNext
  <2> HIDE DEF z
  <2>6. /\ j \in Iterator /\ j.pc = "open" /\ j.idx = i.idx + 1 /\ j.yielded = z
        /\ j.result = i.result /\ j.buffer = i.buffer /\ j.cursor = i.cursor
        /\ j.exhausted = i.exhausted /\ j.err = i.err
        /\ j.conn = i.conn /\ j.lost = i.lost /\ j.broken = i.broken
    <3>1. i.idx + 1 \in Nat /\ z \in Seq(SequencedEvent)
      BY <2>2, <2>5
    <3>2. ASSUME NEW k \in Nat
          PROVE  [i EXCEPT !.pc = "open", !.idx = k, !.yielded = z] \in Iterator
      BY <1>0, <3>1 DEF Iterator
    <3>3. j \in Iterator
      BY <3>1, <3>2
    <3> QED
      BY <1>0, <3>3 DEF Iterator
  <2> HIDE DEF j
  <2>7. ProgressOK(j)
    BY <1>0, <1>4, <2>5, <2>6 DEF ProgressOK, Undeclared
  <2>8. ConnOK(j)
    BY <1>0, <1>2, <2>6 DEF ConnOK
  <2> QED
    BY <1>1, <2>1, <2>6, <2>7, <2>8 DEF Effect, HoldsRead, HoldsAppend
<1>5. CASE ~i.err /\ ~(i.idx < Len(i.buffer))
  <2> DEFINE x == IF i.exhausted THEN "end" ELSE "next"
             j == [i EXCEPT !.pc = x]
  <2>1. it' = [it EXCEPT ![c] = j]
    BY <1>5 DEF NextRow, Put
  <2>2. /\ j \in Iterator /\ SameRows(i, j) /\ j.pc = x /\ j.conn = i.conn
        /\ j.lost = i.lost /\ j.broken = i.broken
    BY <1>0 DEF Iterator, SameRows
  <2>3. x \in {"end", "next"} /\ (x = "end" => i.exhausted)
    OBVIOUS
  <2> HIDE DEF j, x
  <2>4. Rest(i.buffer, i.idx) = 0
    BY <1>5 DEF Rest
  <2>5. ProgressOK(j)
    BY <1>0, <1>5, <2>2, <2>3, <2>4 DEF ProgressOK, SameRows, Undeclared
  <2>6. ConnOK(j)
    BY <1>0, <1>2, <2>2, <2>3 DEF ConnOK
  <2> QED
    BY <1>1, <2>1, <2>2, <2>3, <2>5, <2>6 DEF Effect, HoldsRead, HoldsAppend
<1> QED
  BY <1>3, <1>4, <1>5

\* Next with a round trip.  The last batch is short, so that a cursor which
\* may have more rows is never taken for exhausted.
LEMMA FetchEffect ==
    ASSUME IterInv, NEW c \in Callers, Fetch(c)
    PROVE  \E j : Effect(c, j)
<1> DEFINE i     == it[c]
           n     == IF Len(i.cursor) < BatchSize THEN Len(i.cursor) ELSE BatchSize
           batch == SubSeq(i.cursor, 1, n)
           more  == SubSeq(i.cursor, n + 1, Len(i.cursor))
           f     == [i EXCEPT !.cursor = more, !.buffer = batch, !.idx = 1, !.exhausted = ShortBatch(n)]
<1>0. i \in Iterator /\ ProgressOK(i) /\ ConnOK(i)
  BY DEF IterInv
<1>1. /\ i.yielded \in Seq(SequencedEvent) /\ i.result \in Seq(AppendedEvent)
      /\ i.buffer \in Seq(AppendedEvent) /\ i.cursor \in Seq(AppendedEvent) /\ i.idx \in Nat
  BY <1>0 DEF Iterator
<1>2. /\ i.pc = "next" /\ pool' = pool
      /\ it' = [it EXCEPT ![c] =
                   IF \E k \in 1..n : ~Decodable(batch[k])
                     THEN [i EXCEPT !.pc = "end", !.err = TRUE, !.cursor = more]
                   ELSE IF n > 0 THEN Yield(f) ELSE [f EXCEPT !.pc = "end"]]
  BY DEF Fetch, Put
<1>3. i.conn # "none" /\ ~i.lost /\ ~i.err /\ Rest(i.buffer, i.idx) = 0
  BY <1>0, <1>2 DEF ConnOK, ProgressOK
<1>4. n \in Nat /\ n \in 0..Len(i.cursor) /\ Len(i.cursor) \in Nat /\ (ShortBatch(n) => n = Len(i.cursor))
      /\ ShortBatch(n) \in BOOLEAN
  BY <1>1, LenProperties, ReadIteratorAssumption DEF ShortBatch
<1>5. Begins(i.yielded, i.result) /\ Continues(i.yielded, i.result, i.buffer, i.idx, i.cursor)
  BY <1>0, <1>3 DEF ProgressOK
<1> HIDE DEF n
<1>6. /\ batch \in Seq(AppendedEvent) /\ Len(batch) = n
      /\ \A k \in 1..n : batch[k] = i.cursor[k]
      /\ more \in Seq(AppendedEvent) /\ Len(more) = Len(i.cursor) - n
      /\ Continues(i.yielded, i.result, batch, 0, more)
  BY <1>1, <1>3, <1>4, <1>5, FetchContinues
<1> HIDE DEF batch, more
<1>7. CASE \E k \in 1..n : ~Decodable(batch[k])
  <2> DEFINE j == [i EXCEPT !.pc = "end", !.err = TRUE, !.cursor = more]
  <2>1. it' = [it EXCEPT ![c] = j]
    BY <1>2, <1>7
  <2>2. /\ j \in Iterator /\ j.pc = "end" /\ j.err /\ j.conn = i.conn /\ j.lost = i.lost
        /\ j.broken = i.broken /\ j.yielded = i.yielded /\ j.result = i.result /\ j.buffer = i.buffer
    BY <1>0, <1>6 DEF Iterator
  <2> HIDE DEF j
  <2>3. ProgressOK(j)
    BY <1>0, <2>2 DEF ProgressOK, Undeclared
  <2>4. ConnOK(j)
    BY <1>0, <1>3, <2>2 DEF ConnOK
  <2> QED
    BY <1>2, <2>1, <2>2, <2>3, <2>4 DEF Effect, HoldsRead, HoldsAppend
<1>8. CASE /\ \A k \in 1..n : Decodable(batch[k])
           /\ n > 0
  <2> DEFINE z == Append(i.yielded, rowToSequencedEvent(batch[1]))
             j == [f EXCEPT !.pc = "open", !.yielded = z]
  <2>1. it' = [it EXCEPT ![c] = j]
    <3>1. it' = [it EXCEPT ![c] = Yield(f)]
      BY <1>2, <1>8
    <3>2. f.buffer = batch /\ f.idx = 1 /\ f.yielded = i.yielded
      BY <1>0 DEF Iterator
    <3>3. Yield(f) = j
      BY <3>2 DEF Yield
    <3> QED
      BY <3>1, <3>3
  <2>2. /\ z \in Seq(SequencedEvent) /\ Begins(z, i.result)
        /\ Continues(z, i.result, batch, 1, more)
    <3>1. 0 \in Nat /\ 0 < Len(batch) /\ 0 + 1 = 1 /\ Decodable(batch[0 + 1])
      BY <1>4, <1>6, <1>8
    <3>2. z = Append(i.yielded, rowToSequencedEvent(batch[0 + 1]))
      BY <3>1
    <3> HIDE DEF z
    <3>3. /\ z \in Seq(SequencedEvent) /\ Begins(z, i.result)
          /\ Continues(z, i.result, batch, 0 + 1, more)
      BY <1>1, <1>5, <1>6, <3>1, <3>2, YieldNext
    <3> QED
      BY <3>1, <3>3
  <2> HIDE DEF z
  <2>3. /\ j \in Iterator /\ j.pc = "open" /\ j.idx = 1 /\ j.yielded = z
        /\ j.result = i.result /\ j.buffer = batch /\ j.cursor = more
        /\ j.exhausted = ShortBatch(n) /\ j.err = i.err
        /\ j.conn = i.conn /\ j.lost = i.lost /\ j.broken = i.broken
    <3>1. /\ f \in Iterator /\ f.idx = 1 /\ f.result = i.result /\ f.buffer = batch /\ f.cursor = more
          /\ f.exhausted = ShortBatch(n) /\ f.err = i.err
          /\ f.conn = i.conn /\ f.lost = i.lost /\ f.broken = i.broken
      BY <1>0, <1>4, <1>6 DEF Iterator
    <3> HIDE DEF f
    <3> QED
      BY <2>2, <3>1 DEF Iterator
  <2> HIDE DEF j
  <2>4. ShortBatch(n) => Len(more) = 0
    BY <1>4, <1>6
  <2>5. ProgressOK(j)
    BY <1>3, <1>6, <1>8, <2>2, <2>3, <2>4 DEF ProgressOK, Undeclared
  <2>6. ConnOK(j)
    BY <1>0, <1>3, <2>3 DEF ConnOK
  <2> QED
    BY <1>2, <2>1, <2>3, <2>5, <2>6 DEF Effect, HoldsRead, HoldsAppend
<1>9. CASE /\ \A k \in 1..n : Decodable(batch[k])
           /\ ~(n > 0)
  <2> DEFINE j == [f EXCEPT !.pc = "end"]
  <2>1. it' = [it EXCEPT ![c] = j]
    BY <1>2, <1>9
  <2>2. /\ j \in Iterator /\ j.pc = "end" /\ j.idx = 1 /\ j.yielded = i.yielded
        /\ j.result = i.result /\ j.buffer = batch /\ j.cursor = more
        /\ j.exhausted = ShortBatch(n) /\ j.err = i.err
        /\ j.conn = i.conn /\ j.lost = i.lost /\ j.broken = i.broken
    BY <1>0, <1>4, <1>6 DEF Iterator
  <2> HIDE DEF j
  <2>3. n = 0 /\ Len(batch) = 0
    BY <1>4, <1>6, <1>9
  <2>4. ShortBatch(n) => Len(more) = 0
    BY <1>4, <1>6
  <2>5. ShortBatch(n)
    BY <2>3, ReadIteratorAssumption DEF ShortBatch
  <2>6. Rest(batch, 1) = 0 /\ Rest(batch, 0) = 0
    BY <2>3 DEF Rest
  <2>7. Continues(i.yielded, i.result, batch, 1, more)
    BY <1>6, <2>6 DEF Continues
  <2>8. ProgressOK(j)
    BY <1>3, <1>5, <1>6, <1>9, <2>2, <2>4, <2>5, <2>6, <2>7 DEF ProgressOK, Undeclared
  <2>9. ConnOK(j)
    BY <1>0, <1>3, <2>2 DEF ConnOK
  <2> QED
    BY <1>2, <2>1, <2>2, <2>8, <2>9 DEF Effect, HoldsRead, HoldsAppend
<1> QED
  BY <1>7, <1>8, <1>9

\* Failures, Close, and what the caller does.
LEMMA CallerEffect ==
    ASSUME IterInv, NEW c \in Callers,
           \/ \E conn \in {"tx", "failed", "dead"} : FetchFails(c, conn)
           \/ Close(c) \/ AppendInBody(c) \/ AppendReturns(c) \/ Cancel(c)
    PROVE  \E j : Effect(c, j)
<1> DEFINE i == it[c]
<1>0. i \in Iterator /\ ProgressOK(i) /\ ConnOK(i)
  BY DEF IterInv
<1>1. ASSUME NEW conn \in {"tx", "failed", "dead"}, FetchFails(c, conn)
      PROVE  \E j : Effect(c, j)
  <2> DEFINE j == [i EXCEPT !.pc = "end", !.err = TRUE, !.conn = conn, !.broken = conn # "tx"]
  <2>1. it' = [it EXCEPT ![c] = j] /\ pool' = pool /\ i.pc = "next"
    BY <1>1 DEF FetchFails, Put
  <2>2. /\ j \in Iterator /\ j.pc = "end" /\ j.err /\ j.conn = conn /\ j.lost = i.lost
        /\ j.broken = (conn # "tx") /\ j.yielded = i.yielded /\ j.result = i.result
        /\ j.buffer = i.buffer
    BY <1>0 DEF Iterator
  <2> HIDE DEF j
  <2>3. ProgressOK(j)
    BY <1>0, <2>2 DEF ProgressOK, Undeclared
  <2>4. ConnOK(j)
    BY <1>0, <2>1, <2>2 DEF ConnOK
  <2> QED
    BY <1>0, <2>1, <2>2, <2>3, <2>4 DEF Effect, HoldsRead, HoldsAppend, ConnOK
<1>2. ASSUME Close(c)
      PROVE  \E j : Effect(c, j)
  <2> DEFINE j == [i EXCEPT !.pc = "idle", !.conn = "none", !.lost = ~(i.conn # "dead")]
  <2>1. it' = [it EXCEPT ![c] = j] /\ pool' = pool + 1 /\ i.pc \in {"open", "again", "end"}
    BY <1>2 DEF Close, Put, Cleaned
  <2>2. /\ j \in Iterator /\ SameRows(i, j) /\ j.pc = "idle" /\ j.conn = "none"
        /\ j.lost = (i.conn = "dead") /\ j.broken = i.broken
    BY <1>0 DEF Iterator, SameRows
  <2> HIDE DEF j
  <2>3. ProgressOK(j)
    BY <1>0, <2>1, <2>2, RowsKept DEF Undeclared
  <2>4. ConnOK(j)
    BY <1>0, <2>1, <2>2 DEF ConnOK
  <2> QED
    BY <1>0, <2>1, <2>2, <2>3, <2>4 DEF Effect, HoldsRead, HoldsAppend, ConnOK
<1>3. ASSUME AppendInBody(c)
      PROVE  \E j : Effect(c, j)
  <2> DEFINE j == [i EXCEPT !.pc = "append"]
  <2>1. it' = [it EXCEPT ![c] = j] /\ pool' = pool /\ i.pc = "open"
    BY <1>3 DEF AppendInBody, Put
  <2>2. /\ j \in Iterator /\ SameRows(i, j) /\ j.pc = "append" /\ j.conn = i.conn
        /\ j.lost = i.lost /\ j.broken = i.broken
    BY <1>0 DEF Iterator, SameRows
  <2> HIDE DEF j
  <2>3. ProgressOK(j)
    <3>1. ~j.err
      BY <1>0, <2>1, <2>2 DEF ProgressOK, SameRows
    <3> QED
      BY <1>0, <2>1, <2>2, <3>1, RowsKept DEF Undeclared
  <2>4. ConnOK(j)
    BY <1>0, <2>1, <2>2 DEF ConnOK
  <2> QED
    BY <2>1, <2>2, <2>3, <2>4 DEF Effect, HoldsRead, HoldsAppend
<1>4. ASSUME AppendReturns(c)
      PROVE  \E j : Effect(c, j)
  <2> DEFINE j == [i EXCEPT !.pc = "again"]
  <2>1. /\ it' = [it EXCEPT ![c] = j]
        /\ \/ i.pc = "appending" /\ pool' = pool + 1
           \/ i.pc = "append" /\ pool' = pool
    BY <1>4 DEF AppendReturns, Put
  <2>2. /\ j \in Iterator /\ SameRows(i, j) /\ j.pc = "again" /\ j.conn = i.conn
        /\ j.lost = i.lost /\ j.broken = i.broken
    BY <1>0 DEF Iterator, SameRows
  <2> HIDE DEF j
  <2>3. ProgressOK(j)
    <3>1. ~j.err
      BY <1>0, <2>1, <2>2 DEF ProgressOK, SameRows
    <3> QED
      BY <1>0, <2>1, <2>2, <3>1, RowsKept DEF Undeclared
  <2>4. ConnOK(j)
    BY <1>0, <2>1, <2>2 DEF ConnOK
  <2>5. Effect(c, j)
    <3>1. CASE i.pc = "appending" /\ pool' = pool + 1
      BY <2>1, <2>2, <2>3, <2>4, <3>1 DEF Effect, HoldsRead, HoldsAppend
    <3>2. CASE i.pc = "append" /\ pool' = pool
      BY <2>1, <2>2, <2>3, <2>4, <3>2 DEF Effect, HoldsRead, HoldsAppend
    <3> QED
      BY <2>1, <3>1, <3>2
  <2> QED
    BY <2>5
<1>5. ASSUME Cancel(c)
      PROVE  \E j : Effect(c, j)
  <2> DEFINE j == [i EXCEPT !.canceled = TRUE]
  <2>1. it' = [it EXCEPT ![c] = j] /\ pool' = pool
    BY <1>5 DEF Cancel, Put
  <2>2. /\ j \in Iterator /\ SameRows(i, j) /\ j.pc = i.pc /\ j.conn = i.conn
        /\ j.lost = i.lost /\ j.broken = i.broken
    BY <1>0 DEF Iterator, SameRows
  <2> HIDE DEF j
  <2>3. ProgressOK(j)
    BY <1>0, <2>2 DEF ProgressOK, SameRows
  <2>4. ConnOK(j)
    BY <1>0, <2>2 DEF ConnOK
  <2> QED
    BY <2>1, <2>2, <2>3, <2>4 DEF Effect, HoldsRead, HoldsAppend
<1> QED
  BY <1>1, <1>2, <1>3, <1>4, <1>5

\* Every step has such an effect on the caller that takes it, Close included.
LEMMA NextEffect ==
    ASSUME IterInv, Next
    PROVE  \E c \in Callers : \E j : Effect(c, j)
BY ReadEffect, NextRowEffect, FetchEffect, CallerEffect DEF Next, Step

-------------------------------------------------------------------------------
(***************************************************************************)
(* The pool.                                                               *)
(***************************************************************************)

\* A connection that a call takes leaves the pool, one that it gives back is
\* in the pool again, and nothing else counts.
LEMMA EffectKeepsPool ==
    ASSUME IterInv, NEW c \in Callers, NEW j, Effect(c, j)
    PROVE  PoolInv'
<1>1. it \in [Callers -> Iterator] /\ PoolInv
  BY DEF IterInv
<1>2. it'[c] = j /\ \A d \in Callers : d # c => it'[d] = it[d]
  BY <1>1 DEF Effect
<1> DEFINE hr == <<c, "read">>
           ha == <<c, "append">>
<1>3. /\ hr \in Holders <=> HoldsRead(it[c])
      /\ ha \in Holders <=> HoldsAppend(it[c])
      /\ hr \in Holders' <=> HoldsRead(j)
      /\ ha \in Holders' <=> HoldsAppend(j)
  BY <1>2 DEF Holders, HoldsRead, HoldsAppend
<1>4. \A h : h \notin {hr, ha} => (h \in Holders' <=> h \in Holders)
  <2> SUFFICES ASSUME NEW h \in Callers \X {"read", "append"}, h \notin {hr, ha}
               PROVE  h \in Holders' <=> h \in Holders
    BY DEF Holders
  <2>1. PICK d \in Callers, w \in {"read", "append"} : h = <<d, w>>
    OBVIOUS
  <2>2. d # c
    BY <2>1
  <2> QED
    BY <1>2, <2>1, <2>2 DEF Holders
<1>5. /\ IsFiniteSet(Holders) /\ Cardinality(Holders) \in Nat
      /\ pool = PoolSize - Cardinality(Holders) /\ pool >= 0
  BY <1>1, FS_CardinalityType DEF PoolInv
<1>6. PoolSize \in Nat
  BY ReadIteratorAssumption
<1> HIDE DEF hr, ha
<1>7. ASSUME NEW h \in {hr, ha}, h \notin Holders, Holders' = Holders \cup {h},
             pool' = pool - 1, pool > 0
      PROVE  PoolInv'
  <2>1. IsFiniteSet(Holders') /\ Cardinality(Holders') = Cardinality(Holders) + 1
    BY <1>5, <1>7, FS_AddElement
  <2> QED
    BY <1>5, <1>6, <1>7, <2>1 DEF PoolInv
<1>8. ASSUME NEW h \in {hr, ha}, h \in Holders, Holders' = Holders \ {h},
             pool' = pool + 1
      PROVE  PoolInv'
  <2>1. IsFiniteSet(Holders') /\ Cardinality(Holders') = Cardinality(Holders) - 1
    BY <1>5, <1>8, FS_RemoveElement
  <2> QED
    BY <1>5, <1>6, <1>8, <2>1 DEF PoolInv
<1>9. CASE pool' = pool /\ (HoldsRead(j) <=> HoldsRead(it[c])) /\ (HoldsAppend(j) <=> HoldsAppend(it[c]))
  <2>1. Holders' = Holders
    BY <1>3, <1>4, <1>9
  <2> QED
    BY <1>1, <1>9, <2>1 DEF PoolInv
<1>10. CASE /\ pool' = pool - 1 /\ pool > 0 /\ HoldsRead(j) /\ ~HoldsRead(it[c])
            /\ HoldsAppend(j) <=> HoldsAppend(it[c])
  <2>1. hr \notin Holders /\ Holders' = Holders \cup {hr}
    BY <1>3, <1>4, <1>10
  <2> QED
    BY <1>7, <1>10, <2>1
<1>11. CASE /\ pool' = pool - 1 /\ pool > 0 /\ HoldsAppend(j) /\ ~HoldsAppend(it[c])
            /\ HoldsRead(j) <=> HoldsRead(it[c])
  <2>1. ha \notin Holders /\ Holders' = Holders \cup {ha}
    BY <1>3, <1>4, <1>11
  <2> QED
    BY <1>7, <1>11, <2>1
<1>12. CASE /\ pool' = pool + 1 /\ ~HoldsRead(j) /\ HoldsRead(it[c])
            /\ HoldsAppend(j) <=> HoldsAppend(it[c])
  <2>1. hr \in Holders /\ Holders' = Holders \ {hr}
    BY <1>3, <1>4, <1>12
  <2> QED
    BY <1>8, <1>12, <2>1
<1>13. CASE /\ pool' = pool + 1 /\ ~HoldsAppend(j) /\ HoldsAppend(it[c])
            /\ HoldsRead(j) <=> HoldsRead(it[c])
  <2>1. ha \in Holders /\ Holders' = Holders \ {ha}
    BY <1>3, <1>4, <1>13
  <2> QED
    BY <1>8, <1>13, <2>1
<1> QED
  BY <1>9, <1>10, <1>11, <1>12, <1>13 DEF Effect

\* All connections are in the pool and nobody iterates.
LEMMA IterInit == Init => IterInv
<1> SUFFICES ASSUME Init PROVE IterInv
  OBVIOUS
<1>1. NoIterator.pc = "idle" /\ NoIterator.conn = "none" /\ ~NoIterator.lost
  BY DEF NoIterator
<1>2. NoIterator \in Iterator /\ ProgressOK(NoIterator)
  BY <1>1, NoIteratorType, NoIteratorOK DEF SameRows
<1>3. ConnOK(NoIterator)
  BY <1>1 DEF ConnOK
<1>4. \A d \in Callers : it[d] = NoIterator
  BY DEF Init
<1>5. Holders = {}
  BY <1>1, <1>4 DEF Holders
<1>6. PoolInv
  BY <1>5, FS_EmptySet, ReadIteratorAssumption DEF PoolInv, Init
<1>7. it \in [Callers -> Iterator]
  BY <1>2 DEF Init
<1> QED
  BY <1>2, <1>3, <1>4, <1>6, <1>7 DEF IterInv

\* A step keeps its own iterator and the pool in order, and touches no other.
LEMMA IterNext == IterInv /\ [Next]_vars => IterInv'
<1> SUFFICES ASSUME IterInv, [Next]_vars PROVE IterInv'
  OBVIOUS
<1>1. CASE Next
  <2>1. PICK c \in Callers : \E j : Effect(c, j)
    BY <1>1, NextEffect
  <2>2. PICK j : Effect(c, j)
    BY <2>1
  <2>3. PoolInv'
    BY <2>2, EffectKeepsPool
  <2>4. it' \in [Callers -> Iterator] /\ it'[c] = j /\ \A d \in Callers : d # c => it'[d] = it[d]
    BY <2>2 DEF Effect, IterInv
  <2>5. ProgressOK(j) /\ ConnOK(j)
    BY <2>2 DEF Effect
  <2>6. \A d \in Callers : ProgressOK(it'[d]) /\ ConnOK(it'[d])
    BY <2>4, <2>5 DEF IterInv
  <2> QED
    BY <2>3, <2>4, <2>6 DEF IterInv
<1>2. CASE UNCHANGED vars
  BY <1>2 DEF vars, IterInv, PoolInv, Holders
<1> QED
  BY <1>1, <1>2

\* The invariant of iterators and pool holds throughout.
LEMMA IterAlways == Spec => []IterInv
BY IterInit, IterNext, PTL DEF Spec

-------------------------------------------------------------------------------
(***************************************************************************)
(* The theorems.                                                           *)
(***************************************************************************)

\* Iterators keep their types, among them events without empty tags, and the
\* pool has none less than none and none more than all.
THEOREM TypeCorrect == Spec => []TypeOK
<1>1. IterInv => TypeOK
  <2> SUFFICES ASSUME IterInv PROVE TypeOK
    OBVIOUS
  <2>1. PoolSize \in Nat /\ Cardinality(Holders) \in Nat
    BY ReadIteratorAssumption, FS_CardinalityType DEF IterInv, PoolInv
  <2> QED
    BY <2>1 DEF TypeOK, IterInv, PoolInv
<1> QED
  BY <1>1, IterAlways, PTL

\* Every connection is in the pool or with a call: no path through Read, Next,
\* Close or an append in the loop body leaks one or gives one back twice.
THEOREM NoConnectionLeaks == Spec => []PoolConserved
<1>1. IterInv => PoolConserved
  <2> SUFFICES ASSUME IterInv PROVE PoolConserved
    OBVIOUS
  <2>1. PoolSize \in Nat /\ Cardinality(Holders) \in Nat
    BY ReadIteratorAssumption, FS_CardinalityType DEF IterInv, PoolInv
  <2> QED
    BY <2>1 DEF PoolConserved, IterInv, PoolInv
<1> QED
  BY <1>1, IterAlways, PTL

\* Next yields the result row by row across batches, and when it returns
\* false without an error it has yielded all of it, for every batch size and
\* every number of rows.
THEOREM IterationComplete == Spec => []IterationIsComplete
<1>1. IterInv => IterationIsComplete
  <2> SUFFICES ASSUME IterInv, NEW c \in Callers
               PROVE  LET i == it[c] IN
                      /\ Len(i.yielded) <= Len(i.result)
                      /\ \A k \in DOMAIN i.yielded : i.yielded[k].pos = i.result[k].pos
                      /\ i.pc = "end" /\ ~i.err => Len(i.yielded) = Len(i.result)
    BY DEF IterationIsComplete
  <2> DEFINE i == it[c]
  <2>1. i \in Iterator /\ ProgressOK(i)
    BY DEF IterInv
  <2>2. i.yielded \in Seq(SequencedEvent)
    BY <2>1 DEF Iterator
  <2>3. Len(i.yielded) \in Nat /\ DOMAIN i.yielded = 1..Len(i.yielded)
    BY <2>2, LenProperties
  <2>4. i.pc = "end" /\ ~i.err => Len(i.yielded) = Len(i.result)
    BY <2>1, <2>3 DEF ProgressOK, Continues
  <2> QED
    BY <2>1, <2>3, <2>4 DEF ProgressOK, Begins
<1> QED
  BY <1>1, IterAlways, PTL

\* Close costs the pool a connection only if a statement on it was cut short:
\* it cleans up with a context of its own, whatever became of the reader's.
THEOREM ConnectionsKept == Spec => []CloseKeepsConnection
<1>1. IterInv => CloseKeepsConnection
  BY DEF IterInv, ConnOK, CloseKeepsConnection
<1> QED
  BY <1>1, IterAlways, PTL

-------------------------------------------------------------------------------
(***************************************************************************)
(* What stops an iteration.                                                *)
(***************************************************************************)

\* A row is turned down exactly if its event is unreadable.
LEMMA UnreadableRows == \A r \in AppendedEvent : Unreadable(r) <=> ~Decodable(r)
BY DEF AppendedEvent, Unreadable, Decodable, serializePayload, isValidTagToken

\* A failure has its cause among the rows of the batch that was due.
Explained(i) ==
    i.err /\ ~i.canceled /\ ~i.broken =>
        \E k \in (Len(i.yielded) + 1)..(Len(i.yielded) + BatchSize) :
            k <= Len(i.result) /\ ~Decodable(i.result[k])

\* No step fails an iteration for another reason, and none goes on after it.
LEMMA ExplainedNext ==
    ASSUME IterInv, \A d \in Callers : Explained(it[d]), Next
    PROVE  \A d \in Callers : Explained(it'[d])
<1>0. PICK c \in Callers :
         \/ \E after \in Afters, backwards \in BOOLEAN : ReadCall(c, after, backwards)
         \/ Acquire(c) \/ Barrier(c) \/ Begin(c) \/ Declare(c)
         \/ \E fault \in BOOLEAN : ReadFails(c, fault)
         \/ NextRow(c) \/ Fetch(c) \/ AppendReturns(c)
         \/ \E conn \in {"tx", "failed", "dead"} : FetchFails(c, conn)
         \/ Close(c) \/ AppendInBody(c) \/ Cancel(c)
  BY DEF Next, Step
<1> DEFINE i == it[c]
<1>1. i \in Iterator /\ ProgressOK(i) /\ Explained(i) /\ it \in [Callers -> Iterator]
  BY DEF IterInv
<1>2. ASSUME NEW j, it' = [it EXCEPT ![c] = j], Explained(j)
      PROVE  \A d \in Callers : Explained(it'[d])
  BY <1>1, <1>2
<1>3. ASSUME NEW j, it' = [it EXCEPT ![c] = j],
             j.err => /\ i.err /\ j.result = i.result /\ j.yielded = i.yielded
                      /\ i.canceled => j.canceled
                      /\ j.broken = i.broken
      PROVE  \A d \in Callers : Explained(it'[d])
  BY <1>1, <1>2, <1>3 DEF Explained
<1>4. ASSUME NEW j, it' = [it EXCEPT ![c] = j], SameRows(NoIterator, j)
      PROVE  \A d \in Callers : Explained(it'[d])
  <2>1. j.result = <<>> /\ ~j.err
    BY <1>4 DEF SameRows, NoIterator
  <2>2. Len(<<>>) = 0 /\ \A k \in 1..0 : FALSE
    BY EmptySeq
  <2> QED
    BY <1>2, <1>4, <2>1, <2>2 DEF Explained
<1>5. ASSUME NEW after \in Afters, NEW backwards \in BOOLEAN, ReadCall(c, after, backwards)
      PROVE  \A d \in Callers : Explained(it'[d])
  <2> DEFINE j == [NoIterator EXCEPT !.pc = IF backwards THEN "r_acquire" ELSE "b_acquire", !.after = after]
  <2>1. it' = [it EXCEPT ![c] = j] /\ SameRows(NoIterator, j)
    BY <1>5 DEF ReadCall, Put, SameRows, NoIterator
  <2> HIDE DEF j
  <2> QED
    BY <1>4, <2>1
<1>6. ASSUME NEW fault \in BOOLEAN, ReadFails(c, fault)
      PROVE  \A d \in Callers : Explained(it'[d])
  BY <1>4, <1>6 DEF ReadFails, Put, SameRows
<1>7. CASE Acquire(c)
  <2>1. CASE i.pc = "append"
    <3> DEFINE j == [i EXCEPT !.pc = "appending"]
    <3>1. it' = [it EXCEPT ![c] = j]
      BY <1>7, <2>1 DEF Acquire, Put
    <3>2. /\ j.result = i.result /\ j.yielded = i.yielded /\ j.err = i.err
          /\ j.canceled = i.canceled /\ j.broken = i.broken
      BY <1>1 DEF Iterator
    <3> HIDE DEF j
    <3> QED
      BY <1>3, <3>1, <3>2
  <2>2. CASE i.pc \in {"b_acquire", "r_acquire"}
    <3> DEFINE x == IF i.pc = "b_acquire" THEN "barrier" ELSE "begin"
               j == [i EXCEPT !.pc = x, !.conn = "idle"]
    <3>1. it' = [it EXCEPT ![c] = j]
      BY <1>7, <2>2 DEF Acquire, Put
    <3>2. /\ j.result = i.result /\ j.yielded = i.yielded /\ j.err = i.err
          /\ j.canceled = i.canceled /\ j.broken = i.broken
      BY <1>1 DEF Iterator
    <3> HIDE DEF j
    <3> QED
      BY <1>3, <3>1, <3>2
  <2> QED
    BY <1>7, <2>1, <2>2 DEF Acquire
<1>8. CASE Barrier(c)
  <2> DEFINE j == [i EXCEPT !.pc = "r_acquire", !.conn = "none"]
  <2>1. it' = [it EXCEPT ![c] = j]
    BY <1>8 DEF Barrier, Put
  <2>2. /\ j.result = i.result /\ j.yielded = i.yielded /\ j.err = i.err
        /\ j.canceled = i.canceled /\ j.broken = i.broken
    BY <1>1 DEF Iterator
  <2> HIDE DEF j
  <2> QED
    BY <1>3, <2>1, <2>2
<1>9. CASE Begin(c)
  <2> DEFINE j == [i EXCEPT !.pc = "declare", !.conn = "tx"]
  <2>1. it' = [it EXCEPT ![c] = j]
    BY <1>9 DEF Begin, Put
  <2>2. /\ j.result = i.result /\ j.yielded = i.yielded /\ j.err = i.err
        /\ j.canceled = i.canceled /\ j.broken = i.broken
    BY <1>1 DEF Iterator
  <2> HIDE DEF j
  <2> QED
    BY <1>3, <2>1, <2>2
<1>10. CASE Declare(c)
  <2>1. CASE Overflows(i.after)
    <3> DEFINE j == [i EXCEPT !.pc = "panic"]
    <3>1. it' = [it EXCEPT ![c] = j]
      BY <1>10, <2>1 DEF Declare, Put
    <3>2. /\ j.result = i.result /\ j.yielded = i.yielded /\ j.err = i.err
          /\ j.canceled = i.canceled /\ j.broken = i.broken
      BY <1>1 DEF Iterator
    <3> HIDE DEF j
    <3> QED
      BY <1>3, <3>1, <3>2
  <2>2. CASE ~Overflows(i.after)
    <3>1. PICK rows \in Results :
             it' = [it EXCEPT ![c] = [i EXCEPT !.pc = "open", !.cursor = rows, !.result = rows]]
      BY <1>10, <2>2 DEF Declare, Put
    <3> DEFINE j == [i EXCEPT !.pc = "open", !.cursor = rows, !.result = rows]
    <3>2. j.err = i.err
      BY <1>1 DEF Iterator
    <3>3. ~i.err
      BY <1>1, <1>10 DEF ProgressOK, Declare
    <3>4. it' = [it EXCEPT ![c] = j]
      BY <3>1
    <3> HIDE DEF j
    <3> QED
      BY <1>3, <3>2, <3>3, <3>4
  <2> QED
    BY <2>1, <2>2
<1>11. CASE NextRow(c)
  <2>1. CASE i.err
    <3> DEFINE j == [i EXCEPT !.pc = "end"]
    <3>1. it' = [it EXCEPT ![c] = j]
      BY <1>11, <2>1 DEF NextRow, Put
    <3>2. /\ j.result = i.result /\ j.yielded = i.yielded /\ j.err = i.err
          /\ j.canceled = i.canceled /\ j.broken = i.broken
      BY <1>1 DEF Iterator
    <3> HIDE DEF j
    <3> QED
      BY <1>3, <3>1, <3>2
  <2>2. CASE ~i.err /\ i.idx < Len(i.buffer)
    <3> DEFINE j == Yield([i EXCEPT !.idx = i.idx + 1])
    <3>1. it' = [it EXCEPT ![c] = j]
      BY <1>11, <2>2 DEF NextRow, Put
    <3>2. j.err = i.err
      BY <1>1 DEF Iterator, Yield
    <3> HIDE DEF j
    <3> QED
      BY <1>3, <2>2, <3>1, <3>2
  <2>3. CASE ~i.err /\ ~(i.idx < Len(i.buffer))
    <3> DEFINE x == IF i.exhausted THEN "end" ELSE "next"
               j == [i EXCEPT !.pc = x]
    <3>1. it' = [it EXCEPT ![c] = j]
      BY <1>11, <2>3 DEF NextRow, Put
    <3>2. /\ j.result = i.result /\ j.yielded = i.yielded /\ j.err = i.err
          /\ j.canceled = i.canceled /\ j.broken = i.broken
      BY <1>1 DEF Iterator
    <3> HIDE DEF j
    <3> QED
      BY <1>3, <3>1, <3>2
  <2> QED
    BY <2>1, <2>2, <2>3
<1>12. CASE Fetch(c)
  <2> DEFINE n     == IF Len(i.cursor) < BatchSize THEN Len(i.cursor) ELSE BatchSize
             batch == SubSeq(i.cursor, 1, n)
             more  == SubSeq(i.cursor, n + 1, Len(i.cursor))
             f     == [i EXCEPT !.cursor = more, !.buffer = batch, !.idx = 1, !.exhausted = ShortBatch(n)]
             j     == IF n > 0 THEN Yield(f) ELSE [f EXCEPT !.pc = "end"]
  <2>1. /\ i.yielded \in Seq(SequencedEvent) /\ i.result \in Seq(AppendedEvent)
        /\ i.buffer \in Seq(AppendedEvent) /\ i.cursor \in Seq(AppendedEvent) /\ i.idx \in Nat
    BY <1>1 DEF Iterator
  <2>2. /\ i.pc = "next"
        /\ it' = [it EXCEPT ![c] =
                     IF \E k \in 1..n : ~Decodable(batch[k])
                       THEN [i EXCEPT !.pc = "end", !.err = TRUE, !.cursor = more]
                     ELSE j]
    BY <1>12 DEF Fetch, Put
  <2>3. ~i.err /\ Rest(i.buffer, i.idx) = 0
    BY <1>1, <2>2 DEF ProgressOK
  <2>4. n \in 0..Len(i.cursor) /\ Len(i.cursor) \in Nat
    BY <2>1, LenProperties, ReadIteratorAssumption
  <2>5. Continues(i.yielded, i.result, i.buffer, i.idx, i.cursor)
    BY <1>1, <2>3 DEF ProgressOK
  <2> HIDE DEF n
  <2>6. \A k \in 1..n : batch[k] = i.cursor[k]
    BY <2>1, <2>3, <2>4, <2>5, FetchContinues
  <2> HIDE DEF batch, more
  <2>7. CASE \E k \in 1..n : ~Decodable(batch[k])
    <3>1. PICK k \in 1..n : ~Decodable(batch[k])
      BY <2>7
    <3> DEFINE g == [i EXCEPT !.pc = "end", !.err = TRUE, !.cursor = more]
    <3>2. it' = [it EXCEPT ![c] = g]
      BY <2>2, <2>7
    <3>3. g.yielded = i.yielded /\ g.result = i.result
      BY <1>1 DEF Iterator
    <3> HIDE DEF g
    <3>4. Len(i.yielded) \in Nat /\ Len(i.result) = Len(i.yielded) + 0 + Len(i.cursor)
      BY <2>1, <2>3, <2>5, LenProperties DEF Continues
    <3>5. n <= BatchSize /\ BatchSize \in Nat
      BY <2>4, ReadIteratorAssumption DEF n
    <3>6. /\ k \in 1..Len(i.cursor)
          /\ Len(i.yielded) + 0 + k \in (Len(i.yielded) + 1)..(Len(i.yielded) + BatchSize)
          /\ Len(i.yielded) + 0 + k <= Len(i.result)
      <4>1. ASSUME NEW a \in Nat, NEW b \in Nat, NEW size \in Nat, NEW m \in 0..b, m <= size, NEW l \in 1..m
            PROVE  l \in 1..b /\ a + 0 + l \in (a + 1)..(a + size) /\ a + 0 + l <= a + 0 + b
        BY <4>1
      <4> QED
        BY <2>4, <3>4, <3>5, <4>1
    <3>7. batch[k] = i.result[Len(i.yielded) + 0 + k]
      BY <2>3, <2>5, <2>6, <3>6 DEF Continues
    <3>8. Explained(g)
      BY <3>1, <3>3, <3>6, <3>7 DEF Explained
    <3> QED
      BY <1>2, <3>2, <3>8
  <2>8. CASE ~ \E k \in 1..n : ~Decodable(batch[k])
    <3>1. it' = [it EXCEPT ![c] = j]
      BY <2>2, <2>8
    <3>2. f.err = i.err /\ "err" \in DOMAIN f
      BY <1>1 DEF Iterator
    <3>3. j.err = i.err
      <4> HIDE DEF f
      <4>1. Yield(f).err = f.err /\ [f EXCEPT !.pc = "end"].err = f.err
        BY <3>2 DEF Yield
      <4> QED
        BY <3>2, <4>1
    <3> HIDE DEF j
    <3> QED
      BY <1>3, <2>3, <3>1, <3>3
  <2> QED
    BY <2>7, <2>8
<1>13. ASSUME NEW conn \in {"tx", "failed", "dead"}, FetchFails(c, conn)
       PROVE  \A d \in Callers : Explained(it'[d])
  <2> DEFINE j == [i EXCEPT !.pc = "end", !.err = TRUE, !.conn = conn, !.broken = conn # "tx"]
  <2>1. it' = [it EXCEPT ![c] = j] /\ (conn = "tx" => i.canceled)
    BY <1>13 DEF FetchFails, Put
  <2>2. j.canceled = i.canceled /\ j.broken = (conn # "tx")
    BY <1>1 DEF Iterator
  <2> HIDE DEF j
  <2>3. Explained(j)
    BY <2>1, <2>2 DEF Explained
  <2> QED
    BY <1>2, <2>1, <2>3
<1>14. CASE Close(c)
  <2> DEFINE j == [i EXCEPT !.pc = "idle", !.conn = "none", !.lost = ~Cleaned(i)]
  <2>1. it' = [it EXCEPT ![c] = j]
    BY <1>14 DEF Close, Put
  <2>2. /\ j.result = i.result /\ j.yielded = i.yielded /\ j.err = i.err
        /\ j.canceled = i.canceled /\ j.broken = i.broken
    BY <1>1 DEF Iterator
  <2> HIDE DEF j
  <2> QED
    BY <1>3, <2>1, <2>2
<1>15. CASE AppendInBody(c)
  <2> DEFINE j == [i EXCEPT !.pc = "append"]
  <2>1. it' = [it EXCEPT ![c] = j]
    BY <1>15 DEF AppendInBody, Put
  <2>2. /\ j.result = i.result /\ j.yielded = i.yielded /\ j.err = i.err
        /\ j.canceled = i.canceled /\ j.broken = i.broken
    BY <1>1 DEF Iterator
  <2> HIDE DEF j
  <2> QED
    BY <1>3, <2>1, <2>2
<1>16. CASE AppendReturns(c)
  <2> DEFINE j == [i EXCEPT !.pc = "again"]
  <2>1. it' = [it EXCEPT ![c] = j]
    BY <1>16 DEF AppendReturns, Put
  <2>2. /\ j.result = i.result /\ j.yielded = i.yielded /\ j.err = i.err
        /\ j.canceled = i.canceled /\ j.broken = i.broken
    BY <1>1 DEF Iterator
  <2> HIDE DEF j
  <2> QED
    BY <1>3, <2>1, <2>2
<1>17. CASE Cancel(c)
  <2> DEFINE j == [i EXCEPT !.canceled = TRUE]
  <2>1. it' = [it EXCEPT ![c] = j]
    BY <1>17 DEF Cancel, Put
  <2>2. /\ j.result = i.result /\ j.yielded = i.yielded /\ j.err = i.err
        /\ j.canceled /\ j.broken = i.broken
    BY <1>1 DEF Iterator
  <2> HIDE DEF j
  <2> QED
    BY <1>3, <2>1, <2>2
<1> QED
  BY <1>0, <1>5, <1>6, <1>7, <1>8, <1>9, <1>10, <1>11, <1>12, <1>13, <1>14, <1>15, <1>16, <1>17

\* An iteration that no failed statement and no cancellation has ended stops
\* only at the batch of an event whose data is no JSON or that has an empty
\* tag, and has yielded every batch before: whatever the data and tags of the
\* events, for every batch size.
THEOREM StopsAtUnreadable == Spec => []OnlyUnreadableStops
<1> DEFINE XInv == \A d \in Callers : Explained(it[d])
<1>1. Init => XInv
  BY DEF Init, NoIterator, Explained
<1>2. IterInv /\ XInv /\ [Next]_vars => XInv'
  <2> SUFFICES ASSUME IterInv, XInv, [Next]_vars PROVE XInv'
    OBVIOUS
  <2>1. CASE Next
    BY <2>1, ExplainedNext
  <2>2. CASE UNCHANGED vars
    BY <2>2 DEF vars
  <2> QED
    BY <2>1, <2>2
<1>3. IterInv /\ XInv => OnlyUnreadableStops
  <2> SUFFICES ASSUME IterInv, XInv, NEW c \in Callers
               PROVE  LET i == it[c]
                          n == Len(i.yielded) IN
                      /\ \A k \in 1..n : ~Unreadable(i.result[k])
                      /\ i.err /\ ~i.canceled /\ ~i.broken =>
                            \E k \in (n + 1)..(n + BatchSize) :
                                k <= Len(i.result) /\ Unreadable(i.result[k])
    BY DEF OnlyUnreadableStops
  <2> DEFINE i == it[c]
             n == Len(i.yielded)
  <2>1. i \in Iterator /\ ProgressOK(i) /\ Explained(i)
    BY DEF IterInv
  <2>2. i.yielded \in Seq(SequencedEvent) /\ i.result \in Seq(AppendedEvent)
    BY <2>1 DEF Iterator
  <2>3. n \in Nat /\ Len(i.result) \in Nat /\ n <= Len(i.result)
    BY <2>1, <2>2, LenProperties DEF ProgressOK, Begins
  <2>4. ASSUME NEW k \in Nat, 1 <= k, k <= Len(i.result)
        PROVE  Unreadable(i.result[k]) <=> ~Decodable(i.result[k])
    BY <2>2, <2>3, <2>4, UnreadableRows, ElementOfSeq
  <2>5. \A k \in 1..n : ~Unreadable(i.result[k])
    BY <2>1, <2>3, <2>4 DEF ProgressOK, Begins
  <2>6. ASSUME i.err, ~i.canceled, ~i.broken
        PROVE  \E k \in (n + 1)..(n + BatchSize) : k <= Len(i.result) /\ Unreadable(i.result[k])
    <3>1. PICK k \in (n + 1)..(n + BatchSize) : k <= Len(i.result) /\ ~Decodable(i.result[k])
      BY <2>1, <2>6 DEF Explained
    <3>2. k \in Nat /\ 1 <= k
      BY <2>3, ReadIteratorAssumption
    <3> QED
      BY <2>4, <3>1, <3>2
  <2> QED
    BY <2>5, <2>6
<1> HIDE DEF XInv
<1> QED
  BY <1>1, <1>2, <1>3, IterAlways, PTL DEF Spec
===============================================================================
