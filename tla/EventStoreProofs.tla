--------------------------- MODULE EventStoreProofs ---------------------------
(***************************************************************************)
(* Facts about positions, slots and finite sets that the proofs about both *)
(* stores rest on.                                                         *)
(***************************************************************************)
EXTENDS EventStore, FiniteSetTheorems, WellFoundedInduction, TLAPS

-------------------------------------------------------------------------------
(***************************************************************************)
(* Least and greatest elements.  Strict inclusion is well-founded on the   *)
(* subsets of a finite set, so among the sets of elements below k there is *)
(* a least one, that of the least k.                                       *)
(***************************************************************************)

\* A finite non-empty set of integers has a least element.
LEMMA FiniteMin ==
    ASSUME NEW K \in SUBSET Int, IsFiniteSet(K), K # {}
    PROVE  \E m \in K : \A k \in K : m <= k
<1> DEFINE Below(k) == {j \in K : j < k}
           T        == {Below(k) : k \in K}
           R        == StrictSubsetOrdering(K)
<1>1. IsWellFoundedOn(R, SUBSET K)
  BY FS_StrictSubsetOrderingWellFounded, FS_FiniteSubsetsOfFinite
<1>2. T \subseteq SUBSET K /\ T # {}
  OBVIOUS
<1>3. PICK X \in T : \A Y \in T : ~(<<Y, X>> \in R)
  <2> HIDE DEF T, R
  <2> QED BY <1>1, <1>2, WFMin
<1>4. PICK m \in K : X = Below(m)
  OBVIOUS
<1>5. ASSUME NEW k \in K, k < m
      PROVE  FALSE
  <2>1. Below(k) \subseteq Below(m)
    <3> SUFFICES ASSUME NEW j \in K, j < k PROVE j < m
      OBVIOUS
    <3>1. j \in Int /\ k \in Int /\ m \in Int
      OBVIOUS
    <3> QED
      BY <1>5, <3>1
  <2>2. k \in Below(m) /\ k \notin Below(k)
    BY <1>5
  <2>3. Below(k) \in T
    OBVIOUS
  <2>4. Below(k) \in SUBSET K /\ Below(m) \in SUBSET K
    OBVIOUS
  <2>5. Below(k) # Below(m)
    BY <2>2
  <2> HIDE DEF Below, T
  <2>6. <<Below(k), Below(m)>> \in R
    BY <2>1, <2>4, <2>5 DEF StrictSubsetOrdering
  <2> QED
    BY <1>3, <1>4, <2>3, <2>6
<1> QED
  BY <1>5

\* And a greatest one.
LEMMA FiniteMax ==
    ASSUME NEW K \in SUBSET Int, IsFiniteSet(K), K # {}
    PROVE  \E m \in K : \A k \in K : k <= m
<1> DEFINE Above(k) == {j \in K : j > k}
           T        == {Above(k) : k \in K}
           R        == StrictSubsetOrdering(K)
<1>1. IsWellFoundedOn(R, SUBSET K)
  BY FS_StrictSubsetOrderingWellFounded, FS_FiniteSubsetsOfFinite
<1>2. T \subseteq SUBSET K /\ T # {}
  OBVIOUS
<1>3. PICK X \in T : \A Y \in T : ~(<<Y, X>> \in R)
  <2> HIDE DEF T, R
  <2> QED BY <1>1, <1>2, WFMin
<1>4. PICK m \in K : X = Above(m)
  OBVIOUS
<1>5. ASSUME NEW k \in K, k > m
      PROVE  FALSE
  <2>1. Above(k) \subseteq Above(m)
    <3> SUFFICES ASSUME NEW j \in K, j > k PROVE j > m
      OBVIOUS
    <3>1. j \in Int /\ k \in Int /\ m \in Int
      OBVIOUS
    <3> QED
      BY <1>5, <3>1
  <2>2. k \in Above(m) /\ k \notin Above(k)
    BY <1>5
  <2>3. Above(k) \in T
    OBVIOUS
  <2>4. Above(k) \in SUBSET K /\ Above(m) \in SUBSET K
    OBVIOUS
  <2>5. Above(k) # Above(m)
    BY <2>2
  <2> HIDE DEF Above, T
  <2>6. <<Above(k), Above(m)>> \in R
    BY <2>1, <2>4, <2>5 DEF StrictSubsetOrdering
  <2> QED
    BY <1>3, <1>4, <2>3, <2>6
<1> QED
  BY <1>5

-------------------------------------------------------------------------------
(***************************************************************************)
(* The slots of an Append call.                                            *)
(***************************************************************************)

\* The slots of a call are pairs of indices, and each names an event.
LEMMA SlotsType ==
    ASSUME NEW cs \in Seq(AppendCommand), NEW s \in Slots(cs)
    PROVE  s \in Nat \X Nat /\ EventAt(cs, s) \in Event
<1>1. PICK i \in DOMAIN cs : s \in {i} \X DOMAIN cs[i].events
  BY DEF Slots
<1>2. cs[i] \in AppendCommand /\ i \in Nat
  OBVIOUS
<1>3. cs[i].events \in Seq(Event)
  BY <1>2 DEF AppendCommand
<1>4. s[1] = i /\ s[2] \in DOMAIN cs[i].events /\ s = <<s[1], s[2]>>
  BY <1>1
<1>5. cs[i].events[s[2]] \in Event /\ s[2] \in Nat
  BY <1>3, <1>4
<1> QED
  BY <1>2, <1>4, <1>5 DEF EventAt

\* The values of a function on a finite set are finitely many.
LEMMA FiniteValues ==
    ASSUME NEW S, IsFiniteSet(S), NEW T, NEW f \in [S -> T], \A t \in T : \E s \in S : f[s] = t
    PROVE  IsFiniteSet(T)
<1>1. PICK n \in Nat : ExistsSurjection(1..n, S)
  BY FS_NatSurjection
<1>2. PICK g \in [1..n -> S] : \A s \in S : \E i \in 1..n : g[i] = s
  BY <1>1 DEF ExistsSurjection, Surjection
<1> DEFINE h == [i \in 1..n |-> f[g[i]]]
<1>3. h \in [1..n -> T]
  BY <1>2
<1>4. \A t \in T : \E i \in 1..n : h[i] = t
  BY <1>2
<1>5. ExistsSurjection(1..n, T)
  BY <1>3, <1>4 DEF ExistsSurjection, Surjection
<1> QED
  BY <1>5, FS_NatSurjection

\* A call has finitely many slots.
LEMMA SlotsFinite ==
    ASSUME NEW cs \in Seq(AppendCommand)
    PROVE  IsFiniteSet(Slots(cs))
<1> DEFINE Of(i) == {i} \X (DOMAIN cs[i].events)
           T     == {Of(i) : i \in DOMAIN cs}
           f     == [i \in DOMAIN cs |-> Of(i)]
<1>1. DOMAIN cs = 1..Len(cs) /\ Len(cs) \in Nat
  OBVIOUS
<1>2. IsFiniteSet(DOMAIN cs)
  BY <1>1, FS_Interval
<1>3. IsFiniteSet(T)
  <2>1. f \in [DOMAIN cs -> T] /\ \A t \in T : \E i \in DOMAIN cs : f[i] = t
    OBVIOUS
  <2> HIDE DEF f, T
  <2> QED BY <1>2, <2>1, FiniteValues
<1>4. ASSUME NEW i \in DOMAIN cs
      PROVE  IsFiniteSet(Of(i))
  <2>1. cs[i].events \in Seq(Event)
    <3>1. cs[i] \in AppendCommand
      OBVIOUS
    <3> QED BY <3>1 DEF AppendCommand
  <2>2. DOMAIN cs[i].events = 1..Len(cs[i].events) /\ Len(cs[i].events) \in Nat
    BY <2>1
  <2> DEFINE D == DOMAIN cs[i].events
  <2>3. IsFiniteSet(D) /\ IsFiniteSet({i})
    <3>1. IsFiniteSet(1..Len(cs[i].events))
      BY <2>2, FS_Interval
    <3> QED BY <2>2, <3>1, FS_Singleton
  <2> HIDE DEF D
  <2>4. IsFiniteSet({i} \X D)
    BY <2>3, FS_Product
  <2> QED
    BY <2>4 DEF D
<1>5. \A t \in T : IsFiniteSet(t)
  BY <1>4
<1> HIDE DEF T
<1>6. IsFiniteSet(UNION T)
  BY <1>3, <1>5, FS_UNION
<1> QED
  BY <1>6 DEF Slots, T

\* Slots are ordered.
LEMMA SlotsOrdered ==
    ASSUME NEW s \in Nat \X Nat, NEW t \in Nat \X Nat, NEW u \in Nat \X Nat
    PROVE  /\ s = t \/ SlotBefore(s, t) \/ SlotBefore(t, s)
           /\ ~SlotBefore(s, s)
           /\ SlotBefore(s, t) => ~SlotBefore(t, s)
           /\ SlotBefore(s, t) /\ SlotBefore(t, u) => SlotBefore(s, u)
<1>1. /\ s = <<s[1], s[2]>> /\ s[1] \in Nat /\ s[2] \in Nat
      /\ t = <<t[1], t[2]>> /\ t[1] \in Nat /\ t[2] \in Nat
      /\ u = <<u[1], u[2]>> /\ u[1] \in Nat /\ u[2] \in Nat
  OBVIOUS
<1>2. s[1] = t[1] /\ s[2] = t[2] => s = t
  BY <1>1
<1> QED
  BY <1>1, <1>2 DEF SlotBefore

\* Counting the slots up to one numbers them from 1, in order.
Rank(cs, s) == Cardinality({t \in Slots(cs) : ~SlotBefore(s, t)})

\* The rank of a slot is a number from 1 on: a call has finitely many slots.
LEMMA RankType ==
    ASSUME NEW cs \in Seq(AppendCommand), NEW s \in Slots(cs)
    PROVE  Rank(cs, s) \in Nat /\ Rank(cs, s) > 0
<1> DEFINE U == {t \in Slots(cs) : ~SlotBefore(s, t)}
<1>1. IsFiniteSet(U)
  <2>1. U \in SUBSET Slots(cs)
    OBVIOUS
  <2> QED BY <2>1, SlotsFinite, FS_Subset
<1>2. s \in U
  BY SlotsType, SlotsOrdered
<1>3. Cardinality(U) \in Nat /\ Cardinality(U) # 0
  BY <1>1, <1>2, FS_CardinalityType, FS_EmptySet
<1> QED
  BY <1>3 DEF Rank

\* Ranks follow the order in which a call's events are stored.
LEMMA RankOrdered ==
    ASSUME NEW cs \in Seq(AppendCommand), NEW s \in Slots(cs), NEW t \in Slots(cs), SlotBefore(s, t)
    PROVE  Rank(cs, s) < Rank(cs, t)
<1> DEFINE U == {v \in Slots(cs) : ~SlotBefore(s, v)}
           V == {v \in Slots(cs) : ~SlotBefore(t, v)}
<1>1. \A v \in Slots(cs) : v \in Nat \X Nat
  BY SlotsType
<1>2. U \in SUBSET V /\ t \in V /\ t \notin U
  BY <1>1, SlotsOrdered
<1>3. IsFiniteSet(V)
  <2>1. V \in SUBSET Slots(cs)
    OBVIOUS
  <2> QED BY <2>1, SlotsFinite, FS_Subset
<1>4. U # V
  BY <1>2
<1>5. Rank(cs, s) = Cardinality(U) /\ Rank(cs, t) = Cardinality(V)
  BY DEF Rank
<1> HIDE DEF U, V
<1>6. Cardinality(U) <= Cardinality(V) /\ Cardinality(U) # Cardinality(V)
  BY <1>2, <1>3, <1>4, FS_Subset
<1>7. Rank(cs, s) \in Nat /\ Rank(cs, t) \in Nat
  BY RankType
<1> QED
  BY <1>5, <1>6, <1>7

-------------------------------------------------------------------------------
(***************************************************************************)
(* Subscriptions of both stores: an iterator that has yielded all that was *)
(* due up to its position, and holds a batch of what follows.              *)
(***************************************************************************)

RowsOf(del) == {del[i] : i \in DOMAIN del}

\* del lists the rows of due up to position p, in order.
Streamed(del, due, p) ==
    /\ RowsOf(del) = {r \in due : r.pos <= p}
    /\ \A i, j \in DOMAIN del : i < j => del[i].pos < del[j].pos

\* b holds the next rows of due after position p.
NextBatch(b, due, p) ==
    /\ b \subseteq due
    /\ \A r \in b : r.pos > p
    /\ \A r \in b, t \in due : p < t.pos /\ t.pos <= r.pos => t \in b

\* e is the row to yield next, with the rest of b to follow.
YieldsNext(del, b, due, e) ==
    /\ Append(del, e) \in Seq(Row)
    /\ Streamed(Append(del, e), due, e.pos)
    /\ NextBatch(b \ {e}, due, e.pos)
    /\ e \in due \ RowsOf(del)
    /\ \A t \in due \ RowsOf(del) : e.pos <= t.pos

\* The first event of the batch is the one to yield next, and the rest of the
\* batch is what follows it.
LEMMA BatchDelivers ==
    ASSUME NEW due \in SUBSET Row, NEW p \in Nat, NEW del \in Seq(Row), NEW b,
           \A r, t \in due : r.pos = t.pos => r = t,
           Streamed(del, due, p), NextBatch(b, due, p),
           NEW e \in b, \A t \in b : e.pos <= t.pos
    PROVE  YieldsNext(del, b, due, e)
<1>1. e \in Row /\ e \in due /\ e.pos \in Nat /\ e.pos > p
  BY DEF NextBatch, Row, Position
<1>2. \A t \in due : t.pos \in Nat
  BY DEF Row, Position
<1>3. ASSUME NEW t \in due, t.pos > p
      PROVE  e.pos <= t.pos
  BY <1>1, <1>2, <1>3 DEF NextBatch
<1> DEFINE d2 == Append(del, e)
<1>4. /\ d2 \in Seq(Row) /\ Len(del) \in Nat /\ Len(d2) = Len(del) + 1
      /\ DOMAIN del = 1..Len(del) /\ DOMAIN d2 = 1..(Len(del) + 1)
      /\ \A k \in 1..Len(del) : d2[k] = del[k]
      /\ d2[Len(del) + 1] = e
  BY <1>1
<1> HIDE DEF d2
<1>5. RowsOf(d2) = RowsOf(del) \cup {e}
  BY <1>4 DEF RowsOf
<1>6. RowsOf(del) \cup {e} = {r \in due : r.pos <= e.pos}
  <2>1. RowsOf(del) = {r \in due : r.pos <= p}
    BY DEF Streamed
  <2>2. ASSUME NEW r \in due, r.pos <= p
        PROVE  r.pos <= e.pos
    BY <1>1, <1>2, <2>2
  <2>3. ASSUME NEW r \in due, r.pos <= e.pos, ~(r.pos <= p)
        PROVE  r = e
    BY <1>1, <1>2, <1>3, <2>3
  <2> QED
    BY <1>1, <2>1, <2>2, <2>3
<1>7. ASSUME NEW i \in DOMAIN d2, NEW j \in DOMAIN d2, i < j
      PROVE  d2[i].pos < d2[j].pos
  <2>1. i \in 1..Len(del) /\ i \in DOMAIN del /\ d2[i] = del[i]
    BY <1>4, <1>7
  <2>2. CASE j = Len(del) + 1
    <3>1. del[i] \in {r \in due : r.pos <= p}
      BY <2>1 DEF Streamed, RowsOf
    <3> QED
      BY <1>1, <1>2, <1>4, <2>1, <2>2, <3>1
  <2>3. CASE j # Len(del) + 1
    <3>1. j \in 1..Len(del)
      BY <1>4, <2>3
    <3> QED
      BY <1>4, <1>7, <2>1, <3>1 DEF Streamed
  <2> QED
    BY <2>2, <2>3
<1>8. NextBatch(b \ {e}, due, e.pos)
  <2>1. ASSUME NEW r \in b \ {e}
        PROVE  r.pos > e.pos
    <3>1. r \in due /\ e.pos <= r.pos /\ r.pos # e.pos
      BY <1>1 DEF NextBatch
    <3> QED
      BY <1>1, <1>2, <3>1
  <2>2. ASSUME NEW r \in b \ {e}, NEW t \in due, e.pos < t.pos, t.pos <= r.pos
        PROVE  t \in b \ {e}
    BY <1>1, <1>2, <2>2 DEF NextBatch
  <2> QED
    BY <2>1, <2>2 DEF NextBatch
<1>9. RowsOf(del) = {r \in due : r.pos <= p}
  BY DEF Streamed
<1>10. /\ e \in due \ {r \in due : r.pos <= p}
       /\ \A t \in due \ {r \in due : r.pos <= p} : e.pos <= t.pos
  BY <1>1, <1>2, <1>3
<1> QED
  BY <1>4, <1>5, <1>6, <1>7, <1>8, <1>9, <1>10 DEF YieldsNext, Streamed, d2

\* New events that come after a batch leave it the next one.
LEMMA BatchKept ==
    ASSUME NEW due \in SUBSET Row, NEW new \in SUBSET Row, NEW p \in Nat, NEW b,
           NextBatch(b, due, p), \A r \in new, t \in b : r.pos > t.pos
    PROVE  NextBatch(b, due \cup new, p)
<1>1. \A r \in due \cup new : r.pos \in Nat
  BY DEF Row, Position
<1>2. ASSUME NEW r \in b, NEW t \in due \cup new, p < t.pos, t.pos <= r.pos
      PROVE  t \in b
  <2>1. r \in due
    BY DEF NextBatch
  <2>2. t \notin new \/ t \in due
    BY <1>1, <1>2, <2>1
  <2> QED
    BY <1>2, <2>2 DEF NextBatch
<1> QED
  BY <1>2 DEF NextBatch

\* And those that come after an iterator's position leave what it has yielded
\* complete.
LEMMA StreamKept ==
    ASSUME NEW due \in SUBSET Row, NEW new \in SUBSET Row, NEW p \in Nat, NEW del,
           Streamed(del, due, p), \A r \in new : r.pos > p
    PROVE  Streamed(del, due \cup new, p)
<1>1. \A r \in due \cup new : r.pos \in Nat
  BY DEF Row, Position
<1>2. {r \in due \cup new : r.pos <= p} = {r \in due : r.pos <= p}
  BY <1>1
<1> QED
  BY <1>2 DEF Streamed
===============================================================================
