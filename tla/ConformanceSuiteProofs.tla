------------------------ MODULE ConformanceSuiteProofs ------------------------
(***************************************************************************)
(* Both stores pass the concurrency tests of the conformance suite with    *)
(* any number of goroutines, in every interleaving: RacesPass.             *)
(***************************************************************************)
EXTENDS ConformanceSuite, PgStoreProofs

-------------------------------------------------------------------------------
(***************************************************************************)
(* The calls of a race.                                                    *)
(***************************************************************************)

\* What goroutine c appends, and the event in it.
RaceCmds(c)  == test.calls[c][1].cmds
RaceEvent(c) == RaceCmds(c)[1].events[1]

\* The row r stores the event of goroutine c.
StoredFor(c, r) == r.type = RaceEvent(c).type /\ r.tags = RaceEvent(c).tags

\* What each test makes of its goroutines.
LEMMA RaceTests ==
    ASSUME NEW c \in Writers
    PROVE  /\ Racing.calls[c] = OneEvent(A, {tag1}, scopedCondition({A}, {tag1}, Nil))
           /\ DisjointScopes.calls[c]
                  = OneEvent(A, {ScopeTag[c]}, scopedCondition({A}, {ScopeTag[c]}, Nil))
           /\ Unconditional.calls[c] = OneEvent(B, {}, Nil)
<1>1. Racing.calls[c] = OneEvent(A, {tag1}, scopedCondition({A}, {tag1}, Nil))
  BY DEF Racing
<1>2. DisjointScopes.calls[c]
          = OneEvent(A, {ScopeTag[c]}, scopedCondition({A}, {ScopeTag[c]}, Nil))
  BY DEF DisjointScopes
<1>3. Unconditional.calls[c] = OneEvent(B, {}, Nil)
  BY DEF Unconditional
<1> QED
  BY <1>1, <1>2, <1>3

\* Each goroutine makes one call, with one event.
LEMMA RaceCalls ==
    ASSUME test \in Races, NEW c \in Writers
    PROVE  /\ Len(test.calls[c]) = 1 /\ test.calls[c][1].op = "append"
           /\ RaceCmds(c) \in AppendInputs /\ RaceCmds(c) \in Seq(AppendCommand)
           /\ DOMAIN RaceCmds(c) = {1}
           /\ DOMAIN RaceCmds(c)[1].events = {1}
           /\ RaceEvent(c) \in Event
<1>1. ASSUME NEW type, NEW tags, NEW cond, test.calls[c] = OneEvent(type, tags, cond)
      PROVE  /\ Len(test.calls[c]) = 1 /\ test.calls[c][1].op = "append"
             /\ DOMAIN RaceCmds(c) = {1}
             /\ DOMAIN RaceCmds(c)[1].events = {1}
             /\ RaceCmds(c)[1].condition = cond
             /\ RaceEvent(c) = mustEvent(type, tags)
  BY <1>1 DEF RaceCmds, RaceEvent, OneEvent, AppendOf, Command
<1>2. \E type, tags, cond : test.calls[c] = OneEvent(type, tags, cond)
  BY RaceTests DEF Races
<1>3. RaceCmds(c) \in AppendInputs
  BY SuiteAssumption DEF RaceCmds, RaceInputs
<1>4. RaceCmds(c) \in Seq(AppendCommand)
  BY <1>3, PgStoreAssumption
<1>5. RaceEvent(c) \in Event
  <2>1. RaceCmds(c)[1] \in AppendCommand
    BY <1>1, <1>2, <1>4
  <2>2. RaceCmds(c)[1].events \in Seq(Event)
    BY <2>1 DEF AppendCommand
  <2> QED
    BY <1>1, <1>2, <2>2 DEF RaceEvent
<1> QED
  BY <1>1, <1>2, <1>3, <1>4, <1>5

\* So there is one slot to fill.
LEMMA RaceSlots ==
    ASSUME test \in Races, NEW c \in Writers
    PROVE  /\ Slots(RaceCmds(c)) = {<<1, 1>>}
           /\ EventAt(RaceCmds(c), <<1, 1>>) = RaceEvent(c)
BY RaceCalls DEF Slots, EventAt, RaceEvent

\* What the calls are in each of the tests.
LEMMA RaceShapes ==
    ASSUME NEW c \in Writers
    PROVE  /\ test = Racing =>
                /\ RaceCmds(c)[1].condition = scopedCondition({A}, {tag1}, Nil)
                /\ RaceEvent(c) = mustEvent(A, {tag1})
           /\ test = DisjointScopes =>
                /\ RaceCmds(c)[1].condition = scopedCondition({A}, {ScopeTag[c]}, Nil)
                /\ RaceEvent(c) = mustEvent(A, {ScopeTag[c]})
           /\ test = Unconditional => RaceCmds(c)[1].condition = Nil
<1>1. ASSUME NEW type, NEW tags, NEW cond, test.calls[c] = OneEvent(type, tags, cond)
      PROVE  /\ RaceCmds(c)[1].condition = cond
             /\ RaceEvent(c) = mustEvent(type, tags)
  BY <1>1 DEF RaceCmds, RaceEvent, OneEvent, AppendOf, Command
<1> QED
  BY <1>1, RaceTests

\* The call is one that Append accepts.
LEMMA RaceCallsValid ==
    ASSUME test \in Races, NEW c \in Writers
    PROVE  ConditionsValid(RaceCmds(c))
<1>1. DOMAIN RaceCmds(c) = {1}
  BY RaceCalls
<1>2. ASSUME NEW tag PROVE ValidateAppendCondition(scopedCondition({A}, {tag}, Nil))
  BY DEF ValidateAppendCondition, scopedCondition, mustQuery, QueryFromItems
<1> QED
  BY <1>1, <1>2, RaceShapes DEF ConditionsValid, Races

\* In Racing, one stored event violates everyone's condition.
LEMMA RacersConflict ==
    ASSUME test = Racing, NEW c \in Writers, NEW d \in Writers, NEW L, NEW r \in L, StoredFor(d, r)
    PROVE  Violates(L, RaceCmds(c), 1)
<1> DEFINE cond == scopedCondition({A}, {tag1}, Nil)
           item == [types |-> {A}, tags |-> {tag1}]
<1>1. RaceCmds(c)[1].condition = cond
  BY RaceShapes
<1>2. cond.failIfEventsMatch.items = {item} /\ cond.after = Nil
  BY DEF scopedCondition, mustQuery, QueryFromItems
<1>3. cond # Nil
  <2>1. mustQuery({A}, {tag1}) \in Query
    BY SuiteAssumption DEF mustQuery, QueryFromItems, Query, QueryItem
  <2>2. cond \in AppendCondition
    BY <2>1 DEF scopedCondition, AppendCondition
  <2> QED
    BY <2>2, SuiteAssumption
<1>4. r.type = A /\ r.tags = {tag1}
  <2>1. RaceEvent(d) = mustEvent(A, {tag1})
    BY RaceShapes
  <2> QED
    BY <2>1 DEF StoredFor, mustEvent
<1>5. MatchesQueryItem(item, r)
  BY <1>4 DEF MatchesQueryItem
<1> HIDE DEF cond, item
<1>6. MatchesQuery(cond.failIfEventsMatch, r)
  BY <1>2, <1>5 DEF MatchesQuery
<1> QED
  BY <1>1, <1>2, <1>3, <1>6 DEF Violates, AnyMatchAfter

\* In the other tests, only one's own event would.
LEMMA OthersDoNotConflict ==
    ASSUME test \in Races, test # Racing, NEW c \in Writers, NEW L,
           Violates(L, RaceCmds(c), 1)
    PROVE  \E r \in L : \A d \in Writers : StoredFor(d, r) => d = c
<1>1. RaceCmds(c)[1].condition # Nil
  BY DEF Violates
<1>2. test = DisjointScopes
  BY <1>1, RaceShapes DEF Races
<1> DEFINE cond == scopedCondition({A}, {ScopeTag[c]}, Nil)
           item == [types |-> {A}, tags |-> {ScopeTag[c]}]
<1>3. RaceCmds(c)[1].condition = cond
  BY <1>2, RaceShapes
<1>4. cond.failIfEventsMatch.items = {item} /\ ~cond.failIfEventsMatch.all
  BY DEF scopedCondition, mustQuery, QueryFromItems
<1>5. PICK r \in L : MatchesQuery(cond.failIfEventsMatch, r)
  BY <1>3 DEF Violates, AnyMatchAfter
<1>6. MatchesQueryItem(item, r)
  <2> HIDE DEF cond, item
  <2> QED
    BY <1>4, <1>5 DEF MatchesQuery
<1>7. ScopeTag[c] \in r.tags
  BY <1>6 DEF MatchesQueryItem
<1>8. ASSUME NEW d \in Writers, StoredFor(d, r)
      PROVE  d = c
  <2>1. r.tags = {ScopeTag[d]}
    <3>1. RaceEvent(d) = mustEvent(A, {ScopeTag[d]})
      BY <1>2, RaceShapes
    <3> QED
      BY <1>8, <3>1 DEF StoredFor, mustEvent
  <2> QED
    BY <1>7, <2>1, SuiteAssumption
<1> QED
  BY <1>8

-------------------------------------------------------------------------------
(***************************************************************************)
(* The inductive invariant.                                                *)
(***************************************************************************)
Ok(c) == ret[c].kind = "ok"

\* The position that the event of goroutine c has, in flight or stored.
Taken(c) == IF Ok(c) THEN {ret[c].pos} ELSE {r.pos : r \in rows[c]}

\* What the calls have returned so far is what the store holds.
ResultsOK ==
    /\ \A c, d \in Writers : c # d => Taken(c) \cap Taken(d) = {}
    /\ \A r \in log : \E c \in Writers : Ok(c) /\ ret[c].pos = r.pos /\ StoredFor(c, r)
    /\ \A c \in Writers : Ok(c) => \E r \in log : r.pos = ret[c].pos
    /\ \A c \in Writers : ret[c].kind = "condition" => test = Racing /\ log # {}
    /\ test = Racing => \A c, d \in Writers : Ok(c) /\ Ok(d) => c = d

\* A goroutine calls Append once and inserts one row.
RacerOK(c) ==
    /\ made[c] \in {0, 1}
    /\ made[c] = 0 => pc[c] = "idle" /\ ret[c] = NoReturn
    /\ made[c] = 1 =>
          \/ /\ pc[c] \in {"a_lock", "a_check", "a_insert", "append"}
             /\ ret[c] = NoReturn /\ cmds[c] = RaceCmds(c)
          \/ pc[c] \in {"end", "return", "idle"} /\ ret[c].kind \in {"ok", "condition"}
    /\ rows[c] # {} =>
          todo[c] = {} /\ \E r \in Row : rows[c] = {r} /\ StoredFor(c, r)

\* The in-memory store is sound as far as Append goes, and PgStore's own
\* variables are at rest.
MemoryOK ==
    /\ log \in SUBSET Row /\ IsFiniteSet(log)
    /\ pc \in [Clients -> {"idle", "append", "return"}]
    /\ DOMAIN cmds = Clients /\ DOMAIN ret = Clients
    /\ \A c \in Clients : rows[c] = {}

RaceInv ==
    /\ test \in Races
    /\ made \in [Writers -> Nat]
    /\ \/ store = "postgres" /\ IInv
       \/ store = "memory" /\ MemoryOK
    /\ ResultsOK
    /\ \A c \in Writers : RacerOK(c)

SuiteInv == test.successes # Nil => RaceInv

\* A call that has not returned has not succeeded.
LEMMA NotYet ==
    ASSUME NEW c \in Clients, ret[c] = NoReturn
    PROVE  ~Ok(c) /\ ret[c].kind # "condition"
BY DEF NoReturn, Ok

\* A call that commits its row succeeds: nobody has its position, and in
\* Racing nobody was before it.
LEMMA Succeeds ==
    ASSUME ResultsOK, NEW c \in Writers, NEW r, StoredFor(c, r), DOMAIN ret = Clients,
           ret[c] = NoReturn, ret' = [ret EXCEPT ![c] = [kind |-> "ok", pos |-> r.pos]],
           log' = log \cup {r}, test' = test, ~Violates(log, RaceCmds(c), 1),
           \A d \in Writers \ {c} : rows'[d] = rows[d] /\ r.pos \notin Taken(d)
    PROVE  ResultsOK'
<1>1. c \in Clients
  BY DEF Clients
<1>2. Ok(c)' /\ ret'[c].pos = r.pos /\ ret'[c].kind # "condition"
  BY <1>1 DEF Ok
<1>3. \A d \in Writers \ {c} : ret'[d] = ret[d]
  BY DEF Clients
<1>4. Taken(c)' = {r.pos}
  BY <1>2 DEF Taken
<1>5. \A d \in Writers \ {c} : Taken(d)' = Taken(d) /\ Ok(d)' = Ok(d)
  BY <1>3 DEF Taken, Ok
<1>6. \A d \in Writers : \A s : StoredFor(d, s)' = StoredFor(d, s)
  BY DEF StoredFor, RaceEvent, RaceCmds
<1>7. ~Ok(c)
  BY <1>1, NotYet
<1>8. (\A d, e \in Writers : d # e => Taken(d) \cap Taken(e) = {})'
  BY <1>4, <1>5 DEF ResultsOK
<1>9. (\A s \in log : \E d \in Writers : Ok(d) /\ ret[d].pos = s.pos /\ StoredFor(d, s))'
  <2>1. ASSUME NEW s \in log PROVE \E d \in Writers : Ok(d)' /\ ret'[d].pos = s.pos /\ StoredFor(d, s)'
    BY <1>3, <1>5, <1>6, <1>7 DEF ResultsOK
  <2>2. Ok(c)' /\ ret'[c].pos = r.pos /\ StoredFor(c, r)'
    BY <1>2, <1>6
  <2> QED
    BY <2>1, <2>2
<1>10. (\A d \in Writers : Ok(d) => \E s \in log : s.pos = ret[d].pos)'
  BY <1>2, <1>3, <1>5 DEF ResultsOK
<1>11. (\A d \in Writers : ret[d].kind = "condition" => test = Racing /\ log # {})'
  BY <1>2, <1>3 DEF ResultsOK
<1>12. (test = Racing => \A d, e \in Writers : Ok(d) /\ Ok(e) => d = e)'
  <2>1. CASE test = Racing
    <3>1. log = {}
      BY <2>1, RacersConflict DEF ResultsOK
    <3>2. \A d \in Writers \ {c} : ~Ok(d)'
      BY <1>5, <3>1 DEF ResultsOK
    <3> QED
      BY <3>2
  <2> QED
    BY <2>1
<1> QED
  BY <1>8, <1>9, <1>10, <1>11, <1>12 DEF ResultsOK

\* A call is refused only in Racing, when someone has succeeded.
LEMMA Refused ==
    ASSUME test \in Races, ResultsOK, NEW c \in Writers, DOMAIN ret = Clients,
           ret[c] = NoReturn, NEW i, ret' = [ret EXCEPT ![c] = [kind |-> "condition", idx |-> i]],
           log' = log, test' = test, rows' = rows, rows[c] = {}, Violates(log, RaceCmds(c), 1)
    PROVE  ResultsOK'
<1>1. c \in Clients
  BY DEF Clients
<1>2. ~Ok(c)' /\ ~Ok(c)
  BY <1>1, NotYet DEF Ok
<1>3. \A d \in Writers \ {c} : ret'[d] = ret[d]
  BY DEF Clients
<1>4. \A d \in Writers : Taken(d)' = Taken(d) /\ Ok(d)' = Ok(d)
  BY <1>2, <1>3 DEF Taken, Ok
<1>5. \A d \in Writers : \A s : StoredFor(d, s)' = StoredFor(d, s)
  BY DEF StoredFor, RaceEvent, RaceCmds
<1>6. test = Racing /\ log # {}
  <2>1. log # {}
    BY DEF Violates, AnyMatchAfter
  <2>2. ASSUME test # Racing PROVE FALSE
    <3>1. PICK r \in log : \A d \in Writers : StoredFor(d, r) => d = c
      BY <2>2, OthersDoNotConflict
    <3> QED
      BY <1>2, <3>1 DEF ResultsOK
  <2> QED
    BY <2>1, <2>2
<1>7. (\A s \in log : \E d \in Writers : Ok(d) /\ ret[d].pos = s.pos /\ StoredFor(d, s))'
  BY <1>2, <1>3, <1>4, <1>5 DEF ResultsOK
<1>8. (\A d \in Writers : Ok(d) => \E s \in log : s.pos = ret[d].pos)'
  BY <1>2, <1>3, <1>4 DEF ResultsOK
<1> QED
  BY <1>4, <1>6, <1>7, <1>8 DEF ResultsOK

-------------------------------------------------------------------------------
(***************************************************************************)
(* A step of one goroutine.                                                *)
(***************************************************************************)
OthersRest(c) ==
    \A d \in Writers \ {c} :
        /\ pc'[d] = pc[d] /\ cmds'[d] = cmds[d] /\ ret'[d] = ret[d]
        /\ todo'[d] = todo[d] /\ rows'[d] = rows[d] /\ made'[d] = made[d]

\* What a step leaves to be shown: the goroutine's own part.
LEMMA OneRacer ==
    ASSUME RaceInv, test' = test, NEW c \in Writers, OthersRest(c), RacerOK(c)'
    PROVE  \A d \in Writers : RacerOK(d)'
<1>1. \A d \in Writers : \A s : StoredFor(d, s)' = StoredFor(d, s) /\ RaceCmds(d)' = RaceCmds(d)
  BY DEF StoredFor, RaceEvent, RaceCmds
<1>2. ASSUME NEW d \in Writers \ {c} PROVE RacerOK(d)'
  BY <1>1, <1>2 DEF RaceInv, RacerOK, OthersRest
<1> QED
  BY <1>2

\* Results stand while nothing is stored or returned.
LEMMA ResultsStand ==
    ASSUME ResultsOK, log' = log, ret' = ret, rows' = rows, test' = test
    PROVE  ResultsOK'
<1>1. \A d \in Writers : \A s : StoredFor(d, s)' = StoredFor(d, s)
  BY DEF StoredFor, RaceEvent, RaceCmds
<1>2. \A d \in Writers : Taken(d)' = Taken(d) /\ Ok(d)' = Ok(d)
  BY DEF Taken, Ok
<1> QED
  BY <1>1, <1>2 DEF ResultsOK

\* A goroutine's call is its only one, an Append of one event.
LEMMA RaceTestCall ==
    ASSUME RaceInv, NEW c \in Writers, TestCall(c)
    PROVE  /\ made[c] = 0 /\ made' = [made EXCEPT ![c] = 1] /\ store' = store /\ test' = test
           /\ pc[c] = "idle" /\ ret[c] = NoReturn /\ TestAppend(c, RaceCmds(c))
<1>1. /\ Len(test.calls[c]) = 1 /\ test.calls[c][1].op = "append"
  BY RaceCalls DEF RaceInv
<1>2. made[c] = 0
  BY <1>1 DEF TestCall, RaceInv, RacerOK
<1>3. made[c] + 1 = 1
  BY <1>2
<1> QED
  BY <1>1, <1>2, <1>3 DEF TestCall, RaceInv, RacerOK, RaceCmds

-------------------------------------------------------------------------------
(***************************************************************************)
(* The Postgres store.                                                     *)
(***************************************************************************)

\* The call begins.
LEMMA PgCallBegins ==
    ASSUME RaceInv, store = "postgres", NEW c \in Writers, TestCall(c)
    PROVE  AppendCall(c, RaceCmds(c)) /\ [Next]_vars
<1>1. ConditionsValid(RaceCmds(c)) /\ Slots(RaceCmds(c)) # {} /\ RaceCmds(c) \in AppendInputs
  BY RaceCallsValid, RaceSlots, RaceCalls DEF RaceInv
<1>2. AppendCall(c, RaceCmds(c))
  BY <1>1, RaceTestCall DEF TestAppend, AppendRejected
<1> QED
  BY <1>1, <1>2 DEF Next, Call, Clients

\* It takes up its place among the calls in progress.
LEMMA PgCallKeeps ==
    ASSUME RaceInv, store = "postgres", IInv', NEW c \in Writers, TestCall(c)
    PROVE  RaceInv'
<1>1. /\ made[c] = 0 /\ made' = [made EXCEPT ![c] = 1] /\ store' = store /\ test' = test
      /\ ret[c] = NoReturn
  BY RaceTestCall
<1>2. IInv /\ TypeOK /\ c \in Clients
  BY DEF RaceInv, IInv, ReadInv, Clients
<1>3. /\ pc' = [pc EXCEPT ![c] = "a_lock"] /\ pc[c] = "idle"
      /\ cmds' = [cmds EXCEPT ![c] = RaceCmds(c)]
      /\ todo' = [todo EXCEPT ![c] = Slots(RaceCmds(c))]
      /\ ret' = [ret EXCEPT ![c] = NoReturn] /\ log' = log /\ rows' = rows
  BY PgCallBegins DEF AppendCall
<1>4. ret' = ret
  BY <1>1, <1>2, <1>3 DEF TypeOK
<1>5. rows[c] = {}
  BY <1>2, <1>3 DEF IInv, ReadInv, RowsAreLocked
<1>6. made' \in [Writers -> Nat]
  BY <1>1 DEF RaceInv
<1>7. RaceCmds(c)' = RaceCmds(c)
  BY <1>1 DEF RaceCmds
<1>8. RacerOK(c)'
  BY <1>1, <1>2, <1>3, <1>4, <1>5, <1>7 DEF RacerOK, TypeOK, RaceInv
<1>9. OthersRest(c)
  BY <1>1, <1>2, <1>3 DEF OthersRest, TypeOK, RaceInv
<1>10. ResultsOK'
  BY <1>1, <1>3, <1>4, ResultsStand DEF RaceInv
<1> QED
  BY <1>1, <1>6, <1>8, <1>9, <1>10, OneRacer DEF RaceInv

\* Steps that change no result and no row.
LEMMA PgQuietKeeps ==
    ASSUME RaceInv, store = "postgres", IInv', NEW c \in Writers,
           store' = store, test' = test, made' = made,
           \/ AcquireLock(c) \/ SnapshotHwm(c) \/ CheckConditionsPass(c) \/ EndTransaction(c)
    PROVE  RaceInv'
<1>1. IInv /\ TypeOK /\ c \in Clients /\ RacerOK(c)
  BY DEF RaceInv, IInv, ReadInv, Clients
<1>2. log' = log /\ ret' = ret /\ rows' = rows /\ todo' = todo
  BY DEF AcquireLock, SnapshotHwm, CheckConditionsPass, EndTransaction
<1>3. RaceCmds(c)' = RaceCmds(c) /\ \A s : StoredFor(c, s)' = StoredFor(c, s)
  BY DEF RaceCmds, StoredFor, RaceEvent
<1>4. ASSUME AcquireLock(c) \/ SnapshotHwm(c) \/ CheckConditionsPass(c)
      PROVE  RacerOK(c)' /\ OthersRest(c)
  <2>1. /\ cmds' = cmds /\ pc[c] \in {"a_lock", "r_lock", "a_check"}
        /\ \/ pc' = pc
           \/ \E p \in {"a_check", "a_insert"} : pc' = [pc EXCEPT ![c] = p]
    BY <1>4 DEF AcquireLock, SnapshotHwm, CheckConditionsPass
  <2>2. pc'[c] \in {"a_lock", "a_check", "a_insert"}
    BY <1>1, <2>1 DEF TypeOK, RacerOK
  <2>3. RacerOK(c)'
    BY <1>1, <1>2, <1>3, <2>1, <2>2 DEF RacerOK
  <2>4. \A d \in Writers \ {c} : pc'[d] = pc[d] /\ cmds'[d] = cmds[d]
    BY <1>1, <2>1 DEF TypeOK, Clients
  <2>5. OthersRest(c)
    BY <1>2, <2>4 DEF OthersRest
  <2> QED
    BY <2>3, <2>5
<1>5. ASSUME EndTransaction(c)
      PROVE  RacerOK(c)' /\ OthersRest(c)
  <2>1. /\ cmds' = [cmds EXCEPT ![c] = <<>>] /\ pc[c] \in {"end", "r_end"}
        /\ pc' = [pc EXCEPT ![c] = IF pc[c] = "end" THEN "idle" ELSE "r_declare"]
    BY <1>5 DEF EndTransaction
  <2>2. pc[c] = "end" /\ pc'[c] = "idle" /\ made[c] = 1 /\ ret[c].kind \in {"ok", "condition"}
    BY <1>1, <2>1 DEF TypeOK, RacerOK
  <2>3. RacerOK(c)'
    BY <1>1, <1>2, <1>3, <2>1, <2>2 DEF RacerOK
  <2>4. \A d \in Writers \ {c} : pc'[d] = pc[d] /\ cmds'[d] = cmds[d]
    BY <1>1, <2>1 DEF TypeOK, Clients
  <2>5. OthersRest(c)
    BY <1>2, <2>4 DEF OthersRest
  <2> QED
    BY <2>3, <2>5
<1>6. ResultsOK'
  BY <1>2, ResultsStand DEF RaceInv
<1> QED
  BY <1>4, <1>5, <1>6, OneRacer DEF RaceInv

\* A failed check ends the call.
LEMMA PgFailKeeps ==
    ASSUME DelimiterFree, RaceInv, store = "postgres", IInv', NEW c \in Writers,
           store' = store, test' = test, made' = made, CheckConditionsFail(c)
    PROVE  RaceInv'
<1>1. IInv /\ TypeOK /\ c \in Clients /\ RacerOK(c)
  BY DEF RaceInv, IInv, ReadInv, Clients
<1>2. PICK i \in DOMAIN cmds[c] :
         /\ ConditionMatches(log, cmds[c], i, hwm[c])
         /\ ret' = [ret EXCEPT ![c] = [kind |-> "condition", idx |-> i]]
  BY DEF CheckConditionsFail
<1>3. /\ pc[c] = "a_check" /\ pc' = [pc EXCEPT ![c] = "end"]
      /\ todo' = [todo EXCEPT ![c] = {}] /\ log' = log /\ cmds' = cmds /\ rows' = rows
  BY DEF CheckConditionsFail
<1>4. cmds[c] = RaceCmds(c) /\ ret[c] = NoReturn /\ made[c] = 1
  BY <1>1, <1>3 DEF RacerOK
<1>5. i = 1
  BY <1>2, <1>4, RaceCalls DEF RaceInv
<1>6. Violates(log, RaceCmds(c), 1)
  <2>1. RaceCmds(c) \in Seq(AppendCommand) /\ 1 \in DOMAIN RaceCmds(c)
    BY RaceCalls DEF RaceInv
  <2> QED
    BY <1>2, <1>4, <1>5, <2>1, MatchesAreViolations
<1>7. rows[c] = {}
  BY <1>1, <1>3 DEF IInv, ReadInv, RowsAreLocked
<1>8. ResultsOK'
  <2>1. DOMAIN ret = Clients
    BY <1>1 DEF TypeOK
  <2> QED
    BY <1>2, <1>3, <1>4, <1>6, <1>7, <2>1, Refused DEF RaceInv
<1>9. ret'[c].kind = "condition" /\ pc'[c] = "end" /\ rows'[c] = {}
  BY <1>1, <1>2, <1>3, <1>7 DEF TypeOK
<1>10. RacerOK(c)'
  BY <1>4, <1>9 DEF RacerOK
<1>11. OthersRest(c)
  BY <1>1, <1>2, <1>3 DEF OthersRest, TypeOK
<1> QED
  BY <1>8, <1>10, <1>11, OneRacer DEF RaceInv

\* The row takes a position that nobody has.
LEMMA PgInsertKeeps ==
    ASSUME DelimiterFree, RaceInv, store = "postgres", IInv', NEW c \in Writers,
           store' = store, test' = test, made' = made, InsertRow(c)
    PROVE  RaceInv'
<1>1. IInv /\ TypeOK /\ c \in Clients /\ RacerOK(c) /\ ResultsOK /\ test \in Races
  BY DEF RaceInv, IInv, ReadInv, Clients
<1>2. PICK s \in todo[c] :
         /\ todo' = [todo EXCEPT ![c] = @ \ {s}]
         /\ rows' = [rows EXCEPT ![c] = @ \cup {InsertedRow(c, s)}]
  BY DEF InsertRow
<1>3. /\ pc[c] = "a_insert" /\ seq' = seq + 1
      /\ pc' = pc /\ log' = log /\ cmds' = cmds /\ ret' = ret
  BY DEF InsertRow
<1>4. cmds[c] = RaceCmds(c) /\ ret[c] = NoReturn /\ made[c] = 1 /\ ~Ok(c)
  BY <1>1, <1>3, NotYet DEF RacerOK
<1>5. todo[c] = {s} /\ s = <<1, 1>>
  <2>1. todo[c] \subseteq Slots(cmds[c])
    BY <1>1, <1>3 DEF IInv, ReadInv, AppendLocks
  <2> QED
    BY <1>1, <1>4, <2>1, RaceSlots
<1>6. rows[c] = {}
  BY <1>1, <1>5 DEF RacerOK
<1>61. PICK r : r = InsertedRow(c, s)
  OBVIOUS
<1>7. todo'[c] = {} /\ rows'[c] = {r}
  BY <1>1, <1>2, <1>5, <1>6, <1>61 DEF TypeOK
<1>8. r.pos = seq + 1 /\ StoredFor(c, r)
  <2>1. EventAt(cmds[c], s) = RaceEvent(c) /\ RaceEvent(c) \in Event
    BY <1>1, <1>4, <1>5, RaceSlots, RaceCalls
  <2>2. Unpack(RaceEvent(c).tags) = RaceEvent(c).tags
    BY <2>1 DEF Unpack, DelimiterFree, Event
  <2> QED
    BY <1>61, <2>1, <2>2 DEF InsertedRow, StoredTags, StoredFor
<1>9. r \in Row
  BY <1>1, <1>7 DEF IInv, ReadInv, TypeOK
<1>10. \A d \in Writers \ {c} :
          rows'[d] = rows[d] /\ todo'[d] = todo[d] /\ pc'[d] = pc[d] /\ Ok(d)' = Ok(d)
  BY <1>1, <1>2, <1>3 DEF TypeOK, Clients, Ok
<1>11. \A d \in Writers : r.pos \notin Taken(d)
  <2>1. ASSUME NEW d \in Writers, NEW p \in Taken(d)
        PROVE  \E t \in AllRows : t.pos = p
    <3>1. CASE Ok(d)
      BY <1>1, <2>1, <3>1 DEF ResultsOK, Taken, AllRows
    <3>2. CASE ~Ok(d)
      BY <1>1, <2>1, <3>2 DEF Taken, AllRows, Clients
    <3> QED
      BY <3>1, <3>2
  <2>2. \A t \in AllRows : t.pos <= seq /\ t.pos \in Nat
    BY <1>1 DEF IInv, ReadInv, PositionsUnique, AllRows, TypeOK, Row, Position
  <2>3. seq \in Nat
    BY <1>1 DEF TypeOK
  <2> QED
    BY <1>8, <2>1, <2>2, <2>3
<1>12. ResultsOK'
  <2>1. \A d \in Writers : \A t : StoredFor(d, t)' = StoredFor(d, t)
    BY DEF StoredFor, RaceEvent, RaceCmds
  <2>2. \A d \in Writers : Ok(d)' = Ok(d)
    BY <1>3 DEF Ok
  <2>3. Taken(c)' = {r.pos}
    BY <1>4, <1>7, <2>2 DEF Taken
  <2>4. \A d \in Writers \ {c} : Taken(d)' = Taken(d)
    BY <1>3, <1>10, <2>2 DEF Taken
  <2>5. (\A d, e \in Writers : d # e => Taken(d) \cap Taken(e) = {})'
    BY <1>1, <1>11, <2>3, <2>4 DEF ResultsOK
  <2> QED
    BY <1>1, <1>3, <2>1, <2>2, <2>5 DEF ResultsOK
<1>13. RacerOK(c)'
  <2>1. RaceCmds(c)' = RaceCmds(c) /\ StoredFor(c, r)'
    BY <1>8 DEF RaceCmds, StoredFor, RaceEvent
  <2> QED
    BY <1>3, <1>4, <1>7, <1>9, <2>1 DEF RacerOK
<1>14. OthersRest(c)
  BY <1>3, <1>10 DEF OthersRest
<1> QED
  BY <1>1, <1>12, <1>13, <1>14, OneRacer DEF RaceInv

\* The commit stores it, and the call has succeeded.
LEMMA PgCommitKeeps ==
    ASSUME RaceInv, store = "postgres", IInv', NEW c \in Writers,
           store' = store, test' = test, made' = made, Commit(c)
    PROVE  RaceInv'
<1>1. IInv /\ TypeOK /\ c \in Clients /\ RacerOK(c) /\ ResultsOK /\ test \in Races
  BY DEF RaceInv, IInv, ReadInv, Clients
<1>2. PICK r \in rows[c] : ret' = [ret EXCEPT ![c] = [kind |-> "ok", pos |-> r.pos]]
  BY DEF Commit
<1>3. /\ pc[c] = "a_insert" /\ pc' = [pc EXCEPT ![c] = "end"]
      /\ log' = log \cup rows[c] /\ rows' = [rows EXCEPT ![c] = {}]
      /\ cmds' = cmds /\ todo' = todo
  BY DEF Commit
<1>4. cmds[c] = RaceCmds(c) /\ ret[c] = NoReturn /\ made[c] = 1 /\ ~Ok(c)
  BY <1>1, <1>3, NotYet DEF RacerOK
<1>5. rows[c] = {r} /\ StoredFor(c, r)
  BY <1>1 DEF RacerOK
<1>6. ~Violates(log, RaceCmds(c), 1)
  <2>1. 1 \in DOMAIN cmds[c]
    BY <1>1, <1>4, RaceCalls
  <2> QED
    BY <1>1, <1>3, <1>4, <2>1 DEF IInv, ConditionsHoldUntilCommit
<1>7. \A d \in Writers \ {c} :
         rows'[d] = rows[d] /\ ret'[d] = ret[d] /\ pc'[d] = pc[d]
  BY <1>1, <1>2, <1>3 DEF TypeOK, Clients
<1>8. \A d \in Writers \ {c} : r.pos \notin Taken(d)
  <2>1. r.pos \in Taken(c)
    BY <1>4 DEF Taken
  <2> QED
    BY <1>1, <2>1 DEF ResultsOK
<1>9. ResultsOK'
  <2>1. DOMAIN ret = Clients /\ log' = log \cup {r}
    BY <1>1, <1>3, <1>5 DEF TypeOK
  <2> QED
    BY <1>1, <1>2, <1>4, <1>5, <1>6, <1>7, <1>8, <2>1, Succeeds
<1>10. ret'[c].kind = "ok" /\ pc'[c] = "end" /\ rows'[c] = {}
  BY <1>1, <1>2, <1>3 DEF TypeOK
<1>11. RacerOK(c)'
  BY <1>4, <1>10 DEF RacerOK
<1>12. OthersRest(c)
  BY <1>3, <1>7 DEF OthersRest
<1> QED
  BY <1>1, <1>9, <1>11, <1>12, OneRacer DEF RaceInv

\* Together: a step of the Postgres store.
LEMMA PgRaceNext ==
    ASSUME DelimiterFree, RaceInv, store = "postgres", NEW c \in Writers,
           TestCall(c) \/ StoreStep(c)
    PROVE  RaceInv'
<1>1. IInv /\ c \in Clients
  BY DEF RaceInv, Clients
<1>2. CASE TestCall(c)
  BY <1>1, <1>2, PgCallBegins, PgCallKeeps, IInvNext
<1>3. CASE StoreStep(c)
  <2>1. /\ AcquireLock(c) \/ Step(c)
        /\ store' = store /\ test' = test /\ made' = made
    BY <1>3 DEF StoreStep
  <2>2. IInv'
    BY <1>1, <2>1, IInvNext DEF Next
  <2>3. ~BarrierHwm(c) /\ ~DeclareCursor(c)
    BY DEF RaceInv, RacerOK, BarrierHwm, DeclareCursor
  <2> QED
    BY <2>1, <2>2, <2>3, PgQuietKeeps, PgFailKeeps, PgInsertKeeps, PgCommitKeeps DEF Step
<1> QED
  BY <1>2, <1>3

-------------------------------------------------------------------------------
(***************************************************************************)
(* The in-memory store.                                                    *)
(***************************************************************************)

\* Its conditions are judged as everyone's are.
LEMMA MemViolates ==
    ASSUME NEW R, NEW cs, NEW i
    PROVE  Mem!Violates(R, cs, i) <=> Violates(R, cs, i)
BY DEF Violates, Mem!Violates, AnyMatchAfter, Mem!AnyMatchAfter, IsAfter, Mem!IsAfter,
       MatchesQuery, Mem!MatchesQuery, MatchesQueryItem, Mem!MatchesQueryItem

\* And its slots are the same.
LEMMA MemSlots ==
    ASSUME NEW cs
    PROVE  /\ Mem!Slots(cs) = Slots(cs)
           /\ \A s : Mem!EventAt(cs, s) = EventAt(cs, s)
           /\ \A s, t : Mem!SlotBefore(s, t) <=> SlotBefore(s, t)
BY DEF Slots, Mem!Slots, EventAt, Mem!EventAt, SlotBefore, Mem!SlotBefore

\* And it counts as we do.
LEMMA MemCardinality ==
    ASSUME NEW S
    PROVE  Mem!Cardinality(S) = Cardinality(S)
BY DEF Cardinality, Mem!Cardinality

\* lastPosition is the greatest position in the slice, 0 if it is empty.
LEMMA MemLastPosition ==
    ASSUME NEW L \in SUBSET Row, IsFiniteSet(L)
    PROVE  /\ Mem!lastPosition(L) \in Nat
           /\ \A r \in L : r.pos <= Mem!lastPosition(L)
<1>1. CASE L = {}
  BY <1>1 DEF Mem!lastPosition
<1>2. CASE L # {}
  <2> DEFINE P == {r.pos : r \in L}
             f == [r \in L |-> r.pos]
  <2>1. P \in SUBSET Int /\ P # {} /\ \A r \in L : r.pos \in Nat
    BY <1>2 DEF Row, Position
  <2>2. f \in [L -> P] /\ \A k \in P : \E r \in L : f[r] = k
    OBVIOUS
  <2>3. IsFiniteSet(P)
    <3> HIDE DEF P, f
    <3> QED BY <2>2, FiniteValues
  <2>4. \E k \in P : \A j \in P : j <= k
    <3> HIDE DEF P
    <3> QED BY <2>1, <2>3, FiniteMax
  <2>5. \E k \in P : \A r \in L : r.pos <= k
    BY <2>4
  <2>6. Mem!lastPosition(L) \in P /\ \A r \in L : r.pos <= Mem!lastPosition(L)
    BY <1>2, <2>5 DEF Mem!lastPosition
  <2> QED
    BY <2>1, <2>6
<1> QED
  BY <1>1, <1>2

\* A position beyond all others is the last one.
LEMMA MemLastIsNew ==
    ASSUME NEW L \in SUBSET Row, IsFiniteSet(L), NEW r \in Row, \A t \in L : t.pos < r.pos
    PROVE  Mem!lastPosition(L \cup {r}) = r.pos
<1> DEFINE M == L \cup {r}
<1>1. M \in SUBSET Row /\ M # {} /\ \A t \in M : t.pos \in Nat /\ t.pos <= r.pos
  BY DEF Row, Position
<1>2. \E k \in {t.pos : t \in M} : \A t \in M : t.pos <= k
  BY <1>1
<1>3. /\ Mem!lastPosition(M) \in {t.pos : t \in M}
      /\ \A t \in M : t.pos <= Mem!lastPosition(M)
  <2> HIDE DEF M
  <2> QED
    BY <1>1, <1>2 DEF Mem!lastPosition
<1>4. r \in M
  OBVIOUS
<1> HIDE DEF M
<1>5. PICK t \in M : Mem!lastPosition(M) = t.pos
  BY <1>3
<1>6. t.pos \in Nat /\ r.pos \in Nat /\ t.pos <= r.pos /\ r.pos <= t.pos
  BY <1>1, <1>3, <1>4, <1>5
<1> QED
  BY <1>5, <1>6 DEF M

\* The event of a race is numbered on from the last position.
LEMMA MemNewEvent ==
    ASSUME test \in Races, NEW c \in Writers, log \in SUBSET Row, IsFiniteSet(log)
    PROVE  \E r \in Row :
              /\ Mem!NewEvents(RaceCmds(c)) = {r}
              /\ StoredFor(c, r)
              /\ \A t \in log : t.pos < r.pos
<1> DEFINE s == <<1, 1>>
           cs == RaceCmds(c)
           r == [pos  |-> Mem!lastPosition(log) + 1,
                 type |-> RaceEvent(c).type, tags |-> RaceEvent(c).tags]
<1>1. Mem!Slots(cs) = {s} /\ Mem!EventAt(cs, s) = RaceEvent(c)
  BY RaceSlots, MemSlots
<1>2. {t \in Mem!Slots(cs) : ~Mem!SlotBefore(s, t)} = {s}
  BY <1>1 DEF Mem!SlotBefore
<1>3. Mem!Cardinality({t \in Mem!Slots(cs) : ~Mem!SlotBefore(s, t)}) = 1
  BY <1>2, FS_Singleton, MemCardinality
<1>4. Mem!NewEvents(cs) = {r}
  <2> HIDE DEF s, cs
  <2> QED
    BY <1>1, <1>3 DEF Mem!NewEvents
<1>5. RaceEvent(c) \in Event
  BY RaceCalls
<1>6. Mem!lastPosition(log) \in Nat /\ \A t \in log : t.pos <= Mem!lastPosition(log)
  BY MemLastPosition
<1>7. r \in Row /\ StoredFor(c, r)
  BY <1>5, <1>6 DEF Row, Position, Event, StoredFor
<1>8. \A t \in log : t.pos < r.pos
  BY <1>6 DEF Row, Position
<1> HIDE DEF r, cs
<1> QED
  BY <1>4, <1>7, <1>8 DEF cs

\* The call begins.
LEMMA MemCallKeeps ==
    ASSUME RaceInv, store = "memory", NEW c \in Writers, TestCall(c)
    PROVE  RaceInv'
<1>1. /\ made[c] = 0 /\ made' = [made EXCEPT ![c] = 1] /\ store' = store /\ test' = test
      /\ ret[c] = NoReturn /\ pc[c] = "idle" /\ TestAppend(c, RaceCmds(c))
  BY RaceTestCall
<1>2. MemoryOK /\ c \in Clients /\ RacerOK(c)
  BY DEF RaceInv, Clients
<1>3. Mem!AppendCall(c, RaceCmds(c)) /\ UNCHANGED postgresOnly
  BY <1>1, RaceCallsValid DEF TestAppend, RaceInv
<1>4. /\ pc' = [pc EXCEPT ![c] = "append"] /\ cmds' = [cmds EXCEPT ![c] = RaceCmds(c)]
      /\ ret' = [ret EXCEPT ![c] = NoReturn] /\ log' = log
      /\ todo' = todo /\ rows' = rows
  BY <1>3 DEF Mem!AppendCall, postgresOnly, Mem!NoReturn, NoReturn
<1>5. ret' = [d \in Clients |-> ret[d]] /\ ret'[c] = NoReturn
  BY <1>1, <1>2, <1>4 DEF MemoryOK
<1>6. MemoryOK'
  BY <1>2, <1>4 DEF MemoryOK
<1>7. made' \in [Writers -> Nat]
  BY <1>1 DEF RaceInv
<1>8. \A d \in Writers : RaceCmds(d)' = RaceCmds(d) /\ \A s : StoredFor(d, s)' = StoredFor(d, s)
  BY <1>1 DEF RaceCmds, StoredFor, RaceEvent
<1>9. RacerOK(c)'
  BY <1>1, <1>2, <1>4, <1>5, <1>8 DEF RacerOK, MemoryOK, RaceInv
<1>10. OthersRest(c)
  BY <1>1, <1>2, <1>4 DEF OthersRest, MemoryOK, RaceInv, Clients
<1>11. \A d \in Writers : ret'[d] = ret[d]
  BY <1>5 DEF Clients
<1>12. ResultsOK'
  <2>1. \A d \in Writers : Taken(d)' = Taken(d) /\ Ok(d)' = Ok(d)
    BY <1>4, <1>11 DEF Taken, Ok
  <2> QED
    BY <1>1, <1>4, <1>8, <1>11, <2>1 DEF ResultsOK, RaceInv
<1> QED
  BY <1>1, <1>6, <1>7, <1>9, <1>10, <1>12, OneRacer DEF RaceInv

\* What a goroutine's step does to the client part of the state.
LEMMA MemStep ==
    ASSUME RaceInv, store = "memory", NEW c \in Writers, StoreStep(c)
    PROVE  /\ store' = store /\ test' = test /\ made' = made
           /\ todo' = todo /\ rows' = rows
           /\ \/ Mem!AppendConditionFails(c) \/ Mem!AppendEvents(c) \/ Mem!AppendReturn(c)
<1>1. Mem!ClientStep(c) /\ UNCHANGED postgresOnly /\ UNCHANGED <<store, test, made>>
  BY DEF StoreStep
<1>2. RacerOK(c) /\ MemoryOK /\ c \in Clients
  BY DEF RaceInv, Clients
<1>3. ~Mem!ReadEvents(c)
  BY <1>2 DEF Mem!ReadEvents, MemoryOK
<1>4. ~Mem!AppendNothing(c)
  <2> SUFFICES ASSUME pc[c] = "append", Mem!Slots(cmds[c]) = {} PROVE FALSE
    BY DEF Mem!AppendNothing
  <2>1. cmds[c] = RaceCmds(c)
    BY <1>2 DEF RacerOK
  <2> QED
    BY <2>1, RaceSlots, MemSlots DEF RaceInv
<1> QED
  BY <1>1, <1>3, <1>4 DEF Mem!ClientStep, postgresOnly

\* The call is refused, appends, or returns.
LEMMA MemStepKeeps ==
    ASSUME RaceInv, store = "memory", NEW c \in Writers, StoreStep(c)
    PROVE  RaceInv'
<1>1. /\ store' = store /\ test' = test /\ made' = made
      /\ todo' = todo /\ rows' = rows
  BY MemStep
<1>2. MemoryOK /\ c \in Clients /\ RacerOK(c) /\ ResultsOK /\ test \in Races /\ DOMAIN ret = Clients
  BY DEF RaceInv, Clients, MemoryOK
<1>3. \A d \in Writers : RaceCmds(d)' = RaceCmds(d) /\ \A s : StoredFor(d, s)' = StoredFor(d, s)
  BY <1>1 DEF RaceCmds, StoredFor, RaceEvent
<1>4. rows[c] = {} /\ \A d \in Writers : rows'[d] = rows[d] /\ rows[d] = {}
  BY <1>1, <1>2 DEF MemoryOK, Clients
<1>5. CASE Mem!AppendConditionFails(c)
  <2>1. PICK i \in DOMAIN cmds[c] :
           /\ Mem!Violates(log, cmds[c], i)
           /\ ret' = [ret EXCEPT ![c] = [kind |-> "condition", idx |-> i]]
    BY <1>5 DEF Mem!AppendConditionFails
  <2>2. /\ pc[c] = "append" /\ pc' = [pc EXCEPT ![c] = "return"]
        /\ log' = log /\ cmds' = cmds
    BY <1>5 DEF Mem!AppendConditionFails
  <2>3. cmds[c] = RaceCmds(c) /\ ret[c] = NoReturn /\ made[c] = 1
    BY <1>2, <2>2 DEF RacerOK
  <2>4. i = 1
    BY <1>2, <2>1, <2>3, RaceCalls
  <2>5. Violates(log, RaceCmds(c), 1)
    BY <2>1, <2>3, <2>4, MemViolates
  <2>6. ResultsOK'
    BY <1>1, <1>2, <1>4, <2>1, <2>2, <2>3, <2>5, Refused
  <2>7. MemoryOK'
    BY <1>1, <1>2, <2>1, <2>2 DEF MemoryOK
  <2>8. ret'[c].kind = "condition" /\ pc'[c] = "return"
    BY <1>2, <2>1, <2>2 DEF MemoryOK
  <2>9. RacerOK(c)'
    BY <1>1, <1>4, <2>3, <2>8 DEF RacerOK
  <2>10. OthersRest(c)
    BY <1>1, <1>2, <2>1, <2>2 DEF OthersRest, MemoryOK, Clients
  <2> QED
    BY <1>1, <2>6, <2>7, <2>9, <2>10, OneRacer DEF RaceInv
<1>6. CASE Mem!AppendEvents(c)
  <2>1. /\ pc[c] = "append" /\ pc' = [pc EXCEPT ![c] = "return"]
        /\ log' = log \cup Mem!NewEvents(cmds[c])
        /\ ret' = [ret EXCEPT ![c] = [kind |-> "ok", pos |-> Mem!lastPosition(log')]]
        /\ cmds' = cmds /\ Mem!ConditionsHold(c)
    BY <1>6 DEF Mem!AppendEvents
  <2>2. cmds[c] = RaceCmds(c) /\ ret[c] = NoReturn /\ made[c] = 1
    BY <1>2, <2>1 DEF RacerOK
  <2>3. log \in SUBSET Row /\ IsFiniteSet(log)
    BY <1>2 DEF MemoryOK
  <2>4. PICK r \in Row : /\ Mem!NewEvents(RaceCmds(c)) = {r}
                         /\ StoredFor(c, r)
                         /\ \A t \in log : t.pos < r.pos
    BY <1>2, <2>3, MemNewEvent
  <2>5. log' = log \cup {r}
    BY <2>1, <2>2, <2>4
  <2>6. Mem!lastPosition(log') = r.pos
    BY <2>3, <2>4, <2>5, MemLastIsNew
  <2>7. ~Violates(log, RaceCmds(c), 1)
    <3>1. 1 \in DOMAIN RaceCmds(c)
      BY <1>2, RaceCalls
    <3> QED
      BY <2>1, <2>2, <3>1, MemViolates DEF Mem!ConditionsHold
  <2>8. \A d \in Writers \ {c} : r.pos \notin Taken(d)
    <3>1. \A t \in log : t.pos # r.pos
      BY <2>3, <2>4 DEF Row, Position
    <3> QED
      BY <1>2, <1>4, <3>1 DEF Taken, ResultsOK
  <2>9. ret' = [ret EXCEPT ![c] = [kind |-> "ok", pos |-> r.pos]]
    BY <2>1, <2>6
  <2>10. ResultsOK'
    BY <1>1, <1>2, <1>4, <2>2, <2>4, <2>5, <2>7, <2>8, <2>9, Succeeds
  <2>11. MemoryOK'
    <3>1. log' \in SUBSET Row /\ IsFiniteSet(log')
      BY <2>3, <2>5, FS_AddElement
    <3> QED
      BY <1>1, <1>2, <2>1, <3>1 DEF MemoryOK
  <2>12. ret'[c].kind = "ok" /\ pc'[c] = "return"
    BY <1>2, <2>1, <2>9 DEF MemoryOK
  <2>13. RacerOK(c)'
    BY <1>1, <1>4, <2>2, <2>12 DEF RacerOK
  <2>14. OthersRest(c)
    BY <1>1, <1>2, <2>1, <2>9 DEF OthersRest, MemoryOK, Clients
  <2> QED
    BY <1>1, <2>10, <2>11, <2>13, <2>14, OneRacer DEF RaceInv
<1>7. CASE Mem!AppendReturn(c)
  <2>1. /\ pc[c] = "return" /\ pc' = [pc EXCEPT ![c] = "idle"]
        /\ cmds' = [cmds EXCEPT ![c] = <<>>] /\ ret' = ret /\ log' = log
    BY <1>7 DEF Mem!AppendReturn
  <2>2. made[c] = 1 /\ ret[c].kind \in {"ok", "condition"}
    BY <1>2, <2>1 DEF RacerOK
  <2>3. ResultsOK'
    BY <1>1, <1>2, <2>1, ResultsStand
  <2>4. MemoryOK'
    BY <1>1, <1>2, <2>1 DEF MemoryOK
  <2>5. RacerOK(c)'
    BY <1>1, <1>2, <1>4, <2>1, <2>2 DEF RacerOK, MemoryOK
  <2>6. OthersRest(c)
    BY <1>1, <1>2, <2>1 DEF OthersRest, MemoryOK, Clients
  <2> QED
    BY <1>1, <2>3, <2>4, <2>5, <2>6, OneRacer DEF RaceInv
<1> QED
  BY <1>5, <1>6, <1>7, MemStep

-------------------------------------------------------------------------------
(***************************************************************************)
(* The theorem.                                                            *)
(***************************************************************************)

\* The store is fresh and nobody has called.
LEMMA SuiteInvInit == SuiteInit => SuiteInv
<1> SUFFICES ASSUME SuiteInit, test.successes # Nil PROVE RaceInv
  BY DEF SuiteInv
<1>1. test \in Races
  BY DEF SuiteInit, Alone
<1>2. made \in [Writers -> Nat] /\ \A c \in Writers : made[c] = 0
  BY DEF SuiteInit
<1>3. /\ log = {} /\ pc = [c \in Clients |-> "idle"] /\ cmds = [c \in Clients |-> <<>>]
      /\ rows = [c \in Clients |-> {}] /\ ret = [c \in Clients |-> NoReturn]
  BY DEF SuiteInit, Init
<1>4. IInv
  BY IInvInit DEF SuiteInit
<1>5. MemoryOK
  <2>1. IsFiniteSet({})
    BY FS_EmptySet
  <2> QED
    BY <1>3, <2>1 DEF MemoryOK
<1>6. \A c \in Writers : c \in Clients /\ ret[c] = NoReturn /\ rows[c] = {} /\ pc[c] = "idle"
  BY <1>3 DEF Clients
<1>7. \A c \in Writers : ~Ok(c) /\ ret[c].kind # "condition"
  BY <1>6, NotYet
<1>8. ResultsOK
  BY <1>3, <1>6, <1>7 DEF ResultsOK, Taken
<1>9. \A c \in Writers : RacerOK(c)
  BY <1>2, <1>6 DEF RacerOK
<1> QED
  BY <1>1, <1>2, <1>4, <1>5, <1>8, <1>9 DEF RaceInv, SuiteInit

\* Every step of every goroutine, on either store, preserves the invariant.
LEMMA SuiteInvNext == DelimiterFree /\ SuiteInv /\ [SuiteNext]_suiteVars => SuiteInv'
<1> SUFFICES ASSUME DelimiterFree, SuiteInv, [SuiteNext]_suiteVars, (test.successes # Nil)'
             PROVE  RaceInv'
  BY DEF SuiteInv
<1>1. test' = test
  BY DEF SuiteNext, TestCall, StoreStep, suiteVars
<1>2. RaceInv
  BY <1>1 DEF SuiteInv
<1>3. store = "postgres" \/ store = "memory"
  BY <1>2 DEF RaceInv
<1>4. ASSUME NEW c \in Writers, TestCall(c) \/ StoreStep(c)
      PROVE  RaceInv'
  BY <1>2, <1>3, <1>4, PgRaceNext, MemCallKeeps, MemStepKeeps
<1>5. CASE UNCHANGED suiteVars
  <2>1. /\ UNCHANGED vars /\ store' = store /\ made' = made
        /\ log' = log /\ pc' = pc /\ cmds' = cmds /\ ret' = ret /\ todo' = todo /\ rows' = rows
    BY <1>5 DEF suiteVars, vars
  <2>2. IInv => IInv'
    BY <2>1, IInvNext
  <2>3. MemoryOK => MemoryOK'
    BY <2>1 DEF MemoryOK
  <2>4. ResultsOK'
    BY <1>1, <1>2, <2>1, ResultsStand DEF RaceInv
  <2>5. \A d \in Writers : RaceCmds(d)' = RaceCmds(d) /\ \A s : StoredFor(d, s)' = StoredFor(d, s)
    BY <1>1 DEF RaceCmds, StoredFor, RaceEvent
  <2>6. \A d \in Writers : RacerOK(d)'
    BY <1>2, <2>1, <2>5 DEF RaceInv, RacerOK
  <2> QED
    BY <1>1, <1>2, <2>1, <2>2, <2>3, <2>4, <2>6 DEF RaceInv
<1> QED
  BY <1>4, <1>5 DEF SuiteNext

\* What the invariant says when all calls have returned.
LEMMA InvariantPasses == SuiteInv => RacesPass
<1> SUFFICES ASSUME RaceInv, Over
             PROVE  /\ Cardinality(Succeeded) = test.successes
                    /\ \A c \in Writers \ Succeeded : ret[c].kind = "condition"
                    /\ \A c, d \in Succeeded : c # d => ret[c].pos # ret[d].pos
                    /\ {ret[c].pos : c \in Succeeded} = {r.pos : r \in log}
  BY DEF SuiteInv, RacesPass
<1>1. test \in Races /\ ResultsOK
  BY DEF RaceInv
<1>2. \A c \in Writers : made[c] = 1 /\ ret[c].kind \in {"ok", "condition"}
  BY <1>1, RaceCalls DEF RaceInv, Over, RacerOK
<1>3. Succeeded = {c \in Writers : Ok(c)}
  BY DEF Succeeded, Ok
<1>4. \A c \in Writers \ Succeeded : ret[c].kind = "condition"
  BY <1>2 DEF Succeeded
<1>5. ASSUME NEW c \in Succeeded, NEW d \in Succeeded, c # d
      PROVE  ret[c].pos # ret[d].pos
  <2>1. Taken(c) = {ret[c].pos} /\ Taken(d) = {ret[d].pos}
    BY <1>3 DEF Taken
  <2>2. Taken(c) \cap Taken(d) = {}
    BY <1>1, <1>3, <1>5 DEF ResultsOK
  <2> QED
    BY <2>1, <2>2
<1>6. {ret[c].pos : c \in Succeeded} = {r.pos : r \in log}
  BY <1>1, <1>3 DEF ResultsOK
<1>7. Cardinality(Succeeded) = test.successes
  <2>1. CASE test = Racing
    <3>1. \E c \in Writers : Ok(c)
      <4>1. CASE Ok(Tester)
        BY <4>1, SuiteAssumption
      <4>2. CASE ~Ok(Tester)
        <5>1. log # {}
          BY <1>1, <1>2, <4>2, SuiteAssumption DEF Ok, ResultsOK
        <5> QED
          BY <1>1, <5>1 DEF ResultsOK
      <4> QED
        BY <4>1, <4>2
    <3>2. \E c \in Writers : Succeeded = {c}
      BY <1>1, <1>3, <2>1, <3>1 DEF ResultsOK
    <3>3. Cardinality(Succeeded) = 1
      BY <3>2, FS_Singleton
    <3> QED
      BY <2>1, <3>3 DEF Racing
  <2>2. CASE test # Racing
    <3>1. Succeeded = Writers
      BY <1>1, <1>2, <1>3, <2>2 DEF ResultsOK, Ok
    <3>2. test.successes = Cardinality(Writers)
      BY <1>1, <2>2 DEF Races, DisjointScopes, Unconditional
    <3> QED
      BY <3>1, <3>2
  <2> QED
    BY <2>1, <2>2
<1> QED
  BY <1>4, <1>5, <1>6, <1>7

\* Both stores pass the concurrency tests with any number of goroutines and
\* any hash function: of racing appends exactly one succeeds and the others
\* get an AppendConditionError, appends to disjoint scopes or without a
\* condition all succeed, and the positions returned are distinct and are
\* those of the events stored.
THEOREM StoresPassRaces == DelimiterFree => (SuiteSpec => []RacesPass)
<1> SUFFICES ASSUME DelimiterFree PROVE SuiteSpec => []RacesPass
  OBVIOUS
<1>1. SuiteInv /\ [SuiteNext]_suiteVars => SuiteInv'
  BY SuiteInvNext
<1> QED
  BY <1>1, SuiteInvInit, InvariantPasses, PTL DEF SuiteSpec
===============================================================================
