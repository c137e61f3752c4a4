--------------------------- MODULE ConformanceSuite ---------------------------
(***************************************************************************)
(* The conformance suite against the models of both stores: the sequential *)
(* tests of Conformance, and the concurrency tests                         *)
(* (eventstoretest/concurrency.go) in every interleaving, in which n       *)
(* goroutines are released together, each calls Append once, and the test  *)
(* makes its assertions when all have returned.  Nothing fails in these    *)
(* tests but conditions.                                                   *)
(*                                                                         *)
(* The clients of the two models have the same state, so the in-memory     *)
(* store runs on PgStore's variables, with its events in `log`.            *)
(***************************************************************************)
EXTENDS PgStore, Conformance

CONSTANTS
    Tester,     \* the goroutine of the sequential tests
    ScopeTag    \* the tag that is each goroutine's own, "tag-<i>"

VARIABLES
    broadcast, sub,   \* what only the in-memory store has
    store,            \* the store under test
    test,             \* the test: the calls of each goroutine, and its successes
    made              \* how many of its calls each goroutine has made

memoryOnly   == <<broadcast, sub>>
postgresOnly == <<seq, want, held, todo, rows, hwm>>
suiteVars    == <<vars, memoryOnly, store, test, made>>

Mem == INSTANCE MemoryStore WITH
    events <- log, Subscribers <- {}, StartAfter <- {}, Seeds <- {{}}, MaxEvents <- MaxPos

-------------------------------------------------------------------------------
\* A sequential test is what one goroutine does.
Alone(calls) ==
    [calls |-> [c \in Writers |-> IF c = Tester THEN calls ELSE <<>>], successes |-> Nil]

\* Each goroutine's call: one event, with or without a condition.  What a
\* single call returns is not asserted, but how many of them succeed.
OneEvent(type, tags, condition) ==
    <<AppendOf(<<Command(<<mustEvent(type, tags)>>, condition)>>, Nil)>>

Racing ==
    [calls |-> [c \in Writers |-> OneEvent(A, {tag1}, scopedCondition({A}, {tag1}, Nil))],
     successes |-> 1]

DisjointScopes ==
    [calls |-> [c \in Writers |->
                  OneEvent(A, {ScopeTag[c]}, scopedCondition({A}, {ScopeTag[c]}, Nil))],
     successes |-> Cardinality(Writers)]

Unconditional ==
    [calls |-> [c \in Writers |-> OneEvent(B, {}, Nil)], successes |-> Cardinality(Writers)]

Races == {Racing, DisjointScopes, Unconditional}

\* What each goroutine appends in a race.
RaceInputs == {t.calls[c][1].cmds : t \in Races, c \in Writers}

ASSUME SuiteAssumption ==
    /\ {A, B, C} \subseteq EventTypes /\ {tag1, tag2, tag3, unmatched} \subseteq TagValues
    /\ Nil \notin AppendCondition
    /\ Tester \in Writers
    /\ ScopeTag \in [Writers -> TagValues]
    /\ \A c, d \in Writers : ScopeTag[c] = ScopeTag[d] => c = d
    /\ RaceInputs \subseteq AppendInputs

SuiteInit ==
    /\ Init
    /\ Mem!Init
    /\ store \in {"postgres", "memory"}
    /\ test \in {Alone(calls) : calls \in Tests} \cup Races
    /\ made = [c \in Writers |-> 0]

-------------------------------------------------------------------------------
\* store.Append and store.Read.
TestAppend(c, cs) ==
    \/ /\ store = "postgres"
       /\ AppendRejected(c, cs) \/ AppendCall(c, cs)
       /\ UNCHANGED memoryOnly
    \/ /\ store = "memory"
       /\ IF ConditionsValid(cs) THEN Mem!AppendCall(c, cs) ELSE Mem!CallRejected(c)
       /\ UNCHANGED postgresOnly

TestRead(c, o) ==
    /\ view' = [view EXCEPT ![c] = [query |-> o.query, backwards |-> o.backwards, seen |-> {}]]
    /\ \/ store = "postgres" /\ BeginRead(c, o) /\ UNCHANGED memoryOnly
       \/ store = "memory" /\ Mem!BeginRead(c, o) /\ UNCHANGED postgresOnly

\* The next call of a goroutine.
TestCall(c) ==
    LET call == test.calls[c][made[c] + 1] IN
    /\ made[c] < Len(test.calls[c])
    /\ pc[c] = "idle"
    /\ \/ call.op = "append" /\ TestAppend(c, call.cmds)
       \/ call.op = "read" /\ TestRead(c, call.options)
    /\ made' = [made EXCEPT ![c] = @ + 1]
    /\ UNCHANGED <<store, test>>

StoreStep(c) ==
    /\ \/ /\ store = "postgres"
          /\ AcquireLock(c) \/ Step(c)
          /\ UNCHANGED memoryOnly
       \/ /\ store = "memory"
          /\ Mem!ClientStep(c)
          /\ UNCHANGED postgresOnly
    /\ UNCHANGED <<store, test, made>>

\* All calls have returned.
Over == \A c \in Writers : made[c] = Len(test.calls[c]) /\ pc[c] = "idle"

SuiteNext ==
    \/ \E c \in Writers : TestCall(c) \/ StoreStep(c)
    \/ Over /\ UNCHANGED suiteVars

SuiteSpec == SuiteInit /\ [][SuiteNext]_suiteVars

-------------------------------------------------------------------------------
\* Every call of every sequential test returns what the suite asserts: the
\* models of both stores, the Postgres store on its stored-procedure path and
\* on its COPY path, pass the tests that the stores have to pass.
TestsPass ==
    \A c \in Writers : test.successes = Nil /\ made[c] > 0 /\ pc[c] = "idle" =>
        LET call == test.calls[c][made[c]] IN
        IF call.op = "append" THEN ret[c] = call.returns
        ELSE {r.pos : r \in view[c].seen} = call.found

Succeeded == {c \in Writers : ret[c].kind = "ok"}

\* Of racing appends under one condition exactly one succeeds and the others
\* are told which condition failed; appends to disjoint scopes, and those
\* without a condition, all succeed; positions are distinct, and a read finds
\* as many events, at the positions that were returned.
RacesPass ==
    test.successes # Nil /\ Over =>
        /\ Cardinality(Succeeded) = test.successes
        /\ \A c \in Writers \ Succeeded : ret[c].kind = "condition"
        /\ \A c, d \in Succeeded : c # d => ret[c].pos # ret[d].pos
        /\ {ret[c].pos : c \in Succeeded} = {r.pos : r \in log}
===============================================================================
