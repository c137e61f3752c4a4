------------------------------ MODULE DcbContract ------------------------------
(***************************************************************************)
(* What eventstore.Store promises to concurrent callers of Append and      *)
(* Read, with no locks, transactions or snapshots in sight: the log grows  *)
(* by whole calls, a call takes effect only when none of its conditions is *)
(* violated at that very moment, and a client that reads forward never has *)
(* an event slipped in behind its back.                                    *)
(*                                                                         *)
(* A client's call is in `call` from its invocation until it returns; the  *)
(* outcome appears in `ret` in between.  Calls may fail, and an append     *)
(* whose effect has taken place may still be reported as failed.           *)
(***************************************************************************)
EXTENDS EventStore

CONSTANTS Clients, AppendInputs, ReadQueries,
          InitialLogs      \* what a new store may hold

VARIABLES
    log,    \* the events of the store
    call,   \* the arguments of each client's Append, <<>> outside of one
    view,   \* what each client has read: query, direction, rows seen
    ret     \* what each client's last call returned

dcbVars == <<log, call, view, ret>>

Init ==
    /\ log \in InitialLogs
    /\ call = [c \in Clients |-> <<>>]
    /\ view = [c \in Clients |-> NoView]
    /\ ret = [c \in Clients |-> NoReturn]

\* `new` holds one row per event of the call, at positions that ascend in the
\* order of the commands and of their events.
StoresCall(new, cs) ==
    \E f \in [Slots(cs) -> new] :
        /\ new = {f[s] : s \in Slots(cs)}
        /\ \A s \in Slots(cs) : /\ f[s].type = EventAt(cs, s).type
                                /\ f[s].tags = EventAt(cs, s).tags
        /\ \A s, t \in Slots(cs) : SlotBefore(s, t) => f[s].pos < f[t].pos

\* The new rows that d's forward view filters for come after all it has seen.
AppendsAhead(new, d) ==
    ~view[d].backwards =>
        \A r \in new, s \in view[d].seen :
            MatchesQuery(view[d].query, r) => r.pos > s.pos

\* Every event of the log that d's forward view filters for, up to the newest
\* one it has seen, has been seen.
SeesPrefix(rows, v) ==
    \A s \in v.seen, r \in rows :
        MatchesQuery(v.query, r) /\ r.pos <= s.pos => r \in v.seen

Call(c, cs) ==
    /\ call[c] = <<>>
    /\ call' = [call EXCEPT ![c] = cs]
    /\ ret' = [ret EXCEPT ![c] = NoReturn]
    /\ UNCHANGED <<log, view>>

AppendSucceeds(c) ==
    LET new == log' \ log IN
    /\ call[c] # <<>>
    /\ ret[c] = NoReturn
    /\ \A i \in DOMAIN call[c] : ~Violates(log, call[c], i)
    /\ log \subseteq log'
    /\ StoresCall(new, call[c])
    /\ \A r \in new, s \in log : r.pos # s.pos
    /\ \A d \in Clients : AppendsAhead(new, d)
    /\ \E last \in new : /\ \A r \in new : r.pos <= last.pos
                         /\ ret' = [ret EXCEPT ![c] = [kind |-> "ok", pos |-> last.pos]]
    /\ UNCHANGED <<call, view>>

\* The error names the first command whose condition is violated.
AppendConditionFails(c) ==
    /\ ret[c] = NoReturn
    /\ \E i \in DOMAIN call[c] :
          /\ Violates(log, call[c], i)
          /\ \A j \in 1..(i-1) : ~Violates(log, call[c], j)
          /\ ret' = [ret EXCEPT ![c] = [kind |-> "condition", idx |-> i]]
    /\ UNCHANGED <<log, call, view>>

\* A call fails, or its outcome is lost on the way to the caller.
Fail(c) ==
    /\ ret' = [ret EXCEPT ![c] = Error]
    /\ UNCHANGED <<log, call, view>>

CallReturns(c) ==
    /\ call' = [call EXCEPT ![c] = <<>>]
    /\ ret[c] # NoReturn
    /\ UNCHANGED <<log, view, ret>>

\* A Read begins, on a new query or further along the same one.
BeginRead(c) ==
    /\ call[c] = <<>>
    /\ \/ UNCHANGED view
       \/ \E q \in ReadQueries, backwards \in BOOLEAN :
            view' = [view EXCEPT ![c] =
                        [query |-> q, backwards |-> backwards, seen |-> {}]]
    /\ ret' = [ret EXCEPT ![c] = NoReturn]
    /\ UNCHANGED <<log, call>>

\* A Read returns rows of the log that match its query; if it reads forward,
\* they leave no gap.
ReadReturns(c) ==
    /\ call[c] = <<>>
    /\ \E page \in SUBSET {r \in log : MatchesQuery(view[c].query, r)} :
          view' = [view EXCEPT ![c].seen = @ \cup page]
    /\ ~view[c].backwards => SeesPrefix(log, view'[c])
    /\ UNCHANGED <<log, call, ret>>

Next ==
    \E c \in Clients :
        \/ \E cs \in AppendInputs : Call(c, cs)
        \/ AppendSucceeds(c) \/ AppendConditionFails(c)
        \/ Fail(c) \/ CallReturns(c)
        \/ BeginRead(c) \/ ReadReturns(c)

Contract == Init /\ [][Next]_dcbVars
===============================================================================
