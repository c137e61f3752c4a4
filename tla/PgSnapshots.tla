------------------------------ MODULE PgSnapshots ------------------------------
(***************************************************************************)
(* PgStore with the log as it was when each call began.  That is what the  *)
(* statements of a transaction see if its isolation level is Repeatable    *)
(* Read.  appendViaCopy asks for Read Committed; the stored procedure runs *)
(* at the server's default level, whichever that is.  It is also what a    *)
(* read must not fall behind.                                              *)
(***************************************************************************)
EXTENDS PgStore

CONSTANT RepeatableRead   \* is the server's default_transaction_isolation so?

ASSUME IsolationAssumption == RepeatableRead \in BOOLEAN

VARIABLE snap    \* the log when each client's call began

snapVars == <<vars, snap>>

SnapInit == Init /\ snap = [c \in Clients |-> {}]

\* A bug for the model to catch: both paths inherit the server's default.
VisibleByDefault(c) == IF RepeatableRead THEN snap[c] ELSE log

\* The events that the condition check of a call looks at.
Visible(c) == IF RepeatableRead /\ ViaFunction(cmds[c]) THEN snap[c] ELSE log

CheckPasses(c) ==
    /\ pc[c] = "a_check"
    /\ \A i \in DOMAIN cmds[c] : ~ConditionMatches(Visible(c), cmds[c], i, hwm[c])
    /\ pc' = [pc EXCEPT ![c] = "a_insert"]
    /\ UNCHANGED <<log, seq, want, held, cmds, todo, rows, rd, hwm, view, ret>>

CheckFails(c) ==
    /\ pc[c] = "a_check"
    /\ \E i \in DOMAIN cmds[c] :
          /\ ConditionMatches(Visible(c), cmds[c], i, hwm[c])
          /\ \A j \in 1..(i-1) : ~ConditionMatches(Visible(c), cmds[c], j, hwm[c])
          /\ ret' = [ret EXCEPT ![c] = [kind |-> "condition", idx |-> i]]
    /\ pc' = [pc EXCEPT ![c] = "end"]
    /\ todo' = [todo EXCEPT ![c] = {}]
    /\ UNCHANGED <<log, seq, want, held, cmds, rows, rd, hwm, view>>

\* A call begins; remember what it can see.
BeginCall(c) == Call(c) /\ snap' = [snap EXCEPT ![c] = log]

\* PgStore's Step, with the condition check on what is visible.
SnapStep(c) ==
    /\ \/ SnapshotHwm(c) \/ CheckPasses(c) \/ CheckFails(c) \/ InsertRow(c) \/ Commit(c)
       \/ BarrierHwm(c) \/ DeclareCursor(c) \/ EndTransaction(c)
    /\ UNCHANGED snap

SnapAcquireLock(c) == AcquireLock(c) /\ UNCHANGED snap

Fault(c) == (LoseReply(c) \/ Abort(c)) /\ UNCHANGED snap

SnapNext == \E c \in Clients : BeginCall(c) \/ SnapStep(c) \/ SnapAcquireLock(c) \/ Fault(c)

(***************************************************************************)
(* The server keeps executing the statements it was sent, and grants the   *)
(* locks of one key in the order they were requested, so a request that is *)
(* grantable again and again is granted.                                   *)
(***************************************************************************)
Fairness ==
    \A c \in Clients : WF_snapVars(SnapStep(c)) /\ SF_snapVars(SnapAcquireLock(c))

SnapSpec == SnapInit /\ [][SnapNext]_snapVars /\ Fairness

-------------------------------------------------------------------------------
\* An append through COPY keeps its conditions until it commits, whatever the
\* server's default level is, and although the appends below the threshold
\* that it competes with may check theirs in an old snapshot: it asks for
\* Read Committed and checks under its own locks.
CopyConditionsHold ==
    \A c \in Clients : pc[c] = "a_insert" /\ ~ViaFunction(cmds[c]) =>
        \A i \in DOMAIN cmds[c] : ~Violates(log, cmds[c], i)

\* A read without a limit returns everything that it asks for and that was
\* committed when it was called: a client that learned of an append from
\* anywhere finds its events, and the high-water mark never cuts them off.
ReadsAreRecent ==
    [][\A c \in Clients :
          pc[c] = "r_declare" /\ pc'[c] = "idle" /\ rd[c].limit = 0 =>
              \A r \in snap[c] :
                  PastAfter(r, rd[c]) /\ ReadMatches(rd[c].query, r) => r \in view'[c].seen]_snapVars
===============================================================================
