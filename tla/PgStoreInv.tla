------------------------------ MODULE PgStoreInv ------------------------------
(***************************************************************************)
(* Why the Postgres store is correct: the inductive invariant behind       *)
(* ConditionsHoldUntilCommit, ForwardReadsNeverSkip and DecisionIsCurrent. *)
(* It holds for any hash function, colliding ones included, as long as no  *)
(* tag contains tagDelimiter.                                              *)
(***************************************************************************)
EXTENDS PgStore

DelimiterFree == \A t \in TagValues : SplitTag[t] = {t}

\* Positions come from the sequence and are never given out twice.
AllRows == log \cup UNION {rows[c] : c \in Clients}

PositionsUnique ==
    /\ \A r \in AllRows : r.pos <= seq
    /\ \A r, s \in AllRows : r.pos = s.pos => r = s

\* No two transactions hold conflicting locks.
LockExclusion ==
    \A c, d \in Clients : c # d =>
        \A l \in held[c], m \in held[d] : ~Conflict(l, m)

\* An append in progress has validated its conditions, and holds all of its
\* locks from the moment it snapshots the high-water mark.
AppendLocks ==
    \A c \in Clients :
        /\ todo[c] # {} => pc[c] \in {"a_lock", "a_check", "a_insert"}
        /\ pc[c] \in {"a_lock", "a_check", "a_insert"} =>
              /\ todo[c] \subseteq Slots(cmds[c])
              /\ ConditionsValid(cmds[c])
        /\ pc[c] = "a_lock" => WriterLocks(cmds[c]) \subseteq want[c] \cup held[c]
        /\ pc[c] \in {"a_check", "a_insert"} => WriterLocks(cmds[c]) \subseteq held[c]

\* The locks under which a row may be in flight.
RowLocks(r) ==
    Exclusive({leafKey(r.type, tag) : tag \in r.tags})
    \cup Shared({typeIntentKey(r.type), globalIntentKey})

RowsAreLocked ==
    \A c \in Clients :
        /\ rows[c] # {} => pc[c] = "a_insert"
        /\ \A r \in rows[c] : RowLocks(r) \subseteq held[c]

\* Committed rows that matter to an append's conditions are within reach of
\* its check.
ChecksAreComplete ==
    \A c \in Clients : pc[c] = "a_check" =>
        \A i \in DOMAIN cmds[c] : cmds[c][i].condition # Nil =>
            \A r \in log : MatchesQuery(cmds[c][i].condition.failIfEventsMatch, r)
                                => r.pos <= hwm[c]

\* A read carries its view's query, and resumes from a row of the view.
ReadsFollowViews ==
    \A c \in Clients : pc[c] \in {"r_lock", "r_end", "r_declare"} =>
        /\ rd[c].query = view[c].query
        /\ rd[c].backwards = view[c].backwards
        /\ rd[c].after # Nil => \E s \in view[c].seen : s.pos = rd[c].after
        /\ pc[c] \in {"r_lock", "r_end"} => ~rd[c].backwards
        /\ pc[c] = "r_lock" => computeReaderLockKeys(rd[c].query) \subseteq want[c] \cup held[c]

\* Once a barrier is passed, rows in flight that the read filters for lie
\* beyond its high-water mark.
BarrierHolds ==
    \A c \in Clients : pc[c] \in {"r_end", "r_declare"} /\ ~rd[c].backwards =>
        /\ hwm[c] <= seq
        /\ \A d \in Clients : \A r \in rows[d] :
              ReadMatches(rd[c].query, r) => r.pos > hwm[c]

\* Rows in flight lie beyond what a forward view has seen.
ViewsAreBehind ==
    \A c \in Clients :
        /\ view[c].seen \subseteq log
        /\ ~view[c].backwards =>
              \A d \in Clients : \A r \in rows[d], s \in view[c].seen :
                  ReadMatches(view[c].query, r) => r.pos > s.pos

\* What reads rely on.  Nothing here depends on what a condition check sees.
ReadInv ==
    /\ TypeOK
    /\ PositionsUnique
    /\ LockExclusion
    /\ AppendLocks
    /\ RowsAreLocked
    /\ ReadsFollowViews
    /\ BarrierHolds
    /\ ViewsAreBehind
    /\ ForwardReadsNeverSkip

\* The inductive invariant of ConditionsHoldUntilCommit and
\* ForwardReadsNeverSkip.
IInv ==
    /\ ReadInv
    /\ ChecksAreComplete
    /\ ConditionsHoldUntilCommit

-------------------------------------------------------------------------------
(***************************************************************************)
(* Why locks are granted in the end.                                       *)
(***************************************************************************)

\* The keys that locks are ever taken on.
LeafKeys   == {LeafHash[p] : p \in EventTypes \X TagValues}
IntentKeys == {TypeHash[t] : t \in EventTypes} \cup {GlobalHash}

\* A lock statement requests its keys in ascending order, each in one mode;
\* a transaction that holds locks is past all of those, and a client without
\* a transaction holds none.
LockOrder ==
    \A c \in Clients :
        /\ want[c] # {} => pc[c] \in {"a_lock", "r_lock"}
        /\ pc[c] \in {"idle", "r_declare"} => held[c] = {}
        /\ \A l \in held[c], m \in want[c] : l.key < m.key
        /\ \A l, m \in want[c] : l.key = m.key => l = m
        /\ \A l \in want[c] : l.key \in LeafKeys \cup IntentKeys
===============================================================================
