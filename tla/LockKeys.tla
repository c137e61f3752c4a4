------------------------------- MODULE LockKeys -------------------------------
(***************************************************************************)
(* postgres/lockkeys.go: which advisory locks an append and a read take.   *)
(*                                                                         *)
(* A lock key is the 64-bit hash of a prefixed string.  The three          *)
(* namespaces are three constants: LeafHash over (type, tag) pairs,        *)
(* TypeHash over types, and GlobalHash.  Nothing here says that different  *)
(* names have different keys: a collision, of the hash or of the string    *)
(* "L:" + type + "|" + tag, is a value these constants may take.           *)
(***************************************************************************)
EXTENDS EventStore

CONSTANTS LeafHash, TypeHash, GlobalHash

ASSUME HashAssumption ==
    /\ LeafHash \in [EventTypes \X TagValues -> Int]
    /\ TypeHash \in [EventTypes -> Int]
    /\ GlobalHash \in Int

leafKey(t, tag)  == LeafHash[<<t, tag>>]
typeIntentKey(t) == TypeHash[t]
globalIntentKey  == GlobalHash

\* A lock request: an exclusive (X) or shared (S) advisory lock on a key.
Lock == [key: Int, mode: {"X", "S"}]

Exclusive(keys) == [key: keys, mode: {"X"}]
Shared(keys)    == [key: keys, mode: {"S"}]

Conflict(l, m) == l.key = m.key /\ (l.mode = "X" \/ m.mode = "X")

ItemLeafKeys(item) == {leafKey(p[1], p[2]) : p \in item.types \X item.tags}

ConditionLeafKeys(cond) ==
    IF cond = Nil \/ cond.failIfEventsMatch.all THEN {}
    ELSE UNION {ItemLeafKeys(item) : item \in cond.failIfEventsMatch.items}

EventLeafKeys(ev) == {leafKey(ev.type, tag) : tag \in ev.tags}

\* A bug for the model to catch: an append locks what it writes, and forgets
\* what it only looks at.
WriterLockKeysWithoutCondition(cmd) ==
    LET evs == {cmd.events[j] : j \in DOMAIN cmd.events}
    IN  Exclusive(UNION {EventLeafKeys(ev) : ev \in evs})
        \cup Shared({typeIntentKey(ev.type) : ev \in evs})
        \cup Shared({globalIntentKey : ev \in evs})

\* X on every leaf key of the events and of the condition; S on the intent
\* key of each event's type and, if there is an event, on the global one.
computeWriterLockKeys(cmd) ==
    LET evs == {cmd.events[j] : j \in DOMAIN cmd.events}
    IN  Exclusive(ConditionLeafKeys(cmd.condition) \cup UNION {EventLeafKeys(ev) : ev \in evs})
        \cup Shared({typeIntentKey(ev.type) : ev \in evs})
        \cup Shared({globalIntentKey : ev \in evs})

\* The keys of a whole Append call: the union over its commands.
WriterLocks(cmds) == UNION {computeWriterLockKeys(cmds[i]) : i \in DOMAIN cmds}

\* A bug for the model to catch: intent keys taken in the writers' own mode,
\* which does not conflict with it.
ReaderLockKeysAllShared(q) ==
    IF q.all THEN Shared({globalIntentKey})
    ELSE UNION { IF item.tags # {} THEN Shared(ItemLeafKeys(item))
                 ELSE Shared({typeIntentKey(t) : t \in item.types})
                 : item \in q.items }

\* S on each leaf key of an item that has tags, X on the intent key of each
\* type of an item that has none, X on the global key for QueryAll().
computeReaderLockKeys(q) ==
    IF q.all THEN Exclusive({globalIntentKey})
    ELSE UNION { IF item.tags # {} THEN Shared(ItemLeafKeys(item))
                 ELSE Exclusive({typeIntentKey(t) : t \in item.types})
                 : item \in q.items }
===============================================================================
