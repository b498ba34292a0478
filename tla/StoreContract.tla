--------------------------- MODULE StoreContract ---------------------------
(***************************************************************************)
(* What the callers of a NoydbStore (packages/hub/src/types.ts) rely on:  *)
(* every call takes effect at one moment between its start and its return, *)
(* exactly once when it succeeds, not at all when it fails, and at most    *)
(* once, but wholly, when the caller does not live to see it.  A put may   *)
(* name the version it replaces.  A store that is not available may answer *)
(* a call without carrying it out; nothing tells the caller.  A record is  *)
(* represented by its version.                                             *)
(***************************************************************************)
CONSTANTS Key, Value, Caller, None,
    Version      \* the versions a put may name

VARIABLES
    record,      \* what the store holds
    available,   \* FALSE while calls may be skipped
    call         \* the calls in progress: what was asked, and the answer

vars == <<record, available, call>>

Absent == [k \in Key |-> None]
\* An answer: how the call ended, and the records it read.
Says(how, r) == [is |-> how, records |-> r]
Nothing == Says("none", Absent)
Idle == [op |-> "none", keys |-> {}, val |-> None, exp |-> None, done |-> FALSE, res |-> Nothing]

Init ==
    /\ record \in [Key -> Value \cup {None}] /\ available \in BOOLEAN
    /\ call = [c \in Caller |-> Idle]

\* What may be asked: val matters to writes, exp to puts.
Operation ==
    {q \in [op : {"get", "put", "delete", "loadAll", "saveAll"}, keys : SUBSET Key,
            val : Value, exp : Version \cup {None}, done : {FALSE}, res : {Nothing}] :
        CASE q.op = "loadAll" -> q.keys = Key
          [] q.op = "saveAll" -> TRUE
          [] OTHER            -> \E k \in Key : q.keys = {k}}

Invoke(c) ==
    /\ call[c] = Idle /\ call'[c] \in Operation
    /\ call' = [call EXCEPT ![c] = call'[c]]
    /\ UNCHANGED record

Pending(c) == call[c].op # "none" /\ ~call[c].done
Answer(c, a) == call' = [call EXCEPT ![c] = [@ EXCEPT !.done = TRUE, !.res = a]]

Written(q, r, v) == [k \in Key |-> IF k \in q.keys THEN v ELSE r[k]]

\* What a call may make of the records.  Whether saveAll drops the records that it is
\* not given is left to the store.
Effects(q, r) ==
    CASE q.op = "put"     -> {Written(q, r, q.val)}
      [] q.op = "delete"  -> {Written(q, r, None)}
      [] q.op = "saveAll" -> {Written(q, r, q.val), Written(q, Absent, q.val)}
      [] OTHER            -> {r}
\* What a call returns.
Reply(q, r) ==
    Says("ok", [k \in Key |-> IF q.op \in {"get", "loadAll"} /\ k \in q.keys THEN r[k] ELSE None])

\* A put that names a version is refused when the record has another one.
Refused(q, r) ==
    q.op = "put" /\ q.exp # None /\ \E k \in q.keys : r[k] \notin {None, q.exp}

TakeEffect(c) ==
    /\ Pending(c) /\ ~Refused(call[c], record)
    /\ record' \in Effects(call[c], record) /\ Answer(c, Reply(call[c], record))

Conflict(c) ==
    /\ Pending(c) /\ Refused(call[c], record)
    /\ Answer(c, Says("conflict", Absent)) /\ UNCHANGED record

Fail(c) == Pending(c) /\ Answer(c, Says("error", Absent)) /\ UNCHANGED record

Skip(c) ==
    /\ Pending(c) /\ ~available
    /\ Answer(c, Reply(call[c], Absent)) /\ UNCHANGED record

Return(c) ==
    /\ call[c].done
    /\ call' = [call EXCEPT ![c] = Idle] /\ UNCHANGED record

\* The process of the callers ends: no call is left half done.
Crash == call' = [c \in Caller |-> Idle] /\ UNCHANGED record

Next ==
    /\ available' \in BOOLEAN
    /\ \/ UNCHANGED <<record, call>>
       \/ Crash
       \/ \E c \in Caller :
           Invoke(c) \/ TakeEffect(c) \/ Conflict(c) \/ Fail(c) \/ Skip(c) \/ Return(c)

Spec == Init /\ [][Next]_vars
=============================================================================
