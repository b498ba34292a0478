-------------------------- MODULE StoreMiddleware --------------------------
(***************************************************************************)
(* A store behind a stack of wrappers (packages/hub/src/                   *)
(* store-middleware.ts): wrapStore with withRetry, withLogging,            *)
(* withMetrics, withCircuitBreaker, withCache and withHealthCheck.  A call *)
(* goes down the stack layer by layer to the base store and its outcome    *)
(* comes up again.  Every layer acts on a call without interruption; other *)
(* calls may run in between.  On the way down the code leaves them no      *)
(* room, but there a layer looks at its own state alone, and the base      *)
(* store may take any time.                                                *)
(*                                                                         *)
(* A record is its version.  Time is left out: a circuit that has been     *)
(* open for resetTimeoutMs is no longer `cooling', a cached entry that is   *)
(* older than ttlMs is `expired'.                                           *)
(***************************************************************************)
EXTENDS Naturals, Sequences, SequencesExt

CONSTANTS
    Key, Value, Caller, None,
    Stacks,        \* the stacks to look at; the first layer is the outermost
    Overlapping,   \* those of them that are called by several callers at once
    Expected,      \* versions a put may name as the one it replaces
    MaxRetries,    \* withRetry's maxRetries
    Threshold,     \* withCircuitBreaker's failureThreshold
    SuspendAfter, ResumeAfter,    \* withHealthCheck's thresholds
    MaxEntries,    \* withCache's maxEntries
    MaxFails,      \* bound: calls and pings of the base store that fail
    Allowed        \* which of Behaviours are looked at

Behaviours == {"lostAnswer",   \* the base store carries a call out and reports an error
               "sameKey",      \* calls of one key overlap
               "loadAll", "saveAll"}    \* the bulk operations are called

Layers == {"retry", "logging", "metrics", "breaker", "cache", "health"}

ASSUME MiddlewareAssumption ==
    /\ Value \cup Expected \subseteq Nat \ {0} /\ None \notin Value \cup Expected /\ Allowed \subseteq Behaviours
    /\ Overlapping \subseteq Stacks
    /\ \A s \in Stacks : s \in Seq(Layers) /\ IsInjective(s)
    /\ MaxRetries \in Nat /\ MaxFails \in Nat
    /\ {Threshold, SuspendAfter, ResumeAfter, MaxEntries} \subseteq Nat \ {0}

VARIABLES
    stack,       \* the layers of this store
    record,      \* the base store
    call,        \* the calls in progress, and where in the stack each of them is
    circuit,     \* withCircuitBreaker: state, failures, whether resetTimeoutMs still runs
    cache,       \* withCache: its entries, the oldest first
    health,      \* withHealthCheck: isSuspended and its two counters
    fails

vars == <<stack, record, call, circuit, cache, health, fails>>

Absent == [k \in Key |-> None]
Says(how, r) == [is |-> how, records |-> r]
Nothing == Says("none", Absent)
Idle == [op |-> "none", key |-> None, val |-> None, exp |-> None,
         at |-> 0, dir |-> "up", res |-> Nothing, tries |-> 0]

Init ==
    /\ stack \in Stacks /\ record = [k \in Key |-> None] /\ cache = <<>> /\ fails = 0
    /\ call = [c \in Caller |-> Idle]
    /\ circuit = [state |-> "closed", failures |-> 0, cooling |-> FALSE]
    /\ health = [suspended |-> FALSE, bad |-> 0, good |-> 0]

Bulk == {"loadAll", "saveAll"}
Base == Len(stack) + 1
Has(layer) == Contains(stack, layer)
At(c, layer, dir) == call[c].at \in 1..Len(stack) /\ stack[call[c].at] = layer /\ call[c].dir = dir
Failed(r) == r.is \in {"error", "conflict"}

\* What the base store makes of a call, and what the call returns.
After(q, r) ==
    CASE q.op = "put"     -> [r EXCEPT ![q.key] = q.val]
      [] q.op = "delete"  -> [r EXCEPT ![q.key] = None]
      [] q.op = "saveAll" -> [k \in Key |-> q.val]
      [] OTHER            -> r
Reply(q, r) ==
    Says("ok", CASE q.op = "get"     -> [Absent EXCEPT ![q.key] = r[q.key]]
                 [] q.op = "loadAll" -> r
                 [] OTHER            -> Absent)
Fallback(q) == Reply(q, Absent)

Down(c) == call' = [call EXCEPT ![c].at = @ + 1, ![c].dir = "down"]
Up(c, r) == call' = [call EXCEPT ![c].at = @ - 1, ![c].dir = "up", ![c].res = r]

-----------------------------------------------------------------------------
(***************************************************************************)
(* The caller, and the base store.                                        *)
(***************************************************************************)
Touches(q, k) == q.op # "none" /\ (q.op \in Bulk \/ q.key = k)

Invoke(c) ==
    /\ call[c] = Idle
    /\ stack \in Overlapping \/ \A d \in Caller : call[d] = Idle
    /\ \E op \in {"get", "put", "delete", "loadAll", "saveAll"}, k \in Key, v \in Value,
          e \in Expected \cup {None} :
        /\ op \in Bulk => op \in Allowed
        /\ e # None => op = "put"
        /\ op \in Bulk => k = CHOOSE x \in Key : TRUE
        /\ op \notin {"put", "saveAll"} => v = CHOOSE x \in Value : TRUE
        /\ "sameKey" \notin Allowed =>
              \A d \in Caller, x \in Key :    \* one call of a key at a time
                  ~(Touches(call[d], x) /\ Touches([op |-> op, key |-> k], x))
        /\ call' = [call EXCEPT ![c] = [op |-> op, key |-> k, val |-> v, exp |-> e,
                                        at |-> 1, dir |-> "down", res |-> Nothing, tries |-> 0]]
    /\ UNCHANGED <<stack, record, circuit, cache, health, fails>>

Return(c) ==
    /\ call[c].op # "none" /\ call[c].at = 0
    /\ call' = [call EXCEPT ![c] = Idle]
    /\ UNCHANGED <<stack, record, circuit, cache, health, fails>>

Refused(q) == q.op = "put" /\ q.exp # None /\ record[q.key] \notin {None, q.exp}

BaseAnswers(c) ==
    /\ call[c].at = Base /\ call[c].dir = "down"
    /\ IF Refused(call[c])
       THEN Up(c, Says("conflict", Absent)) /\ UNCHANGED record
       ELSE Up(c, Reply(call[c], record)) /\ record' = After(call[c], record)
    /\ UNCHANGED <<stack, circuit, cache, health, fails>>

BaseFails(c) ==
    /\ call[c].at = Base /\ call[c].dir = "down" /\ fails < MaxFails
    /\ record' \in {record} \cup
           {After(call[c], record) : a \in Allowed \cap {"lostAnswer"}}
    /\ Up(c, Says("error", Absent)) /\ fails' = fails + 1
    /\ UNCHANGED <<stack, circuit, cache, health>>

-----------------------------------------------------------------------------
(***************************************************************************)
(* withRetry: every error is retried, whatever the call has done.          *)
(***************************************************************************)
RetryDown(c) ==
    /\ At(c, "retry", "down") /\ Down(c)
    /\ UNCHANGED <<stack, record, circuit, cache, health, fails>>

\* (Variant: the caller is answered before the call is tried again.)
RetryUpGivesUp(c) ==
    /\ At(c, "retry", "up") /\ Up(c, [call[c].res EXCEPT !.is = "ok"])
    /\ UNCHANGED <<stack, record, circuit, cache, health, fails>>

RetryUp(c) ==
    /\ At(c, "retry", "up")
    /\ IF Failed(call[c].res) /\ call[c].tries < MaxRetries
       THEN call' = [call EXCEPT ![c].at = @ + 1, ![c].dir = "down", ![c].res = Nothing,
                                 ![c].tries = @ + 1]
       ELSE Up(c, call[c].res)
    /\ UNCHANGED <<stack, record, circuit, cache, health, fails>>

-----------------------------------------------------------------------------
(***************************************************************************)
(* withLogging and withMetrics look on.                                   *)
(***************************************************************************)
Logged(c) ==
    /\ \/ At(c, "logging", "down") /\ Down(c)
       \/ At(c, "logging", "up") /\ Up(c, call[c].res)
    /\ UNCHANGED <<stack, record, circuit, cache, health, fails>>

Tracked(c) ==
    /\ \/ At(c, "metrics", "down") /\ Down(c)
       \/ At(c, "metrics", "up") /\ Up(c, call[c].res)
    /\ UNCHANGED <<stack, record, circuit, cache, health, fails>>

-----------------------------------------------------------------------------
(***************************************************************************)
(* withCircuitBreaker: guarded, canAttempt, recordSuccess, recordFailure.  *)
(***************************************************************************)
BreakerDown(c) ==
    /\ At(c, "breaker", "down")
    /\ IF circuit.state = "open" /\ circuit.cooling
       THEN Up(c, Fallback(call[c])) /\ UNCHANGED circuit
       ELSE /\ Down(c)
            /\ circuit' = [circuit EXCEPT !.state = IF @ = "open" THEN "half-open" ELSE @]
    /\ UNCHANGED <<stack, record, cache, health, fails>>

RecordSuccess ==
    circuit' = [circuit EXCEPT !.failures = 0, !.state = IF @ = "half-open" THEN "closed" ELSE @]

RecordFailure ==
    circuit' = [state |-> IF circuit.state = "closed" /\ circuit.failures + 1 >= Threshold
                          THEN "open" ELSE circuit.state,
                failures |-> IF circuit.failures < Threshold THEN circuit.failures + 1
                             ELSE circuit.failures,
                cooling |-> TRUE]

BreakerUp(c) ==
    /\ At(c, "breaker", "up") /\ Up(c, call[c].res)
    /\ IF Failed(call[c].res) THEN RecordFailure ELSE RecordSuccess
    /\ UNCHANGED <<stack, record, cache, health, fails>>

\* resetTimeoutMs has passed since lastFailureTime.
CoolDown ==
    /\ circuit.cooling /\ circuit' = [circuit EXCEPT !.cooling = FALSE]
    /\ UNCHANGED <<stack, record, call, cache, health, fails>>

-----------------------------------------------------------------------------
(***************************************************************************)
(* withCache.  getFromCache deletes an expired entry and moves a live one  *)
(* to the end; setInCache evicts the oldest entry when the cache is full,  *)
(* and Map.set leaves an entry it replaces in its place.                   *)
(***************************************************************************)
Entries(k) == {i \in DOMAIN cache : cache[i].key = k}
Place(k) == CHOOSE i \in Entries(k) : TRUE
Without(k) == IF Entries(k) = {} THEN cache ELSE RemoveAt(cache, Place(k))
Entry(k) == cache[Place(k)]
Live(k) == Entries(k) # {} /\ ~Entry(k).expired

Stored(k, v) ==
    LET e == [key |-> k, val |-> v, expired |-> FALSE]
        room == IF Len(cache) >= MaxEntries THEN Tail(cache) ELSE cache
    IN  IF \E i \in DOMAIN room : room[i].key = k
        THEN [i \in DOMAIN room |-> IF room[i].key = k THEN e ELSE room[i]]
        ELSE Append(room, e)

CacheDown(c) ==
    LET q == call[c] IN
    /\ At(c, "cache", "down")
    /\ \/ /\ q.op = "get" /\ Live(q.key)
          /\ cache' = Append(Without(q.key), Entry(q.key)) /\ Up(c, Says("ok", [Absent EXCEPT ![q.key] = Entry(q.key).val]))
       \/ /\ ~(q.op = "get" /\ Live(q.key))
          /\ cache' = (IF q.op \in {"get", "put", "delete"} THEN Without(q.key) ELSE cache)
          /\ Down(c)
    /\ UNCHANGED <<stack, record, circuit, health, fails>>

CacheUp(c) ==
    LET q == call[c] IN
    /\ At(c, "cache", "up") /\ Up(c, q.res)
    /\ cache' = (IF Failed(q.res) THEN cache
                 ELSE IF q.op = "get" THEN Stored(q.key, q.res.records[q.key])
                 ELSE IF q.op = "put" THEN Stored(q.key, q.val) ELSE cache)
    /\ UNCHANGED <<stack, record, circuit, health, fails>>

\* ttlMs has passed since an entry was cached.
Expire ==
    /\ \E i \in DOMAIN cache : ~cache[i].expired /\ cache' = [cache EXCEPT ![i].expired = TRUE]
    /\ UNCHANGED <<stack, record, call, circuit, health, fails>>

-----------------------------------------------------------------------------
(***************************************************************************)
(* withHealthCheck: the wrapped operations, and doCheck once its ping is   *)
(* answered.                                                               *)
(***************************************************************************)
HealthDown(c) ==
    /\ At(c, "health", "down")
    /\ IF health.suspended THEN Up(c, Fallback(call[c])) ELSE Down(c)
    /\ UNCHANGED <<stack, record, circuit, cache, health, fails>>

HealthUp(c) ==
    /\ At(c, "health", "up") /\ Up(c, call[c].res)
    /\ UNCHANGED <<stack, record, circuit, cache, health, fails>>

Capped(n, cap) == IF n < cap THEN n + 1 ELSE n

\* (Variant: a success that does not suffice to resume is not counted.)
PingSucceedsForgets ==
    /\ Has("health")
    /\ LET good == health.good + 1 IN
       health' = IF health.suspended /\ good >= ResumeAfter
                 THEN [suspended |-> FALSE, bad |-> 0, good |-> 0]
                 ELSE [health EXCEPT !.bad = 0, !.good = 0]
    /\ UNCHANGED <<stack, record, call, circuit, cache, fails>>

PingSucceeds ==
    /\ Has("health")
    /\ LET good == Capped(health.good, ResumeAfter) IN
       health' = IF health.suspended /\ good >= ResumeAfter
                 THEN [suspended |-> FALSE, bad |-> 0, good |-> 0]
                 ELSE [health EXCEPT !.bad = 0, !.good = good]
    /\ UNCHANGED <<stack, record, call, circuit, cache, fails>>

PingFails ==
    /\ Has("health") /\ fails < MaxFails /\ fails' = fails + 1
    /\ LET bad == Capped(health.bad, SuspendAfter) IN
       health' = IF ~health.suspended /\ bad >= SuspendAfter
                 THEN [suspended |-> TRUE, bad |-> 0, good |-> 0]
                 ELSE [health EXCEPT !.bad = bad, !.good = 0]
    /\ UNCHANGED <<stack, record, call, circuit, cache>>

-----------------------------------------------------------------------------
Handle(c) ==
    \/ BaseAnswers(c) \/ RetryDown(c) \/ RetryUp(c) \/ Logged(c) \/ Tracked(c)
    \/ BreakerDown(c) \/ BreakerUp(c) \/ CacheDown(c) \/ CacheUp(c) \/ HealthDown(c) \/ HealthUp(c) \/ Return(c)

Next ==
    \/ \E c \in Caller : Invoke(c) \/ BaseFails(c) \/ Handle(c)
    \/ CoolDown \/ Expire \/ PingSucceeds \/ PingFails

Spec == Init /\ [][Next]_vars

\* Promises settle, time passes, the ping is repeated, and the application goes on
\* reading the store, whatever else it does.
Read(c) == Invoke(c) /\ call'[c].op = "get"
Fairness ==
    /\ \A c \in Caller : WF_vars(Handle(c)) /\ SF_vars(Read(c))
    /\ WF_vars(CoolDown) /\ WF_vars(PingSucceeds)

FairSpec == Spec /\ Fairness

-----------------------------------------------------------------------------
(***************************************************************************)
(* Properties.                                                            *)
(***************************************************************************)
Answer == [is : {"none", "ok", "error", "conflict"}, records : [Key -> Value \cup {None}]]

\* Types.
TypeOK ==
    /\ stack \in Stacks /\ record \in [Key -> Value \cup {None}] /\ fails \in 0..MaxFails
    /\ \A c \in Caller :
         /\ call[c].at \in 0..Base /\ call[c].dir \in {"down", "up"} /\ call[c].tries \in 0..MaxRetries
         /\ call[c].res \in Answer
    /\ circuit \in [state : {"closed", "open", "half-open"}, failures : 0..Threshold, cooling : BOOLEAN]
    /\ Len(cache) <= MaxEntries
    /\ cache \in Seq([key : Key, val : Value \cup {None}, expired : BOOLEAN])
    /\ health \in [suspended : BOOLEAN, bad : 0..SuspendAfter, good : 0..ResumeAfter]

\* What the contract sees of a call: it is answered as soon as its outcome is certain.
Done(q) == q.op # "none" /\ q.dir = "up" /\ (q.at = 0 \/ ~Failed(q.res))
Promised(q) ==
    [op |-> q.op,
     keys |-> IF q.op = "none" THEN {} ELSE IF q.op \in Bulk THEN Key ELSE {q.key},
     val |-> q.val, exp |-> q.exp, done |-> Done(q), res |-> IF Done(q) THEN q.res ELSE Nothing]

Contract == INSTANCE StoreContract WITH
    Version <- Value \cup Expected,
    available <- ~(circuit.state = "open" \/ health.suspended),
    call <- [c \in Caller |-> Promised(call[c])]
KeepsContract == Contract!Spec

\* What the cache would answer a get with is what the base store holds, unless a call
\* that writes the key is under way.
CacheCoherent ==
    \A k \in Key : Live(k) =>
        \/ Entry(k).val = record[k]
        \/ \E c \in Caller : Touches(call[c], k) /\ call[c].op \notin {"get", "loadAll"}

\* The stack keeps the contract of the store below it: a call that succeeds has taken
\* effect exactly once, at one moment of its duration, a call that fails has not, and
\* only an open circuit or a suspended store skips calls; and its cache is coherent.
ContractKept == KeepsContract /\ []CacheCoherent

\* Once the base store fails no more, an open circuit closes and a suspended store
\* resumes, also when version conflicts count as failures in between.
Recovers ==
    /\ (circuit.state # "closed") ~> (circuit.state = "closed")
    /\ health.suspended ~> ~health.suspended

\* The circuit is open only while the base store is unavailable.  (Not what the code
\* does: a version conflict counts as a failure.)
OpensOnlyWhenDown == circuit.state = "open" => fails > 0
=============================================================================
