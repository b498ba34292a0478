---------------------------- MODULE Collection ----------------------------
(***************************************************************************)
(* A collection of a vault (packages/hub/src/collection.ts) with its      *)
(* cache, its history snapshots and the hash-chained ledger its writes    *)
(* are recorded in (ledger/store.ts), all over one store.                 *)
(*                                                                         *)
(* A step is the code between two awaited store calls, with the effect of *)
(* the first of them.  Content is the number of the operation that wrote  *)
(* it: every envelope is encrypted with a fresh initialisation vector, so *)
(* this number also stands for the hash of its ciphertext, and the hash   *)
(* of a ledger entry is the operation that appended it (0 stands for the  *)
(* empty string).                                                         *)
(***************************************************************************)
EXTENDS Naturals, FiniteSets

CONSTANTS
    Record,        \* record ids
    Handle,        \* Vault objects that are open on the store
    Caller,        \* calls that may be in flight at once
    Modes,         \* cache modes to look at, a subset of {"eager", "lazy"}
    MaxOps,        \* bound: calls of put, delete and get
    MaxSyncs,      \* bound: records a sync engine writes into the store
    MaxCrashes,    \* bound: restarts
    MaxFails,      \* bound: store calls that fail
    Allowed        \* which of Behaviours the environment shows

Behaviours == {"overlap",        \* calls start while others are in flight
               "midCallCrash",   \* a crash may hit a call in flight
               "coldDelete",     \* delete is called before the cache is filled
               "answerLost"}     \* a ledger write is carried out, its answer is lost

ASSUME CollectionAssumption ==
    /\ IsFiniteSet(Record) /\ Record # {} /\ Handle # {} /\ Caller # {}
    /\ Modes \subseteq {"eager", "lazy"} /\ Allowed \subseteq Behaviours
    /\ MaxOps \in Nat /\ MaxSyncs \in Nat /\ MaxCrashes \in Nat /\ MaxFails \in Nat

Serial == "overlap" \notin Allowed

(***************************************************************************)
(* Data.  Version 0 stands for a missing record.                          *)
(***************************************************************************)
Write    == 0..(MaxOps + MaxSyncs)
Envelope == [v : Nat, w : Write]
Missing  == [v |-> 0, w |-> 0]
Exists(e) == e.v > 0

Index   == 0..(MaxOps - 1)
Entry   == [index : Nat, prev : Write, op : {"put", "delete"}, id : Record,
            version : Nat, payload : Write, stamp : Write, delta : BOOLEAN]
NoEntry == [stamp |-> 0]
Hash(e) == e.stamp

\* A reverse patch turns the record of one write into the record before it.
NoPatch == [from |-> 0, to |-> 0]
Lost    == 0
Apply(patch, w) == IF patch.from = w THEN patch.to ELSE Lost

\* The cached head: not yet loaded, or the index and hash the next entry gets.
NotLoaded == [known |-> FALSE, next |-> 0, hash |-> 0]
HeadAt(next, hash) == [known |-> TRUE, next |-> next, hash |-> hash]

VARIABLES
    store,       \* the envelopes of the collection
    history,     \* _history: the snapshot of a version of a record, 0 for none
    ledger,      \* _ledger: the entry at each index
    deltas,      \* _ledger_deltas: the reverse patch at each index
    mode,        \* of the collection: eager (a full map) or lazy (an LRU)
    cache,       \* Collection.cache or .lru of each handle
    hydrated,    \* Collection.hydrated of each handle
    head,        \* LedgerStore.headCache of each handle
    call,        \* the calls in flight
    life,        \* (history) the writes of a record since it was last missing
    audited,     \* (history) the puts and deletes that ran to their end
    ops, syncs, crashes, fails    \* counters the bounds cap

disk   == <<store, history, ledger, deltas>>
memory == <<cache, hydrated, head>>
counts == <<syncs, crashes, fails>>
vars   == <<disk, mode, memory, call, life, audited, ops, counts>>

AnyRecord == CHOOSE r \in Record : TRUE
AnyHandle == CHOOSE h \in Handle : TRUE
Idle == [pc |-> "idle", op |-> "get", h |-> AnyHandle, id |-> AnyRecord, n |-> 0,
         ex |-> Missing, todo |-> {}, rec |-> AnyRecord, env |-> Missing, payload |-> 0,
         next |-> NotLoaded]

Init ==
    /\ store = [r \in Record |-> Missing]
    /\ history = [r \in Record |-> [v \in 1..(MaxOps + MaxSyncs) |-> 0]]
    /\ ledger = [i \in Index |-> NoEntry] /\ deltas = [i \in Index |-> NoPatch]
    /\ mode \in Modes
    /\ cache = [h \in Handle |-> [r \in Record |-> Missing]]
    /\ hydrated = [h \in Handle |-> FALSE] /\ head = [h \in Handle |-> NotLoaded]
    /\ call = [c \in Caller |-> Idle]
    /\ life = [r \in Record |-> <<>>] /\ audited = {}
    /\ ops = 0 /\ syncs = 0 /\ crashes = 0 /\ fails = 0

Quiet == \A c \in Caller : call[c].pc = "idle"
Cached(h, r) == Exists(cache[h][r])

Goto(c, pc) == call' = [call EXCEPT ![c].pc = pc]
Return(c)   == call' = [call EXCEPT ![c] = Idle]

\* A cache takes up a record.  An LRU evicts what its budgets do not allow,
\* the record itself when it alone is too big.
Remembered(h, r, env) ==
    LET full == [cache EXCEPT ![h][r] = env] IN
    IF mode = "eager" THEN {full}
    ELSE {[full EXCEPT ![h] = [q \in Record |-> IF q \in K THEN @[q] ELSE Missing]]
             : K \in SUBSET Record}

-----------------------------------------------------------------------------
(***************************************************************************)
(* put, delete and get up to the record they find.                        *)
(***************************************************************************)
Begin(c, op, h, r) ==
    /\ call[c].pc = "idle" /\ (Serial => Quiet) /\ ops < MaxOps
    /\ op = "delete" /\ mode = "eager" => hydrated[h] \/ "coldDelete" \in Allowed
    /\ ops' = ops + 1
    /\ call' = [call EXCEPT ![c] =
          [Idle EXCEPT !.op = op, !.h = h, !.id = r, !.n = ops + 1,
             !.env = IF mode = "lazy" /\ op # "get" THEN cache[h][r] ELSE Missing,
             !.pc = IF mode = "lazy"
                    THEN (IF ~Cached(h, r) THEN "fetch" ELSE IF op = "get" THEN "ready" ELSE "fetched")
                    ELSE (IF op = "delete" \/ hydrated[h] THEN "ready" ELSE "list")]]
    /\ UNCHANGED <<disk, mode, memory, life, audited, counts>>

\* ensureHydrated: list the ids, then read and decrypt one after the other.
HydrateList(c) ==
    /\ call[c].pc = "list"
    /\ call' = [call EXCEPT ![c].pc = "hydrate", ![c].todo = {r \in Record : Exists(store[r])}]
    /\ UNCHANGED <<disk, mode, memory, life, audited, ops, counts>>

HydrateRead(c, r) ==
    /\ call[c].pc = "hydrate" /\ r \in call[c].todo
    /\ call' = [call EXCEPT ![c].pc = "decrypt", ![c].todo = @ \ {r}, ![c].rec = r,
                            ![c].env = store[r]]
    /\ UNCHANGED <<disk, mode, memory, life, audited, ops, counts>>

HydrateSet(c) ==
    LET k == call[c] IN
    /\ k.pc = "decrypt"
    /\ cache' = IF Exists(k.env) THEN [cache EXCEPT ![k.h][k.rec] = k.env] ELSE cache
    /\ call' = [call EXCEPT ![c].pc = "hydrate", ![c].rec = AnyRecord, ![c].env = Missing]
    /\ UNCHANGED <<disk, mode, hydrated, head, life, audited, ops, counts>>

HydrateEnd(c) ==
    /\ call[c].pc = "hydrate" /\ call[c].todo = {}
    /\ hydrated' = [hydrated EXCEPT ![call[c].h] = TRUE]
    /\ Goto(c, "ready")
    /\ UNCHANGED <<disk, mode, cache, head, life, audited, ops, counts>>

\* Lazy mode, not in the LRU: ask the store.
Fetch(c) ==
    LET k == call[c] IN
    /\ k.pc = "fetch"
    /\ IF Exists(store[k.id])
       THEN call' = [call EXCEPT ![c].pc = "fetched", ![c].env = store[k.id]]
       ELSE IF k.op = "get" THEN Return(c) ELSE Goto(c, "fetched")
    /\ UNCHANGED <<disk, mode, memory, life, audited, ops, counts>>

\* Only get puts what it has fetched into the LRU.
FetchedGet(c) ==
    LET k == call[c] IN
    /\ k.pc = "fetched" /\ k.op = "get"
    /\ cache' \in Remembered(k.h, k.id, k.env)
    /\ Return(c)
    /\ UNCHANGED <<disk, mode, hydrated, head, life, audited, ops, counts>>

GetEnds(c) ==
    /\ call[c].pc = "ready" /\ call[c].op = "get"
    /\ Return(c)
    /\ UNCHANGED <<disk, mode, memory, life, audited, ops, counts>>

-----------------------------------------------------------------------------
(***************************************************************************)
(* The writes of put and delete.                                          *)
(***************************************************************************)
\* The record the call builds on: its version, its content for the snapshot.
Existing(c) ==
    LET k == call[c] IN IF k.pc = "fetched" THEN k.env ELSE cache[k.h][k.id]

AfterHistory(op) == IF op = "put" THEN "write" ELSE "peek"

Resolve(c) ==
    /\ call[c].pc \in {"ready", "fetched"} /\ call[c].op # "get"
    /\ call' = [call EXCEPT ![c].ex = Existing(c), ![c].env = Missing,
                   ![c].pc = IF Exists(Existing(c)) THEN "history" ELSE AfterHistory(call[c].op)]
    /\ UNCHANGED <<disk, mode, memory, life, audited, ops, counts>>

SaveHistory(c) ==
    LET k == call[c] IN
    /\ k.pc = "history"
    /\ history' = [history EXCEPT ![k.id][k.ex.v] = k.ex.w]
    /\ Goto(c, AfterHistory(k.op))
    /\ UNCHANGED <<store, ledger, deltas, mode, memory, life, audited, ops, counts>>

\* delete reads the envelope whose hash its ledger entry will hold.
Peek(c) ==
    /\ call[c].pc = "peek"
    /\ call' = [call EXCEPT ![c].pc = "write", ![c].payload = store[call[c].id].w]
    /\ UNCHANGED <<disk, mode, memory, life, audited, ops, counts>>

WritePut(c) ==
    LET k == call[c] IN
    /\ k.pc = "write" /\ k.op = "put"
    /\ store' = [store EXCEPT ![k.id] = [v |-> k.ex.v + 1, w |-> k.n]]
    /\ life' = [life EXCEPT ![k.id] = [i \in 1..(k.ex.v + 1) |->
                   IF i = k.ex.v + 1 THEN k.n ELSE IF i \in DOMAIN @ THEN @[i] ELSE 0]]
    /\ call' = [call EXCEPT ![c].pc = "head", ![c].payload = k.n]
    /\ UNCHANGED <<history, ledger, deltas, mode, memory, audited, ops, counts>>

WriteDelete(c) ==
    LET k == call[c] IN
    /\ k.pc = "write" /\ k.op = "delete"
    /\ store' = [store EXCEPT ![k.id] = Missing]
    /\ life' = [life EXCEPT ![k.id] = <<>>]
    /\ Goto(c, "head")
    /\ UNCHANGED <<history, ledger, deltas, mode, memory, audited, ops, counts>>

-----------------------------------------------------------------------------
(***************************************************************************)
(* LedgerStore.append.                                                    *)
(***************************************************************************)
Used     == {i \in Index : ledger[i] # NoEntry}
LastUsed == CHOOSE i \in Used : \A j \in Used : j <= i
StoredHead == IF Used = {} THEN HeadAt(0, 0)
              ELSE HeadAt(ledger[LastUsed].index + 1, Hash(ledger[LastUsed]))

HasDelta(k) == k.op = "put" /\ Exists(k.ex)
WithHead(c, hd) ==
    call' = [call EXCEPT ![c].next = hd, ![c].pc = IF HasDelta(call[c]) THEN "delta" ELSE "entry"]

AppendCached(c) ==
    /\ call[c].pc = "head" /\ head[call[c].h].known
    /\ WithHead(c, head[call[c].h])
    /\ UNCHANGED <<disk, mode, memory, life, audited, ops, counts>>

\* No head is cached: load all entries, hash the last one.
AppendLoad(c) ==
    /\ call[c].pc = "head" /\ ~head[call[c].h].known
    /\ call' = [call EXCEPT ![c].pc = "hash", ![c].next = StoredHead]
    /\ UNCHANGED <<disk, mode, memory, life, audited, ops, counts>>

AppendLoaded(c) ==
    LET k == call[c] IN
    /\ k.pc = "hash"
    /\ head' = [head EXCEPT ![k.h] = k.next]
    /\ WithHead(c, k.next)
    /\ UNCHANGED <<disk, mode, cache, hydrated, life, audited, ops, counts>>

\* (Variant: the patch leads from the old record to the new one.)
AppendDeltaForward(c) ==
    LET k == call[c] IN
    /\ k.pc = "delta"
    /\ deltas' = [deltas EXCEPT ![k.next.next] = [from |-> k.ex.w, to |-> k.n]]
    /\ Goto(c, "entry")
    /\ UNCHANGED <<store, history, ledger, mode, memory, life, audited, ops, counts>>

\* (Variant: the head is advanced before the entry is written.)
AppendDeltaClaims(c) ==
    LET k == call[c] IN
    /\ k.pc = "delta"
    /\ deltas' = [deltas EXCEPT ![k.next.next] = [from |-> k.n, to |-> k.ex.w]]
    /\ head' = [head EXCEPT ![k.h] = HeadAt(k.next.next + 1, k.n)]
    /\ Goto(c, "entry")
    /\ UNCHANGED <<store, history, ledger, mode, cache, hydrated, life, audited, ops, counts>>

AppendDelta(c) ==
    LET k == call[c] IN
    /\ k.pc = "delta"
    /\ deltas' = [deltas EXCEPT ![k.next.next] = [from |-> k.n, to |-> k.ex.w]]
    /\ Goto(c, "entry")
    /\ UNCHANGED <<store, history, ledger, mode, memory, life, audited, ops, counts>>

NewEntry(k) ==
    [index |-> k.next.next, prev |-> k.next.hash, op |-> k.op, id |-> k.id,
     version |-> k.ex.v + (IF k.op = "put" THEN 1 ELSE 0), payload |-> k.payload,
     stamp |-> k.n, delta |-> HasDelta(k)]

AppendEntry(c) ==
    LET k == call[c] IN
    /\ k.pc = "entry"
    /\ ledger' = [ledger EXCEPT ![k.next.next] = NewEntry(k)]
    /\ Goto(c, "done")
    /\ UNCHANGED <<store, history, deltas, mode, memory, life, audited, ops, counts>>

\* append caches the new head and returns; put and delete update the cache.
\* (Variants: the head stays as it was; the cache is not told of the write.)
FinishStaleHead(c) ==
    LET k == call[c] IN
    /\ k.pc = "done"
    /\ cache' \in IF k.op = "put" THEN Remembered(k.h, k.id, [v |-> k.ex.v + 1, w |-> k.n])
                                  ELSE {[cache EXCEPT ![k.h][k.id] = Missing]}
    /\ audited' = audited \cup {k.n}
    /\ Return(c)
    /\ UNCHANGED <<disk, mode, hydrated, head, life, ops, counts>>
FinishKeepsCache(c) ==
    LET k == call[c] IN
    /\ k.pc = "done"
    /\ head' = [head EXCEPT ![k.h] = HeadAt(k.next.next + 1, k.n)]
    /\ audited' = audited \cup {k.n}
    /\ Return(c)
    /\ UNCHANGED <<disk, mode, cache, hydrated, life, ops, counts>>

Finish(c) ==
    LET k == call[c] IN
    /\ k.pc = "done"
    /\ head' = [head EXCEPT ![k.h] = HeadAt(k.next.next + 1, k.n)]
    /\ cache' \in IF k.op = "put" THEN Remembered(k.h, k.id, [v |-> k.ex.v + 1, w |-> k.n])
                                  ELSE {[cache EXCEPT ![k.h][k.id] = Missing]}
    /\ audited' = audited \cup {k.n}
    /\ Return(c)
    /\ UNCHANGED <<disk, mode, hydrated, life, ops, counts>>

-----------------------------------------------------------------------------
(***************************************************************************)
(* The environment.                                                       *)
(***************************************************************************)
\* A store call fails: the operation rejects and leaves things as they are.
Fail(c) ==
    /\ \/ call[c].pc \in {"list", "hydrate", "fetch", "history", "peek", "write", "head",
                          "delta", "entry"}
       \/ call[c].pc = "done" /\ "answerLost" \in Allowed
    /\ fails < MaxFails /\ fails' = fails + 1
    /\ Return(c)
    /\ UNCHANGED <<disk, mode, memory, life, audited, ops, syncs, crashes>>

\* SyncEngine.pull puts a newer envelope straight into the store.
SyncPut(r) ==
    /\ syncs < MaxSyncs /\ syncs' = syncs + 1 /\ (Serial => Quiet)
    /\ store' = [store EXCEPT ![r] = [v |-> @.v + 1, w |-> MaxOps + syncs + 1]]
    /\ UNCHANGED <<history, ledger, deltas, mode, memory, call, life, audited, ops, crashes, fails>>

Crash ==
    /\ crashes < MaxCrashes /\ crashes' = crashes + 1
    /\ Quiet \/ "midCallCrash" \in Allowed
    /\ cache' = [h \in Handle |-> [r \in Record |-> Missing]]
    /\ hydrated' = [h \in Handle |-> FALSE] /\ head' = [h \in Handle |-> NotLoaded]
    /\ call' = [c \in Caller |-> Idle]
    /\ UNCHANGED <<disk, mode, life, audited, ops, syncs, fails>>

Step(c) ==
    \/ HydrateList(c) \/ (\E r \in Record : HydrateRead(c, r)) \/ HydrateSet(c) \/ HydrateEnd(c)
    \/ Fetch(c) \/ FetchedGet(c) \/ GetEnds(c) \/ Resolve(c) \/ SaveHistory(c) \/ Peek(c)
    \/ WritePut(c) \/ WriteDelete(c) \/ AppendCached(c) \/ AppendLoad(c) \/ AppendLoaded(c)
    \/ AppendDelta(c) \/ AppendEntry(c) \/ Finish(c)

Next ==
    \/ \E c \in Caller, op \in {"put", "delete", "get"}, h \in Handle, r \in Record : Begin(c, op, h, r)
    \/ \E c \in Caller : Step(c) \/ Fail(c)
    \/ \E r \in Record : SyncPut(r)
    \/ Crash

Spec == Init /\ [][Next]_vars

-----------------------------------------------------------------------------
(***************************************************************************)
(* What readers compute: LedgerStore.verify, reconstruct, and             *)
(* Vault.verifyBackupIntegrity.                                           *)
(***************************************************************************)
\* verify walks the entries in the order of their keys.
Verifies ==
    \A i \in Used :
        /\ ledger[i].index = Cardinality({j \in Used : j < i})
        /\ ledger[i].prev = IF i = 0 THEN 0 ELSE Hash(ledger[i - 1])

LatestOf(r) == {i \in Used : ledger[i].id = r /\ \A j \in Used : ledger[j].id = r => j <= i}
DataMatches == \A r \in Record : \A i \in LatestOf(r) :
                   ledger[i].op = "put" => Exists(store[r]) /\ store[r].w = ledger[i].payload

\* The walk backwards from the current record; Lost where reconstruct gives up.
Walk(r) ==
    LET top == Cardinality(Used)
        before[k \in 0..top] ==    \* the record after entry top - k - 1
            IF k = 0 THEN store[r].w
            ELSE LET e == ledger[top - k]
                     s == before[k - 1]
                 IN  IF e.id # r THEN s
                     ELSE IF s = Lost \/ e.op = "delete" \/ ~e.delta THEN Lost
                     ELSE Apply(deltas[top - k], s)
    IN  before
Reconstruct(r, version) ==
    LET top  == Cardinality(Used)
        hits == {k \in 0..(top - 1) : LET e == ledger[top - k - 1] IN
                    e.id = r /\ e.op = "put" /\ e.version = version /\ Walk(r)[k] # Lost}
    IN  IF hits = {} THEN Lost ELSE Walk(r)[CHOOSE k \in hits : \A j \in hits : k <= j]

(***************************************************************************)
(* Correctness.                                                           *)
(***************************************************************************)
Pc == {"idle", "list", "hydrate", "decrypt", "ready", "fetch", "fetched", "history", "peek",
       "write", "head", "hash", "delta", "entry", "done"}
Head == [known : BOOLEAN, next : Nat, hash : Write]
CallType == [pc : Pc, op : {"put", "delete", "get"}, h : Handle, id : Record, n : Write,
             ex : Envelope, todo : SUBSET Record, rec : Record, env : Envelope,
             payload : Write, next : Head]

TypeOK ==
    /\ store \in [Record -> Envelope] /\ mode \in Modes
    /\ history \in [Record -> [1..(MaxOps + MaxSyncs) -> Write]]
    /\ ledger \in [Index -> Entry \cup {NoEntry}]
    /\ deltas \in [Index -> [from : Write, to : Write]]
    /\ cache \in [Handle -> [Record -> Envelope]] /\ hydrated \in [Handle -> BOOLEAN]
    /\ head \in [Handle -> Head] /\ call \in [Caller -> CallType]
    /\ audited \in SUBSET Write
    /\ ops \in 0..MaxOps /\ syncs \in 0..MaxSyncs
    /\ crashes \in 0..MaxCrashes /\ fails \in 0..MaxFails

\* A single writer keeps the chain intact, across failed calls, crashes in
\* the middle of one and records that a sync engine writes: verify succeeds.
ChainVerifies == Verifies

\* The ledger's entries are never changed or removed.
AppendOnly == [][\A i \in Index : ledger[i] # NoEntry => ledger'[i] = ledger[i]]_vars

\* However calls overlap, the entries take up the indices from 0 without a
\* gap, and each says the index it is stored at.
LedgerDense ==
    /\ \A i \in Used : \A j \in Index : j < i => j \in Used
    /\ \A i \in Used : ledger[i].index = i

\* Every put and delete that has returned is in the ledger.
AuditComplete == \A n \in audited : \E i \in Used : ledger[i].stamp = n

\* As long as a record is what a put that returned has written, its latest
\* entry in the ledger is that put's, and every cache that has it shows it.
LatestIsAudited ==
    \A r \in Record : store[r].w \in audited =>
        \E i \in LatestOf(r) : ledger[i].op = "put" /\ ledger[i].payload = store[r].w
CacheIsAudited ==
    \A r \in Record, h \in Handle :
        store[r].w \in audited /\ (Cached(h, r) \/ (mode = "eager" /\ hydrated[h]))
            => cache[h][r] = store[r]

\* For a single writer nothing that has returned is missing in the ledger or
\* contradicted by it or by a cache, whatever calls fail or are cut short and
\* whatever a sync engine writes.
AuditSound == AuditComplete /\ LatestIsAudited /\ CacheIsAudited

\* verifyBackupIntegrity finds nothing when no call is in flight.
IntegrityHolds == Quiet => Verifies /\ DataMatches

\* A filled cache, and what an LRU holds, is what the store holds.
CacheCurrent ==
    Quiet => \A h \in Handle, r \in Record :
                (mode = "eager" /\ hydrated[h]) \/ Cached(h, r) => cache[h][r] = store[r]

\* reconstruct returns exactly the content each version of the record had.
ReconstructExact ==
    Quiet => \A r \in Record : Exists(store[r]) =>
                \A v \in 1..store[r].v : Reconstruct(r, v) = life[r][v]

\* After calls that came to their end verifyBackupIntegrity finds nothing, a cache is what the
\* store holds, and reconstruct returns exactly the content each version of a record had.
ReconstructsExactly == IntegrityHolds /\ CacheCurrent /\ ReconstructExact

\* What reconstruct returns for a version is never another version's content.
ReconstructSound ==
    Quiet => \A r \in Record : Exists(store[r]) =>
                \A v \in 1..store[r].v : Reconstruct(r, v) \in {Lost, life[r][v]}

\* The entry of a delete holds the version that was deleted.
DeleteHoldsVersion ==
    [][\A c \in Caller : LET k == call[c] IN
          k.pc = "write" /\ k.op = "delete" /\ Exists(store[k.id]) /\ store'[k.id] # store[k.id]
              => k.ex.v = store[k.id].v]_vars
=============================================================================
