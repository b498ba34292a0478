-------------------------------- MODULE Lru --------------------------------
(***************************************************************************)
(* The cache of a collection in lazy mode: the Lru class                  *)
(* (packages/hub/src/cache/lru.ts) with its two budgets, driven the way   *)
(* Collection.get, put and delete drive it (packages/hub/src/             *)
(* collection.ts), over records of different sizes.  A put or delete      *)
(* looks the record up, writes the store, appends to the ledger and only  *)
(* then changes the cache: a failure in between leaves the two apart.     *)
(***************************************************************************)
EXTENDS Naturals, FiniteSets, SequencesExt

CONSTANTS
    Key,         \* record ids
    Sizes,       \* sizes a record may have, as estimateRecordBytes says
    MaxRecords,  \* the budgets, 0 when not given
    MaxBytes,
    MaxOps,      \* bound: calls of put and delete
    MaxFails,    \* bound: puts and deletes that fail
    Overlap,     \* whether a put or delete and the read of a get from the store may overlap
    None

VARIABLES
    stored,    \* the store: version and size of each record, version 0 for none
    entries,   \* Lru.entries in the order of the Map, least recently used first
    bytes,     \* Lru.currentBytes
    reading,   \* gets that wait for the store, with what they will be given
    call,      \* the put or delete in flight: its record, what it writes, and how far it is
    ops, fails,
    used,      \* (history) keys in the order of their last use
    behind     \* (history) records whose last write of the store has not come to the cache

cache == <<entries, bytes>>
vars == <<stored, cache, reading, call, ops, fails, used, behind>>

Missing == [v |-> 0, size |-> 0]
NoCall == [pc |-> "idle", key |-> None, new |-> Missing]
Init ==
    /\ stored = [k \in Key |-> Missing] /\ entries = <<>> /\ bytes = 0
    /\ reading = [k \in Key |-> Missing] /\ call = NoCall /\ ops = 0 /\ fails = 0
    /\ used = <<>> /\ behind = {}

-----------------------------------------------------------------------------
PlaceOf(E, k) == SelectInSeq(E, LAMBDA e : e.key = k)
Has(k)        == PlaceOf(entries, k) > 0
Without(E, k) == SelectSeq(E, LAMBDA e : e.key # k)
Total(E)      == FoldLeft(LAMBDA n, e : n + e.size, 0, E)
Touch(k)      == used' = Append(SelectSeq(used, LAMBDA u : u # k), k)

\* evictUntilUnderBudget: entries leave from the front, the bytes of each with it.
Over(E, b) == \/ MaxRecords > 0 /\ Len(E) > MaxRecords
              \/ MaxBytes > 0 /\ b > MaxBytes
Evicted(E, b) ==
    LET n == CHOOSE n \in 0..Len(E) :
                /\ n = Len(E) \/ ~Over(SubSeq(E, n + 1, Len(E)), b - Total(SubSeq(E, 1, n)))
                /\ \A m \in 0..(n - 1) : Over(SubSeq(E, m + 1, Len(E)), b - Total(SubSeq(E, 1, m)))
    IN  [entries |-> SubSeq(E, n + 1, Len(E)), bytes |-> b - Total(SubSeq(E, 1, n))]

\* set.
Set(k, v, size) ==
    LET old   == IF Has(k) THEN entries[PlaceOf(entries, k)].size ELSE 0
        after == Evicted(Append(Without(entries, k), [key |-> k, v |-> v, size |-> size]),
                         (bytes - old) + size)
    IN  entries' = after.entries /\ bytes' = after.bytes

\* A hit moves the entry to the end.  (Variant: it stays where it is.)
PromoteNot(k) == entries' = entries
Promote(k) == entries' = Append(Without(entries, k), entries[PlaceOf(entries, k)])

RemoveKey(k) ==
    /\ entries' = Without(entries, k)
    /\ bytes' = IF Has(k) THEN bytes - entries[PlaceOf(entries, k)].size ELSE bytes

-----------------------------------------------------------------------------
Settled == \A k \in Key : reading[k] = Missing

GetHit(k) ==
    /\ Has(k) /\ reading[k] = Missing
    /\ Promote(k) /\ Touch(k)
    /\ UNCHANGED <<stored, bytes, reading, call, ops, fails, behind>>

GetMiss(k) ==
    /\ ~Has(k) /\ stored[k] # Missing /\ reading[k] = Missing /\ (Overlap \/ call = NoCall)
    /\ reading' = [reading EXCEPT ![k] = stored[k]]
    /\ UNCHANGED <<stored, cache, call, ops, fails, used, behind>>

GetReturns(k) ==
    /\ reading[k] # Missing
    /\ Set(k, reading[k].v, reading[k].size) /\ Touch(k)
    /\ reading' = [reading EXCEPT ![k] = Missing]
    /\ behind' = IF reading[k] = stored[k] THEN behind \ {k} ELSE behind
    /\ UNCHANGED <<stored, call, ops, fails>>

\* put and delete begin with a get of the cache, which moves a hit to the end.
Begin(k, new) ==
    /\ call = NoCall /\ ops < MaxOps /\ ops' = ops + 1 /\ (Overlap \/ Settled)
    /\ call' = [pc |-> "store", key |-> k, new |-> new]
    /\ IF Has(k) THEN Promote(k) /\ Touch(k) ELSE UNCHANGED <<entries, used>>
    /\ UNCHANGED <<stored, bytes, reading, fails, behind>>
Put(k, size) == Begin(k, [v |-> ops + 1, size |-> size])
Delete(k)    == Begin(k, Missing)

WriteStore ==
    /\ call.pc = "store" /\ call' = [call EXCEPT !.pc = "cache"]
    /\ stored' = [stored EXCEPT ![call.key] = call.new] /\ behind' = behind \cup {call.key}
    /\ UNCHANGED <<cache, reading, ops, fails, used>>

\* The entry is in the ledger: the cache follows.
UpdateCache ==
    LET k == call.key IN
    /\ call.pc = "cache" /\ call' = NoCall /\ behind' = behind \ {k}
    /\ IF call.new = Missing
       THEN RemoveKey(k) /\ used' = SelectSeq(used, LAMBDA u : u # k)
       ELSE Set(k, call.new.v, call.new.size) /\ Touch(k)
    /\ UNCHANGED <<stored, reading, ops, fails>>

\* The write of the store fails, or the append to the ledger after it.
Fail ==
    /\ call # NoCall /\ fails < MaxFails /\ fails' = fails + 1 /\ call' = NoCall
    /\ UNCHANGED <<stored, cache, reading, ops, used, behind>>

Next ==
    \/ WriteStore \/ UpdateCache \/ Fail
    \/ \E k \in Key :
          GetHit(k) \/ GetMiss(k) \/ GetReturns(k) \/ Delete(k) \/ \E size \in Sizes : Put(k, size)

Spec == Init /\ [][Next]_vars

-----------------------------------------------------------------------------
\* The running total is the total of what is cached, and both budgets hold: no
\* mix of updates, deletes and evictions lets the count drift.
WithinBudget ==
    /\ bytes = Total(entries)
    /\ ~Over(entries, bytes)

\* What is cached is what was used last, in that order: nothing that is still
\* cached was used before something that was evicted.
LastUsedStay == IsSuffix([i \in DOMAIN entries |-> entries[i].key], used)

\* A cached record is the stored one, unless its last put or delete is under way, or has failed,
\* after it had written the store: then the cache keeps what was there before, until the record
\* is written again or leaves the cache and is read again.
CachedIsStored ==
    \A i \in DOMAIN entries :
        entries[i].key \in behind \/ stored[entries[i].key].v = entries[i].v

\* The same between calls, with no exception.
CacheIsCurrent ==
    call = NoCall => \A i \in DOMAIN entries : stored[entries[i].key].v = entries[i].v

=============================================================================
