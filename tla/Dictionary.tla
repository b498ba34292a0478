----------------------------- MODULE Dictionary -----------------------------
(***************************************************************************)
(* A dictionary of labels and the records that use its keys               *)
(* (packages/hub/src/dictionary.ts, vault.ts dictionary): entries live in *)
(* the reserved collection _dict_<name>, are mirrored by the handle's     *)
(* _syncCache, which joins read, and are recorded in the vault's ledger.  *)
(*                                                                         *)
(* A step is what runs between two awaits.  A put or delete of a record   *)
(* writes the store, then the ledger, and only then the collection's      *)
(* cache, which is what list and get read (Collection.tla has the other   *)
(* steps); it may fail in between.  A hash is the number of the write it  *)
(* was taken of.                                                          *)
(***************************************************************************)
EXTENDS Naturals, Sequences, FiniteSets

CONSTANTS
    Id,           \* record ids
    Key,          \* dictionary keys
    Caller,       \* calls that may be in flight at once
    None,
    MaxWrites,    \* bound: writes to records and entries
    MaxFaults,    \* bound: store calls that fail, and restarts
    Behaviours
    \* what may also happen:
    \*   "overlap":    a call starts while another is in flight
    \*   "sameKey":    rename(k, k)
    \*   "taken":      rename to a key that has other labels
    \*   "undeclared": a session that has not opened the collection renames
    \*   "oldVault":   a backup is loaded over a vault that has data
    \*   "addingStore": saveAll leaves the records a backup does not name
    \*   "dictionaries": a vault with dictionary entries is dumped and loaded
    \*   "brokenVault": a vault is dumped a load of which was cut short or refused
    \*   "oldHandles": a dictionary's handle made before a load is used after it

DictAssumption == None \notin Nat \cup Key /\ MaxWrites \in Nat /\ MaxFaults \in Nat

VARIABLES
    data,         \* the collection in the store: each record's key and the write that made it
    cache,        \* the same of the session's Collection
    behind,       \* (history) records whose last write of the store has not come to ledger and cache
    dict,         \* _dict_<name>: each key's version and labels
    dropped,      \* (history) keys whose entry was deleted, not renamed
    ledger,       \* _ledger, in the order of its indexes
    syncCache,    \* DictionaryHandle._syncCache: the labels of the entries it has seen
    declared,     \* dictKeyFieldRegistry knows the collection
    head,         \* headCache of the vault's LedgerStore
    oldHead,      \* headCache of the LedgerStore from before a load
    handle,       \* the dictionary's handle: none yet, or on which LedgerStore it is
    call,         \* the calls in flight
    writes, crashes, fails

dictVars == <<data, cache, behind, dict, dropped, ledger, syncCache, declared, head, oldHead, handle, call, writes, crashes, fails>>
records  == <<data, cache, behind>>
entries  == <<dict, dropped>>
contents == <<records, entries, ledger>>
ledgers  == <<ledger, head, oldHead>>
counts   == <<crashes, fails>>

Absent == <<>>
Record(key, n) == <<key, n>>
Entry(v, labels) == <<v, labels>>
Exists(x) == x # Absent
KeyOf(i) == data[i][1]
Unread == [n |-> 0, stamp |-> 0]                        \* headCache undefined
HeadAt(n, stamp) == [n |-> n, stamp |-> stamp]          \* n entries, the last one's hash (None for none)
May(b) == b \in Behaviours

Idle == [op |-> None, pc |-> "idle", key |-> None, to |-> None, was |-> Absent, todo |-> {},
         snapshot |-> Absent, rec |-> None, wrote |-> Absent]

InitDict ==
    /\ data = [i \in Id |-> Absent] /\ cache = data /\ behind = {}
    /\ dict = [k \in Key |-> Absent] /\ dropped = {} /\ ledger = <<>>
    /\ syncCache = [k \in Key |-> Absent] /\ declared \in IF May("undeclared") THEN BOOLEAN ELSE {TRUE}
    /\ head = Unread /\ oldHead = Unread /\ handle = "none"
    /\ call = [w \in Caller |-> Idle] /\ writes = 0 /\ crashes = 0 /\ fails = 0

Quiet == \A w \in Caller : call[w].pc = "idle"
Starts(w) == call[w].pc = "idle" /\ (Quiet \/ May("overlap"))
Goes(w, pc) == call' = [call EXCEPT ![w].pc = pc]
Returns(w)  == call' = [call EXCEPT ![w] = Idle]
Stamp == writes + 1                                     \* a number for what is written next

-----------------------------------------------------------------------------
(***************************************************************************)
(* LedgerStore.append, over the cached head of the handle that appends.   *)
(***************************************************************************)
getCachedHead(h) ==
    IF h # Unread THEN h
    ELSE HeadAt(Len(ledger), IF ledger = <<>> THEN None ELSE ledger[Len(ledger)].stamp)
LedgerEntry(h, op, c, i, hash, stamp) ==
    [op |-> op, c |-> c, id |-> i, hash |-> hash, prev |-> h.stamp, stamp |-> stamp]
Appended(h, op, c, i, hash, stamp) ==
    LET e == LedgerEntry(h, op, c, i, hash, stamp)
    IN  IF h.n = Len(ledger) THEN Append(ledger, e) ELSE [ledger EXCEPT ![h.n + 1] = e]
append(old, op, c, i, hash, stamp) ==
    LET h == getCachedHead(IF old THEN oldHead ELSE head) IN
    /\ ledger' = Appended(h, op, c, i, hash, stamp)
    /\ IF old THEN oldHead' = HeadAt(h.n + 1, stamp) /\ UNCHANGED head
              ELSE head' = HeadAt(h.n + 1, stamp) /\ UNCHANGED oldHead

(***************************************************************************)
(* Records: the application uses keys the dictionary has.                 *)
(***************************************************************************)
Usable == {k \in Key : Exists(dict[k])} \cup {None}
\* The write of the store, in the call k.
Wrote(w, k, i, r) ==
    /\ data' = [data EXCEPT ![i] = r] /\ behind' = behind \cup {i} /\ writes' = Stamp
    /\ call' = [call EXCEPT ![w] = [k EXCEPT !.pc = "account", !.rec = i, !.wrote = r]]
    /\ UNCHANGED <<cache, entries, ledgers, syncCache, declared, handle, counts>>

PutRecord(w, i, k) ==
    /\ Starts(w) /\ writes < MaxWrites /\ k \in Usable
    /\ Wrote(w, [Idle EXCEPT !.op = "record"], i, Record(k, Stamp))
DeleteRecord(w, i) ==
    /\ Starts(w) /\ writes < MaxWrites /\ Exists(data[i])
    /\ Wrote(w, [Idle EXCEPT !.op = "record"], i, Absent)

\* The ledger's entry, and with it the cache: the end of a put or delete.
AccountRecord(w) ==
    LET k == call[w] IN
    /\ k.pc = "account"
    /\ append(FALSE, IF Exists(k.wrote) THEN "put" ELSE "delete", "records", k.rec,
              IF Exists(k.wrote) THEN k.wrote[2] ELSE 0, Stamp)
    /\ cache' = [cache EXCEPT ![k.rec] = k.wrote] /\ behind' = behind \ {k.rec}
    /\ writes' = Stamp
    /\ call' = [call EXCEPT ![w] = IF k.op = "record" THEN Idle
                                   ELSE [k EXCEPT !.pc = "update", !.rec = None, !.wrote = Absent]]
    /\ UNCHANGED <<data, entries, syncCache, declared, handle, counts>>

-----------------------------------------------------------------------------
(***************************************************************************)
(* put(key, labels), delete(key), rename(old, new): the entry is read     *)
(* first; delete and rename throw when there is none.                     *)
(***************************************************************************)
\* Vault.dictionary makes the handle at its first use and keeps it.
UseHandle ==
    /\ handle # "old" \/ May("oldHandles")
    /\ handle' = IF handle = "none" THEN "new" ELSE handle
Starting(w, op, k, to) ==
    /\ Starts(w) /\ writes < MaxWrites
    /\ call' = [call EXCEPT ![w] = [Idle EXCEPT !.op = op, !.pc = "get", !.key = k, !.to = to]]
    /\ UseHandle
    /\ UNCHANGED <<contents, syncCache, declared, head, oldHead, writes, counts>>
put(w, k) == Starting(w, "put", k, k)
delete(w, k) == Starting(w, "delete", k, k)         \* delete does not look for uses
Labels(k) == IF Exists(dict[k]) THEN dict[k][2] ELSE None
Free(k, to) == Labels(to) \in {None, Labels(k)}
rename(w, k, to) ==
    /\ k # to \/ May("sameKey")
    /\ Free(k, to) \/ May("taken")
    /\ Starting(w, "rename", k, to)

GetEntry(w) ==
    LET k == call[w] IN
    /\ k.pc = "get"
    /\ IF ~Exists(dict[k.key]) /\ k.op # "put" THEN Returns(w)
       ELSE call' = [call EXCEPT ![w].was = dict[k.key],
                                 ![w].pc = IF k.op = "delete" THEN "remove" ELSE "write"]
    /\ UNCHANGED <<contents, syncCache, declared, head, oldHead, handle, writes, counts>>

\* put expects the version it read; rename writes the new key unconditionally.
Conflicts(k) == k.op = "put" /\ Exists(k.was) /\ dict[k.key] # k.was
\* (Variant: the old entry is removed before the records are rewritten.)
AfterWriteEarly(k) == IF k.op = "put" THEN "append" ELSE "remove"
AfterWrite(k) == IF k.op = "put" THEN "append" ELSE "list"
WriteEntry(w) ==
    LET k == call[w]
        v == IF k.op = "put" /\ Exists(k.was) THEN k.was[1] + 1 ELSE 1
        labels == IF k.op = "put" THEN Stamp ELSE k.was[2]
    IN  /\ k.pc = "write"
        /\ IF Conflicts(k) THEN Returns(w) /\ UNCHANGED <<entries, syncCache, writes>>
           ELSE /\ dict' = [dict EXCEPT ![k.to] = Entry(v, labels)] /\ dropped' = dropped \ {k.to}
                /\ writes' = Stamp
                /\ syncCache' = IF k.op = "put" THEN [syncCache EXCEPT ![k.to] = <<labels>>] ELSE syncCache
                /\ call' = [call EXCEPT ![w].pc = AfterWrite(k), ![w].was = dict'[k.to]]
        /\ UNCHANGED <<records, ledgers, declared, handle, counts>>

\* findAndUpdateReferences: the collection, that is its cache, is listed once, then put back
\* record by record.
ListReferences(w) ==
    LET k == call[w] IN
    /\ k.pc = "list"
    /\ call' = [call EXCEPT ![w].pc = "update",
                            ![w].todo = {i \in Id : declared /\ Exists(cache[i]) /\ cache[i][1] = k.key}]
    /\ UNCHANGED <<contents, syncCache, declared, head, oldHead, handle, writes, counts>>
UpdateReference(w, i) ==
    LET k == call[w] IN
    /\ k.pc = "update" /\ i \in k.todo
    /\ Wrote(w, [k EXCEPT !.todo = @ \ {i}], i, Record(k.to, Stamp))
UpdatedAll(w) ==
    /\ call[w].pc = "update" /\ call[w].todo = {} /\ Goes(w, "remove")
    /\ UNCHANGED <<contents, syncCache, declared, head, oldHead, handle, writes, counts>>

\* The old entry goes, the cache follows.
CachedAfter(k) ==
    LET gone == [syncCache EXCEPT ![k.key] = Absent]
    IN  IF k.op = "rename" THEN [gone EXCEPT ![k.to] = <<k.was[2]>>] ELSE gone
RemoveEntry(w) ==
    LET k == call[w] IN
    /\ k.pc = "remove"
    /\ dict' = [dict EXCEPT ![k.key] = Absent] /\ syncCache' = CachedAfter(k)
    /\ dropped' = IF k.op = "delete" THEN dropped \cup {k.key} ELSE dropped
    /\ Goes(w, "append")
    /\ UNCHANGED <<records, ledgers, declared, handle, writes, counts>>

\* The ledger gets an entry whose payload hash is empty.
AppendEntry(w) ==
    LET k == call[w] IN
    /\ k.pc = "append"
    /\ append(handle = "old", IF k.op = "delete" THEN "delete" ELSE "put", "_dict_", k.to, 0, Stamp)
    /\ writes' = Stamp /\ Returns(w)
    /\ UNCHANGED <<records, entries, syncCache, declared, handle, counts>>

\* list: the keys, then the entries one by one into the cache; none is dropped from it.
list(w) ==
    /\ Starts(w)
    /\ call' = [call EXCEPT ![w] = [Idle EXCEPT !.op = "list", !.pc = "fetch",
                                                !.todo = {k \in Key : Exists(dict[k])}]]
    /\ UseHandle
    /\ UNCHANGED <<contents, syncCache, declared, head, oldHead, writes, counts>>
FetchEntry(w, k) ==
    LET rest == call[w].todo \ {k} IN
    /\ call[w].pc = "fetch" /\ k \in call[w].todo
    /\ syncCache' = IF Exists(dict[k]) THEN [syncCache EXCEPT ![k] = <<dict[k][2]>>] ELSE syncCache
    /\ IF rest = {} THEN Returns(w) ELSE call' = [call EXCEPT ![w].todo = rest]
    /\ UNCHANGED <<contents, declared, head, oldHead, handle, writes, counts>>
FetchedNone(w) ==
    /\ call[w].pc = "fetch" /\ call[w].todo = {} /\ Returns(w)
    /\ UNCHANGED <<contents, syncCache, declared, head, oldHead, handle, writes, counts>>

-----------------------------------------------------------------------------
Fail(w) ==
    /\ call[w].pc # "idle" /\ crashes + fails < MaxFaults /\ fails' = fails + 1 /\ Returns(w)
    /\ UNCHANGED <<contents, syncCache, declared, head, oldHead, handle, writes, crashes>>

\* A restart forgets the session: caches, heads, calls.  The next one reads the store.
NewSession ==
    /\ syncCache' = [k \in Key |-> Absent] /\ head' = Unread /\ oldHead' = Unread /\ handle' = "none"
    /\ call' = [w \in Caller |-> Idle]
    /\ declared' \in IF May("undeclared") THEN BOOLEAN ELSE {TRUE}
Crash ==
    /\ crashes + fails < MaxFaults /\ crashes' = crashes + 1 /\ NewSession /\ cache' = data
    /\ UNCHANGED <<data, behind, entries, ledger, writes, fails>>

DictNext ==
    \/ Crash
    \/ \E w \in Caller :
        \/ GetEntry(w) \/ WriteEntry(w) \/ ListReferences(w) \/ UpdatedAll(w)
        \/ RemoveEntry(w) \/ AppendEntry(w) \/ list(w) \/ FetchedNone(w) \/ Fail(w)
        \/ AccountRecord(w)
        \/ \E i \in Id :
              UpdateReference(w, i) \/ DeleteRecord(w, i) \/ \E k \in Key \cup {None} : PutRecord(w, i, k)
        \/ \E k \in Key :
            \/ put(w, k) \/ delete(w, k) \/ FetchEntry(w, k)
            \/ \E to \in Key : rename(w, k, to)

-----------------------------------------------------------------------------
\* The key of every record has an entry: also between the steps of a rename, after one that
\* failed half way and after a restart; unless the application has deleted the entry, or the
\* record's last put or delete has written the store and not come to its end, so that a rename
\* may not have found it.
Excused(i, k) == i \in behind \/ k \in dropped
KeysResolve == \A i \in Id : Exists(data[i]) => KeyOf(i) \in Usable \/ Excused(i, KeyOf(i))

\* The same with no exception.
AllResolve == \A i \in Id : Exists(data[i]) => KeyOf(i) \in Usable

\* What joins read synchronously (snapshotEntries) is what is stored, but for
\* the entry a call in flight writes.
SnapshotSound ==
    \A k \in Key : Exists(syncCache[k]) =>
        \/ Exists(dict[k]) /\ syncCache[k] = <<dict[k][2]>>
        \/ \E w \in Caller : call[w].pc # "idle" /\ k \in {call[w].key, call[w].to}
=============================================================================
