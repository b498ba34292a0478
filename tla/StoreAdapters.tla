--------------------------- MODULE StoreAdapters ---------------------------
(***************************************************************************)
(* The stores themselves: the adapters for memory, JSON files, IndexedDB,  *)
(* localStorage, DynamoDB and S3 (packages/to-...), looked at in one       *)
(* collection of one vault.  The adapters differ in which operations are   *)
(* one step of the service and which are several, and in what their page   *)
(* cursors count; an adapter is the record of these traits.                *)
(*                                                                         *)
(* A record is its version; Torn is a file between the moment writeFile  *)
(* empties it and the moment it is written.  The obfuscation of keys and   *)
(* values in the browser stores maps records one to one and is left out.   *)
(***************************************************************************)
EXTENDS Naturals, FiniteSets

CONSTANTS
    Last,         \* the record ids, in their sort order, are 1..Last
    Value, None, Torn,    \* versions
    Caller,
    Adapters,     \* the adapters to look at
    Listed,       \* how many records one listing of S3 or query of DynamoDB returns
    Allowed       \* which of Behaviours are looked at

Behaviours == {"interrupted",  \* other calls run between the steps of one
               "crash",        \* the process ends between the steps of one
               "scan"}         \* the collection is paged through

Key == 1..Last
ASSUME AdapterAssumption ==
    /\ Last \in Nat \ {0} /\ Listed \in Nat \ {0}
    /\ None # Torn /\ Value # {} /\ Value \cap {None, Torn} = {} /\ Allowed \subseteq Behaviours

Adapter(name, check, write, load, save, cursor) ==
    [name |-> name, check |-> check, write |-> write, load |-> load, save |-> save, cursor |-> cursor]

\* memory(): everything is one step; saveAll drops what it is not given.
Memory == Adapter("memory", "atomic", "atomic", "atomic", "replace", "offset")
\* jsonFile(): put reads, checks and writes the file; loadAll gives up at a missing file.
Files == Adapter("file", "before", "torn", "quits", "each", "offset")
\* createIndexedDBAdapter(): one transaction per call.
IndexedDb == Adapter("idb", "atomic", "atomic", "atomic", "merge", "offset")
\* createLocalStorageAdapter(): the Web Storage API is synchronous.
LocalStorage == Adapter("local", "atomic", "atomic", "atomic", "merge", "offset")
\* dynamo(): a condition expression checks the version; one query answers loadAll.
Dynamo == Adapter("dynamo", "atomic", "atomic", "atomic", "each", "token")
\* s3(): put gets, checks and puts the object; loadAll lists and then gets one by one.
S3 == Adapter("s3", "before", "atomic", "throws", "each", "token")

VARIABLES
    adapter,
    record,     \* what is stored
    call,       \* the calls in progress
    scan        \* a caller of listPage: cursor, what it has got, what was there all along

vars == <<adapter, record, call, scan>>

Absent == [k \in Key |-> None]
Says(how, r) == [is |-> how, records |-> r]
Idle == [op |-> "none", keys |-> {}, val |-> None, exp |-> None, pc |-> "idle",
         todo |-> {}, seen |-> Absent, res |-> Says("none", Absent), old |-> Absent]
NoScan == [on |-> FALSE, cursor |-> 0, got |-> {}, lasting |-> {}, calm |-> TRUE]

Init ==
    /\ adapter \in Adapters
    /\ record = Absent
    /\ call = [c \in Caller |-> Idle] /\ scan = NoScan

Stored == {k \in Key : record[k] # None}
First(s) == CHOOSE k \in s : \A j \in s : k <= j
\* The first n ids of a set.
Leading(s, n) == {k \in s : Cardinality({j \in s : j < k}) < n}
Visible == IF adapter.name \in {"dynamo", "s3"} THEN Leading(Stored, Listed) ELSE Stored

Is(c, op, pc) == call[c].op = op /\ call[c].pc = pc
Goto(c, q) == call' = [call EXCEPT ![c] = q]
Answer(c, how, r) ==
    Goto(c, [call[c] EXCEPT !.pc = "done", !.res = Says(how, r), !.todo = {}, !.seen = Absent,
                            !.old = Absent])
Read(q, r) == [k \in Key |-> IF k \in q.keys /\ r[k] # Torn THEN r[k] ELSE None]

\* The records change; a scan under way notes what has gone.
Write(r) ==
    /\ record' = r
    /\ scan' = [scan EXCEPT !.lasting = {k \in @ : r[k] # None},
                            !.calm = @ /\ \A k \in Key : (r[k] = None) = (record[k] = None)]
Only(k, v) == [record EXCEPT ![k] = v]

-----------------------------------------------------------------------------
(***************************************************************************)
(* The caller.                                                            *)
(***************************************************************************)
Operations ==
         [op : {"get", "delete"}, keys : {{k} : k \in Key}, val : {None}, exp : {None}]
    \cup [op : {"put"}, keys : {{k} : k \in Key}, val : Value, exp : Value \cup {None}]
    \cup [op : {"loadAll"}, keys : {Key}, val : {None}, exp : {None}]
    \cup [op : {"saveAll"}, keys : SUBSET Key, val : Value, exp : {None}]

\* The operations an adapter carries out in several steps.
Several(q) ==
    \/ q.op = "put" /\ ((adapter.check = "before" /\ q.exp # None) \/ adapter.write = "torn")
    \/ q.op = "loadAll" /\ adapter.load # "atomic"
    \/ q.op = "saveAll" /\ adapter.save = "each"

\* A page reads the records and nothing else: while a scan is on, one call at a time is
\* enough to change them.
Invoke(c) ==
    /\ call[c] = Idle /\ (scan.on => \A d \in Caller : call[d] = Idle)
    /\ \E q \in Operations :
        /\ "interrupted" \in Allowed
           \/ \A d \in Caller : call[d] = Idle \/ ~(Several(call[d]) \/ Several(q))
        /\ Goto(c, [Idle EXCEPT !.op = q.op, !.keys = q.keys, !.val = q.val, !.exp = q.exp,
                                !.pc = "start", !.old = IF Several(q) THEN record ELSE Absent])
    /\ UNCHANGED <<adapter, record, scan>>

Return(c) ==
    /\ call[c].pc = "done" /\ Goto(c, Idle) /\ UNCHANGED <<adapter, record, scan>>

\* The process ends: what has been written stays.
Crash ==
    /\ "crash" \in Allowed \/ \A c \in Caller : ~Several(call[c])
    /\ call' = [c \in Caller |-> Idle]
    /\ UNCHANGED <<adapter, record, scan>>

-----------------------------------------------------------------------------
(***************************************************************************)
(* get, put, delete.  A file that cannot be read is no record for get and  *)
(* an error for put.                                                       *)
(***************************************************************************)
Get(c) ==
    /\ Is(c, "get", "start") /\ Answer(c, "ok", Read(call[c], record))
    /\ UNCHANGED <<adapter, record, scan>>

Delete(c) ==
    /\ Is(c, "delete", "start") /\ Answer(c, "ok", Absent)
    /\ Write([k \in Key |-> IF k \in call[c].keys THEN None ELSE record[k]])
    /\ UNCHANGED adapter

PutCheck(c) ==
    LET k == First(call[c].keys) IN
    /\ Is(c, "put", "start") /\ adapter.check = "before" /\ call[c].exp # None
    /\ CASE record[k] = Torn                -> Answer(c, "error", Absent)
         [] record[k] \in {None, call[c].exp} -> Goto(c, [call[c] EXCEPT !.pc = "write"])
         [] OTHER                             -> Answer(c, "conflict", Absent)
    /\ UNCHANGED <<adapter, record, scan>>

\* (Variant: the version is not compared.)
RefusesNever(c) == FALSE

\* The condition of the service, or of the transaction, where there is one.
Refuses(c) ==
    /\ adapter.check = "atomic" /\ call[c].exp # None
    /\ record[First(call[c].keys)] \notin {None, call[c].exp}

PutWrite(c) ==
    LET k == First(call[c].keys) IN
    /\ \/ Is(c, "put", "write")
       \/ Is(c, "put", "start") /\ (adapter.check = "atomic" \/ call[c].exp = None)
    /\ \/ Refuses(c) /\ Answer(c, "conflict", Absent) /\ UNCHANGED <<record, scan>>
       \/ /\ ~Refuses(c) /\ adapter.write = "atomic"
          /\ Write(Only(k, call[c].val)) /\ Answer(c, "ok", Absent)
       \/ /\ ~Refuses(c) /\ adapter.write = "torn"
          /\ Write(Only(k, Torn)) /\ Goto(c, [call[c] EXCEPT !.pc = "content"])
    /\ UNCHANGED adapter

PutContent(c) ==
    /\ Is(c, "put", "content")
    /\ Write(Only(First(call[c].keys), call[c].val)) /\ Answer(c, "ok", Absent)
    /\ UNCHANGED adapter

-----------------------------------------------------------------------------
(***************************************************************************)
(* loadAll and saveAll.                                                   *)
(***************************************************************************)
LoadAll(c) ==
    /\ Is(c, "loadAll", "start")
    /\ IF adapter.load = "atomic"
       THEN Answer(c, "ok", [k \in Key |-> IF k \in Visible THEN record[k] ELSE None])
       ELSE Goto(c, [call[c] EXCEPT !.pc = "load", !.todo = Visible])
    /\ UNCHANGED <<adapter, record, scan>>

\* The next file or object.  jsonFile answers with the collections read so far when one
\* is missing or unreadable; s3 rejects.
LoadNext(c) ==
    LET q == call[c] k == First(q.todo) IN
    /\ Is(c, "loadAll", "load") /\ q.todo # {}
    /\ IF record[k] \in Value
       THEN Goto(c, [q EXCEPT !.todo = @ \ {k}, !.seen[k] = record[k]])
       ELSE Answer(c, IF adapter.load = "quits" THEN "ok" ELSE "error", Absent)
    /\ UNCHANGED <<adapter, record, scan>>

LoadEnd(c) ==
    /\ Is(c, "loadAll", "load") /\ call[c].todo = {} /\ Answer(c, "ok", call[c].seen)
    /\ UNCHANGED <<adapter, record, scan>>

SaveAll(c) ==
    LET q == call[c] rest == IF adapter.save = "replace" THEN Absent ELSE record IN
    /\ Is(c, "saveAll", "start")
    /\ IF adapter.save = "each"
       THEN Goto(c, [q EXCEPT !.pc = "save", !.todo = q.keys]) /\ UNCHANGED <<record, scan>>
       ELSE /\ Write([k \in Key |-> IF k \in q.keys THEN q.val ELSE rest[k]])
            /\ Answer(c, "ok", Absent)
    /\ UNCHANGED adapter

SaveNext(c) ==
    LET q == call[c] k == First(q.todo) IN
    /\ Is(c, "saveAll", "save") /\ q.todo # {}
    /\ Write(Only(k, q.val)) /\ Goto(c, [q EXCEPT !.todo = @ \ {k}])
    /\ UNCHANGED adapter

SaveEnd(c) ==
    /\ Is(c, "saveAll", "save") /\ call[c].todo = {} /\ Answer(c, "ok", Absent)
    /\ UNCHANGED <<adapter, record, scan>>

-----------------------------------------------------------------------------
(***************************************************************************)
(* listPage, one record a page.  An offset counts the ids before the page  *)
(* in the sorted listing, a token is the last key of the page before.     *)
(***************************************************************************)
ScanStart ==
    /\ "scan" \in Allowed /\ ~scan.on /\ \A c \in Caller : call[c] = Idle
    /\ scan' = [on |-> TRUE, cursor |-> 0, got |-> {}, lasting |-> Stored, calm |-> TRUE]
    /\ UNCHANGED <<adapter, record, call>>

\* The ids a page may still hold.
Rest == IF adapter.cursor = "offset" THEN Stored \ Leading(Stored, scan.cursor)
        ELSE {k \in Stored : k > scan.cursor}

ScanPage ==
    /\ scan.on /\ Rest # {}
    /\ scan' = [scan EXCEPT !.got = @ \cup {First(Rest)},
                            !.cursor = IF adapter.cursor = "offset" THEN @ + 1 ELSE First(Rest)]
    /\ UNCHANGED <<adapter, record, call>>

ScanEnd ==
    /\ scan.on /\ Rest = {} /\ scan' = NoScan
    /\ UNCHANGED <<adapter, record, call>>

-----------------------------------------------------------------------------
Handle(c) ==
    \/ Get(c) \/ Delete(c) \/ PutCheck(c) \/ PutWrite(c) \/ PutContent(c)
    \/ LoadAll(c) \/ LoadNext(c) \/ LoadEnd(c) \/ SaveAll(c) \/ SaveNext(c) \/ SaveEnd(c)

Next ==
    \/ \E c \in Caller : Invoke(c) \/ Handle(c) \/ Return(c)
    \/ ScanStart \/ ScanPage \/ ScanEnd \/ Crash

Spec == Init /\ [][Next]_vars

-----------------------------------------------------------------------------
(***************************************************************************)
(* Properties.                                                            *)
(***************************************************************************)
\* A write of several steps counts from its end.
Writing(q) ==
    q.op \in {"put", "saveAll"} /\ Several(q) /\ q.pc \in {"start", "write", "content", "save"}
Settled ==
    LET writers == {c \in Caller : Writing(call[c])}
    IN  IF writers = {} THEN record ELSE call[CHOOSE c \in writers : TRUE].old

\* A call as the contract knows it: val means nothing to the calls that write none.
Promised(q) ==
    [op |-> q.op, keys |-> q.keys,
     val |-> IF q.op \in {"put", "saveAll", "none"} THEN q.val ELSE CHOOSE v \in Value : TRUE,
     exp |-> q.exp, done |-> q.pc = "done", res |-> q.res]

\* Every adapter keeps the contract of a store as long as the operations it carries out
\* in several steps are not interrupted by others.
Contract == INSTANCE StoreContract WITH
    Version <- Value, available <- TRUE, record <- Settled,
    call <- [c \in Caller |-> Promised(call[c])]
KeepsContract == Contract!Spec

\* A scan that has come to its end has returned every record that was there all along:
\* with tokens whatever is written meanwhile, with offsets when no record comes or goes.
ScanComplete ==
    scan.on /\ Rest = {} /\ (adapter.cursor = "token" \/ scan.calm) => scan.lasting \subseteq scan.got

\* The same without the exception for offsets.  (Not what the code does.)
ScanCompleteAlways == scan.on /\ Rest = {} => scan.lasting \subseteq scan.got

\* No file is left torn once no call is under way.  (Not what the code does when it is
\* interrupted.)
NothingTorn == (\A c \in Caller : call[c] = Idle) => \A k \in Key : record[k] # Torn
=============================================================================
