------------------------------ MODULE BlobSet ------------------------------
(***************************************************************************)
(* BlobSet (packages/hub/src/blob-set.ts): files attached to records.      *)
(* The bytes of a file are stored once under their eTag, as an index entry *)
(* with a reference count and numbered chunks; a record's slots name eTags *)
(* in one document per record, and a published version of a slot is a      *)
(* document of its own.  The index entry and the slots are updated by      *)
(* compare and set: read, change, write with the version read, again after *)
(* a conflict.  Every access to the store is a step of its own.            *)
(*                                                                         *)
(* A content is its eTag.  It is cut into as many chunks as the chunk size *)
(* of the put asks for; every chunk is bound to their number.  There is no *)
(* blobGC in the code: a count of 0 deletes nothing.                       *)
(***************************************************************************)
EXTENDS Naturals, FiniteSets

CONSTANTS
    Caller, Record, Slot, ETag, Label, None,
    Counts,        \* into how many chunks a put may cut its content
    MaxTries,      \* MAX_CAS_RETRIES
    MaxOps, MaxCuts,    \* bounds
    Allowed        \* which of Behaviours are looked at

Behaviours ==
    {"firstUpload",  \* uploads of a content that has no index entry yet overlap
     "firstSlot",    \* calls of a record that has no slots document yet overlap
     "samePut",      \* a slot is given the content it has
     "sameLabel",    \* publishes of one label of a slot, or a deleteVersion of it, overlap
     "publishCut",   \* a publish ends between its version record and its count
     "sharedHandle"} \* the callers share one BlobSet object

BlobAssumption ==
    /\ \A S \in {Caller, Record, Slot, Label} : IsFiniteSet(S) /\ None \notin S
    /\ Counts \subseteq 1..2 /\ None \notin ETag
    /\ MaxTries \in Nat \ {0} /\ {MaxOps, MaxCuts} \subseteq Nat /\ Allowed \subseteq Behaviours

VARIABLES
    index,       \* _blob_index: version (0: no entry), refCount, chunkCount
    chunk,       \* _blob_chunks: the chunk count each chunk is bound to, 0 where there is none
    slots,       \* _blob_slots_*: version (0: no document) and the eTag of each slot
    published,   \* _blob_versions_*: the eTag of each label of a slot
    deferred,    \* _deferredRefDecrement of each BlobSet object
    call,        \* the calls in progress
    ops, cuts,
    contested    \* history: a write of slots was refused, or an update of a count given up

store == <<index, chunk, slots, published>>
vars == <<store, deferred, call, ops, cuts, contested>>

Idle == [op |-> "none", pc |-> "idle", rec |-> None, slot |-> None, label |-> None, tag |-> None,
         count |-> 0, delta |-> 0, ver |-> 0, seen |-> [s \in Slot |-> None], ref |-> 0,
         old |-> None, tries |-> 0]
Handle == IF "sharedHandle" \in Allowed THEN {None} ELSE Caller
HandleOf(c) == IF "sharedHandle" \in Allowed THEN None ELSE c

Init ==
    /\ index = [e \in ETag |-> [ver |-> 0, ref |-> 0, count |-> 0]]
    /\ chunk = [e \in ETag |-> [i \in 1..2 |-> 0]]
    /\ slots = [r \in Record |-> [ver |-> 0, map |-> [s \in Slot |-> None]]]
    /\ published = [r \in Record |-> [s \in Slot |-> [l \in Label |-> None]]]
    /\ deferred = [h \in Handle |-> None]
    /\ call = [c \in Caller |-> Idle] /\ ops = 0 /\ cuts = 0 /\ contested = FALSE

At(c, pc) == call[c].pc = pc
Goto(c, q) == call' = [call EXCEPT ![c] = q]
Ends(c) == Goto(c, Idle)

-----------------------------------------------------------------------------
(***************************************************************************)
(* casUpdateRefCount and casUpdateSlots.                                   *)
(***************************************************************************)
RefLoad(c) ==
    LET q == call[c] e == index[q.tag] IN
    /\ At(c, "refLoad")
    /\ IF e.ver = 0 THEN Ends(c)
       ELSE Goto(c, [q EXCEPT !.pc = "refStore", !.ver = e.ver, !.ref = e.ref])
    /\ UNCHANGED <<store, deferred, ops, cuts, contested>>

\* What follows an update of a count: slots, the count of a replaced content, or nothing.
AfterRef(q) ==
    IF q.op = "put" /\ q.delta = 1 THEN [q EXCEPT !.pc = "slotLoad", !.tries = 1, !.ref = 0, !.ver = 0]
    ELSE IF q.op = "publish" /\ q.delta = 1 /\ q.old # None
    THEN [q EXCEPT !.pc = "refLoad", !.tag = q.old, !.old = None, !.delta = 0, !.tries = 1]
    ELSE Idle

\* delta 1 increments, 0 decrements.
RefStore(c) ==
    LET q == call[c] e == index[q.tag] IN
    /\ At(c, "refStore")
    /\ IF e.ver = q.ver
       THEN /\ index' = [index EXCEPT ![q.tag].ver = q.ver + 1,
                                      ![q.tag].ref = IF q.delta = 1 THEN q.ref + 1 ELSE q.ref - 1]
            /\ Goto(c, AfterRef(q)) /\ UNCHANGED contested
       ELSE /\ Goto(c, IF q.tries < MaxTries THEN [q EXCEPT !.pc = "refLoad", !.tries = @ + 1] ELSE Idle)
            /\ contested' = (contested \/ q.tries = MaxTries) /\ UNCHANGED index
    /\ UNCHANGED <<chunk, slots, published, deferred, ops, cuts>>

\* (Variant: the slots document is made anew instead of from the one that was read.)
SlotLoadAnew(c) ==
    LET q == call[c] d == slots[q.rec] has == d.map[q.slot] IN
    /\ At(c, "slotLoad") /\ q.op \in {"put", "delete"}
    /\ Goto(c, [q EXCEPT !.pc = "slotStore", !.ver = d.ver,
                         !.seen = [s \in Slot |-> IF s = q.slot /\ q.op = "put" THEN q.tag ELSE None]])
    /\ UNCHANGED <<store, deferred, ops, cuts, contested>>

\* The mutations of put and delete; delete of a slot that is not there changes nothing, but
\* keeps what an earlier attempt has noted.
SlotLoad(c) ==
    LET q == call[c] d == slots[q.rec] has == d.map[q.slot]
        old == IF q.op = "put" THEN (IF has \notin {None, q.tag} THEN has ELSE q.old)
               ELSE IF has = None THEN q.old ELSE has
    IN
    /\ At(c, "slotLoad") /\ q.op \in {"put", "delete"}
    /\ IF q.op = "delete" /\ has = None
       THEN /\ Goto(c, IF q.old = None THEN Idle
                       ELSE [q EXCEPT !.pc = "refLoad", !.tag = q.old, !.delta = 0, !.tries = 1])
            /\ UNCHANGED deferred
       ELSE /\ Goto(c, [q EXCEPT !.pc = "slotStore", !.ver = d.ver, !.old = old,
                                 !.seen = [d.map EXCEPT ![q.slot] = IF q.op = "put" THEN q.tag ELSE None]])
            /\ deferred' = IF q.op = "put" /\ has \notin {None, q.tag}
                           THEN [deferred EXCEPT ![HandleOf(c)] = has] ELSE deferred
    /\ UNCHANGED <<store, ops, cuts, contested>>

\* The count of the content that a put or delete has replaced is decremented next.
AfterSlot(c) ==
    LET q == call[c] old == IF q.op = "put" THEN deferred[HandleOf(c)] ELSE q.old IN
    /\ Goto(c, IF old = None THEN Idle
               ELSE [q EXCEPT !.pc = "refLoad", !.tag = old, !.old = None, !.delta = 0, !.tries = 1,
                              !.seen = [s \in Slot |-> None]])
    /\ deferred' = IF q.op = "put" THEN [deferred EXCEPT ![HandleOf(c)] = None] ELSE deferred

SlotStore(c) ==
    LET q == call[c] d == slots[q.rec] IN
    /\ At(c, "slotStore")
    /\ IF q.ver = 0 \/ d.ver = q.ver
       THEN /\ slots' = [slots EXCEPT ![q.rec] = [ver |-> q.ver + 1, map |-> q.seen]]
            /\ AfterSlot(c) /\ UNCHANGED contested
       ELSE /\ Goto(c, IF q.tries < MaxTries THEN [q EXCEPT !.pc = "slotLoad", !.tries = @ + 1] ELSE Idle)
            /\ contested' = TRUE /\ UNCHANGED <<slots, deferred>>
    /\ UNCHANGED <<index, chunk, published, ops, cuts>>

-----------------------------------------------------------------------------
(***************************************************************************)
(* put: the chunks, the index entry, the slots, in this order.             *)
(***************************************************************************)
Begin(c, q) ==
    /\ call[c] = Idle /\ ops < MaxOps /\ ops' = ops + 1 /\ Goto(c, q)
    /\ "firstSlot" \in Allowed \/ slots[q.rec].ver # 0
       \/ \A d \in Caller : call[d].rec # q.rec
    /\ UNCHANGED <<store, deferred, cuts, contested>>

BeginPut(c, r, s, e, n) ==
    /\ "samePut" \in Allowed
       \/ (slots[r].map[s] # e /\ \A d \in Caller : ~(call[d].rec = r /\ call[d].slot = s))
    /\ "firstUpload" \in Allowed \/ index[e].ver # 0 \/ \A d \in Caller : call[d].tag # e
    /\ Begin(c, [Idle EXCEPT !.op = "put", !.pc = "lookup", !.rec = r, !.slot = s, !.tag = e,
                             !.count = n, !.delta = 1])

\* (Variant: a content that is already there is not counted again.)
LookupUncounted(c) ==
    LET q == call[c] IN
    /\ At(c, "lookup")
    /\ Goto(c, IF index[q.tag].ver # 0 THEN [q EXCEPT !.pc = "slotLoad", !.tries = 1, !.count = 0]
               ELSE [q EXCEPT !.pc = "chunk", !.tries = 1])
    /\ UNCHANGED <<store, deferred, ops, cuts, contested>>

Lookup(c) ==
    LET q == call[c] IN
    /\ At(c, "lookup")
    /\ Goto(c, IF index[q.tag].ver # 0 THEN [q EXCEPT !.pc = "refLoad", !.tries = 1, !.count = 0]
               ELSE [q EXCEPT !.pc = "chunk", !.tries = 1])
    /\ UNCHANGED <<store, deferred, ops, cuts, contested>>

\* tries counts the chunks here.
WriteChunk(c) ==
    LET q == call[c] IN
    /\ At(c, "chunk") /\ chunk' = [chunk EXCEPT ![q.tag][q.tries] = q.count]
    /\ Goto(c, IF q.tries < q.count THEN [q EXCEPT !.tries = @ + 1] ELSE [q EXCEPT !.pc = "index"])
    /\ UNCHANGED <<index, slots, published, deferred, ops, cuts, contested>>

\* The index entry of a new content is written without an expected version.
WriteIndex(c) ==
    LET q == call[c] IN
    /\ At(c, "index")
    /\ index' = [index EXCEPT ![q.tag] = [ver |-> 1, ref |-> 1, count |-> q.count]]
    /\ Goto(c, [q EXCEPT !.pc = "slotLoad", !.tries = 1, !.count = 0])
    /\ UNCHANGED <<chunk, slots, published, deferred, ops, cuts, contested>>

BeginDelete(c, r, s) ==
    Begin(c, [Idle EXCEPT !.op = "delete", !.pc = "slotLoad", !.rec = r, !.slot = s, !.tries = 1])

-----------------------------------------------------------------------------
(***************************************************************************)
(* publish and deleteVersion.                                              *)
(***************************************************************************)
Free(r, s, l) == "sameLabel" \in Allowed
    \/ \A d \in Caller : ~(call[d].rec = r /\ call[d].slot = s /\ call[d].label = l)

BeginPublish(c, r, s, l) ==
    Free(r, s, l) /\
    Begin(c, [Idle EXCEPT !.op = "publish", !.pc = "slotLoad", !.rec = r, !.slot = s, !.label = l])

PublishSlot(c) ==
    LET q == call[c] has == slots[q.rec].map[q.slot] IN
    /\ At(c, "slotLoad") /\ q.op = "publish"
    /\ IF has = None THEN Ends(c) ELSE Goto(c, [q EXCEPT !.pc = "verLoad", !.tag = has])
    /\ UNCHANGED <<store, deferred, ops, cuts, contested>>

VersionLoad(c) ==
    LET q == call[c] has == published[q.rec][q.slot][q.label] IN
    /\ At(c, "verLoad") /\ q.op # "get"
    /\ IF has = (IF q.op = "publish" THEN q.tag ELSE None) THEN Ends(c)
       ELSE Goto(c, [q EXCEPT !.pc = "verStore", !.old = has])
    /\ UNCHANGED <<store, deferred, ops, cuts, contested>>

\* publish writes the version record and then counts; deleteVersion deletes it and then counts.
VersionStore(c) ==
    LET q == call[c] IN
    /\ At(c, "verStore")
    /\ published' = [published EXCEPT ![q.rec][q.slot][q.label] = q.tag]
    /\ Goto(c, IF q.op = "publish" THEN [q EXCEPT !.pc = "refLoad", !.delta = 1, !.tries = 1]
               ELSE [q EXCEPT !.pc = "refLoad", !.tag = q.old, !.old = None, !.delta = 0, !.tries = 1])
    /\ UNCHANGED <<index, chunk, slots, deferred, ops, cuts, contested>>

BeginDeleteVersion(c, r, s, l) ==
    Free(r, s, l) /\
    Begin(c, [Idle EXCEPT !.op = "deleteVersion", !.pc = "verLoad", !.rec = r, !.slot = s, !.label = l])

-----------------------------------------------------------------------------
(***************************************************************************)
(* get and getVersion: the slot or the version record, the index entry,    *)
(* the chunks one by one.  tries counts the chunks.                        *)
(***************************************************************************)
BeginGet(c, r, s) ==
    Begin(c, [Idle EXCEPT !.op = "get", !.pc = "slotLoad", !.rec = r, !.slot = s])

BeginGetVersion(c, r, s, l) ==
    Begin(c, [Idle EXCEPT !.op = "get", !.pc = "verLoad", !.rec = r, !.slot = s, !.label = l])

GetName(c) ==
    LET q == call[c]
        has == IF q.pc = "slotLoad" THEN slots[q.rec].map[q.slot] ELSE published[q.rec][q.slot][q.label] IN
    /\ q.op = "get" /\ q.pc \in {"slotLoad", "verLoad"}
    /\ IF has = None THEN Ends(c) ELSE Goto(c, [q EXCEPT !.pc = "getIndex", !.tag = has])
    /\ UNCHANGED <<store, deferred, ops, cuts, contested>>

GetIndex(c) ==
    LET q == call[c] e == index[q.tag] IN
    /\ At(c, "getIndex")
    /\ IF e.ver = 0 THEN Ends(c) ELSE Goto(c, [q EXCEPT !.pc = "getChunk", !.count = e.count, !.tries = 1])
    /\ UNCHANGED <<store, deferred, ops, cuts, contested>>

\* A chunk that is not there, or is bound to another number of chunks, is an error of the get.
GetChunk(c) ==
    LET q == call[c] IN
    /\ At(c, "getChunk")
    /\ Goto(c, IF chunk[q.tag][q.tries] # q.count THEN [q EXCEPT !.pc = "missing"]
               ELSE IF q.tries < q.count THEN [q EXCEPT !.tries = @ + 1] ELSE Idle)
    /\ UNCHANGED <<store, deferred, ops, cuts, contested>>

\* A call of the store fails, or the process of the caller ends.
Cut(c) ==
    /\ call[c] # Idle /\ cuts < MaxCuts /\ cuts' = cuts + 1
    /\ "publishCut" \in Allowed
       \/ ~(call[c].op = "publish" /\ call[c].delta = 1 /\ call[c].pc \in {"refLoad", "refStore"})
    /\ Ends(c) /\ deferred' = [deferred EXCEPT ![HandleOf(c)] = None]
    /\ UNCHANGED <<store, ops, contested>>

-----------------------------------------------------------------------------
Progress(c) ==
    \/ RefLoad(c) \/ RefStore(c) \/ SlotLoad(c) \/ SlotStore(c)
    \/ Lookup(c) \/ WriteChunk(c) \/ WriteIndex(c)
    \/ PublishSlot(c) \/ VersionLoad(c) \/ VersionStore(c)
    \/ GetName(c) \/ GetIndex(c) \/ GetChunk(c)

Next ==
    \/ \E c \in Caller, r \in Record, s \in Slot, e \in ETag, n \in Counts : BeginPut(c, r, s, e, n)
    \/ \E c \in Caller, r \in Record, s \in Slot : BeginDelete(c, r, s) \/ BeginGet(c, r, s)
    \/ \E c \in Caller, r \in Record, s \in Slot, l \in Label :
          BeginPublish(c, r, s, l) \/ BeginDeleteVersion(c, r, s, l) \/ BeginGetVersion(c, r, s, l)
    \/ \E c \in Caller : Progress(c) \/ Cut(c)

Spec == Init /\ [][Next]_vars

-----------------------------------------------------------------------------
(***************************************************************************)
(* Properties.                                                            *)
(***************************************************************************)
References(e) ==
      Cardinality({x \in Record \X Slot : slots[x[1]].map[x[2]] = e})
    + Cardinality({x \in Record \X Slot \X Label : published[x[1]][x[2]][x[3]] = e})

\* The publishes that have written their version record and not yet counted it.
Uncounted(e) == {c \in Caller : /\ call[c].op = "publish" /\ call[c].tag = e /\ call[c].delta = 1
                                /\ call[c].pc \in {"refLoad", "refStore"}}

\* The count of a content never falls short of the slots and published versions that name it,
\* so that whoever deletes contents without references deletes nothing that is used; uploads,
\* deletes and publishes of several callers may overlap and end half way.  (A put or delete
\* whose write of the slots was refused may decrement twice: what an attempt has noted for
\* the decrement stays noted in the next.)
RefCountCovers ==
    ~contested => \A e \in ETag : index[e].ref + Cardinality(Uncounted(e)) >= References(e)

\* The same, also after a write of slots was refused.
CoversAlways ==
    \A e \in ETag : index[e].ref + Cardinality(Uncounted(e)) >= References(e)

\* When every call has come to its end, the count is exact.
RefCountExact ==
    (~contested /\ cuts = 0 /\ \A c \in Caller : call[c] = Idle)
        => \A e \in ETag : index[e].ref = References(e)

\* What a slot or a version names can be read: its entry and its chunks are there, bound to
\* the number the entry gives; a get that overlaps uploads and deletes misses no chunk either.
Readable ==
    /\ \A e \in ETag : References(e) > 0 =>
           /\ index[e].ver # 0
           /\ \A i \in 1..index[e].count : chunk[e][i] = index[e].count
    /\ \A c \in Caller : ~At(c, "missing")

\* A call changes its own slot and no other: nobody's upload is lost to another one's.
SlotsKept ==
    [][\A r \in Record, s \in Slot : slots'[r].map[s] # slots[r].map[s] =>
          \E c \in Caller : At(c, "slotStore") /\ call[c].rec = r /\ call[c].slot = s /\ call'[c] # call[c]
      ]_vars
=============================================================================
