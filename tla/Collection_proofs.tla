------------------------ MODULE Collection_proofs ------------------------
(***************************************************************************)
(* Proofs about Collection: whatever overlaps, fails or is cut off, the   *)
(* ledger's indices have no gap; a single writer keeps the hash chain     *)
(* intact and never changes an entry; and when its calls come to their    *)
(* end, the readers of the ledger find what was written.                  *)
(***************************************************************************)
EXTENDS Collection, FiniteSetTheorems, WellFoundedInduction, TLAPS

-----------------------------------------------------------------------------
(* Types.                                                                  *)

LEMMA Bounds ==
    /\ MaxOps \in Nat /\ MaxSyncs \in Nat
    /\ 0 \in Write /\ \A n \in 0..MaxOps : n \in Write
    /\ \A n \in 0..MaxSyncs : n < MaxSyncs => MaxOps + n + 1 \in Write
    /\ AnyRecord \in Record /\ AnyHandle \in Handle
<1>1. AnyRecord \in Record /\ AnyHandle \in Handle
  BY CollectionAssumption DEF AnyRecord, AnyHandle
<1> QED
  BY <1>1, CollectionAssumption DEF Write

LEMMA IdleType == Idle \in CallType /\ Missing \in Envelope /\ NotLoaded \in Head
  BY Bounds DEF Idle, CallType, Missing, Envelope, NotLoaded, Head, Pc

LEMMA CallKept ==
    ASSUME TypeOK, NEW c \in Caller, NEW k \in CallType, call' = [call EXCEPT ![c] = k]
    PROVE  call' \in [Caller -> CallType]
BY DEF TypeOK

LEMMA RememberedType ==
    ASSUME TypeOK, NEW h \in Handle, NEW r \in Record, NEW env \in Envelope,
           NEW C \in Remembered(h, r, env)
    PROVE  C \in [Handle -> [Record -> Envelope]]
<1> DEFINE full == [cache EXCEPT ![h][r] = env]
<1>1. full \in [Handle -> [Record -> Envelope]]
  BY DEF TypeOK
<1>2. \A K \in SUBSET Record :
        [full EXCEPT ![h] = [q \in Record |-> IF q \in K THEN @[q] ELSE Missing]]
          \in [Handle -> [Record -> Envelope]]
  BY <1>1, IdleType
<1> QED
  BY <1>1, <1>2 DEF Remembered

(* A call moves on outside LedgerStore.append, or ends; the ledger and its *)
(* cached heads stay as they are.                                          *)
InAppend == {"hash", "delta", "entry", "done"}
Writing  == {"history", "peek", "write", "head"}
GetReads == \A c \in Caller : call[c].op = "get" => call[c].pc \notin Writing \cup InAppend
MovesTo(c, k) ==
    /\ k \in CallType /\ call' = [call EXCEPT ![c] = k]
    /\ \/ k.pc = "idle"
       \/ /\ call[c].pc \notin InAppend \cup {"idle"} /\ k.pc \notin InAppend \cup {"idle"}
          /\ k.n = call[c].n /\ k.h = call[c].h /\ k.op = call[c].op
          /\ k.op = "get" => k.pc \notin Writing
Moves(c) == UNCHANGED <<ledger, head, ops>> /\ \E k \in CallType : MovesTo(c, k)

LEMMA GotoMoves ==
    ASSUME TypeOK, NEW c \in Caller, NEW pc \in Pc, Goto(c, pc), pc \notin InAppend \cup {"idle"},
           call[c].pc \notin InAppend \cup {"idle"}, call[c].op = "get" => pc \notin Writing
    PROVE  \E k \in CallType : MovesTo(c, k)
<1> DEFINE k == [call[c] EXCEPT !.pc = pc]
<1>1. call[c] \in CallType
  BY DEF TypeOK
<1>2. k \in CallType
  BY <1>1 DEF CallType
<1>3. call' = [call EXCEPT ![c] = k]
  BY <1>1 DEF Goto, TypeOK
<1>4. k.pc = pc /\ k.n = call[c].n /\ k.h = call[c].h /\ k.op = call[c].op
  BY <1>1 DEF CallType
<1> HIDE DEF k
<1> QED
  BY <1>2, <1>3, <1>4 DEF MovesTo

LEMMA ReturnMoves ==
    ASSUME TypeOK, NEW c \in Caller, Return(c)
    PROVE  \E k \in CallType : MovesTo(c, k)
<1>1. Idle.pc = "idle"
  BY DEF Idle
<1> QED
  BY <1>1, IdleType DEF MovesTo, Return

LEMMA HydrateMoves ==
    ASSUME TypeOK, NEW c \in Caller,
           HydrateList(c) \/ (\E r \in Record : HydrateRead(c, r)) \/ HydrateSet(c) \/ HydrateEnd(c)
    PROVE  Moves(c) /\ TypeOK'
<1> USE DEF Moves, InAppend, Writing
<1>0. call[c] \in CallType
  BY DEF TypeOK
<1>1. CASE HydrateList(c)
  <2> DEFINE X == {r \in Record : Exists(store[r])}
             k == [call[c] EXCEPT !.pc = "hydrate", !.todo = X]
  <2>1. call' = [call EXCEPT ![c] = k]
    BY <1>1 DEF HydrateList, TypeOK
  <2>2. X \in SUBSET Record
    OBVIOUS
  <2> HIDE DEF X
  <2>3. k \in CallType /\ k.pc = "hydrate" /\ k.n = call[c].n /\ k.h = call[c].h /\ k.op = call[c].op
    BY <1>0, <2>2 DEF CallType, Pc
  <2> HIDE DEF k
  <2>4. MovesTo(c, k)
    BY <1>1, <2>1, <2>3 DEF MovesTo, HydrateList
  <2> QED
    BY ZenonT(60), <1>1, <2>3, <2>4 DEF HydrateList, memory, disk, counts, TypeOK, MovesTo
<1>2. ASSUME NEW r \in Record, HydrateRead(c, r)
      PROVE  Moves(c) /\ TypeOK'
  <2> DEFINE X == call[c].todo \ {r}
             k == [call[c] EXCEPT !.pc = "decrypt", !.todo = X, !.rec = r, !.env = store[r]]
  <2>1. call' = [call EXCEPT ![c] = k]
    BY <1>2 DEF HydrateRead, TypeOK
  <2>2. X \in SUBSET Record
    BY <1>0 DEF CallType
  <2>3. store[r] \in Envelope
    BY DEF TypeOK
  <2> HIDE DEF X
  <2>4. k \in CallType /\ k.pc = "decrypt" /\ k.n = call[c].n /\ k.h = call[c].h /\ k.op = call[c].op
    BY <1>0, <2>2, <2>3 DEF CallType, Pc
  <2> HIDE DEF k
  <2>5. MovesTo(c, k)
    BY <1>2, <2>1, <2>4 DEF MovesTo, HydrateRead
  <2>6. call' \in [Caller -> CallType]
    BY <2>1, <2>4, CallKept
  <2> QED
    BY <1>2, <2>4, <2>5, <2>6 DEF HydrateRead, memory, disk, counts, TypeOK
<1>3. CASE HydrateSet(c)
  <2> DEFINE k == [call[c] EXCEPT !.pc = "hydrate", !.rec = AnyRecord, !.env = Missing]
  <2>1. call' = [call EXCEPT ![c] = k]
    BY <1>3 DEF HydrateSet, TypeOK
  <2>2. k \in CallType /\ k.pc = "hydrate" /\ k.n = call[c].n /\ k.h = call[c].h /\ k.op = call[c].op
    BY <1>0, IdleType, Bounds DEF CallType, Pc
  <2>3. call[c].env \in Envelope /\ call[c].h \in Handle /\ call[c].rec \in Record
    BY <1>0 DEF CallType
  <2>4. cache' \in [Handle -> [Record -> Envelope]]
    BY <1>3, <2>3 DEF HydrateSet, TypeOK
  <2> HIDE DEF k
  <2>5. MovesTo(c, k)
    BY <1>3, <2>1, <2>2 DEF MovesTo, HydrateSet
  <2> QED
    BY ZenonT(60), <1>3, <2>2, <2>4, <2>5, CallKept DEF HydrateSet, memory, disk, counts, TypeOK, MovesTo
<1>4. CASE HydrateEnd(c)
  <2>1. \E k \in CallType : MovesTo(c, k)
    BY <1>4, GotoMoves DEF HydrateEnd, Pc
  <2> QED
    BY <1>4, <2>1 DEF HydrateEnd, memory, disk, counts, TypeOK, MovesTo
<1> QED
  BY <1>1, <1>2, <1>3, <1>4

LEMMA ReadMoves ==
    ASSUME TypeOK, NEW c \in Caller, Fetch(c) \/ FetchedGet(c) \/ GetEnds(c)
    PROVE  Moves(c) /\ TypeOK'
<1> USE DEF Moves, InAppend, Writing
<1>0. call[c] \in CallType
  BY DEF TypeOK
<1>1. CASE Fetch(c)
  <2>1. CASE Exists(store[call[c].id])
    <3> DEFINE k == [call[c] EXCEPT !.pc = "fetched", !.env = store[call[c].id]]
    <3>1. call' = [call EXCEPT ![c] = k]
      BY <1>1, <2>1 DEF Fetch, TypeOK
    <3>2. store[call[c].id] \in Envelope
      BY <1>0 DEF TypeOK, CallType
    <3>3. k \in CallType /\ k.pc = "fetched" /\ k.n = call[c].n /\ k.h = call[c].h /\ k.op = call[c].op
      BY <1>0, <3>2 DEF CallType, Pc
    <3> HIDE DEF k
    <3>4. MovesTo(c, k)
      BY <1>1, <3>1, <3>3 DEF MovesTo, Fetch
    <3> QED
      BY <1>1, <3>1, <3>3, <3>4, CallKept DEF Fetch, memory, disk, counts, TypeOK
  <2>2. CASE ~Exists(store[call[c].id])
    <3>1. \E k \in CallType : MovesTo(c, k)
      BY <1>1, <2>2, GotoMoves, ReturnMoves DEF Fetch, Pc
    <3> QED
      BY <1>1, <3>1, CallKept DEF Fetch, memory, disk, counts, TypeOK, MovesTo
  <2> QED
    BY <2>1, <2>2
<1>2. CASE FetchedGet(c)
  <2>1. \E k \in CallType : MovesTo(c, k)
    BY <1>2, ReturnMoves DEF FetchedGet
  <2>2. call[c].env \in Envelope /\ call[c].h \in Handle /\ call[c].id \in Record
    BY <1>0 DEF CallType
  <2>3. cache' \in [Handle -> [Record -> Envelope]]
    BY <1>2, <2>2, RememberedType DEF FetchedGet
  <2> QED
    BY <1>2, <2>1, <2>3, CallKept DEF FetchedGet, disk, counts, TypeOK, MovesTo
<1>3. CASE GetEnds(c)
  <2>1. \E k \in CallType : MovesTo(c, k)
    BY <1>3, ReturnMoves DEF GetEnds
  <2> QED
    BY <1>3, <2>1, CallKept DEF GetEnds, memory, disk, counts, TypeOK, MovesTo
<1> QED
  BY <1>1, <1>2, <1>3

LEMMA PrepareMoves ==
    ASSUME TypeOK, GetReads, NEW c \in Caller, Resolve(c) \/ SaveHistory(c) \/ Peek(c)
    PROVE  Moves(c) /\ TypeOK'
<1> USE DEF Moves, InAppend, Writing
<1>0. call[c] \in CallType
  BY DEF TypeOK
<1>1. CASE Resolve(c)
  <2> DEFINE X == Existing(c)
             p == IF Exists(X) THEN "history" ELSE AfterHistory(call[c].op)
             k == [call[c] EXCEPT !.ex = X, !.env = Missing, !.pc = p]
  <2>1. call' = [call EXCEPT ![c] = k]
    BY <1>1 DEF Resolve, TypeOK
  <2>2. X \in Envelope
    BY <1>0 DEF Existing, TypeOK, CallType
  <2>3. p \in {"history", "write", "peek"}
    BY DEF AfterHistory
  <2> HIDE DEF X, p
  <2>4. k \in CallType /\ k.pc = p /\ k.n = call[c].n /\ k.h = call[c].h /\ k.op = call[c].op
    BY <1>0, <2>2, <2>3, IdleType DEF CallType, Pc
  <2> HIDE DEF k
  <2>5. MovesTo(c, k)
    BY <1>1, <2>1, <2>3, <2>4 DEF MovesTo, Resolve
  <2> QED
    BY ZenonT(60), <1>1, <2>4, <2>5, CallKept DEF Resolve, memory, disk, counts, TypeOK, MovesTo
<1>2. CASE SaveHistory(c)
  <2>1. AfterHistory(call[c].op) \in {"write", "peek"}
    BY DEF AfterHistory
  <2>2. \E k \in CallType : MovesTo(c, k)
    BY <1>2, <2>1, GotoMoves DEF SaveHistory, Pc, GetReads
  <2>3. call[c].ex.w \in Write /\ call[c].id \in Record
    BY <1>0 DEF CallType, Envelope
  <2>4. history' \in [Record -> [1..(MaxOps + MaxSyncs) -> Write]]
    BY <1>2, <2>3 DEF SaveHistory, TypeOK
  <2> QED
    BY <1>2, <2>2, <2>4, CallKept DEF SaveHistory, memory, counts, TypeOK, MovesTo
<1>3. CASE Peek(c)
  <2> DEFINE X == store[call[c].id].w
             k == [call[c] EXCEPT !.pc = "write", !.payload = X]
  <2>1. call' = [call EXCEPT ![c] = k]
    BY <1>3 DEF Peek, TypeOK
  <2>2. X \in Write
    BY <1>0 DEF TypeOK, CallType, Envelope
  <2> HIDE DEF X
  <2>3. k \in CallType /\ k.pc = "write" /\ k.n = call[c].n /\ k.h = call[c].h /\ k.op = call[c].op
    BY <1>0, <2>2 DEF CallType, Pc
  <2> HIDE DEF k
  <2>4. MovesTo(c, k)
    BY <1>3, <2>1, <2>3 DEF MovesTo, Peek, GetReads
  <2> QED
    BY ZenonT(60), <1>3, <2>3, <2>4, CallKept DEF Peek, memory, disk, counts, TypeOK, MovesTo
<1> QED
  BY <1>1, <1>2, <1>3

LEMMA WriteMoves ==
    ASSUME TypeOK, GetReads, NEW c \in Caller, WritePut(c) \/ WriteDelete(c) \/ Fail(c)
    PROVE  Moves(c) /\ TypeOK'
<1> USE DEF Moves, InAppend, Writing
<1>0. call[c] \in CallType
  BY DEF TypeOK
<1>1. CASE WritePut(c)
  <2> DEFINE k == [call[c] EXCEPT !.pc = "head", !.payload = call[c].n]
  <2>1. call' = [call EXCEPT ![c] = k]
    BY <1>1 DEF WritePut, TypeOK
  <2>2. /\ k \in CallType /\ k.pc = "head" /\ k.n = call[c].n /\ k.h = call[c].h /\ k.op = call[c].op
        /\ call[c].n \in Write /\ call[c].id \in Record /\ call[c].ex.v \in Nat
    BY <1>0 DEF CallType, Pc, Envelope
  <2>3. store' \in [Record -> Envelope]
    BY <1>1, <2>2 DEF WritePut, TypeOK, Envelope
  <2> HIDE DEF k
  <2>4. MovesTo(c, k)
    BY <1>1, <2>1, <2>2 DEF MovesTo, WritePut, GetReads
  <2> QED
    BY ZenonT(60), <1>1, <2>2, <2>3, <2>4, CallKept DEF WritePut, memory, counts, TypeOK, MovesTo
<1>2. CASE WriteDelete(c)
  <2>1. \E k \in CallType : MovesTo(c, k)
    BY <1>2, GotoMoves DEF WriteDelete, Pc, GetReads
  <2>2. store' \in [Record -> Envelope]
    BY <1>2, IdleType DEF WriteDelete, TypeOK
  <2> QED
    BY <1>2, <2>1, <2>2, CallKept DEF WriteDelete, memory, counts, TypeOK, MovesTo
<1>3. CASE Fail(c)
  <2>1. \E k \in CallType : MovesTo(c, k)
    BY <1>3, ReturnMoves DEF Fail
  <2>2. fails' \in 0..MaxFails
    BY <1>3, CollectionAssumption DEF Fail, TypeOK
  <2> QED
    BY <1>3, <2>1, <2>2, CallKept DEF Fail, memory, disk, TypeOK, MovesTo
<1> QED
  BY <1>1, <1>2, <1>3

-----------------------------------------------------------------------------
(* The steps of LedgerStore.append.                                        *)

Covered(x) == \A j \in Index : j < x => ledger[j] # NoEntry
Prefix     == \E n \in Nat : \A i \in Index : ledger[i] # NoEntry <=> i < n

LEMMA LastUsedIs ==
    ASSUME TypeOK, Prefix, Used # {}
    PROVE  /\ LastUsed \in Index /\ ledger[LastUsed] \in Entry /\ Covered(LastUsed + 1)
           /\ ledger[LastUsed] # NoEntry
           /\ \A j \in Index : j > LastUsed => ledger[j] = NoEntry
<1>1. PICK n \in Nat : \A i \in Index : ledger[i] # NoEntry <=> i < n
  BY DEF Prefix
<1> DEFINE m == IF n < MaxOps THEN n - 1 ELSE MaxOps - 1
<1>2. m \in Used /\ \A j \in Used : j <= m
  BY <1>1, CollectionAssumption DEF Used, Index
<1>3. LastUsed \in Used /\ \A j \in Used : j <= LastUsed
  BY <1>2 DEF LastUsed
<1>4. LastUsed \in Index /\ ledger[LastUsed] \in Entry /\ ledger[LastUsed] # NoEntry
  BY <1>3 DEF Used, TypeOK
<1>5. Covered(LastUsed + 1)
  BY <1>1, <1>3, <1>4, CollectionAssumption DEF Used, Covered, Index
<1>6. \A j \in Index : j > LastUsed => ledger[j] = NoEntry
  BY <1>3, <1>4, CollectionAssumption DEF Used, Index
<1> QED
  BY <1>4, <1>5, <1>6

LEMMA StoredHeadType ==
    ASSUME TypeOK, Prefix PROVE StoredHead \in Head
<1>1. CASE Used = {}
  BY <1>1, Bounds DEF StoredHead, HeadAt, Head
<1>2. CASE Used # {}
  BY <1>2, LastUsedIs DEF StoredHead, HeadAt, Head, Hash, Entry
<1> QED
  BY <1>1, <1>2

(* The call goes on with a head; the ledger stays as it is.                *)
Continues(c, k) ==
    /\ k \in CallType /\ call' = [call EXCEPT ![c] = k]
    /\ k.n = call[c].n /\ k.h = call[c].h /\ k.op = call[c].op
Takes(c, pcs, hd) == \E k \in CallType : Continues(c, k) /\ k.pc \in pcs /\ k.next = hd

LEMMA WithHeadTakes ==
    ASSUME TypeOK, NEW c \in Caller, NEW hd \in Head, WithHead(c, hd)
    PROVE  Takes(c, {"delta", "entry"}, hd)
<1> DEFINE p == IF HasDelta(call[c]) THEN "delta" ELSE "entry"
           k == [call[c] EXCEPT !.next = hd, !.pc = p]
<1>1. call[c] \in CallType
  BY DEF TypeOK
<1>2. call' = [call EXCEPT ![c] = k]
  BY DEF WithHead, TypeOK
<1>3. p \in {"delta", "entry"}
  OBVIOUS
<1> HIDE DEF p
<1>4. k \in CallType /\ k.pc = p /\ k.next = hd /\ k.n = call[c].n /\ k.h = call[c].h /\ k.op = call[c].op
  BY <1>1, <1>3 DEF CallType, Pc
<1> HIDE DEF k
<1> QED
  BY <1>2, <1>3, <1>4 DEF Takes, Continues

LEMMA AppendCachedStep ==
    ASSUME TypeOK, NEW c \in Caller, AppendCached(c)
    PROVE  /\ TypeOK' /\ UNCHANGED <<ledger, head, ops>>
           /\ call[c].pc = "head" /\ head[call[c].h].known
           /\ Takes(c, {"delta", "entry"}, head[call[c].h])
<1>1. call[c].h \in Handle
  BY DEF TypeOK, CallType
<1>2. head[call[c].h] \in Head
  BY <1>1 DEF TypeOK
<1>3. Takes(c, {"delta", "entry"}, head[call[c].h])
  BY <1>2, WithHeadTakes DEF AppendCached
<1> QED
  BY <1>3, CallKept DEF AppendCached, Takes, Continues, disk, memory, counts, TypeOK

LEMMA AppendLoadStep ==
    ASSUME TypeOK, Prefix, NEW c \in Caller, AppendLoad(c)
    PROVE  /\ TypeOK' /\ UNCHANGED <<ledger, head, ops>>
           /\ call[c].pc = "head" /\ Takes(c, {"hash"}, StoredHead)
<1> DEFINE X == StoredHead
           k == [call[c] EXCEPT !.pc = "hash", !.next = X]
<1>1. call[c] \in CallType
  BY DEF TypeOK
<1>2. call' = [call EXCEPT ![c] = k]
  BY DEF AppendLoad, TypeOK
<1>3. X \in Head
  BY StoredHeadType
<1> HIDE DEF X
<1>4. k \in CallType /\ k.pc = "hash" /\ k.next = X /\ k.n = call[c].n /\ k.h = call[c].h /\ k.op = call[c].op
  BY <1>1, <1>3 DEF CallType, Pc
<1> HIDE DEF k
<1>5. Takes(c, {"hash"}, StoredHead)
  BY <1>2, <1>4 DEF Takes, Continues, X
<1> QED
  BY <1>2, <1>4, <1>5, CallKept DEF AppendLoad, disk, memory, counts, TypeOK

LEMMA AppendLoadedStep ==
    ASSUME TypeOK, NEW c \in Caller, AppendLoaded(c)
    PROVE  /\ TypeOK' /\ UNCHANGED <<ledger, ops>> /\ call[c].pc = "hash"
           /\ head' = [head EXCEPT ![call[c].h] = call[c].next]
           /\ Takes(c, {"delta", "entry"}, call[c].next)
<1>1. call[c].h \in Handle /\ call[c].next \in Head
  BY DEF TypeOK, CallType
<1>2. Takes(c, {"delta", "entry"}, call[c].next)
  BY <1>1, WithHeadTakes DEF AppendLoaded
<1>3. head' \in [Handle -> Head]
  BY <1>1 DEF AppendLoaded, TypeOK
<1> QED
  BY <1>2, <1>3, CallKept DEF AppendLoaded, Takes, Continues, disk, counts, TypeOK

LEMMA AppendDeltaStep ==
    ASSUME TypeOK, NEW c \in Caller, AppendDelta(c)
    PROVE  /\ TypeOK' /\ UNCHANGED <<ledger, head, ops>> /\ call[c].pc = "delta"
           /\ Takes(c, {"entry"}, call[c].next)
<1> DEFINE k == [call[c] EXCEPT !.pc = "entry"]
<1>1. call[c] \in CallType
  BY DEF TypeOK
<1>2. call' = [call EXCEPT ![c] = k]
  BY DEF AppendDelta, Goto, TypeOK
<1>3. /\ k \in CallType /\ k.pc = "entry" /\ k.next = call[c].next
      /\ k.n = call[c].n /\ k.h = call[c].h /\ k.op = call[c].op /\ call[c].n \in Write /\ call[c].ex.w \in Write
  BY <1>1 DEF CallType, Pc, Envelope
<1> HIDE DEF k
<1>4. deltas' \in [Index -> [from : Write, to : Write]]
  BY <1>3 DEF AppendDelta, TypeOK
<1> QED
  BY <1>2, <1>3, <1>4, CallKept DEF AppendDelta, Takes, Continues, memory, counts, TypeOK

LEMMA AppendEntryStep ==
    ASSUME TypeOK, GetReads, NEW c \in Caller, AppendEntry(c)
    PROVE  /\ TypeOK' /\ UNCHANGED <<head, ops>> /\ call[c].pc = "entry"
           /\ Takes(c, {"done"}, call[c].next)
           /\ ledger' = [ledger EXCEPT ![call[c].next.next] = NewEntry(call[c])]
           /\ NewEntry(call[c]) \in Entry /\ NewEntry(call[c]).index = call[c].next.next
           /\ NewEntry(call[c]).prev = call[c].next.hash /\ NewEntry(call[c]).stamp = call[c].n
<1> DEFINE k == [call[c] EXCEPT !.pc = "done"]
<1>1. call[c] \in CallType
  BY DEF TypeOK
<1>2. call' = [call EXCEPT ![c] = k]
  BY DEF AppendEntry, Goto, TypeOK
<1>3. /\ k \in CallType /\ k.pc = "done" /\ k.next = call[c].next
      /\ k.n = call[c].n /\ k.h = call[c].h /\ k.op = call[c].op
  BY <1>1 DEF CallType, Pc
<1>4. /\ call[c].next.next \in Nat /\ call[c].next.hash \in Write /\ call[c].ex.v \in Nat
      /\ call[c].n \in Write /\ call[c].payload \in Write /\ call[c].id \in Record
      /\ call[c].op \in {"put", "delete"} /\ HasDelta(call[c]) \in BOOLEAN
  BY <1>1 DEF CallType, Head, Envelope, GetReads, InAppend, AppendEntry, HasDelta, Exists
<1> HIDE DEF k
<1>5. /\ NewEntry(call[c]) \in Entry /\ NewEntry(call[c]).index = call[c].next.next
      /\ NewEntry(call[c]).prev = call[c].next.hash /\ NewEntry(call[c]).stamp = call[c].n
  BY <1>4 DEF NewEntry, Entry
<1>6. ledger' = [ledger EXCEPT ![call[c].next.next] = NewEntry(call[c])]
  BY DEF AppendEntry
<1>7. ledger' \in [Index -> Entry \cup {NoEntry}]
  BY <1>5, <1>6 DEF TypeOK
<1> QED
  BY <1>2, <1>3, <1>5, <1>6, <1>7, CallKept DEF AppendEntry, Takes, Continues, memory, counts, TypeOK

LEMMA FinishStep ==
    ASSUME TypeOK, NEW c \in Caller, Finish(c)
    PROVE  /\ TypeOK' /\ UNCHANGED <<ledger, ops>> /\ call[c].pc = "done"
           /\ call' = [call EXCEPT ![c] = Idle]
           /\ head' = [head EXCEPT ![call[c].h] = HeadAt(call[c].next.next + 1, call[c].n)]
           /\ HeadAt(call[c].next.next + 1, call[c].n) \in Head
<1>1. call[c] \in CallType
  BY DEF TypeOK
<1>2. /\ call[c].next.next \in Nat /\ call[c].n \in Write /\ call[c].h \in Handle
      /\ call[c].id \in Record /\ call[c].ex.v \in Nat
  BY <1>1 DEF CallType, Head, Envelope
<1>3. HeadAt(call[c].next.next + 1, call[c].n) \in Head
  BY <1>2 DEF HeadAt, Head
<1>4. head' = [head EXCEPT ![call[c].h] = HeadAt(call[c].next.next + 1, call[c].n)]
  BY DEF Finish
<1>5. head' \in [Handle -> Head]
  BY <1>2, <1>3, <1>4 DEF TypeOK
<1>6. cache' \in [Handle -> [Record -> Envelope]]
  <2>1. CASE call[c].op = "put"
    <3>1. [v |-> call[c].ex.v + 1, w |-> call[c].n] \in Envelope
      BY <1>2 DEF Envelope
    <3>2. cache' \in Remembered(call[c].h, call[c].id, [v |-> call[c].ex.v + 1, w |-> call[c].n])
      BY <2>1 DEF Finish
    <3> QED
      BY <1>2, <3>1, <3>2, RememberedType
  <2>2. CASE call[c].op # "put"
    <3>1. cache' = [cache EXCEPT ![call[c].h][call[c].id] = Missing]
      BY <2>2 DEF Finish
    <3> QED
      BY <1>2, <3>1, IdleType DEF TypeOK
  <2> QED
    BY <2>1, <2>2
<1>7. call' = [call EXCEPT ![c] = Idle] /\ call' \in [Caller -> CallType]
  BY IdleType, CallKept DEF Finish, Return
<1>8. audited' \in SUBSET Write
  BY <1>2 DEF Finish, TypeOK
<1> QED
  BY <1>3, <1>4, <1>5, <1>6, <1>7, <1>8 DEF Finish, disk, counts, TypeOK

(* A call begins.                                                          *)
LEMMA BeginStep ==
    ASSUME TypeOK, NEW c \in Caller, NEW op \in {"put", "delete", "get"}, NEW h \in Handle,
           NEW r \in Record, Begin(c, op, h, r)
    PROVE  /\ TypeOK' /\ UNCHANGED <<ledger, head>> /\ ops' = ops + 1 /\ ops < MaxOps
           /\ call[c].pc = "idle" /\ (Serial => Quiet)
           /\ \E k \in CallType : /\ call' = [call EXCEPT ![c] = k]
                                  /\ k.pc \notin Writing \cup InAppend \cup {"idle"}
                                  /\ k.n = ops + 1 /\ k.h = h
<1> DEFINE E == IF mode = "lazy" /\ op # "get" THEN cache[h][r] ELSE Missing
           p == IF mode = "lazy"
                THEN (IF ~Cached(h, r) THEN "fetch" ELSE IF op = "get" THEN "ready" ELSE "fetched")
                ELSE (IF op = "delete" \/ hydrated[h] THEN "ready" ELSE "list")
           k == [Idle EXCEPT !.op = op, !.h = h, !.id = r, !.n = ops + 1, !.env = E, !.pc = p]
<1>1. call' = [call EXCEPT ![c] = k]
  BY DEF Begin
<1>2. E \in Envelope
  BY IdleType DEF TypeOK
<1>3. p \in {"fetch", "ready", "fetched", "list"}
  OBVIOUS
<1>4. ops < MaxOps /\ ops + 1 \in 0..MaxOps /\ ops + 1 \in Write
  BY CollectionAssumption DEF Begin, TypeOK, Write
<1> HIDE DEF E, p
<1>5. k \in CallType /\ k.pc = p /\ k.n = ops + 1 /\ k.h = h
  BY <1>2, <1>3, <1>4, IdleType DEF CallType, Pc
<1> HIDE DEF k
<1>6. call' \in [Caller -> CallType]
  BY <1>1, <1>5, CallKept
<1>7. p \notin Writing \cup InAppend \cup {"idle"}
  BY <1>3 DEF Writing, InAppend
<1> QED
  BY <1>1, <1>4, <1>5, <1>6, <1>7 DEF Begin, disk, memory, counts, TypeOK

(* A record arrives by sync, the process restarts, or nothing happens.     *)
LEMMA OutsideStep ==
    ASSUME TypeOK, (\E r \in Record : SyncPut(r)) \/ Crash \/ UNCHANGED vars
    PROVE  /\ TypeOK' /\ UNCHANGED <<ledger, ops>>
           /\ \/ UNCHANGED <<head, call>>
              \/ /\ head' = [h \in Handle |-> NotLoaded]
                 /\ call' = [c \in Caller |-> Idle]
<1>1. ASSUME NEW r \in Record, SyncPut(r)
      PROVE  TypeOK' /\ UNCHANGED <<ledger, ops, head, call>>
  <2>1. MaxOps + syncs + 1 \in Write /\ syncs' \in 0..MaxSyncs
    BY <1>1, CollectionAssumption DEF SyncPut, TypeOK, Write
  <2>2. store' \in [Record -> Envelope]
    BY <1>1, <2>1 DEF SyncPut, TypeOK, Envelope
  <2> QED
    BY <1>1, <2>1, <2>2 DEF SyncPut, memory, TypeOK
<1>2. CASE Crash
  <2>1. crashes' \in 0..MaxCrashes
    BY <1>2, CollectionAssumption DEF Crash, TypeOK
  <2> QED
    BY <1>2, <2>1, IdleType DEF Crash, disk, TypeOK
<1>3. CASE UNCHANGED vars
  BY <1>3 DEF vars, disk, memory, counts, TypeOK
<1> QED
  BY <1>1, <1>2, <1>3

-----------------------------------------------------------------------------
(***************************************************************************)
(* However calls overlap, fail or are cut off, the entries take up the    *)
(* indices from 0 without a gap.  A head a call or an instance holds may  *)
(* be old, so that its next entry overwrites one, but every index below   *)
(* it is in use.                                                          *)
(***************************************************************************)
Indexed      == \A i \in Index : ledger[i] # NoEntry => ledger[i].index = i
HeadsCovered == \A h \in Handle : head[h].known => Covered(head[h].next)
CallsCovered ==
    \A c \in Caller : /\ call[c].pc \in InAppend => Covered(call[c].next.next)
                      /\ call[c].pc = "done" => Covered(call[c].next.next + 1)
CallsNumbered == \A c \in Caller : call[c].pc # "idle" => call[c].n \in 1..ops

Dense == Prefix /\ Indexed /\ HeadsCovered /\ CallsCovered /\ CallsNumbered /\ GetReads

LEMMA InitDense == Init => TypeOK /\ Dense
<1> SUFFICES ASSUME Init PROVE TypeOK /\ Dense
  OBVIOUS
<1>1. /\ 0 \in 0..MaxOps /\ 0 \in 0..MaxSyncs /\ 0 \in 0..MaxCrashes /\ 0 \in 0..MaxFails
      /\ NoPatch \in [from : Write, to : Write]
  BY CollectionAssumption, Bounds DEF NoPatch
<1>2. mode \in Modes /\ audited \in SUBSET Write
  BY DEF Init
<1>3. /\ store \in [Record -> Envelope] /\ history \in [Record -> [1..(MaxOps + MaxSyncs) -> Write]]
      /\ ledger \in [Index -> Entry \cup {NoEntry}] /\ deltas \in [Index -> [from : Write, to : Write]]
  BY <1>1, IdleType, Bounds DEF Init
<1>4. /\ cache \in [Handle -> [Record -> Envelope]] /\ hydrated \in [Handle -> BOOLEAN]
      /\ head \in [Handle -> Head] /\ call \in [Caller -> CallType]
  BY IdleType DEF Init
<1>5. TypeOK
  BY <1>1, <1>2, <1>3, <1>4 DEF Init, TypeOK
<1>6. Prefix
  <2>1. \A i \in Index : ledger[i] # NoEntry <=> i < 0
    BY CollectionAssumption DEF Init, Index
  <2> QED
    BY <2>1 DEF Prefix
<1>7. Dense
  BY <1>6 DEF Init, Dense, Indexed, HeadsCovered, CallsCovered, CallsNumbered, GetReads, NotLoaded,
     Idle, InAppend, Writing
<1> QED
  BY <1>5, <1>7

(* Where the ledger stays as it is, what concerns it alone does too.       *)
LEMMA LedgerKept ==
    ASSUME ledger' = ledger
    PROVE  /\ Prefix => Prefix'
           /\ Indexed => Indexed'
           /\ \A x \in Nat : Covered(x) => Covered(x)'
BY DEF Prefix, Indexed, Covered

LEMMA MovesDense ==
    ASSUME TypeOK, Dense, NEW c \in Caller, Moves(c)
    PROVE  Dense'
<1> USE DEF Dense
<1>1. PICK k \in CallType : MovesTo(c, k)
  BY DEF Moves
<1>2. \A d \in Caller : call'[d] = IF d = c THEN k ELSE call[d]
  BY <1>1 DEF MovesTo, TypeOK
<1>3. ledger' = ledger /\ head' = head /\ ops' = ops
  BY DEF Moves
<1>4. Prefix' /\ Indexed'
  BY <1>3, LedgerKept
<1>5. HeadsCovered'
  BY <1>3 DEF HeadsCovered, Covered
<1>6. CallsCovered'
  BY <1>1, <1>2, <1>3 DEF CallsCovered, Covered, MovesTo, InAppend
<1>7. CallsNumbered'
  BY <1>1, <1>2, <1>3 DEF CallsNumbered, MovesTo
<1>8. GetReads'
  BY <1>1, <1>2 DEF GetReads, MovesTo, InAppend, Writing
<1> QED
  BY <1>4, <1>5, <1>6, <1>7, <1>8

(* A step of append that leaves the ledger alone.                          *)
LEMMA TakesDense ==
    ASSUME TypeOK, Dense, NEW c \in Caller, NEW hd \in Head, UNCHANGED <<ledger, ops>>,
           call[c].pc \in {"head", "hash", "delta"}, Covered(hd.next),
           Takes(c, {"hash", "delta", "entry"}, hd), HeadsCovered'
    PROVE  Dense'
<1> USE DEF Dense
<1>1. PICK k \in CallType : Continues(c, k) /\ k.pc \in {"hash", "delta", "entry"} /\ k.next = hd
  BY DEF Takes
<1>2. \A d \in Caller : call'[d] = IF d = c THEN k ELSE call[d]
  BY <1>1 DEF Continues, TypeOK
<1>3. Prefix' /\ Indexed'
  BY LedgerKept
<1>4. CallsCovered'
  BY <1>1, <1>2 DEF CallsCovered, Covered, Continues
<1>5. CallsNumbered'
  BY <1>1, <1>2 DEF CallsNumbered, Continues
<1>6. GetReads'
  BY <1>1, <1>2 DEF GetReads, Continues, InAppend, Writing
<1> QED
  BY <1>3, <1>4, <1>5, <1>6

LEMMA EntryDense ==
    ASSUME TypeOK, Dense, NEW c \in Caller, AppendEntry(c)
    PROVE  Dense'
<1> USE DEF Dense
<1>a. \A d \in Caller : /\ call[d].next.next \in Nat /\ call[d].next.next + 1 \in Nat
                        /\ call[d].n \in Nat
  <2> SUFFICES ASSUME NEW d \in Caller
               PROVE  call[d].next.next \in Nat /\ call[d].n \in Nat
    OBVIOUS
  <2>1. call[d] \in CallType
    BY DEF TypeOK
  <2>2. call[d].next \in Head /\ call[d].n \in Write
    BY <2>1 DEF CallType
  <2> QED
    BY <2>2, CollectionAssumption DEF Head, Write
<1>b. PICK x \in Nat : x = call[c].next.next
  BY <1>a
<1>c. PICK e : e = NewEntry(call[c])
  OBVIOUS
<1>1. PICK k \in CallType : Continues(c, k) /\ k.pc = "done" /\ k.next = call[c].next
  BY AppendEntryStep DEF Takes
<1>2. \A d \in Caller : call'[d] = IF d = c THEN k ELSE call[d]
  BY <1>1 DEF Continues, TypeOK
<1>3. /\ head' = head /\ ops' = ops /\ call[c].pc = "entry" /\ ledger' = [ledger EXCEPT ![x] = e]
      /\ e.index = x /\ e.stamp = call[c].n
  BY <1>b, <1>c, AppendEntryStep
<1>d. call[c].n > 0
  BY <1>3, <1>a DEF CallsNumbered
<1>4. e # NoEntry
  BY <1>3, <1>d DEF NoEntry
<1>5. Covered(x)
  BY <1>b, <1>3 DEF CallsCovered, InAppend
<1>6. \A i \in Index : ledger'[i] = IF i = x THEN e ELSE ledger[i]
  BY <1>3 DEF TypeOK
<1>7. Prefix'
  <2>1. PICK n \in Nat : \A i \in Index : ledger[i] # NoEntry <=> i < n
    BY DEF Prefix
  <2> DEFINE m == IF n <= x THEN x + 1 ELSE n
  <2>2. m \in Nat
    BY <1>3
  <2>3. \A i \in Index : ledger'[i] # NoEntry <=> i < m
    BY <1>3, <1>4, <1>5, <1>6, <2>1, CollectionAssumption DEF Covered, Index
  <2> QED
    BY <2>2, <2>3 DEF Prefix
<1>8. Indexed'
  BY <1>3, <1>6 DEF Indexed
<1>9. \A y \in Nat : Covered(y) => Covered(y)'
  BY <1>4, <1>6 DEF Covered
<1>10. Covered(x + 1)'
  BY <1>3, <1>4, <1>5, <1>6, CollectionAssumption DEF Covered, Index
<1>11. HeadsCovered'
  BY <1>3, <1>9 DEF HeadsCovered, TypeOK, Head
<1>12. CallsCovered'
  <2>1. k.next.next = x
    BY <1>1, <1>b
  <2> SUFFICES ASSUME NEW d \in Caller
               PROVE  (/\ call[d].pc \in InAppend => Covered(call[d].next.next)
                       /\ call[d].pc = "done" => Covered(call[d].next.next + 1))'
    BY DEF CallsCovered
  <2>2. CASE d = c
    BY <2>2, <2>1, <1>2, <1>5, <1>9, <1>10 DEF Covered
  <2>3. CASE d # c
    BY <2>3, <1>2, <1>9, <1>a DEF CallsCovered, Covered
  <2> QED
    BY <2>2, <2>3
<1>13. CallsNumbered'
  BY <1>1, <1>2, <1>3 DEF CallsNumbered, Continues
<1>14. GetReads'
  BY <1>1, <1>2, <1>3 DEF GetReads, Continues, InAppend, Writing
<1> QED
  BY <1>7, <1>8, <1>11, <1>12, <1>13, <1>14

LEMMA FinishDense ==
    ASSUME TypeOK, Dense, NEW c \in Caller, Finish(c)
    PROVE  Dense'
<1> USE DEF Dense
<1> DEFINE hd == HeadAt(call[c].next.next + 1, call[c].n)
<1>1. /\ UNCHANGED <<ledger, ops>> /\ call[c].pc = "done" /\ call' = [call EXCEPT ![c] = Idle]
      /\ head' = [head EXCEPT ![call[c].h] = hd]
  BY FinishStep
<1>2. hd.next = call[c].next.next + 1
  BY DEF HeadAt
<1>3. Covered(hd.next)
  BY <1>1, <1>2 DEF CallsCovered
<1> HIDE DEF hd
<1>4. Prefix' /\ Indexed'
  BY <1>1, LedgerKept
<1>5. HeadsCovered'
  BY <1>1, <1>3 DEF HeadsCovered, Covered, TypeOK
<1>6. \A d \in Caller : call'[d] = IF d = c THEN Idle ELSE call[d]
  BY <1>1 DEF TypeOK
<1>7. CallsCovered' /\ CallsNumbered' /\ GetReads'
  BY <1>1, <1>6 DEF CallsCovered, Covered, CallsNumbered, GetReads, Idle, InAppend, Writing
<1> QED
  BY <1>4, <1>5, <1>7

LEMMA BeginDense ==
    ASSUME TypeOK, Dense, NEW c \in Caller, NEW op \in {"put", "delete", "get"}, NEW h \in Handle,
           NEW r \in Record, Begin(c, op, h, r)
    PROVE  Dense'
<1> USE DEF Dense
<1>1. PICK k \in CallType : /\ call' = [call EXCEPT ![c] = k]
                            /\ k.pc \notin Writing \cup InAppend \cup {"idle"} /\ k.n = ops + 1
  BY BeginStep
<1>2. UNCHANGED <<ledger, head>> /\ ops' = ops + 1 /\ ops \in Nat
  BY BeginStep, CollectionAssumption DEF TypeOK
<1>3. \A d \in Caller : call'[d] = IF d = c THEN k ELSE call[d]
  BY <1>1 DEF TypeOK
<1>4. Prefix' /\ Indexed'
  BY <1>2, LedgerKept
<1>5. HeadsCovered'
  BY <1>2 DEF HeadsCovered, Covered
<1>6. CallsCovered'
  BY <1>1, <1>2, <1>3 DEF CallsCovered, Covered, InAppend
<1>7. CallsNumbered'
  BY <1>1, <1>2, <1>3 DEF CallsNumbered
<1>8. GetReads'
  BY <1>1, <1>3 DEF GetReads
<1> QED
  BY <1>4, <1>5, <1>6, <1>7, <1>8

LEMMA OutsideDense ==
    ASSUME TypeOK, Dense, (\E r \in Record : SyncPut(r)) \/ Crash \/ UNCHANGED vars
    PROVE  Dense'
<1> USE DEF Dense
<1>1. UNCHANGED <<ledger, ops>>
  BY OutsideStep
<1>2. Prefix' /\ Indexed'
  BY <1>1, LedgerKept
<1>3. CASE UNCHANGED <<head, call>>
  BY <1>1, <1>2, <1>3 DEF HeadsCovered, CallsCovered, Covered, CallsNumbered, GetReads
<1>4. CASE head' = [h \in Handle |-> NotLoaded] /\ call' = [c \in Caller |-> Idle]
  BY <1>1, <1>2, <1>4 DEF HeadsCovered, CallsCovered, Covered, CallsNumbered, GetReads,
     NotLoaded, Idle, InAppend, Writing
<1> QED
  BY <1>3, <1>4, OutsideStep

LEMMA HeadStepsDense ==
    ASSUME TypeOK, Dense, NEW c \in Caller, AppendCached(c) \/ AppendLoad(c) \/ AppendLoaded(c) \/ AppendDelta(c)
    PROVE  TypeOK' /\ Dense'
<1> USE DEF Dense
<1>0. call[c].h \in Handle /\ call[c].next \in Head /\ head[call[c].h] \in Head
  <2>1. call[c] \in CallType
    BY DEF TypeOK
  <2>2. call[c].h \in Handle /\ call[c].next \in Head
    BY <2>1 DEF CallType
  <2> QED
    BY <2>2 DEF TypeOK
<1>1. CASE AppendCached(c)
  <2>1. HeadsCovered'
    BY <1>1, AppendCachedStep DEF HeadsCovered, Covered
  <2>2. Covered(head[call[c].h].next)
    BY <1>0, <1>1, AppendCachedStep DEF HeadsCovered
  <2>3. Takes(c, {"hash", "delta", "entry"}, head[call[c].h])
    BY <1>1, AppendCachedStep DEF Takes
  <2> QED
    BY <1>0, <1>1, <2>1, <2>2, <2>3, AppendCachedStep, TakesDense
<1>2. CASE AppendLoad(c)
  <2>1. HeadsCovered'
    BY <1>2, AppendLoadStep DEF HeadsCovered, Covered
  <2>2. Covered(StoredHead.next)
    <3>1. CASE Used = {}
      BY <3>1, CollectionAssumption DEF StoredHead, HeadAt, Covered, Index
    <3>2. CASE Used # {}
      <4>1. LastUsed \in Index /\ ledger[LastUsed] # NoEntry /\ Covered(LastUsed + 1)
        BY <3>2, LastUsedIs
      <4>2. ledger[LastUsed].index = LastUsed
        BY <4>1 DEF Indexed
      <4>3. StoredHead.next = LastUsed + 1
        BY <3>2, <4>2 DEF StoredHead, HeadAt
      <4> QED
        BY <4>1, <4>3
    <3> QED
      BY <3>1, <3>2
  <2>3. Takes(c, {"hash", "delta", "entry"}, StoredHead)
    BY <1>2, AppendLoadStep DEF Takes
  <2> QED
    BY <1>2, <2>1, <2>2, <2>3, AppendLoadStep, StoredHeadType, TakesDense
<1>3. CASE AppendLoaded(c)
  <2>1. Covered(call[c].next.next)
    BY <1>3, AppendLoadedStep DEF CallsCovered, InAppend
  <2>2. HeadsCovered'
    <3>1. \A h \in Handle : head'[h] = IF h = call[c].h THEN call[c].next ELSE head[h]
      BY <1>0, <1>3, AppendLoadedStep DEF TypeOK
    <3>2. ledger' = ledger
      BY <1>3, AppendLoadedStep
    <3>3. ASSUME NEW h \in Handle, head'[h].known, NEW j \in Index, j < head'[h].next
          PROVE  ledger[j] # NoEntry
      <4>1. CASE h = call[c].h
        BY <2>1, <3>1, <3>3, <4>1 DEF Covered
      <4>2. CASE h # call[c].h
        <5>1. head[h].known /\ j < head[h].next
          BY <3>1, <3>3, <4>2
        <5> QED
          BY <5>1 DEF HeadsCovered, Covered
      <4> QED
        BY <4>1, <4>2
    <3> QED
      BY <3>2, <3>3 DEF HeadsCovered, Covered
  <2>3. Takes(c, {"hash", "delta", "entry"}, call[c].next)
    BY <1>3, AppendLoadedStep DEF Takes
  <2> QED
    BY <1>0, <1>3, <2>1, <2>2, <2>3, AppendLoadedStep, TakesDense
<1>4. CASE AppendDelta(c)
  <2>1. Covered(call[c].next.next)
    BY <1>4, AppendDeltaStep DEF CallsCovered, InAppend
  <2>2. HeadsCovered'
    BY <1>4, AppendDeltaStep DEF HeadsCovered, Covered
  <2>3. Takes(c, {"hash", "delta", "entry"}, call[c].next)
    BY <1>4, AppendDeltaStep DEF Takes
  <2> QED
    BY <1>0, <1>4, <2>1, <2>2, <2>3, AppendDeltaStep, TakesDense
<1> QED
  BY <1>1, <1>2, <1>3, <1>4

(* The steps of a call, by what they do to the ledger.                     *)
Elsewhere(c) == Moves(c) /\ TypeOK'
LEMMA StepsOf ==
    ASSUME TypeOK, GetReads, NEW c \in Caller, Step(c) \/ Fail(c)
    PROVE  \/ Elsewhere(c) \/ AppendEntry(c) \/ Finish(c)
           \/ AppendCached(c) \/ AppendLoad(c) \/ AppendLoaded(c) \/ AppendDelta(c)
BY HydrateMoves, ReadMoves, PrepareMoves, WriteMoves DEF Step, Elsewhere

LEMMA DenseStep == TypeOK /\ Dense /\ [Next]_vars => TypeOK' /\ Dense'
<1> SUFFICES ASSUME TypeOK, Dense, [Next]_vars PROVE TypeOK' /\ Dense'
  OBVIOUS
<1>1. ASSUME NEW c \in Caller, Step(c) \/ Fail(c) PROVE TypeOK' /\ Dense'
  <2>1. CASE Elsewhere(c)
    BY <2>1, MovesDense DEF Elsewhere
  <2>2. CASE AppendEntry(c)
    BY <2>2, EntryDense, AppendEntryStep DEF Dense
  <2>3. CASE Finish(c)
    BY <2>3, FinishDense, FinishStep
  <2>4. CASE AppendCached(c) \/ AppendLoad(c) \/ AppendLoaded(c) \/ AppendDelta(c)
    BY <2>4, HeadStepsDense
  <2>5. GetReads
    BY DEF Dense
  <2> QED
    BY <1>1, <2>1, <2>2, <2>3, <2>4, <2>5, StepsOf
<1>2. ASSUME NEW c \in Caller, NEW op \in {"put", "delete", "get"}, NEW h \in Handle, NEW r \in Record,
             Begin(c, op, h, r)
      PROVE  TypeOK' /\ Dense'
  BY <1>2, BeginStep, BeginDense
<1>3. CASE (\E r \in Record : SyncPut(r)) \/ Crash \/ UNCHANGED vars
  BY <1>3, OutsideStep, OutsideDense
<1> QED
  BY <1>1, <1>2, <1>3 DEF Next

(* Every variable keeps its type.                                          *)
THEOREM CollectionTyped == Spec => []TypeOK
BY InitDense, DenseStep, PTL DEF Spec

(* LedgerStore.append (ledger/store.ts:208-267) leaves no gap in the       *)
(* ledger, whatever calls overlap, fail, are cut off or lose an answer,    *)
(* and through however many instances they come.                           *)
THEOREM AlwaysDense == Spec => []LedgerDense
<1>1. TypeOK /\ Dense => LedgerDense
  <2> SUFFICES ASSUME TypeOK, Dense PROVE LedgerDense
    OBVIOUS
  <2>1. PICK n \in Nat : \A i \in Index : ledger[i] # NoEntry <=> i < n
    BY DEF Dense, Prefix
  <2> QED
    BY <2>1, CollectionAssumption DEF LedgerDense, Dense, Indexed, Used, Index
<1> QED
  BY <1>1, InitDense, DenseStep, PTL DEF Spec

-----------------------------------------------------------------------------
(***************************************************************************)
(* The ledger under the condition that ledger/store.ts states for it: one *)
(* writer, whose calls follow one another.  Crashes and failing calls may *)
(* cut off any of them, and a sync engine may write records in between.   *)
(***************************************************************************)
OneWriter == Serial /\ \A g, h \in Handle : g = h

-----------------------------------------------------------------------------
(***************************************************************************)
(* The invariant.  At(hd): hd is a head to append at.  A call in flight    *)
(* has an entry still to write, so that there is room for it.              *)
(***************************************************************************)
Link(i)    == IF i = 0 THEN 0 ELSE Hash(ledger[i - 1])
Pending(c) == call[c].pc \notin {"idle", "done"}
Room(x)    == x <= ops /\ \A c \in Caller : Pending(c) => x < ops
Last(x)    == \A j \in Index : j > x => ledger[j] = NoEntry
Unused(x)  == x \in Index => ledger[x] = NoEntry
At(hd)     == hd.hash = Link(hd.next) /\ Room(hd.next) /\ Last(hd.next)

Alone   == \A c, d \in Caller : call[c].pc # "idle" /\ call[d].pc # "idle" => c = d
Linked  == \A i \in Index : ledger[i] # NoEntry => ledger[i].prev = Link(i) /\ Room(i + 1)
HeadsAt == \A h \in Handle : head[h].known => At(head[h])
Appending(c) ==
    /\ call[c].pc \in {"hash", "delta", "entry"} => At(call[c].next)
    /\ call[c].pc \in {"delta", "entry", "done"} => head[call[c].h] = call[c].next
    /\ call[c].pc = "done" => /\ call[c].next.next \in Index /\ Last(call[c].next.next)
                              /\ ledger[call[c].next.next] # NoEntry
                              /\ ledger[call[c].next.next].stamp = call[c].n
CallsAt == \A c \in Caller : Appending(c)

Chain == Alone /\ Linked /\ HeadsAt /\ CallsAt

LEMMA InitChain == Init => Chain
BY DEF Init, Chain, Alone, Linked, HeadsAt, CallsAt, Appending, Idle, NotLoaded

(* Nothing starts and the ledger stays as it is.                           *)
LEMMA AtKept ==
    ASSUME ledger' = ledger, ops' = ops, \A d \in Caller : Pending(d)' => Pending(d)
    PROVE  /\ Linked => Linked' /\ \A hd \in Head : At(hd) => At(hd)'
           /\ \A x \in Nat : Last(x) => Last(x)'
<1>1. \A x : Room(x) => Room(x)'
  BY DEF Room
<1>2. \A x : Link(x)' = Link(x) /\ (Last(x) => Last(x)')
  BY DEF Link, Last
<1> QED
  BY <1>1, <1>2 DEF Linked, At

LEMMA MovesChain ==
    ASSUME TypeOK, Chain, NEW c \in Caller, Moves(c)
    PROVE  Chain'
<1> USE DEF Chain
<1>1. PICK k \in CallType : MovesTo(c, k)
  BY DEF Moves
<1>2. \A d \in Caller : call'[d] = IF d = c THEN k ELSE call[d]
  BY <1>1 DEF MovesTo, TypeOK
<1>3. ledger' = ledger /\ head' = head /\ ops' = ops
  BY DEF Moves
<1>4. \A d \in Caller : Pending(d)' => Pending(d)
  BY <1>1, <1>2 DEF Pending, MovesTo, InAppend
<1>5. Linked' /\ (\A hd \in Head : At(hd) => At(hd)') /\ (\A x \in Nat : Last(x) => Last(x)')
  BY <1>3, <1>4, AtKept
<1>6. Alone'
  BY <1>1, <1>2 DEF Alone, MovesTo
<1>7. HeadsAt'
  BY <1>3, <1>5 DEF HeadsAt, TypeOK
<1>8. CallsAt'
  <2> SUFFICES ASSUME NEW d \in Caller PROVE Appending(d)'
    BY DEF CallsAt
  <2>1. CASE d = c
    BY <1>1, <1>2, <2>1 DEF Appending, MovesTo, InAppend
  <2>2. CASE d # c
    <3>1. call[d] \in CallType
      BY DEF TypeOK
    <3>2. call[d].next \in Head /\ call[d].next.next \in Nat
      BY <3>1 DEF CallType, Head
    <3> QED
      BY <1>2, <1>3, <1>5, <2>2, <3>2 DEF CallsAt, Appending
  <2> QED
    BY <2>1, <2>2
<1> QED
  BY <1>5, <1>6, <1>7, <1>8

(* A step of append that leaves the ledger alone.                          *)
LEMMA TakesChain ==
    ASSUME TypeOK, Chain, NEW c \in Caller, NEW hd \in Head, UNCHANGED <<ledger, ops>>,
           call[c].pc \in {"head", "hash", "delta"}, At(hd), Takes(c, {"hash", "delta", "entry"}, hd),
           \A h \in Handle : head'[h].known => head'[h] = hd \/ head'[h] = head[h],
           call'[c].pc = "hash" \/ head'[call[c].h] = hd
    PROVE  Chain'
<1> USE DEF Chain
<1>1. PICK k \in CallType : Continues(c, k) /\ k.pc \in {"hash", "delta", "entry"} /\ k.next = hd
  BY DEF Takes
<1>2. \A d \in Caller : call'[d] = IF d = c THEN k ELSE call[d]
  BY <1>1 DEF Continues, TypeOK
<1>3. \A d \in Caller : Pending(d)' => Pending(d)
  BY <1>2 DEF Pending
<1>4. Linked' /\ (\A g \in Head : At(g) => At(g)') /\ (\A x \in Nat : Last(x) => Last(x)')
  BY <1>3, AtKept
<1>5. Alone' /\ \A d \in Caller : d # c => call'[d].pc = "idle"
  BY <1>1, <1>2 DEF Alone
<1>6. HeadsAt'
  BY <1>4 DEF HeadsAt, TypeOK
<1>7. CallsAt'
  <2> SUFFICES ASSUME NEW d \in Caller PROVE Appending(d)'
    BY DEF CallsAt
  <2>1. CASE d = c
    BY <1>1, <1>2, <1>4, <2>1 DEF Appending, Continues
  <2>2. CASE d # c
    BY <1>5, <2>2 DEF Appending
  <2> QED
    BY <2>1, <2>2
<1> QED
  BY <1>4, <1>5, <1>6, <1>7

(* What loadAllEntries finds is a head to append at.                       *)
LEMMA StoredHeadAt ==
    ASSUME TypeOK, Dense, Chain, NEW c \in Caller, Pending(c)
    PROVE  At(StoredHead)
<1> USE DEF Chain
<1>1. CASE Used = {}
  <2>1. StoredHead.next = 0 /\ StoredHead.hash = 0
    BY <1>1 DEF StoredHead, HeadAt
  <2>2. \A j \in Index : ledger[j] = NoEntry
    BY <1>1 DEF Used
  <2>3. Room(0)
    <3>1. call[c].n \in 1..ops /\ ops \in Nat
      BY DEF Dense, CallsNumbered, Pending, TypeOK
    <3> QED
      BY <3>1 DEF Room
  <2> QED
    BY <2>1, <2>2, <2>3 DEF At, Link, Last
<1>2. CASE Used # {}
  <2>1. PICK i \in Index : i = LastUsed
    BY <1>2, LastUsedIs DEF Dense
  <2>2. ledger[i] # NoEntry /\ \A j \in Index : j > i => ledger[j] = NoEntry
    BY <1>2, <2>1, LastUsedIs DEF Dense
  <2>3. StoredHead.next = i + 1 /\ StoredHead.hash = Hash(ledger[i])
    BY <1>2, <2>1, <2>2 DEF StoredHead, HeadAt, Dense, Indexed
  <2>4. Room(i + 1)
    BY <2>2 DEF Linked
  <2> QED
    BY <2>1, <2>2, <2>3, <2>4, CollectionAssumption DEF At, Link, Last, Index
<1> QED
  BY <1>1, <1>2

LEMMA HeadStepsChain ==
    ASSUME TypeOK, Dense, Chain, NEW c \in Caller,
           AppendCached(c) \/ AppendLoad(c) \/ AppendLoaded(c) \/ AppendDelta(c)
    PROVE  Chain'
<1> USE DEF Chain
<1>0. call[c].h \in Handle /\ call[c].next \in Head /\ head[call[c].h] \in Head
  <2>1. call[c] \in CallType
    BY DEF TypeOK
  <2>2. call[c].h \in Handle /\ call[c].next \in Head
    BY <2>1 DEF CallType
  <2> QED
    BY <2>2 DEF TypeOK
<1>1. CASE AppendCached(c)
  <2>1. At(head[call[c].h])
    BY <1>0, <1>1, AppendCachedStep DEF HeadsAt
  <2>2. Takes(c, {"hash", "delta", "entry"}, head[call[c].h])
    BY <1>1, AppendCachedStep DEF Takes
  <2> QED
    BY <1>0, <1>1, <2>1, <2>2, AppendCachedStep, TakesChain
<1>2. CASE AppendLoad(c)
  <2>1. call[c].pc = "head" /\ UNCHANGED <<ledger, head, ops>> /\ Takes(c, {"hash"}, StoredHead)
    BY <1>2, AppendLoadStep DEF Dense
  <2>2. At(StoredHead)
    BY <2>1, StoredHeadAt DEF Pending
  <2>3. Takes(c, {"hash", "delta", "entry"}, StoredHead) /\ call'[c].pc = "hash"
    BY <2>1 DEF Takes, Continues, TypeOK
  <2>4. StoredHead \in Head
    BY StoredHeadType DEF Dense
  <2> QED
    BY <2>1, <2>2, <2>3, <2>4, TakesChain
<1>3. CASE AppendLoaded(c)
  <2>1. At(call[c].next)
    BY <1>3, AppendLoadedStep DEF CallsAt, Appending
  <2>2. Takes(c, {"hash", "delta", "entry"}, call[c].next)
    BY <1>3, AppendLoadedStep DEF Takes
  <2>3. \A h \in Handle : head'[h] = IF h = call[c].h THEN call[c].next ELSE head[h]
    BY <1>0, <1>3, AppendLoadedStep DEF TypeOK
  <2> QED
    BY <1>0, <1>3, <2>1, <2>2, <2>3, AppendLoadedStep, TakesChain
<1>4. CASE AppendDelta(c)
  <2>1. At(call[c].next) /\ head[call[c].h] = call[c].next
    BY <1>4, AppendDeltaStep DEF CallsAt, Appending
  <2>2. Takes(c, {"hash", "delta", "entry"}, call[c].next)
    BY <1>4, AppendDeltaStep DEF Takes
  <2> QED
    BY <1>0, <1>4, <2>1, <2>2, AppendDeltaStep, TakesChain
<1> QED
  BY <1>1, <1>2, <1>3, <1>4

(* The entry is written at the head.                                       *)
LEMMA EntryChain ==
    ASSUME OneWriter, TypeOK, Dense, Chain, NEW c \in Caller, AppendEntry(c)
    PROVE  Chain'
<1> USE DEF Chain
<1>a. call[c] \in CallType
  BY DEF TypeOK
<1>b. PICK g \in Handle : g = call[c].h
  BY <1>a DEF CallType
<1>c. PICK hd \in Head : hd = call[c].next
  BY <1>a DEF CallType
<1>d. PICK x \in Nat : x = hd.next
  BY <1>c DEF Head
<1>e. PICK e : e = NewEntry(call[c])
  OBVIOUS
<1>1. PICK k \in CallType : Continues(c, k) /\ k.pc = "done" /\ k.next = hd
  BY <1>c, AppendEntryStep DEF Takes, Dense
<1>2. \A d \in Caller : call'[d] = IF d = c THEN k ELSE call[d]
  BY <1>1 DEF Continues, TypeOK
<1>3. /\ head' = head /\ ops' = ops /\ call[c].pc = "entry" /\ ledger' = [ledger EXCEPT ![x] = e]
      /\ e.prev = hd.hash /\ e.stamp = call[c].n
  BY <1>c, <1>d, <1>e, AppendEntryStep DEF Dense
<1>4. e # NoEntry
  <2>1. call[c].n \in 1..ops /\ ops \in Nat
    BY <1>3 DEF Dense, CallsNumbered, TypeOK
  <2> QED
    BY <1>3, <2>1 DEF NoEntry
<1>5. At(hd) /\ head[g] = hd
  BY <1>b, <1>c, <1>3 DEF CallsAt, Appending
<1>6. x \in Index /\ x < ops /\ ops \in Nat
  <2>1. Room(x) /\ Pending(c)
    BY <1>d, <1>3, <1>5 DEF At, Pending
  <2>2. ops \in Nat /\ ops <= MaxOps
    BY CollectionAssumption DEF TypeOK
  <2> QED
    BY <2>1, <2>2, CollectionAssumption DEF Room, Index
<1>7. \A i \in Index : ledger'[i] = IF i = x THEN e ELSE ledger[i]
  BY <1>3 DEF TypeOK
<1>8. Alone' /\ \A d \in Caller : d # c => call'[d].pc = "idle"
  BY <1>1, <1>2, <1>3 DEF Alone
<1>9. \A y \in Nat : y <= ops => Room(y)'
  BY <1>1, <1>2, <1>3, <1>8 DEF Room, Pending
<1>10. Last(x) /\ Last(x)'
  BY <1>d, <1>5, <1>7, <1>6 DEF At, Last
<1>11. \A i \in Index : i # x + 1 => Link(i)' = Link(i)
  BY <1>6, <1>7, CollectionAssumption DEF Link, Index
<1>12. Linked'
  <2> SUFFICES ASSUME NEW i \in Index, ledger'[i] # NoEntry
               PROVE  ledger'[i].prev = Link(i)' /\ Room(i + 1)'
    BY DEF Linked
  <2>1. CASE i = x
    BY <1>d, <1>3, <1>5, <1>6, <1>7, <1>9, <1>11, <2>1 DEF At
  <2>2. CASE i # x
    <3>1. ledger[i] # NoEntry /\ ledger'[i] = ledger[i]
      BY <1>7, <2>2
    <3>2. i < x
      BY <1>6, <1>10, <2>2, <3>1 DEF Last, Index
    <3>3. i + 1 <= ops /\ i + 1 \in Nat
      BY <1>6, <3>2 DEF Index
    <3> QED
      BY <1>9, <1>11, <3>1, <3>2, <3>3 DEF Linked, Index
  <2> QED
    BY <2>1, <2>2
<1>13. HeadsAt'
  <2>1. \A h \in Handle : head'[h] = hd
    BY <1>3, <1>5 DEF OneWriter
  <2>2. At(hd)'
    BY <1>d, <1>5, <1>6, <1>9, <1>10, <1>11 DEF At
  <2> QED
    BY <2>1, <2>2 DEF HeadsAt
<1>14. CallsAt'
  <2> SUFFICES ASSUME NEW d \in Caller PROVE Appending(d)'
    BY DEF CallsAt
  <2>1. CASE d = c
    <3>1. /\ call'[d].pc = "done" /\ call'[d].next = hd /\ call'[d].n = call[c].n /\ call'[d].h = g
          /\ ledger'[x] = e
      BY <1>b, <1>1, <1>2, <1>6, <1>7, <2>1 DEF Continues
    <3> QED
      BY <1>d, <1>3, <1>4, <1>5, <1>6, <1>10, <3>1 DEF Appending, Last
  <2>2. CASE d # c
    BY <1>8, <2>2 DEF Appending
  <2> QED
    BY <2>1, <2>2
<1> QED
  BY <1>8, <1>12, <1>13, <1>14

(* The call returns and leaves the head after its entry.                   *)
LEMMA FinishChain ==
    ASSUME TypeOK, Dense, Chain, NEW c \in Caller, Finish(c)
    PROVE  Chain'
<1> USE DEF Chain
<1>1. /\ UNCHANGED <<ledger, ops>> /\ call[c].pc = "done" /\ call' = [call EXCEPT ![c] = Idle]
      /\ head' = [head EXCEPT ![call[c].h] = HeadAt(call[c].next.next + 1, call[c].n)]
      /\ HeadAt(call[c].next.next + 1, call[c].n) \in Head
  BY FinishStep
<1>2. PICK i \in Index : /\ i = call[c].next.next /\ Last(i) /\ ledger[i] # NoEntry
                         /\ ledger[i].stamp = call[c].n
  BY <1>1 DEF CallsAt, Appending
<1>3. PICK hd \in Head : hd = HeadAt(i + 1, call[c].n)
  BY <1>1, <1>2
<1>4. hd.next = i + 1 /\ hd.hash = call[c].n
  BY <1>3 DEF HeadAt
<1>5. At(hd)
  <2>1. Room(i + 1)
    BY <1>2 DEF Linked
  <2>2. Link(i + 1) = Hash(ledger[i])
    BY CollectionAssumption DEF Link, Index
  <2>3. Last(i + 1)
    BY <1>2 DEF Last, Index
  <2> QED
    BY <1>2, <1>4, <2>1, <2>2, <2>3 DEF At, Hash
<1>6. \A d \in Caller : call'[d] = IF d = c THEN Idle ELSE call[d]
  BY <1>1 DEF TypeOK
<1>7. \A d \in Caller : Pending(d)' => Pending(d)
  BY <1>6 DEF Pending, Idle
<1>8. Linked' /\ \A g \in Head : At(g) => At(g)'
  BY <1>1, <1>7, AtKept
<1>9. \A d \in Caller : call'[d].pc = "idle"
  BY <1>1, <1>6 DEF Alone, Idle
<1>10. Alone' /\ CallsAt'
  BY <1>9 DEF Alone, CallsAt, Appending
<1>11. HeadsAt'
  <2>1. \A h \in Handle : head'[h] = hd \/ head'[h] = head[h]
    BY <1>1, <1>2, <1>3 DEF TypeOK
  <2> QED
    BY <1>5, <1>8, <2>1 DEF HeadsAt, TypeOK
<1> QED
  BY <1>8, <1>10, <1>11

LEMMA BeginChain ==
    ASSUME OneWriter, TypeOK, Chain, NEW c \in Caller, NEW op \in {"put", "delete", "get"},
           NEW h \in Handle, NEW r \in Record, Begin(c, op, h, r)
    PROVE  Chain'
<1> USE DEF Chain
<1>1. PICK k \in CallType : /\ call' = [call EXCEPT ![c] = k]
                            /\ k.pc \notin Writing \cup InAppend \cup {"idle"}
  BY BeginStep
<1>2. UNCHANGED <<ledger, head>> /\ ops' = ops + 1 /\ ops \in Nat /\ Quiet
  BY BeginStep, CollectionAssumption DEF TypeOK, OneWriter
<1>3. \A d \in Caller : call'[d] = IF d = c THEN k ELSE call[d]
  BY <1>1 DEF TypeOK
<1>4. \A d \in Caller : d # c => call'[d].pc = "idle"
  BY <1>2, <1>3 DEF Quiet
<1>5. \A x \in Nat : Room(x) => Room(x)'
  BY <1>2, <1>3 DEF Room
<1>6. \A x : Link(x)' = Link(x) /\ (Last(x) => Last(x)')
  BY <1>2 DEF Link, Last
<1>7. Alone'
  BY <1>4 DEF Alone
<1>8. Linked'
  BY <1>2, <1>5, <1>6 DEF Linked, Index
<1>9. HeadsAt'
  BY <1>2, <1>5, <1>6 DEF HeadsAt, At, TypeOK, Head
<1>10. CallsAt'
  BY <1>1, <1>3, <1>4 DEF CallsAt, Appending, InAppend
<1> QED
  BY <1>7, <1>8, <1>9, <1>10

LEMMA OutsideChain ==
    ASSUME TypeOK, Chain, (\E r \in Record : SyncPut(r)) \/ Crash \/ UNCHANGED vars
    PROVE  Chain'
<1> USE DEF Chain
<1>1. UNCHANGED <<ledger, ops>>
  BY OutsideStep
<1>2. CASE UNCHANGED <<head, call>>
  BY <1>1, <1>2 DEF Alone, Linked, HeadsAt, CallsAt, Appending, At, Link, Room, Pending, Last
<1>3. CASE head' = [h \in Handle |-> NotLoaded] /\ call' = [c \in Caller |-> Idle]
  <2>1. \A d \in Caller : call'[d].pc = "idle"
    BY <1>3 DEF Idle
  <2>2. Linked'
    BY <1>1, <2>1, AtKept DEF Pending
  <2>3. HeadsAt'
    BY <1>3 DEF HeadsAt, NotLoaded
  <2> QED
    BY <2>1, <2>2, <2>3 DEF Alone, CallsAt, Appending
<1> QED
  BY <1>2, <1>3, OutsideStep

LEMMA ChainStep ==
    ASSUME OneWriter, TypeOK, Dense, Chain, [Next]_vars PROVE Chain'
<1>1. ASSUME NEW c \in Caller, Step(c) \/ Fail(c) PROVE Chain'
  <2>1. GetReads
    BY DEF Dense
  <2>2. CASE Elsewhere(c)
    BY <2>2, MovesChain DEF Elsewhere
  <2> QED
    BY <1>1, <2>1, <2>2, StepsOf, HeadStepsChain, EntryChain, FinishChain
<1>2. ASSUME NEW c \in Caller, NEW op \in {"put", "delete", "get"}, NEW h \in Handle, NEW r \in Record,
             Begin(c, op, h, r)
      PROVE  Chain'
  BY <1>2, BeginChain
<1>3. CASE (\E r \in Record : SyncPut(r)) \/ Crash \/ UNCHANGED vars
  BY <1>3, OutsideChain
<1> QED
  BY <1>1, <1>2, <1>3 DEF Next

-----------------------------------------------------------------------------
(* The entries before one in a ledger without gaps.                        *)
LEMMA Before ==
    ASSUME TypeOK, Dense, NEW i \in Used
    PROVE  Cardinality({j \in Used : j < i}) = i
<1>1. PICK n \in Nat : \A j \in Index : ledger[j] # NoEntry <=> j < n
  BY DEF Dense, Prefix
<1>2. i \in Nat /\ i < n /\ i < MaxOps
  BY <1>1, CollectionAssumption DEF Used, Index
<1>3. {j \in Used : j < i} = 0..(i - 1)
  BY <1>1, <1>2, CollectionAssumption DEF Used, Index
<1>4. 0 \in Int /\ i - 1 \in Int
  BY <1>2
<1>5. Cardinality(0..(i - 1)) = i
  BY <1>2, <1>4, FS_Interval
<1> QED
  BY <1>3, <1>5

(* verify finds the chain intact.                                          *)
LEMMA ChainVerified ==
    ASSUME TypeOK, Dense, Chain PROVE ChainVerifies
<1> SUFFICES ASSUME NEW i \in Used
             PROVE  /\ ledger[i].index = Cardinality({j \in Used : j < i})
                    /\ ledger[i].prev = IF i = 0 THEN 0 ELSE Hash(ledger[i - 1])
  BY DEF ChainVerifies, Verifies
<1>1. ledger[i].index = i
  BY DEF Dense, Indexed, Used
<1>2. ledger[i].prev = Link(i)
  BY DEF Chain, Linked, Used
<1> QED
  BY <1>1, <1>2, Before DEF Link

(* LedgerStore.verify (ledger/store.ts:526-558) always succeeds for a      *)
(* single writer: every entry names the hash of the one before it,         *)
(* wherever calls fail, lose an answer or are cut off by a crash.          *)
THEOREM WriterKeepsChain == OneWriter => (Spec => []ChainVerifies)
<1> SUFFICES ASSUME OneWriter PROVE Spec => []ChainVerifies
  OBVIOUS
<1>1. TypeOK /\ Dense /\ Chain => ChainVerifies
  BY ChainVerified
<1>2. TypeOK /\ Dense /\ Chain /\ [Next]_vars => (TypeOK /\ Dense /\ Chain)'
  BY DenseStep, ChainStep
<1>3. Init => TypeOK /\ Dense /\ Chain
  BY InitDense, InitChain
<1> QED
  BY <1>1, <1>2, <1>3, PTL DEF Spec

-----------------------------------------------------------------------------
(***************************************************************************)
(* When no acknowledgement is lost, the place after a head is free, save   *)
(* between writing an entry and moving the head past it.                   *)
(***************************************************************************)
Fresh ==
    /\ \A c \in Caller : call[c].pc \in {"hash", "delta", "entry"} => Unused(call[c].next.next)
    /\ (\A c \in Caller : call[c].pc # "done")
          => \A h \in Handle : head[h].known => Unused(head[h].next)

LEMMA InitFresh == Init => Fresh
BY DEF Init, Fresh, Idle, NotLoaded

LEMMA UnusedKept ==
    ASSUME ledger' = ledger PROVE \A x : Unused(x) => Unused(x)'
BY DEF Unused

(* A call that has written its entry can only return.                      *)
\* No store call fails after it was carried out.
Answered == "answerLost" \notin Allowed \/ MaxFails = 0

LEMMA DoneReturns ==
    ASSUME Answered, TypeOK, NEW c \in Caller, Step(c) \/ Fail(c), call[c].pc = "done"
    PROVE  Finish(c)
BY DEF Step, Fail, HydrateList, HydrateRead, HydrateSet, HydrateEnd, Fetch, FetchedGet, GetEnds,
   Resolve, SaveHistory, Peek, WritePut, WriteDelete, AppendCached, AppendLoad, AppendLoaded,
   AppendDelta, AppendEntry, Answered, TypeOK

LEMMA MovesFresh ==
    ASSUME TypeOK, Fresh, NEW c \in Caller, Moves(c), call[c].pc # "done"
    PROVE  Fresh'
<1>1. PICK k \in CallType : MovesTo(c, k)
  BY DEF Moves
<1>2. \A d \in Caller : call'[d] = IF d = c THEN k ELSE call[d]
  BY <1>1 DEF MovesTo, TypeOK
<1>3. ledger' = ledger /\ head' = head
  BY DEF Moves
<1>4. \A d \in Caller : call'[d].pc # "done" => call[d].pc # "done"
  BY <1>2
<1>5. \A d \in Caller : call'[d].pc \in {"hash", "delta", "entry"}
                           => d # c /\ call[d].pc \in {"hash", "delta", "entry"}
  BY <1>1, <1>2 DEF MovesTo, InAppend
<1> QED
  BY <1>2, <1>3, <1>4, <1>5, UnusedKept DEF Fresh

LEMMA TakesFresh ==
    ASSUME TypeOK, Chain, Fresh, NEW c \in Caller, NEW hd \in Head, ledger' = ledger,
           call[c].pc \in {"head", "hash", "delta"}, Unused(hd.next),
           Takes(c, {"hash", "delta", "entry"}, hd),
           \A h \in Handle : head'[h].known => head'[h] = hd \/ head'[h] = head[h]
    PROVE  Fresh'
<1>1. PICK k \in CallType : Continues(c, k) /\ k.pc \in {"hash", "delta", "entry"} /\ k.next = hd
  BY DEF Takes
<1>2. \A d \in Caller : call'[d] = IF d = c THEN k ELSE call[d]
  BY <1>1 DEF Continues, TypeOK
<1>3. \A d \in Caller : d # c => call'[d].pc = "idle"
  BY <1>1, <1>2 DEF Chain, Alone
<1>4. \A d \in Caller : call[d].pc # "done"
  BY <1>2, <1>3
<1>5. \A h \in Handle : head[h].known => Unused(head[h].next)
  BY <1>4 DEF Fresh
<1> QED
  BY <1>1, <1>2, <1>3, <1>5, UnusedKept DEF Fresh

LEMMA HeadStepsFresh ==
    ASSUME TypeOK, Dense, Chain, Fresh, NEW c \in Caller,
           AppendCached(c) \/ AppendLoad(c) \/ AppendLoaded(c) \/ AppendDelta(c)
    PROVE  Fresh'
<1>0. call[c].h \in Handle /\ call[c].next \in Head /\ head[call[c].h] \in Head
  <2>1. call[c] \in CallType
    BY DEF TypeOK
  <2>2. call[c].h \in Handle /\ call[c].next \in Head
    BY <2>1 DEF CallType
  <2> QED
    BY <2>2 DEF TypeOK
<1>1. CASE AppendCached(c)
  <2>1. \A d \in Caller : call[d].pc # "done"
    BY <1>1, AppendCachedStep DEF Chain, Alone
  <2>2. Unused(head[call[c].h].next)
    BY <1>0, <1>1, <2>1, AppendCachedStep DEF Fresh
  <2>3. Takes(c, {"hash", "delta", "entry"}, head[call[c].h])
    BY <1>1, AppendCachedStep DEF Takes
  <2> QED
    BY <1>0, <1>1, <2>2, <2>3, AppendCachedStep, TakesFresh
<1>2. CASE AppendLoad(c)
  <2>1. call[c].pc = "head" /\ UNCHANGED <<ledger, head, ops>> /\ Takes(c, {"hash"}, StoredHead)
    BY <1>2, AppendLoadStep DEF Dense
  <2>2. Unused(StoredHead.next)
    <3>1. CASE Used = {}
      BY <3>1 DEF Used, Unused
    <3>2. CASE Used # {}
      <4>1. PICK i \in Index : i = LastUsed
        BY <3>2, LastUsedIs DEF Dense
      <4>2. ledger[i] # NoEntry /\ \A j \in Index : j > i => ledger[j] = NoEntry
        BY <3>2, <4>1, LastUsedIs DEF Dense
      <4>3. StoredHead.next = i + 1
        BY <3>2, <4>1, <4>2 DEF StoredHead, HeadAt, Dense, Indexed
      <4> QED
        BY <4>2, <4>3 DEF Unused, Index
    <3> QED
      BY <3>1, <3>2
  <2>3. Takes(c, {"hash", "delta", "entry"}, StoredHead)
    BY <2>1 DEF Takes
  <2>4. StoredHead \in Head
    BY StoredHeadType DEF Dense
  <2> QED
    BY <2>1, <2>2, <2>3, <2>4, TakesFresh
<1>3. CASE AppendLoaded(c)
  <2>1. Unused(call[c].next.next)
    BY <1>3, AppendLoadedStep DEF Fresh
  <2>2. Takes(c, {"hash", "delta", "entry"}, call[c].next)
    BY <1>3, AppendLoadedStep DEF Takes
  <2>3. \A h \in Handle : head'[h] = IF h = call[c].h THEN call[c].next ELSE head[h]
    BY <1>0, <1>3, AppendLoadedStep DEF TypeOK
  <2> QED
    BY <1>0, <1>3, <2>1, <2>2, <2>3, AppendLoadedStep, TakesFresh
<1>4. CASE AppendDelta(c)
  <2>1. Unused(call[c].next.next)
    BY <1>4, AppendDeltaStep DEF Fresh
  <2>2. Takes(c, {"hash", "delta", "entry"}, call[c].next)
    BY <1>4, AppendDeltaStep DEF Takes
  <2> QED
    BY <1>0, <1>4, <2>1, <2>2, AppendDeltaStep, TakesFresh
<1> QED
  BY <1>1, <1>2, <1>3, <1>4

LEMMA EntryFresh ==
    ASSUME TypeOK, Dense, Chain, NEW c \in Caller, AppendEntry(c)
    PROVE  Fresh'
<1>1. PICK k \in CallType : Continues(c, k) /\ k.pc = "done"
  BY AppendEntryStep DEF Takes, Dense
<1>2. \A d \in Caller : call'[d] = IF d = c THEN k ELSE call[d]
  BY <1>1 DEF Continues, TypeOK
<1>3. \A d \in Caller : d # c => call'[d].pc = "idle"
  BY <1>2, AppendEntryStep DEF Chain, Alone, Dense
<1> QED
  BY <1>1, <1>2, <1>3 DEF Fresh

LEMMA FinishFresh ==
    ASSUME OneWriter, TypeOK, Chain, NEW c \in Caller, Finish(c)
    PROVE  Fresh'
<1>1. /\ ledger' = ledger /\ call[c].pc = "done" /\ call' = [call EXCEPT ![c] = Idle]
      /\ head' = [head EXCEPT ![call[c].h] = HeadAt(call[c].next.next + 1, call[c].n)]
  BY FinishStep
<1>2. PICK i \in Index : i = call[c].next.next /\ Last(i)
  BY <1>1 DEF Chain, CallsAt, Appending
<1>3. PICK hd : hd = HeadAt(i + 1, call[c].n)
  OBVIOUS
<1>4. Unused(hd.next)
  BY <1>2, <1>3 DEF Unused, Last, HeadAt, Index
<1>5. call[c].h \in Handle
  BY DEF TypeOK, CallType
<1>6. \A h \in Handle : head'[h] = hd
  BY <1>1, <1>2, <1>3, <1>5 DEF OneWriter, TypeOK
<1>7. \A d \in Caller : call'[d].pc = "idle"
  BY <1>1 DEF Chain, Alone, Idle, TypeOK
<1> QED
  BY <1>1, <1>4, <1>6, <1>7, UnusedKept DEF Fresh

LEMMA BeginFresh ==
    ASSUME OneWriter, TypeOK, Fresh, NEW c \in Caller, NEW op \in {"put", "delete", "get"},
           NEW h \in Handle, NEW r \in Record, Begin(c, op, h, r)
    PROVE  Fresh'
<1>1. PICK k \in CallType : /\ call' = [call EXCEPT ![c] = k]
                            /\ k.pc \notin Writing \cup InAppend \cup {"idle"}
  BY BeginStep
<1>2. UNCHANGED <<ledger, head>> /\ Quiet
  BY BeginStep DEF OneWriter
<1>3. \A d \in Caller : call'[d] = IF d = c THEN k ELSE call[d]
  BY <1>1 DEF TypeOK
<1> QED
  BY <1>1, <1>2, <1>3, UnusedKept DEF Fresh, Quiet, InAppend

LEMMA OutsideFresh ==
    ASSUME TypeOK, Fresh, (\E r \in Record : SyncPut(r)) \/ Crash \/ UNCHANGED vars
    PROVE  Fresh'
<1>1. ledger' = ledger
  BY OutsideStep
<1>2. CASE UNCHANGED <<head, call>>
  BY <1>1, <1>2, UnusedKept DEF Fresh
<1>3. CASE head' = [h \in Handle |-> NotLoaded] /\ call' = [c \in Caller |-> Idle]
  BY <1>3 DEF Fresh, NotLoaded, Idle
<1> QED
  BY <1>2, <1>3, OutsideStep

LEMMA FreshStep ==
    ASSUME OneWriter, Answered, TypeOK, Dense, Chain, Fresh, [Next]_vars
    PROVE  Fresh'
<1>1. ASSUME NEW c \in Caller, Step(c) \/ Fail(c) PROVE Fresh'
  <2>1. GetReads
    BY DEF Dense
  <2>2. CASE Finish(c)
    BY <2>2, FinishFresh
  <2>3. CASE ~Finish(c) /\ Elsewhere(c)
    BY <1>1, <2>3, DoneReturns, MovesFresh DEF Elsewhere
  <2> QED
    BY <1>1, <2>1, <2>2, <2>3, StepsOf, HeadStepsFresh, EntryFresh
<1>2. ASSUME NEW c \in Caller, NEW op \in {"put", "delete", "get"}, NEW h \in Handle, NEW r \in Record,
             Begin(c, op, h, r)
      PROVE  Fresh'
  BY <1>2, BeginFresh
<1>3. CASE (\E r \in Record : SyncPut(r)) \/ Crash \/ UNCHANGED vars
  BY <1>3, OutsideFresh
<1> QED
  BY <1>1, <1>2, <1>3 DEF Next

(* Only AppendEntry writes entries.                                        *)
LEMMA EntriesStay ==
    ASSUME TypeOK, Dense, Fresh, [Next]_vars, NEW i \in Index, ledger[i] # NoEntry
    PROVE  ledger'[i] = ledger[i]
<1>1. ASSUME NEW c \in Caller, Step(c) \/ Fail(c) PROVE ledger'[i] = ledger[i]
  <2>1. GetReads
    BY DEF Dense
  <2>2. CASE AppendEntry(c)
    <3>1. call[c].pc = "entry" /\ ledger' = [ledger EXCEPT ![call[c].next.next] = NewEntry(call[c])]
      BY <2>1, <2>2, AppendEntryStep
    <3>2. call[c].next.next # i
      BY <3>1 DEF Fresh, Unused
    <3> QED
      BY <3>1, <3>2 DEF TypeOK
  <2>3. CASE Elsewhere(c)
    BY <2>3 DEF Elsewhere, Moves
  <2>4. Prefix
    BY DEF Dense
  <2> QED
    BY <1>1, <2>1, <2>2, <2>3, <2>4, StepsOf, FinishStep, AppendCachedStep, AppendLoadStep,
       AppendLoadedStep, AppendDeltaStep
<1>2. ASSUME NEW c \in Caller, NEW op \in {"put", "delete", "get"}, NEW h \in Handle, NEW r \in Record,
             Begin(c, op, h, r)
      PROVE  ledger' = ledger
  BY <1>2, BeginStep
<1>3. CASE (\E r \in Record : SyncPut(r)) \/ Crash \/ UNCHANGED vars
  BY <1>3, OutsideStep
<1> QED
  BY <1>1, <1>2, <1>3 DEF Next

(* The ledger is append-only (ledger/store.ts:566): a single writer whose  *)
(* store calls are carried out exactly when they succeed never overwrites  *)
(* or removes an entry.                                                    *)
THEOREM WriterOnlyAppends == OneWriter /\ Answered => (Spec => AppendOnly)
<1> SUFFICES ASSUME OneWriter, Answered PROVE Spec => AppendOnly
  OBVIOUS
<1> DEFINE Inv == TypeOK /\ Dense /\ Chain /\ Fresh
           Kept == \A i \in Index : ledger[i] # NoEntry => ledger'[i] = ledger[i]
<1>1. Init => Inv
  BY InitDense, InitChain, InitFresh
<1>2. Inv /\ [Next]_vars => Inv'
  BY DenseStep, ChainStep, FreshStep
<1>3. Inv /\ [Next]_vars => [Kept]_vars
  BY EntriesStay
<1> QED
  BY <1>1, <1>2, <1>3, PTL DEF Spec, AppendOnly

-----------------------------------------------------------------------------
(***************************************************************************)
(* The books of a single writer: what a put or delete that has returned   *)
(* wrote, the ledger's entry of it and the caches say the same, although  *)
(* other calls may have failed or been cut off anywhere, may have lost    *)
(* their answer, and records may have come in by sync.                    *)
(***************************************************************************)
Written   == InAppend \cup {"head"}
Result(k) == IF k.op = "put" THEN [v |-> k.ex.v + 1, w |-> k.n] ELSE Missing

\* Nothing that has returned is overwritten by an entry written at x.
Free(x) == x \in Index => ledger[x].stamp \notin audited
Stock ==
    /\ audited \subseteq 1..ops
    /\ \A r \in Record : /\ store[r].w <= ops \/ store[r].w > MaxOps
                         /\ ~Exists(store[r]) => store[r].w = 0
    /\ \A i \in Used : ledger[i].op = "put" => ledger[i].payload = ledger[i].stamp
    /\ \A h \in Handle : head[h].known => Free(head[h].next)

\* A call in flight: its number is its own, the record it works on is as it has
\* left or read it, and its entry says what it did.
Numbers(k) ==
    k.pc # "idle" => /\ k.n \notin audited
                     /\ \A r \in Record : store[r].w = k.n => r = k.id /\ k.pc \in Written
EntryOf(k) == LET e == ledger[k.next.next] IN e.op = k.op /\ e.id = k.id /\ e.payload = k.payload
Writes(k) ==
    /\ k.pc \in Written => store[k.id] = Result(k) /\ (k.op = "put" => k.payload = k.n)
    /\ k.pc \in InAppend => Free(k.next.next)
    /\ k.pc = "done" => EntryOf(k)
Hydrating(k) ==
    \A r \in Record : \/ ~Exists(store[r]) \/ r \in k.todo \/ (k.pc = "decrypt" /\ r = k.rec)
                      \/ cache[k.h][r] = store[r]
Reads(k) ==
    /\ k.pc = "decrypt" => k.env = store[k.rec]
    /\ k.pc = "fetched" /\ k.op = "get" => k.env = store[k.id]
    /\ k.pc \in {"hydrate", "decrypt"} => Hydrating(k)

Books == Stock /\ (\A c \in Caller : Numbers(call[c]) /\ Writes(call[c]) /\ Reads(call[c])) /\ AuditSound

LEMMA IdleBooks ==
    ASSUME NEW k, k.pc = "idle" PROVE Numbers(k) /\ Writes(k) /\ Reads(k)
BY DEF Numbers, Writes, Reads, Written, InAppend

LEMMA InitBooks == Init => Books
<1> SUFFICES ASSUME Init PROVE Books
  OBVIOUS
<1>1. \A c \in Caller : call[c] = Idle /\ Idle.pc = "idle"
  BY DEF Init, Idle
<1>2. Stock
  BY DEF Init, Stock, Missing, Exists, Used, NotLoaded
<1>3. AuditSound
  BY DEF Init, AuditSound, AuditComplete, LatestIsAudited, CacheIsAudited
<1> QED
  BY <1>1, <1>2, <1>3, IdleBooks DEF Books

(* Only one call is in flight, so that it is enough to look at that one.   *)
LEMMA BooksFrom ==
    ASSUME TypeOK, Chain, NEW c \in Caller, call[c].pc # "idle" \/ Quiet,
           NEW m, call' = [call EXCEPT ![c] = m],
           (Numbers(m) /\ Writes(m) /\ Reads(m))', Stock', AuditSound'
    PROVE  Books'
<1> SUFFICES ASSUME NEW d \in Caller PROVE (Numbers(call[d]) /\ Writes(call[d]) /\ Reads(call[d]))'
  BY DEF Books
<1>1. PICK k : k = call'[d]
  OBVIOUS
<1>2. CASE d = c
  BY <1>1, <1>2 DEF TypeOK
<1>3. CASE d # c
  <2>1. call'[d] = call[d] /\ call[d].pc = "idle"
    BY <1>3 DEF TypeOK, Chain, Alone, Quiet
  <2>2. k.pc = "idle"
    BY <1>1, <2>1
  <2>3. (Numbers(k) /\ Writes(k) /\ Reads(k))'
    BY <2>2 DEF Numbers, Writes, Reads, Written, InAppend
  <2> QED
    BY <1>1, <2>3
<1> QED
  BY <1>2, <1>3

LEMMA ReturnBooks ==
    ASSUME TypeOK, Chain, NEW c \in Caller, call[c].pc # "idle", Return(c), Stock', AuditSound'
    PROVE  Books'
<1>1. PICK m : m = Idle
  OBVIOUS
<1>2. m.pc = "idle" /\ call' = [call EXCEPT ![c] = m]
  BY <1>1 DEF Return, Idle
<1>3. (Numbers(m) /\ Writes(m) /\ Reads(m))'
  BY <1>2 DEF Numbers, Writes, Reads, Written, InAppend
<1> QED
  BY <1>2, <1>3, BooksFrom

(* What stays as it is.                                                    *)
LEMMA StockStays ==
    ASSUME Stock, UNCHANGED <<store, ledger, audited, ops, head>> PROVE Stock'
BY DEF Stock, Free, Used

LEMMA AuditStays ==
    ASSUME AuditSound, UNCHANGED <<store, ledger, audited, mode, cache, hydrated>> PROVE AuditSound'
BY DEF AuditSound, AuditComplete, LatestIsAudited, CacheIsAudited, Used, LatestOf, Cached

LEMMA NumbersStay ==
    ASSUME NEW k, NEW m, Numbers(k), k.pc # "idle", m.n = k.n, m.id = k.id,
           k.pc \in Written => m.pc \in Written, UNCHANGED <<store, audited>>
    PROVE  Numbers(m)'
BY DEF Numbers

(* ensureHydrated.                                                         *)
LEMMA HydrateBooks ==
    ASSUME TypeOK, Chain, Books, NEW c \in Caller,
           HydrateList(c) \/ (\E r \in Record : HydrateRead(c, r)) \/ HydrateEnd(c)
    PROVE  Books'
<1> USE DEF disk, memory, counts
<1>a. PICK k \in CallType : k = call[c]
  BY DEF TypeOK
<1>b. Numbers(k) /\ Writes(k) /\ Reads(k) /\ Stock /\ AuditSound
  BY <1>a DEF Books
<1>1. CASE HydrateList(c)
  <2>1. PICK X : X = {r \in Record : Exists(store[r])}
    OBVIOUS
  <2>2. PICK m : m = [k EXCEPT !.pc = "hydrate", !.todo = X]
    OBVIOUS
  <2>3. m.pc = "hydrate" /\ m.todo = X /\ m.n = k.n /\ m.id = k.id /\ m.h = k.h
    BY <2>2 DEF CallType
  <2>4. /\ call' = [call EXCEPT ![c] = m] /\ k.pc = "list"
        /\ UNCHANGED <<store, ledger, audited, mode, cache, hydrated, head, ops>>
    BY <1>1, <1>a, <2>1, <2>2 DEF HydrateList, TypeOK
  <2>5. Numbers(m)' /\ Stock' /\ AuditSound'
    BY <1>b, <2>3, <2>4, NumbersStay, StockStays, AuditStays DEF Written, InAppend
  <2>6. (Writes(m) /\ Reads(m))'
    BY <2>1, <2>3, <2>4 DEF Writes, Reads, Hydrating, Written, InAppend
  <2> QED
    BY <1>a, <2>4, <2>5, <2>6, BooksFrom
<1>2. ASSUME NEW r \in Record, HydrateRead(c, r) PROVE Books'
  <2>1. PICK e : e = store[r]
    OBVIOUS
  <2>2. PICK m : m = [k EXCEPT !.pc = "decrypt", !.todo = @ \ {r}, !.rec = r, !.env = e]
    OBVIOUS
  <2>3. /\ m.pc = "decrypt" /\ m.todo = k.todo \ {r} /\ m.rec = r /\ m.env = e
        /\ m.n = k.n /\ m.id = k.id /\ m.h = k.h
    BY <2>2 DEF CallType
  <2>4. /\ call' = [call EXCEPT ![c] = m] /\ k.pc = "hydrate"
        /\ UNCHANGED <<store, ledger, audited, mode, cache, hydrated, head, ops>>
    BY <1>2, <1>a, <2>1, <2>2 DEF HydrateRead, TypeOK
  <2>5. Numbers(m)' /\ Stock' /\ AuditSound'
    BY <1>b, <2>3, <2>4, NumbersStay, StockStays, AuditStays DEF Written, InAppend
  <2>6. (Writes(m) /\ Reads(m))'
    BY <1>b, <2>1, <2>3, <2>4 DEF Writes, Reads, Hydrating, Written, InAppend
  <2> QED
    BY <1>a, <2>4, <2>5, <2>6, BooksFrom
<1>3. CASE HydrateEnd(c)
  <2>1. PICK m : m = [k EXCEPT !.pc = "ready"]
    OBVIOUS
  <2>2. m.pc = "ready" /\ m.n = k.n /\ m.id = k.id
    BY <2>1 DEF CallType
  <2>3. /\ call' = [call EXCEPT ![c] = m] /\ k.pc = "hydrate" /\ k.todo = {} /\ k.h \in Handle
        /\ hydrated' = [hydrated EXCEPT ![k.h] = TRUE]
        /\ UNCHANGED <<store, ledger, audited, mode, cache, head, ops>>
    BY <1>3, <1>a, <2>1 DEF HydrateEnd, Goto, TypeOK, CallType
  <2>4. Numbers(m)' /\ Stock'
    BY <1>b, <2>2, <2>3, NumbersStay, StockStays DEF Written, InAppend
  <2>5. (Writes(m) /\ Reads(m))'
    BY <2>2 DEF Writes, Reads, Written, InAppend
  <2>6. \A r \in Record : store[r].w \in audited => cache[k.h][r] = store[r]
    BY <1>b, <2>3 DEF Reads, Hydrating, Stock
  <2>7. CacheIsAudited'
    BY <1>b, <2>3, <2>6 DEF AuditSound, CacheIsAudited, Cached, TypeOK
  <2>8. AuditSound'
    BY <1>b, <2>3, <2>7 DEF AuditSound, AuditComplete, LatestIsAudited, Used, LatestOf
  <2> QED
    BY <1>a, <2>3, <2>4, <2>5, <2>8, BooksFrom
<1> QED
  BY <1>1, <1>2, <1>3

(* A record read for the cache is still what the store holds.              *)
LEMMA HydrateSetBooks ==
    ASSUME TypeOK, Chain, Books, NEW c \in Caller, HydrateSet(c)
    PROVE  Books'
<1>a. PICK k \in CallType : k = call[c]
  BY DEF TypeOK
<1>b. Numbers(k) /\ Writes(k) /\ Reads(k) /\ Stock /\ AuditSound
  BY <1>a DEF Books
<1>1. PICK m : m = [k EXCEPT !.pc = "hydrate", !.rec = AnyRecord, !.env = Missing]
  OBVIOUS
<1>2. m.pc = "hydrate" /\ m.n = k.n /\ m.id = k.id /\ m.h = k.h /\ m.todo = k.todo
  BY <1>1 DEF CallType
<1>3. /\ call' = [call EXCEPT ![c] = m] /\ k.pc = "decrypt" /\ k.h \in Handle /\ k.rec \in Record
      /\ cache' = IF Exists(k.env) THEN [cache EXCEPT ![k.h][k.rec] = k.env] ELSE cache
      /\ UNCHANGED <<store, ledger, audited, mode, hydrated, head, ops>>
  BY <1>a, <1>1 DEF HydrateSet, TypeOK, CallType, disk, counts
<1>4. k.env = store[k.rec]
  BY <1>b, <1>3 DEF Reads
<1>5. \A h \in Handle, r \in Record :
          cache'[h][r] = IF h = k.h /\ r = k.rec /\ Exists(store[r]) THEN store[r] ELSE cache[h][r]
  BY <1>3, <1>4 DEF TypeOK
<1>6. Numbers(m)' /\ Stock'
  BY <1>b, <1>2, <1>3, NumbersStay, StockStays DEF Written, InAppend
<1>7. Hydrating(m)'
  BY <1>b, <1>2, <1>3, <1>5 DEF Reads, Hydrating
<1>8. (Writes(m) /\ Reads(m))'
  BY <1>2, <1>7 DEF Writes, Reads, Written, InAppend
<1>9. CacheIsAudited'
  BY <1>b, <1>3, <1>5 DEF AuditSound, CacheIsAudited, Cached
<1>10. AuditSound'
  BY <1>b, <1>3, <1>9 DEF AuditSound, AuditComplete, LatestIsAudited, Used, LatestOf
<1> QED
  BY <1>a, <1>3, <1>6, <1>8, <1>10, BooksFrom


(* What a cache makes of a record it is given.                             *)
LEMMA RememberedIs ==
    ASSUME TypeOK, NEW h \in Handle, NEW r \in Record, NEW env, NEW C \in Remembered(h, r, env)
    PROVE  \A g \in Handle, q \in Record :
              \/ C[g][q] = IF g = h /\ q = r THEN env ELSE cache[g][q]
              \/ mode # "eager" /\ C[g][q] = Missing
<1> DEFINE full == [cache EXCEPT ![h][r] = env]
<1>1. \A g \in Handle, q \in Record : full[g][q] = IF g = h /\ q = r THEN env ELSE cache[g][q]
  BY DEF TypeOK
<1>2. DOMAIN full = Handle
  BY DEF TypeOK
<1>3. \/ C = full
      \/ mode # "eager" /\ \E K \in SUBSET Record :
            C = [full EXCEPT ![h] = [q \in Record |-> IF q \in K THEN @[q] ELSE Missing]]
  BY DEF Remembered
<1> HIDE DEF full
<1>4. ASSUME NEW K \in SUBSET Record, NEW g \in Handle, NEW q \in Record,
             C = [full EXCEPT ![h] = [p \in Record |-> IF p \in K THEN @[p] ELSE Missing]]
      PROVE  C[g][q] = full[g][q] \/ C[g][q] = Missing
  BY <1>2, <1>4
<1> QED
  BY ZenonT(60), <1>1, <1>3, <1>4

(* Giving a cache what the store holds of a record, also of one that has   *)
(* become audited with it.                                                 *)
LEMMA CacheTakes ==
    ASSUME TypeOK, CacheIsAudited, UNCHANGED <<store, mode, hydrated>>,
           NEW h \in Handle, NEW r \in Record, cache' \in Remembered(h, r, store[r]),
           \A g \in Handle, q \in Record : (g # h \/ q # r) /\ store[q].w \in audited'
                                              => store[q].w \in audited
    PROVE  CacheIsAudited'
<1>1. \A g \in Handle, q \in Record :
          \/ cache'[g][q] = IF g = h /\ q = r THEN store[r] ELSE cache[g][q]
          \/ mode # "eager" /\ cache'[g][q] = Missing
  BY RememberedIs
<1>2. ~Exists(Missing)
  BY DEF Exists, Missing
<1> SUFFICES ASSUME NEW q \in Record, NEW g \in Handle, store[q].w \in audited',
                    Exists(cache'[g][q]) \/ (mode = "eager" /\ hydrated[g])
             PROVE  cache'[g][q] = store[q]
  BY DEF CacheIsAudited, Cached
<1>3. cache'[g][q] = IF g = h /\ q = r THEN store[r] ELSE cache[g][q]
  BY <1>1, <1>2
<1> QED
  BY <1>3 DEF CacheIsAudited, Cached

LEMMA FetchBooks ==
    ASSUME TypeOK, Chain, Books, NEW c \in Caller, Fetch(c) \/ FetchedGet(c) \/ GetEnds(c) \/ Fail(c)
    PROVE  Books'
<1> USE DEF disk, memory, counts
<1>a. PICK k \in CallType : k = call[c]
  BY DEF TypeOK
<1>b. Numbers(k) /\ Writes(k) /\ Reads(k) /\ Stock /\ AuditSound
  BY <1>a DEF Books
<1>1. CASE Fetch(c)
  <2>1. /\ k.pc = "fetch" /\ UNCHANGED <<store, ledger, audited, mode, cache, hydrated, head, ops>>
    BY <1>1, <1>a DEF Fetch
  <2>2. Stock' /\ AuditSound'
    BY <1>b, <2>1, StockStays, AuditStays
  <2>3. CASE Return(c)
    BY <1>a, <2>1, <2>2, <2>3, ReturnBooks
  <2>4. CASE call' = [call EXCEPT ![c].pc = "fetched", ![c].env = store[k.id]]
    <3>1. PICK e : e = store[k.id]
      OBVIOUS
    <3>2. PICK m : m = [k EXCEPT !.pc = "fetched", !.env = e]
      OBVIOUS
    <3>3. m.pc = "fetched" /\ m.n = k.n /\ m.id = k.id /\ m.env = e
      BY <3>2 DEF CallType
    <3>4. call' = [call EXCEPT ![c] = m]
      BY <1>a, <2>4, <3>1, <3>2 DEF TypeOK
    <3>5. Numbers(m)'
      BY <1>b, <2>1, <3>3, NumbersStay DEF Written, InAppend
    <3>6. (Writes(m) /\ Reads(m))'
      BY <2>1, <3>1, <3>3 DEF Writes, Reads, Written, InAppend
    <3> QED
      BY <1>a, <2>1, <2>2, <3>4, <3>5, <3>6, BooksFrom
  <2>5. CASE Goto(c, "fetched") /\ k.op # "get"
    <3>1. PICK m : m = [k EXCEPT !.pc = "fetched"]
      OBVIOUS
    <3>2. m.pc = "fetched" /\ m.n = k.n /\ m.id = k.id /\ m.op = k.op
      BY <3>1 DEF CallType
    <3>3. call' = [call EXCEPT ![c] = m]
      BY <1>a, <2>5, <3>1 DEF TypeOK, Goto
    <3>4. Numbers(m)'
      BY <1>b, <2>1, <3>2, NumbersStay DEF Written, InAppend
    <3>5. (Writes(m) /\ Reads(m))'
      BY <2>5, <3>2 DEF Writes, Reads, Written, InAppend
    <3> QED
      BY <1>a, <2>1, <2>2, <3>3, <3>4, <3>5, BooksFrom
  <2> QED
    BY <1>1, <1>a, <2>3, <2>4, <2>5 DEF Fetch
<1>2. CASE FetchedGet(c)
  <2>1. /\ k.pc = "fetched" /\ k.op = "get" /\ cache' \in Remembered(k.h, k.id, k.env) /\ Return(c)
        /\ k.h \in Handle /\ k.id \in Record
        /\ UNCHANGED <<store, ledger, audited, mode, hydrated, head, ops>>
    BY <1>2, <1>a DEF FetchedGet, CallType
  <2>2. k.env = store[k.id]
    BY <1>b, <2>1 DEF Reads
  <2>3. CacheIsAudited'
    BY <1>b, <2>1, <2>2, CacheTakes DEF AuditSound
  <2>4. AuditSound'
    BY <1>b, <2>1, <2>3 DEF AuditSound, AuditComplete, LatestIsAudited, Used, LatestOf
  <2> QED
    BY <1>a, <1>b, <2>1, <2>4, StockStays, ReturnBooks
<1>3. CASE GetEnds(c) \/ Fail(c)
  <2>1. /\ call[c].pc # "idle" /\ Return(c)
        /\ UNCHANGED <<store, ledger, audited, mode, cache, hydrated, head, ops>>
    BY <1>3 DEF GetEnds, Fail
  <2> QED
    BY <1>b, <2>1, StockStays, AuditStays, ReturnBooks
<1> QED
  BY <1>1, <1>2, <1>3

(* A put or delete goes on towards its write.                              *)
LEMMA TowardsBooks ==
    ASSUME TypeOK, Chain, Books, NEW c \in Caller, NEW k, NEW m, k = call[c],
           k.pc \in {"ready", "fetched", "history", "peek", "write"},
           m.pc \in {"history", "peek", "write"}, m.n = k.n, m.id = k.id,
           call' = [call EXCEPT ![c] = m],
           UNCHANGED <<store, ledger, audited, mode, cache, hydrated, head, ops>>
    PROVE  Books'
<1>1. Numbers(k) /\ Stock /\ AuditSound
  BY DEF Books
<1>2. Stock' /\ AuditSound'
  BY <1>1, StockStays, AuditStays
<1>3. Numbers(m)'
  BY <1>1, NumbersStay DEF Written, InAppend
<1>4. (Writes(m) /\ Reads(m))'
  BY DEF Writes, Reads, Written, InAppend
<1> QED
  BY <1>2, <1>3, <1>4, BooksFrom

(* The record a put or delete builds on, its snapshot, its hash.           *)
LEMMA PrepareBooks ==
    ASSUME TypeOK, Chain, Books, NEW c \in Caller, Resolve(c) \/ SaveHistory(c) \/ Peek(c)
    PROVE  Books'
<1> USE DEF disk, memory, counts
<1>a. PICK k \in CallType : k = call[c]
  BY DEF TypeOK
<1>c. UNCHANGED <<store, ledger, audited, mode, cache, hydrated, head, ops>>
  BY DEF Resolve, SaveHistory, Peek
<1>1. CASE Resolve(c)
  <2>1. PICK x : x = Existing(c)
    OBVIOUS
  <2>2. PICK p : p = IF Exists(x) THEN "history" ELSE AfterHistory(k.op)
    OBVIOUS
  <2>3. PICK m : m = [k EXCEPT !.ex = x, !.env = Missing, !.pc = p]
    OBVIOUS
  <2>4. m.pc = p /\ m.n = k.n /\ m.id = k.id /\ p \in {"history", "peek", "write"}
    BY <2>2, <2>3 DEF CallType, AfterHistory
  <2>5. call' = [call EXCEPT ![c] = m] /\ k.pc \in {"ready", "fetched"}
    BY <1>1, <1>a, <2>1, <2>2, <2>3 DEF Resolve, TypeOK
  <2> QED
    BY <1>a, <1>c, TowardsBooks, <2>4, <2>5
<1>2. CASE SaveHistory(c)
  <2>1. PICK p : p = AfterHistory(k.op)
    OBVIOUS
  <2>2. PICK m : m = [k EXCEPT !.pc = p]
    OBVIOUS
  <2>3. m.pc = p /\ m.n = k.n /\ m.id = k.id /\ p \in {"history", "peek", "write"}
    BY <2>1, <2>2 DEF CallType, AfterHistory
  <2>4. call' = [call EXCEPT ![c] = m] /\ k.pc = "history"
    BY <1>2, <1>a, <2>1, <2>2 DEF SaveHistory, Goto, TypeOK
  <2> QED
    BY <1>a, <1>c, TowardsBooks, <2>3, <2>4
<1>3. CASE Peek(c)
  <2>1. PICK w : w = store[k.id].w
    OBVIOUS
  <2>2. PICK m : m = [k EXCEPT !.pc = "write", !.payload = w]
    OBVIOUS
  <2>3. m.pc = "write" /\ m.n = k.n /\ m.id = k.id
    BY <2>2 DEF CallType
  <2>4. call' = [call EXCEPT ![c] = m] /\ k.pc = "peek"
    BY <1>3, <1>a, <2>1, <2>2 DEF Peek, TypeOK
  <2> QED
    BY <1>a, <1>c, TowardsBooks, <2>3, <2>4
<1> QED
  BY <1>1, <1>2, <1>3


(* The record is written; no entry speaks of the new one yet.              *)
LEMMA StoreBooks ==
    ASSUME TypeOK, Dense, Chain, Books, NEW c \in Caller, NEW k \in CallType, NEW m, k = call[c],
           k.pc = "write", m.pc = "head", m.n = k.n, m.id = k.id, m.op = k.op, m.ex = k.ex,
           m.op = "put" => m.payload = m.n,
           call' = [call EXCEPT ![c] = m], store' = [store EXCEPT ![k.id] = Result(k)],
           UNCHANGED <<ledger, audited, mode, cache, hydrated, head, ops>>
    PROVE  Books'
<1>1. Numbers(k) /\ Stock /\ AuditSound
  BY DEF Books
<1>2. k.n \in 1..ops /\ k.n \notin audited /\ ops \in Nat /\ k.ex.v \in Nat /\ k.id \in Record
  <2>1. k.n \notin audited /\ k.n \in 1..ops
    BY <1>1 DEF Dense, CallsNumbered, Numbers
  <2>2. ops \in Nat
    BY CollectionAssumption DEF TypeOK
  <2>3. k.id \in Record /\ k.ex \in Envelope
    BY DEF CallType
  <2> QED
    BY <2>1, <2>2, <2>3 DEF Envelope
<1>3. \A r \in Record : store'[r] = IF r = k.id THEN Result(k) ELSE store[r]
  BY DEF TypeOK
<1>4. Result(k).w \in {0, k.n} /\ (~Exists(Result(k)) => Result(k).w = 0)
  BY <1>2 DEF Result, Missing, Exists
<1>5. Result(k).w \notin audited /\ Result(k).w <= ops
  BY <1>1, <1>2, <1>4 DEF Stock
<1>6. Stock'
  BY <1>1, <1>3, <1>4, <1>5 DEF Stock, Free, Used
<1>7. AuditSound'
  BY <1>1, <1>3, <1>5
     DEF AuditSound, AuditComplete, LatestIsAudited, CacheIsAudited, Used, LatestOf, Cached
<1>8. Numbers(m)'
  <2>1. "head" \in Written
    BY DEF Written
  <2> QED
    BY <1>1, <1>2, <1>3, <2>1 DEF Numbers
<1>9. Result(m) = Result(k)
  BY DEF Result
<1>10. Writes(m)'
  BY <1>2, <1>3, <1>9 DEF Writes, Result, InAppend
<1>11. Reads(m)'
  BY DEF Reads
<1> QED
  BY <1>6, <1>7, <1>8, <1>10, <1>11, BooksFrom

LEMMA WriteBooks ==
    ASSUME TypeOK, Dense, Chain, Books, NEW c \in Caller, WritePut(c) \/ WriteDelete(c)
    PROVE  Books'
<1> USE DEF memory, counts
<1>a. PICK k \in CallType : k = call[c]
  BY DEF TypeOK
<1>1. CASE WritePut(c)
  <2>1. PICK m : m = [k EXCEPT !.pc = "head", !.payload = k.n]
    OBVIOUS
  <2>2. m.pc = "head" /\ m.n = k.n /\ m.id = k.id /\ m.op = k.op /\ m.ex = k.ex /\ m.payload = k.n
    BY <2>1 DEF CallType
  <2>3. call' = [call EXCEPT ![c] = m] /\ k.pc = "write" /\ k.op = "put"
    BY <1>1, <1>a, <2>1 DEF WritePut, TypeOK
  <2>4. /\ store' = [store EXCEPT ![k.id] = Result(k)]
        /\ UNCHANGED <<ledger, audited, mode, cache, hydrated, head, ops>>
    BY <1>1, <1>a DEF WritePut, Result
  <2> QED
    BY <1>a, <2>2, <2>3, <2>4, StoreBooks
<1>2. CASE WriteDelete(c)
  <2>1. PICK m : m = [k EXCEPT !.pc = "head"]
    OBVIOUS
  <2>2. m.pc = "head" /\ m.n = k.n /\ m.id = k.id /\ m.op = k.op /\ m.ex = k.ex
    BY <2>1 DEF CallType
  <2>3. call' = [call EXCEPT ![c] = m] /\ k.pc = "write" /\ k.op = "delete"
    BY <1>2, <1>a, <2>1 DEF WriteDelete, Goto, TypeOK
  <2>4. /\ store' = [store EXCEPT ![k.id] = Result(k)]
        /\ UNCHANGED <<ledger, audited, mode, cache, hydrated, head, ops>>
    BY <1>2, <1>a DEF WriteDelete, Result
  <2> QED
    BY <1>a, <2>2, <2>3, <2>4, StoreBooks
<1> QED
  BY <1>1, <1>2

(* A step of append up to its entry: the head it goes on with is free.     *)
HeadsTo(hd) == \A h \in Handle : head'[h].known => head'[h] = hd \/ head'[h] = head[h]
LEMMA TakesBooks ==
    ASSUME TypeOK, Chain, Books, NEW c \in Caller, NEW k, NEW m, k = call[c],
           k.pc \in {"head", "hash", "delta"}, m.pc \in {"hash", "delta", "entry"}, m.n = k.n,
           m.id = k.id, m.op = k.op, m.ex = k.ex, m.payload = k.payload, Free(m.next.next),
           call' = [call EXCEPT ![c] = m],
           HeadsTo(m.next),
           UNCHANGED <<store, ledger, audited, mode, cache, hydrated, ops>>
    PROVE  Books'
<1>1. Numbers(k) /\ Writes(k) /\ Stock /\ AuditSound
  BY DEF Books
<1>2. \A x : Free(x) => Free(x)'
  BY DEF Free
<1>3. Stock'
  BY <1>1, <1>2 DEF Stock, Used, HeadsTo
<1>4. AuditSound'
  BY <1>1, AuditStays
<1>5. Numbers(m)'
  BY <1>1, NumbersStay DEF Written, InAppend
<1>6. Result(m) = Result(k)
  BY DEF Result
<1>7. Writes(m)'
  BY <1>1, <1>2, <1>6 DEF Writes, Written, InAppend, Result
<1>8. Reads(m)'
  BY DEF Reads
<1> QED
  BY <1>3, <1>4, <1>5, <1>7, <1>8, BooksFrom

(* The fields WithHead sets.                                               *)
LEMMA WithHeadIs ==
    ASSUME TypeOK, NEW c \in Caller, NEW k \in CallType, k = call[c], NEW hd, WithHead(c, hd)
    PROVE  \E m : /\ call' = [call EXCEPT ![c] = m] /\ m.pc \in {"delta", "entry"} /\ m.next = hd
                  /\ m.n = k.n /\ m.id = k.id /\ m.op = k.op /\ m.ex = k.ex /\ m.payload = k.payload
<1>1. PICK p : p = IF HasDelta(call[c]) THEN "delta" ELSE "entry"
  OBVIOUS
<1>2. PICK m : m = [k EXCEPT !.next = hd, !.pc = p]
  OBVIOUS
<1>3. /\ m.pc = p /\ m.next = hd /\ m.n = k.n /\ m.id = k.id /\ m.op = k.op /\ m.ex = k.ex
      /\ m.payload = k.payload
  BY <1>2 DEF CallType
<1>4. call' = [call EXCEPT ![c] = m]
  BY <1>1, <1>2 DEF WithHead, TypeOK
<1> QED
  BY <1>1, <1>3, <1>4

(* The place after the last entry is free.                                 *)
LEMMA StoredHeadFree ==
    ASSUME TypeOK, Dense, Stock PROVE Free(StoredHead.next)
<1>1. \A j \in Index : ledger[j] = NoEntry => ledger[j].stamp \notin audited
  BY DEF NoEntry, Stock
<1>2. CASE Used = {}
  BY <1>1, <1>2 DEF Used, Free
<1>3. CASE Used # {}
  <2>1. PICK i \in Index : i = LastUsed
    BY <1>3, LastUsedIs DEF Dense
  <2>2. ledger[i] # NoEntry /\ \A j \in Index : j > i => ledger[j] = NoEntry
    BY <1>3, <2>1, LastUsedIs DEF Dense
  <2>3. StoredHead.next = i + 1
    BY <1>3, <2>1, <2>2 DEF StoredHead, HeadAt, Dense, Indexed
  <2> QED
    BY <1>1, <2>2, <2>3 DEF Free, Index
<1> QED
  BY <1>2, <1>3

LEMMA HeadBooks ==
    ASSUME TypeOK, Dense, Chain, Books, NEW c \in Caller,
           AppendCached(c) \/ AppendLoad(c) \/ AppendLoaded(c) \/ AppendDelta(c)
    PROVE  Books'
<1> USE DEF disk, memory, counts
<1>a. PICK k \in CallType : k = call[c]
  BY DEF TypeOK
<1>b. Writes(k) /\ Stock
  BY <1>a DEF Books
<1>c. UNCHANGED <<store, ledger, audited, mode, cache, hydrated, ops>>
  BY DEF AppendCached, AppendLoad, AppendLoaded, AppendDelta
<1>d. k.h \in Handle
  BY DEF CallType
<1>1. CASE AppendCached(c)
  <2>1. PICK hd : hd = head[k.h]
    OBVIOUS
  <2>2. k.pc = "head" /\ head' = head /\ hd.known /\ WithHead(c, hd)
    BY <1>1, <1>a, <2>1 DEF AppendCached
  <2>3. PICK m : /\ call' = [call EXCEPT ![c] = m] /\ m.pc \in {"delta", "entry"} /\ m.next = hd
                 /\ m.n = k.n /\ m.id = k.id /\ m.op = k.op /\ m.ex = k.ex /\ m.payload = k.payload
    BY <1>a, <2>2, WithHeadIs
  <2>4. Free(m.next.next)
    BY <1>b, <1>d, <2>1, <2>2, <2>3 DEF Stock
  <2>5. HeadsTo(m.next)
    BY <2>2 DEF HeadsTo
  <2> QED
    BY <1>a, <1>c, <2>2, <2>3, <2>4, <2>5, TakesBooks
<1>2. CASE AppendLoad(c)
  <2>1. PICK hd : hd = StoredHead
    OBVIOUS
  <2>2. PICK m : m = [k EXCEPT !.pc = "hash", !.next = hd]
    OBVIOUS
  <2>3. /\ m.pc = "hash" /\ m.next = hd /\ m.n = k.n /\ m.id = k.id /\ m.op = k.op
        /\ m.ex = k.ex /\ m.payload = k.payload
    BY <2>2 DEF CallType
  <2>4. call' = [call EXCEPT ![c] = m] /\ k.pc = "head" /\ head' = head
    BY <1>2, <1>a, <2>1, <2>2 DEF AppendLoad, TypeOK
  <2>5. Free(m.next.next)
    BY <1>b, <2>1, <2>3, StoredHeadFree
  <2>6. HeadsTo(m.next)
    BY <2>4 DEF HeadsTo
  <2> QED
    BY <1>a, <1>c, <2>3, <2>4, <2>5, <2>6, TakesBooks
<1>3. CASE AppendLoaded(c)
  <2>1. PICK hd : hd = k.next
    OBVIOUS
  <2>2. k.pc = "hash" /\ head' = [head EXCEPT ![k.h] = hd] /\ WithHead(c, hd)
    BY <1>3, <1>a, <2>1 DEF AppendLoaded
  <2>3. PICK m : /\ call' = [call EXCEPT ![c] = m] /\ m.pc \in {"delta", "entry"} /\ m.next = hd
                 /\ m.n = k.n /\ m.id = k.id /\ m.op = k.op /\ m.ex = k.ex /\ m.payload = k.payload
    BY <1>a, <2>2, WithHeadIs
  <2>4. Free(m.next.next)
    BY <1>b, <2>1, <2>2, <2>3 DEF Writes, InAppend
  <2>5. HeadsTo(m.next)
    BY <1>d, <2>2, <2>3 DEF TypeOK, HeadsTo
  <2>6. k.pc \in {"head", "hash", "delta"} /\ m.pc \in {"hash", "delta", "entry"}
    BY <2>2, <2>3
  <2> QED
    BY <1>a, <1>c, <2>3, <2>4, <2>5, <2>6, TakesBooks
<1>4. CASE AppendDelta(c)
  <2>1. PICK m : m = [k EXCEPT !.pc = "entry"]
    OBVIOUS
  <2>2. /\ m.pc = "entry" /\ m.next = k.next /\ m.n = k.n /\ m.id = k.id /\ m.op = k.op
        /\ m.ex = k.ex /\ m.payload = k.payload
    BY <2>1 DEF CallType
  <2>3. call' = [call EXCEPT ![c] = m] /\ k.pc = "delta" /\ head' = head
    BY <1>4, <1>a, <2>1 DEF AppendDelta, Goto, TypeOK
  <2>4. Free(m.next.next)
    BY <1>b, <2>2, <2>3 DEF Writes, InAppend
  <2>5. HeadsTo(m.next)
    BY <2>3 DEF HeadsTo
  <2> QED
    BY <1>a, <1>c, <2>2, <2>3, <2>4, <2>5, TakesBooks
<1> QED
  BY <1>1, <1>2, <1>3, <1>4

(* The entry is written: nothing that has returned loses its own.          *)
LEMMA EntryBooks ==
    ASSUME OneWriter, TypeOK, Dense, Chain, Books, NEW c \in Caller, AppendEntry(c)
    PROVE  Books'
<1>a. PICK k \in CallType : k = call[c]
  BY DEF TypeOK
<1>b. Numbers(k) /\ Writes(k) /\ Stock /\ AuditSound
  BY <1>a DEF Books
<1>c. PICK x : x = k.next.next
  OBVIOUS
<1>d. PICK e : e = NewEntry(k)
  OBVIOUS
<1>1. PICK m : m = [k EXCEPT !.pc = "done"]
  OBVIOUS
<1>2. /\ m.pc = "done" /\ m.n = k.n /\ m.id = k.id /\ m.op = k.op /\ m.ex = k.ex
      /\ m.next = k.next /\ m.payload = k.payload
  BY <1>1 DEF CallType
<1>3. /\ call' = [call EXCEPT ![c] = m] /\ k.pc = "entry" /\ ledger' = [ledger EXCEPT ![x] = e]
      /\ UNCHANGED <<store, audited, mode, cache, hydrated, head, ops>>
  BY <1>a, <1>1, <1>c, <1>d DEF AppendEntry, Goto, TypeOK, memory, counts
<1>4. /\ e.stamp = k.n /\ e.id = k.id /\ e.op = k.op /\ e.payload = k.payload
      /\ k.n \in 1..ops /\ k.n \notin audited
  BY <1>a, <1>b, <1>d, <1>3 DEF NewEntry, Dense, CallsNumbered, Numbers
<1>5. x \in Index /\ Free(x)
  <2>1. At(k.next) /\ Pending(c) /\ k.next \in Head
    BY <1>a, <1>3 DEF Chain, CallsAt, Appending, Pending, CallType
  <2>2. x < ops /\ x \in Nat
    BY <1>c, <2>1 DEF At, Room, Head
  <2>3. ops <= MaxOps /\ ops \in Nat
    BY CollectionAssumption DEF TypeOK
  <2> QED
    BY <1>b, <1>c, <1>3, <2>2, <2>3, CollectionAssumption DEF Index, Writes, InAppend
<1>6. \A i \in Index : ledger'[i] = IF i = x THEN e ELSE ledger[i]
  BY <1>3 DEF TypeOK
<1>7. ledger[x].stamp \notin audited /\ e.stamp \notin audited /\ e # NoEntry
  BY <1>4, <1>5 DEF Free, NoEntry
<1>8. Used' = Used \cup {x}
  BY <1>5, <1>6, <1>7 DEF Used
<1>9. e.op = "put" => e.payload = e.stamp
  BY <1>b, <1>3, <1>4 DEF Writes, Written, InAppend
<1>10. \A y : Free(y) => Free(y)'
  BY <1>3, <1>6, <1>7 DEF Free
<1>11. Stock'
  BY <1>b, <1>3, <1>6, <1>8, <1>9, <1>10 DEF Stock, Used
<1>12. AuditComplete'
  BY <1>b, <1>3, <1>6, <1>7, <1>8 DEF AuditSound, AuditComplete, Used
<1>13. LatestIsAudited'
  <2> SUFFICES ASSUME NEW r \in Record, store[r].w \in audited
               PROVE  \E i \in LatestOf(r)' : ledger'[i].op = "put" /\ ledger'[i].payload = store[r].w
    BY <1>3 DEF LatestIsAudited
  <2>1. PICK i \in LatestOf(r) : ledger[i].op = "put" /\ ledger[i].payload = store[r].w
    BY <1>b DEF AuditSound, LatestIsAudited
  <2>2. i \in Used /\ i \in Index /\ ledger[i].id = r /\ \A j \in Used : ledger[j].id = r => j <= i
    BY <2>1 DEF LatestOf, Used
  <2>3. i # x
    BY <1>b, <1>7, <2>1, <2>2 DEF Stock
  <2>4. e.id # r
    <3>1. store[k.id] = Result(k)
      BY <1>b, <1>3 DEF Writes, Written, InAppend
    <3>2. store[k.id].w = 0 \/ store[k.id].w = k.n
      BY <3>1 DEF Result, Missing
    <3>3. 0 \notin audited
      BY <1>b DEF Stock
    <3> QED
      BY <1>4, <3>2, <3>3
  <2>5. \A j \in Used' : ledger'[j].id = r => j \in Used /\ ledger[j].id = r
    BY <1>5, <1>6, <1>8, <2>4 DEF Used
  <2>6. i \in Used' /\ ledger'[i] = ledger[i]
    BY <1>6, <1>8, <2>2, <2>3
  <2>7. i \in LatestOf(r)'
    BY <2>2, <2>5, <2>6 DEF LatestOf
  <2> QED
    BY <2>1, <2>6, <2>7
<1>14. AuditSound'
  BY <1>b, <1>3, <1>12, <1>13 DEF AuditSound, CacheIsAudited, Cached
<1>15. Numbers(m)'
  BY <1>b, <1>2, <1>3, NumbersStay DEF Written, InAppend
<1>16. EntryOf(m)'
  BY <1>2, <1>4, <1>5, <1>6, <1>c DEF EntryOf
<1>17. Result(m) = Result(k)
  BY <1>2 DEF Result
<1>18. (Writes(m) /\ Reads(m))'
  BY <1>b, <1>2, <1>3, <1>10, <1>16, <1>17 DEF Writes, Reads, Written, InAppend, Result
<1> QED
  BY <1>a, <1>3, <1>11, <1>14, <1>15, <1>18, BooksFrom

(* A put or delete returns: it is in the books from here on.               *)
LEMMA FinishBooks ==
    ASSUME OneWriter, TypeOK, Dense, Chain, Books, NEW c \in Caller, Finish(c)
    PROVE  Books'
<1>a. PICK k \in CallType : k = call[c]
  BY DEF TypeOK
<1>b. Numbers(k) /\ Writes(k) /\ Stock /\ AuditSound
  BY <1>a DEF Books
<1>1. /\ k.pc = "done" /\ Return(c) /\ audited' = audited \cup {k.n}
      /\ head' = [head EXCEPT ![k.h] = HeadAt(k.next.next + 1, k.n)]
      /\ UNCHANGED <<store, ledger, mode, hydrated, ops>>
      /\ k.h \in Handle /\ k.id \in Record
  BY <1>a DEF Finish, CallType, disk, counts
<1>2. cache' \in IF k.op = "put" THEN Remembered(k.h, k.id, [v |-> k.ex.v + 1, w |-> k.n])
                                 ELSE {[cache EXCEPT ![k.h][k.id] = Missing]}
  BY <1>a DEF Finish
<1>3. PICK x \in Index : /\ x = k.next.next /\ Last(x) /\ ledger[x] # NoEntry /\ ledger[x].stamp = k.n
                         /\ ledger[x].op = k.op /\ ledger[x].id = k.id /\ ledger[x].payload = k.payload
  BY <1>a, <1>b, <1>1 DEF Chain, CallsAt, Appending, Writes, EntryOf
<1>4. /\ store[k.id] = Result(k) /\ (k.op = "put" => k.payload = k.n) /\ k.n \notin audited
      /\ \A q \in Record : store[q].w = k.n => q = k.id
  BY <1>b, <1>1 DEF Writes, Numbers, Written, InAppend
<1>5. k.n \in 1..ops /\ ops \in Nat
  BY <1>a, <1>1, CollectionAssumption DEF Dense, CallsNumbered, TypeOK
<1>6. 0 \notin audited' /\ audited' \subseteq 1..ops
  BY <1>b, <1>1, <1>5 DEF Stock
<1>7. Stock'
  <2>1. PICK hd : hd = HeadAt(x + 1, k.n)
    OBVIOUS
  <2>2. \A h \in Handle : head'[h] = hd
    BY <1>1, <1>3, <2>1 DEF OneWriter, TypeOK
  <2>3. Free(hd.next)'
    <3>1. hd.next \in Index => ledger[hd.next] = NoEntry
      BY <1>3, <2>1 DEF HeadAt, Last, Index
    <3> QED
      BY <1>1, <1>6, <3>1 DEF Free, NoEntry
  <2> QED
    BY <1>b, <1>1, <1>6, <2>2, <2>3 DEF Stock, Used
<1>8. AuditComplete'
  BY <1>b, <1>1, <1>3 DEF AuditSound, AuditComplete, Used
<1>9. LatestIsAudited'
  <2> SUFFICES ASSUME NEW q \in Record, store[q].w \in audited'
               PROVE  \E i \in LatestOf(q) : ledger[i].op = "put" /\ ledger[i].payload = store[q].w
    BY <1>1 DEF LatestIsAudited, LatestOf, Used
  <2>1. CASE store[q].w \in audited
    BY <1>b, <2>1 DEF AuditSound, LatestIsAudited
  <2>2. CASE store[q].w = k.n
    <3>1. q = k.id /\ k.op = "put"
      BY <1>4, <1>5, <2>2 DEF Result, Missing
    <3>2. \A j \in Used : j <= x
      BY <1>3 DEF Used, Last, Index
    <3>3. x \in LatestOf(q)
      BY <1>3, <3>1, <3>2 DEF LatestOf, Used
    <3> QED
      BY <1>3, <1>4, <2>2, <3>1, <3>3
  <2> QED
    BY <1>1, <2>1, <2>2
<1>10. CASE k.op = "put"
  <2>1. cache' \in Remembered(k.h, k.id, store[k.id])
    BY <1>2, <1>4, <1>10 DEF Result
  <2>2. \A g \in Handle, q \in Record : (g # k.h \/ q # k.id) /\ store[q].w \in audited'
                                            => store[q].w \in audited
    BY <1>1, <1>4 DEF OneWriter
  <2>3. CacheIsAudited'
    BY <1>b, <1>1, <2>1, <2>2, CacheTakes DEF AuditSound
  <2> QED
    BY <1>a, <1>1, <1>7, <1>8, <1>9, <2>3, ReturnBooks DEF AuditSound
<1>11. CASE k.op # "put"
  <2>1. store[k.id].w = 0
    BY <1>4, <1>11 DEF Result, Missing
  <2>2. \A q \in Record : store[q].w \in audited' => q # k.id /\ store[q].w \in audited
    BY <1>1, <1>4, <1>6, <2>1
  <2>3. \A g \in Handle, q \in Record : q # k.id => cache'[g][q] = cache[g][q]
    BY <1>1, <1>2, <1>11 DEF TypeOK
  <2>4. CacheIsAudited'
    BY <1>b, <1>1, <2>2, <2>3 DEF AuditSound, CacheIsAudited, Cached
  <2> QED
    BY <1>a, <1>1, <1>7, <1>8, <1>9, <2>4, ReturnBooks DEF AuditSound
<1> QED
  BY <1>10, <1>11

(* A call begins: no write bears its number yet.                           *)
LEMMA BeginBooks ==
    ASSUME OneWriter, TypeOK, Chain, Books, NEW c \in Caller, NEW op \in {"put", "delete", "get"},
           NEW h \in Handle, NEW r \in Record, Begin(c, op, h, r)
    PROVE  Books'
<1>1. PICK E : E = IF mode = "lazy" /\ op # "get" THEN cache[h][r] ELSE Missing
  OBVIOUS
<1>2. PICK p : p = IF mode = "lazy"
                   THEN (IF ~Cached(h, r) THEN "fetch" ELSE IF op = "get" THEN "ready" ELSE "fetched")
                   ELSE (IF op = "delete" \/ hydrated[h] THEN "ready" ELSE "list")
  OBVIOUS
<1>3. PICK m : m = [Idle EXCEPT !.op = op, !.h = h, !.id = r, !.n = ops + 1, !.env = E, !.pc = p]
  OBVIOUS
<1>4. m.pc = p /\ m.op = op /\ m.n = ops + 1
  BY <1>3 DEF Idle
<1>5. /\ call' = [call EXCEPT ![c] = m] /\ ops' = ops + 1 /\ ops < MaxOps /\ (Serial => Quiet)
      /\ UNCHANGED <<store, ledger, audited, mode, cache, hydrated, head>>
  BY <1>1, <1>2, <1>3 DEF Begin, disk, memory
<1>6. ops \in Nat /\ MaxOps \in Nat /\ Stock /\ AuditSound
  BY CollectionAssumption DEF TypeOK, Books
<1>7. \A q \in Record : store[q].w \in Nat
  BY CollectionAssumption DEF TypeOK, Envelope, Write
<1>8. Stock'
  BY <1>5, <1>6, <1>7 DEF Stock, Free, Used
<1>9. AuditSound'
  BY <1>5, <1>6, AuditStays
<1>10. m.n \notin audited /\ \A q \in Record : store[q].w # m.n
  BY <1>4, <1>5, <1>6, <1>7 DEF Stock
<1>11. p \in {"fetch", "ready", "fetched", "list"} /\ (p = "fetched" => op # "get")
  BY <1>2
<1>12. (Numbers(m) /\ Writes(m) /\ Reads(m))'
  BY <1>4, <1>5, <1>10, <1>11 DEF Numbers, Writes, Reads, Written, InAppend
<1> QED
  BY <1>5, <1>8, <1>9, <1>12, BooksFrom DEF OneWriter

LEMMA OutsideBooks ==
    ASSUME OneWriter, TypeOK, Chain, Books, (\E r \in Record : SyncPut(r)) \/ Crash \/ UNCHANGED vars
    PROVE  Books'
<1> USE DEF disk, memory, counts
<1>0. Stock /\ AuditSound
  BY DEF Books
<1>1. ASSUME NEW r \in Record, SyncPut(r) PROVE Books'
  <2>1. PICK e : e = [v |-> store[r].v + 1, w |-> MaxOps + syncs + 1]
    OBVIOUS
  <2>2. /\ store' = [store EXCEPT ![r] = e] /\ Quiet
        /\ UNCHANGED <<ledger, audited, mode, cache, hydrated, head, call, ops>>
    BY <1>1, <2>1 DEF SyncPut, OneWriter
  <2>3. e.w > MaxOps /\ e.w \in Nat /\ Exists(e)
    BY <2>1, CollectionAssumption DEF TypeOK, Envelope, Exists
  <2>4. \A q \in Record : store'[q] = IF q = r THEN e ELSE store[q]
    BY <2>2 DEF TypeOK
  <2>5. Stock'
    BY <1>0, <2>2, <2>3, <2>4 DEF Stock, Free, Used
  <2>6. e.w \notin audited
    BY <1>0, <2>3, CollectionAssumption DEF Stock, TypeOK
  <2>7. AuditSound'
    BY <1>0, <2>2, <2>4, <2>6
       DEF AuditSound, AuditComplete, LatestIsAudited, CacheIsAudited, LatestOf, Used, Cached
  <2>8. \A d \in Caller : call'[d].pc = "idle"
    BY <2>2 DEF Quiet
  <2> QED
    BY <2>5, <2>7, <2>8 DEF Books, Numbers, Writes, Reads, Written, InAppend
<1>2. CASE Crash
  <2>1. /\ cache' = [h \in Handle |-> [r \in Record |-> Missing]]
        /\ hydrated' = [h \in Handle |-> FALSE] /\ head' = [h \in Handle |-> NotLoaded]
        /\ call' = [c \in Caller |-> Idle] /\ UNCHANGED <<store, ledger, mode, audited, ops>>
    BY <1>2 DEF Crash
  <2>2. \A d \in Caller : call'[d].pc = "idle"
    BY <2>1 DEF Idle
  <2>3. \A h \in Handle : ~head'[h].known
    BY <2>1 DEF NotLoaded
  <2>4. Stock'
    BY <1>0, <2>1, <2>3 DEF Stock, Free, Used
  <2>5. \A h \in Handle, r \in Record : ~Exists(cache'[h][r]) /\ ~hydrated'[h]
    BY <2>1 DEF Missing, Exists
  <2>6. AuditSound'
    BY <1>0, <2>1, <2>5 DEF AuditSound, AuditComplete, LatestIsAudited, CacheIsAudited, LatestOf, Used, Cached
  <2> QED
    BY <2>2, <2>4, <2>6 DEF Books, Numbers, Writes, Reads, Written, InAppend
<1>3. CASE UNCHANGED vars
  <2>1. UNCHANGED <<store, ledger, audited, mode, cache, hydrated, head, ops, call>>
    BY <1>3 DEF vars
  <2>2. Stock' /\ AuditSound'
    BY <1>0, <2>1, StockStays, AuditStays
  <2>3. \A k : Numbers(k) /\ Writes(k) /\ Reads(k) => (Numbers(k) /\ Writes(k) /\ Reads(k))'
    BY <2>1 DEF Numbers, Writes, Reads, Free, EntryOf, Hydrating
  <2> QED
    BY <2>1, <2>2, <2>3 DEF Books
<1> QED
  BY <1>1, <1>2, <1>3

LEMMA BooksStep ==
    ASSUME OneWriter, TypeOK, Dense, Chain, Books, [Next]_vars
    PROVE  Books'
<1>1. ASSUME NEW c \in Caller, Step(c) \/ Fail(c) PROVE Books'
  BY <1>1, HydrateBooks, HydrateSetBooks, FetchBooks, PrepareBooks, WriteBooks, HeadBooks, EntryBooks,
     FinishBooks DEF Step
<1>2. ASSUME NEW c \in Caller, NEW op \in {"put", "delete", "get"}, NEW h \in Handle, NEW r \in Record,
             Begin(c, op, h, r)
      PROVE  Books'
  BY <1>2, BeginBooks
<1>3. CASE (\E r \in Record : SyncPut(r)) \/ Crash \/ UNCHANGED vars
  BY <1>3, OutsideBooks
<1> QED
  BY <1>1, <1>2, <1>3 DEF Next

(* For a single writer, what collection.put and collection.delete have     *)
(* returned for stays in the ledger (collection.ts:784, :877), the latest  *)
(* entry of a record that one of them wrote last is that write's, and so   *)
(* is what every cache shows of it: after any calls that failed or were    *)
(* cut off and any records that a sync engine has written.                 *)
THEOREM BooksAgree == OneWriter => (Spec => []AuditSound)
<1> SUFFICES ASSUME OneWriter PROVE Spec => []AuditSound
  OBVIOUS
<1>1. Books => AuditSound
  BY DEF Books
<1>2. TypeOK /\ Dense /\ Chain /\ Books /\ [Next]_vars => (TypeOK /\ Dense /\ Chain /\ Books)'
  BY DenseStep, ChainStep, BooksStep
<1>3. Init => TypeOK /\ Dense /\ Chain /\ Books
  BY InitDense, InitChain, InitBooks
<1> QED
  BY <1>1, <1>2, <1>3, PTL DEF Spec

-----------------------------------------------------------------------------
(***************************************************************************)
(* What the readers of the ledger find when every call comes to its end:  *)
(* one writer whose store calls succeed, restarts between calls only, no  *)
(* delete of a cache not yet filled and nothing written past the          *)
(* collection.  (verifyBackupIntegrity and reconstruct make no sense of a *)
(* put that was cut off between its record and its entry.)                *)
(***************************************************************************)
WholeCalls ==
    /\ OneWriter /\ MaxSyncs = 0 /\ MaxFails = 0
    /\ "midCallCrash" \notin Allowed /\ "coldDelete" \notin Allowed

-----------------------------------------------------------------------------
(***************************************************************************)
(* The invariant.  L and D stand for the ledger and its patches.  A put   *)
(* is current when no delete of its record follows it.                    *)
(***************************************************************************)
Of(L, i, r)      == L[i] # NoEntry /\ L[i].id = r
PutOf(L, i, r)   == Of(L, i, r) /\ L[i].op = "put"
Newest(L, i, r)  == Of(L, i, r) /\ \A k \in Index : k > i => ~Of(L, k, r)
Current(L, i, r) == PutOf(L, i, r) /\ \A k \in Index : k > i /\ Of(L, k, r) => L[k].op = "put"
Follows(L, i, j, r) == i < j /\ \A k \in Index : i < k /\ k < j => ~Of(L, k, r)

\* A put that follows a put of its record has a patch that leads back to it.
Patched(L, D) ==
    \A r \in Record, j \in Index : PutOf(L, j, r) =>
        /\ L[j].payload # Lost
        /\ \A i \in Index : PutOf(L, i, r) /\ Follows(L, i, j, r) =>
              L[j].delta /\ D[j] = [from |-> L[j].payload, to |-> L[i].payload]

\* The ledger tells of a record that is e and had the contents lf.
Told(L, r, e, lf) ==
    /\ Exists(e) => \E j \in Index : Newest(L, j, r) /\ PutOf(L, j, r) /\ L[j].payload = e.w
    /\ \A j \in Index : Current(L, j, r) =>
          /\ L[j].version \in 1..e.v /\ L[j].version \in DOMAIN lf
          /\ L[j].payload = lf[L[j].version]
    /\ \A v \in 1..e.v : \E j \in Index : Current(L, j, r) /\ L[j].version = v

\* A call between its record and its entry.
Owing(k) == k.pc \in {"head", "hash", "delta", "entry"}
Owes(k) ==
    /\ Owing(k) /\ k.op = "put" =>
          /\ Told(ledger, k.id, k.ex, life[k.id])
          /\ k.ex.v + 1 \in DOMAIN life[k.id] /\ life[k.id][k.ex.v + 1] = k.n
    /\ k.pc = "entry" /\ HasDelta(k) => deltas[k.next.next] = [from |-> k.n, to |-> k.ex.w]
Tells == \A r \in Record : \/ \E c \in Caller : Owing(call[c]) /\ call[c].id = r
                           \/ Told(ledger, r, store[r], life[r])

\* What a call has read is what the store holds.
Knows(k) ==
    /\ k.pc \in {"list", "hydrate", "decrypt"} \/ (k.pc = "ready" /\ k.op # "get") => mode = "eager"
    /\ k.pc = "ready" /\ k.op # "get" => hydrated[k.h]
    /\ k.pc = "fetch" => k.env = Missing
    /\ k.pc = "fetched" => k.env = store[k.id]
    /\ k.pc \in {"history", "peek", "write"} => k.ex = store[k.id]

Shown ==
    \A h \in Handle, r \in Record :
        /\ Cached(h, r) \/ cache[h][r] = Missing
        /\ (\E c \in Caller : call[c].pc \in Written /\ call[c].id = r)
           \/ (Cached(h, r) \/ (mode = "eager" /\ hydrated[h]) => cache[h][r] = store[r])

Exact == /\ DOMAIN life = Record /\ Patched(ledger, deltas) /\ Tells /\ Shown
         /\ \A c \in Caller : Owes(call[c]) /\ Knows(call[c])
-----------------------------------------------------------------------------
(* The walk of reconstruct.                                                *)
LEMMA Least ==
    ASSUME NEW S \in SUBSET Nat, S # {}
    PROVE  \E x \in S : \A y \in S : x <= y
<1>1. PICK x \in S : \A y \in S : ~(<<y, x>> \in OpToRel(<, Nat))
  BY NatLessThanWellFounded, WFMin
<1>2. \A y \in S : ~(y < x)
  BY <1>1 DEF OpToRel
<1> QED
  BY <1>2

\* One step of the walk of r, at the k-th entry from the end of n.
Back(r, n, k, s) ==
    LET e == ledger[n - k] IN
    IF e.id # r THEN s
    ELSE IF s = Lost \/ e.op = "delete" \/ ~e.delta THEN Lost
    ELSE Apply(deltas[n - k], s)
Walks(r, n, m, f) ==
    f = [k \in 0..m |-> IF k = 0 THEN store[r].w ELSE Back(r, n, k, f[k - 1])]

(* A walk of any length exists: the shortest that did not would go on from *)
(* one that does.                                                          *)
LEMMA WalkExists ==
    ASSUME NEW r, NEW n \in Nat
    PROVE  \E f : Walks(r, n, n, f)
<1> DEFINE S == {m \in Nat : ~\E f : Walks(r, n, m, f)}
<1>1. SUFFICES ASSUME S # {} PROVE FALSE
  OBVIOUS
<1>2. PICK m \in S : \A y \in S : m <= y
  <2>1. S \in SUBSET Nat
    OBVIOUS
  <2> HIDE DEF S
  <2> QED
    BY <1>1, <2>1, Least
<1>3. CASE m = 0
  <2> DEFINE f == [k \in 0..0 |-> store[r].w]
  <2>1. f = [k \in 0..0 |-> IF k = 0 THEN store[r].w ELSE Back(r, n, k, f[k - 1])]
    OBVIOUS
  <2> QED
    BY <1>2, <1>3, <2>1 DEF Walks
<1>4. CASE m # 0
  <2>1. m \in Nat /\ m - 1 \in Nat /\ m - 1 \notin S
    BY <1>2, <1>4
  <2>2. PICK f : Walks(r, n, m - 1, f)
    BY <2>1
  <2> DEFINE g == [k \in 0..m |-> IF k = m THEN Back(r, n, m, f[m - 1]) ELSE f[k]]
  <2>3. \A k \in 0..m : g[k] = IF k = 0 THEN store[r].w ELSE Back(r, n, k, g[k - 1])
    <3> SUFFICES ASSUME NEW k \in 0..m
                 PROVE  g[k] = IF k = 0 THEN store[r].w ELSE Back(r, n, k, g[k - 1])
      OBVIOUS
    <3>0. f = [j \in 0..(m - 1) |-> IF j = 0 THEN store[r].w ELSE Back(r, n, j, f[j - 1])]
      BY <2>2 DEF Walks
    <3>1. CASE k = m
      <4>1. g[k - 1] = f[m - 1] /\ g[k] = Back(r, n, m, f[m - 1]) /\ k # 0
        BY <3>1, <2>1, <1>4
      <4> QED
        BY <3>1, <4>1
    <3>2. CASE k # m /\ k # 0
      <4>1. g[k] = f[k] /\ g[k - 1] = f[k - 1] /\ k \in 0..(m - 1)
        BY <3>2, <2>1
      <4> QED
        BY <3>0, <3>2, <4>1
    <3>3. CASE k # m /\ k = 0
      BY <3>0, <3>3, <2>1
    <3> QED
      BY <3>1, <3>2, <3>3
  <2>4. Walks(r, n, m, g)
    <3> DEFINE h == [k \in 0..m |-> IF k = 0 THEN store[r].w ELSE Back(r, n, k, g[k - 1])]
    <3>1. g = h
      BY <2>3
    <3> QED
      BY <3>1 DEF Walks
  <2> QED
    BY <1>2, <2>1, <2>4
<1> QED
  BY <1>3, <1>4

LEMMA WalkIs ==
    ASSUME NEW r, NEW n \in Nat, n = Cardinality(Used)
    PROVE  /\ Walk(r)[0] = store[r].w
           /\ \A k \in 1..n : Walk(r)[k] = Back(r, n, k, Walk(r)[k - 1])
<1>1. PICK f : Walks(r, n, n, f)
  BY WalkExists
<1>2. Walk(r) = CHOOSE g : Walks(r, n, n, g)
  BY DEF Walk, Walks, Back
<1>3. Walks(r, n, n, Walk(r))
  BY <1>1, <1>2
<1> QED
  BY <1>3 DEF Walks

LEMMA Count ==
    ASSUME TypeOK, Dense
    PROVE  \E n \in Nat : /\ n = Cardinality(Used) /\ n <= MaxOps
                          /\ \A i \in Index : ledger[i] # NoEntry <=> i < n
<1>1. PICK n \in Nat : \A i \in Index : ledger[i] # NoEntry <=> i < n
  BY DEF Dense, Prefix
<1>2. PICK m \in Nat : m = IF n <= MaxOps THEN n ELSE MaxOps
  BY CollectionAssumption
<1>3. m <= MaxOps /\ \A i \in Index : ledger[i] # NoEntry <=> i < m
  BY <1>1, <1>2, CollectionAssumption DEF Index
<1>4. Used = 0..(m - 1)
  BY <1>3, CollectionAssumption DEF Used, Index
<1>5. 0 \in Int /\ m - 1 \in Int
  OBVIOUS
<1>6. Cardinality(0..(m - 1)) = m
  BY <1>5, FS_Interval
<1> QED
  BY <1>3, <1>4, <1>6

(* After k steps back over n entries the walk has the content of the last  *)
(* put before, when that is current.                                       *)
Traced(r, n, k) ==
    \A i \in Index : /\ Current(ledger, i, r) /\ i < n - k
                     /\ \A q \in Index : i < q /\ q < n - k => ~Of(ledger, q, r)
                     => Walk(r)[k] = ledger[i].payload

LEMMA TracedFirst ==
    ASSUME TypeOK, NEW n \in Nat, n = Cardinality(Used),
           \A i \in Index : ledger[i] # NoEntry <=> i < n,
           NEW r \in Record, Told(ledger, r, store[r], life[r])
    PROVE  Traced(r, n, 0)
<1> SUFFICES ASSUME NEW i \in Index, Current(ledger, i, r),
                    \A q \in Index : i < q /\ q < n => ~Of(ledger, q, r)
             PROVE  Walk(r)[0] = ledger[i].payload
  BY DEF Traced
<1>1. Newest(ledger, i, r)
  BY DEF Newest, Current, PutOf, Of
<1>2. ledger[i].version \in 1..store[r].v
  BY DEF Told
<1>3. Exists(store[r])
  BY <1>2 DEF Exists, TypeOK, Envelope
<1>4. PICK j \in Index : Newest(ledger, j, r) /\ ledger[j].payload = store[r].w
  BY <1>3 DEF Told
<1>5. i = j
  BY <1>1, <1>4, CollectionAssumption DEF Newest, Index
<1> QED
  BY <1>4, <1>5, WalkIs

LEMMA TracedNext ==
    ASSUME TypeOK, NEW n \in Nat, n = Cardinality(Used), n <= MaxOps,
           \A i \in Index : ledger[i] # NoEntry <=> i < n,
           Patched(ledger, deltas), NEW r \in Record, NEW k \in 1..n, Traced(r, n, k - 1)
    PROVE  Traced(r, n, k)
<1> SUFFICES ASSUME NEW i \in Index, Current(ledger, i, r), i < n - k,
                    \A q \in Index : i < q /\ q < n - k => ~Of(ledger, q, r)
             PROVE  Walk(r)[k] = ledger[i].payload
  BY DEF Traced
<1>1. PICK x \in Index : x = n - k
  BY CollectionAssumption DEF Index
<1>2. i \in Nat /\ x \in Nat /\ i < x /\ n - (k - 1) = x + 1 /\ ledger[x] # NoEntry
  BY <1>1, CollectionAssumption DEF Index
<1>3. PICK s : s = Walk(r)[k - 1]
  OBVIOUS
<1>4. Walk(r)[k] = Back(r, n, k, s)
  BY <1>3, WalkIs
<1>5. CASE ledger[x].id # r
  <2>1. \A q \in Index : i < q /\ q < n - (k - 1) => ~Of(ledger, q, r)
    BY <1>1, <1>2, <1>5, CollectionAssumption DEF Of, Index
  <2>2. s = ledger[i].payload
    BY <1>2, <1>3, <2>1 DEF Traced
  <2> QED
    BY <1>1, <1>4, <1>5, <2>2 DEF Back
<1>6. CASE ledger[x].id = r
  <2>1. ledger[x].op = "put" /\ PutOf(ledger, x, r) /\ PutOf(ledger, i, r)
    BY <1>2, <1>6 DEF Current, Of, PutOf
  <2>2. Current(ledger, x, r)
    BY <1>2, <2>1, CollectionAssumption DEF Current, Index
  <2>3. s = ledger[x].payload
    <3>1. \A q \in Index : x < q /\ q < n - (k - 1) => ~Of(ledger, q, r)
      BY <1>2, CollectionAssumption DEF Index
    <3>2. x < n - (k - 1)
      BY <1>2
    <3> QED
      BY <1>3, <2>2, <3>1, <3>2 DEF Traced
  <2>4. Follows(ledger, i, x, r)
    BY <1>1, <1>2 DEF Follows
  <2>5. /\ ledger[x].payload # Lost /\ ledger[x].delta
        /\ deltas[x] = [from |-> ledger[x].payload, to |-> ledger[i].payload]
    BY <2>1, <2>4 DEF Patched
  <2>6. ledger[x].op # "delete"
    BY <2>1
  <2> QED
    BY <1>1, <1>4, <1>6, <2>3, <2>5, <2>6 DEF Back, Apply
<1> QED
  BY <1>5, <1>6

LEMMA Retraced ==
    ASSUME TypeOK, NEW n \in Nat, n = Cardinality(Used), n <= MaxOps,
           \A i \in Index : ledger[i] # NoEntry <=> i < n,
           Patched(ledger, deltas), NEW r \in Record, Told(ledger, r, store[r], life[r])
    PROVE  \A k \in 0..n : Traced(r, n, k)
<1> DEFINE S == {k \in 0..n : ~Traced(r, n, k)}
<1>1. SUFFICES ASSUME S # {} PROVE FALSE
  OBVIOUS
<1>2. S \in SUBSET Nat
  OBVIOUS
<1>3. PICK k \in S : \A y \in S : k <= y
  <2> HIDE DEF S
  <2> QED
    BY <1>1, <1>2, Least
<1>4. k # 0
  BY <1>3, TracedFirst
<1>5. k \in 1..n /\ k - 1 \in 0..n /\ k - 1 \notin S
  BY <1>3, <1>4
<1>6. Traced(r, n, k - 1)
  BY <1>5
<1> QED
  BY <1>3, <1>5, <1>6, TracedNext

(* reconstruct returns what each version was.                              *)
LEMMA Reconstructed ==
    ASSUME TypeOK, Dense, Patched(ledger, deltas), NEW r \in Record,
           Told(ledger, r, store[r], life[r]), NEW v \in 1..store[r].v
    PROVE  Reconstruct(r, v) = life[r][v]
<1>1. PICK n \in Nat : /\ n = Cardinality(Used) /\ n <= MaxOps
                       /\ \A i \in Index : ledger[i] # NoEntry <=> i < n
  BY Count
<1> DEFINE Hit(k) == LET e == ledger[n - k - 1] IN
                     e.id = r /\ e.op = "put" /\ e.version = v /\ Walk(r)[k] # Lost
           hits == {k \in 0..(n - 1) : Hit(k)}
           best == CHOOSE k \in hits : \A j \in hits : k <= j
<1>2. Reconstruct(r, v) = IF hits = {} THEN Lost ELSE Walk(r)[best]
  BY <1>1 DEF Reconstruct
<1>3. \A j \in Index : Current(ledger, j, r) =>
          n - 1 - j \in 0..(n - 1) /\ Walk(r)[n - 1 - j] = ledger[j].payload
  <2> SUFFICES ASSUME NEW j \in Index, Current(ledger, j, r)
               PROVE  n - 1 - j \in 0..(n - 1) /\ Walk(r)[n - 1 - j] = ledger[j].payload
    OBVIOUS
  <2>1. j \in Nat /\ j < n
    BY <1>1, CollectionAssumption DEF Current, PutOf, Of, Index
  <2>2. PICK k \in 0..n : k = n - 1 - j
    BY <2>1
  <2>3. Traced(r, n, k)
    BY <1>1, Retraced
  <2>4. j < n - k /\ \A q \in Index : j < q /\ q < n - k => ~Of(ledger, q, r)
    BY <2>1, <2>2, CollectionAssumption DEF Index
  <2> QED
    BY <2>1, <2>2, <2>3, <2>4 DEF Traced
<1>4. PICK j \in Index : Current(ledger, j, r) /\ ledger[j].version = v
  BY DEF Told
<1>5. j \in Nat /\ j < n /\ ledger[j].op = "put" /\ ledger[j].id = r /\ ledger[j].payload # Lost
  BY <1>1, <1>4, CollectionAssumption DEF Current, PutOf, Of, Index, Patched
<1>6. n - 1 - j \in hits
  <2>1. n - (n - 1 - j) - 1 = j
    BY <1>5
  <2> QED
    BY <1>3, <1>4, <1>5, <2>1
<1>7. best \in hits /\ best <= n - 1 - j
  <2>1. hits \in SUBSET Nat
    OBVIOUS
  <2> HIDE DEF hits
  <2>2. \E k \in hits : \A y \in hits : k <= y
    BY <1>6, <2>1, Least
  <2> QED
    BY <1>6, <2>2
<1>8. PICK k \in 0..(n - 1) : k = best /\ Hit(k) /\ k <= n - 1 - j
  BY <1>7
<1> HIDE DEF best
<1>9. PICK i \in Index : i = n - k - 1
  BY <1>1, CollectionAssumption DEF Index
<1>10. ledger[i].id = r /\ ledger[i].op = "put" /\ ledger[i].version = v /\ ledger[i] # NoEntry /\ j <= i
  BY <1>1, <1>5, <1>8, <1>9
<1>11. Current(ledger, i, r)
  BY <1>4, <1>5, <1>9, <1>10, CollectionAssumption DEF Current, PutOf, Of, Index
<1>12. n - 1 - i = k
  BY <1>9
<1>13. Walk(r)[k] = ledger[i].payload
  BY <1>3, <1>11, <1>12
<1>14. ledger[i].payload = life[r][v]
  BY <1>10, <1>11 DEF Told
<1> QED
  BY <1>2, <1>6, <1>8, <1>13, <1>14

-----------------------------------------------------------------------------
(* An entry is added to the end of a ledger.                               *)
Adds(L, M, x, e) ==
    /\ x \in Index /\ L[x] = NoEntry /\ e # NoEntry
    /\ \A i \in Index : i > x => L[i] = NoEntry
    /\ \A i \in Index : M[i] = IF i = x THEN e ELSE L[i]

\* What it tells of other records stays.
LEMMA ToldOfOthers ==
    ASSUME NEW L, NEW M, NEW x, NEW e, Adds(L, M, x, e), NEW r, e.id # r, NEW f, NEW lf,
           Told(L, r, f, lf)
    PROVE  Told(M, r, f, lf)
<1>1. \A i \in Index : /\ Of(M, i, r) <=> Of(L, i, r)
                       /\ Of(L, i, r) => M[i] = L[i]
  BY DEF Adds, Of
<1>2. \A i \in Index : /\ Newest(M, i, r) <=> Newest(L, i, r)
                       /\ PutOf(M, i, r) <=> PutOf(L, i, r)
                       /\ Current(M, i, r) <=> Current(L, i, r)
                       /\ PutOf(L, i, r) => M[i] = L[i]
  BY <1>1 DEF Newest, PutOf, Current
<1> QED
  BY <1>2 DEF Told, Current

\* A delete ends what was current of its record.
LEMMA ToldOfDelete ==
    ASSUME NEW L, NEW M, NEW x, NEW e, Adds(L, M, x, e), e.op = "delete", NEW lf
    PROVE  Told(M, e.id, Missing, lf)
<1>1. Of(M, x, e.id) /\ M[x].op # "put" /\ x \in Index
  BY DEF Adds, Of
<1>2. \A i \in Index : i > x => ~Of(M, i, e.id)
  BY CollectionAssumption DEF Adds, Of, Index
<1>3. \A i \in Index : ~Current(M, i, e.id)
  BY <1>1, <1>2, CollectionAssumption DEF Current, PutOf, Index
<1>4. ~Exists(Missing) /\ 1..Missing.v = {}
  BY DEF Exists, Missing
<1> QED
  BY <1>3, <1>4 DEF Told

\* A put adds a version.
LEMMA ToldOfPut ==
    ASSUME NEW L, NEW M, NEW x, NEW e, Adds(L, M, x, e), e.op = "put", NEW f, f.v \in Nat, NEW lf,
           Told(L, e.id, f, lf), e.version = f.v + 1, f.v + 1 \in DOMAIN lf,
           lf[f.v + 1] = e.payload, NEW g, g.v = f.v + 1, g.w = e.payload
    PROVE  Told(M, e.id, g, lf)
<1>1. x \in Index /\ M[x] = e /\ Of(M, x, e.id) /\ PutOf(M, x, e.id)
  BY DEF Adds, Of, PutOf
<1>2. \A i \in Index : i > x => ~Of(M, i, e.id)
  BY CollectionAssumption DEF Adds, Of, Index
<1>3. Newest(M, x, e.id) /\ Current(M, x, e.id)
  BY <1>1, <1>2 DEF Newest, Current
<1>4. \A i \in Index : i # x => M[i] = L[i] /\ (Of(M, i, e.id) <=> Of(L, i, e.id))
  BY DEF Adds, Of
<1>5. \A i \in Index : i # x => (Current(M, i, e.id) <=> Current(L, i, e.id))
  <2>1. \A i \in Index : ~Of(L, x, e.id)
    BY DEF Adds, Of
  <2> QED
    BY <1>1, <1>4, <2>1 DEF Current, PutOf
<1>6. \A i \in Index : Current(M, i, e.id) =>
          M[i].version \in 1..g.v /\ M[i].version \in DOMAIN lf /\ M[i].payload = lf[M[i].version]
  <2> SUFFICES ASSUME NEW i \in Index, Current(M, i, e.id)
               PROVE  M[i].version \in 1..g.v /\ M[i].version \in DOMAIN lf
                      /\ M[i].payload = lf[M[i].version]
    OBVIOUS
  <2>1. CASE i = x
    BY <1>1, <2>1
  <2>2. CASE i # x
    <3>1. L[i].version \in 1..f.v /\ L[i].version \in DOMAIN lf /\ L[i].payload = lf[L[i].version]
      BY <1>5, <2>2 DEF Told
    <3> QED
      BY <1>4, <2>2, <3>1
  <2> QED
    BY <2>1, <2>2
<1>7. \A v \in 1..g.v : \E i \in Index : Current(M, i, e.id) /\ M[i].version = v
  <2> SUFFICES ASSUME NEW v \in 1..g.v
               PROVE  \E i \in Index : Current(M, i, e.id) /\ M[i].version = v
    OBVIOUS
  <2>1. CASE v = f.v + 1
    BY <1>1, <1>3, <2>1
  <2>2. CASE v # f.v + 1
    <3>1. v \in 1..f.v
      BY <2>2
    <3>2. PICK i \in Index : Current(L, i, e.id) /\ L[i].version = v
      BY <3>1 DEF Told
    <3>3. i # x
      BY <3>2 DEF Adds, Current, PutOf, Of
    <3> QED
      BY <1>4, <1>5, <3>2, <3>3
  <2> QED
    BY <2>1, <2>2
<1> QED
  BY <1>1, <1>3, <1>6, <1>7 DEF Told

\* A put has a patch that leads to the put before it, if there is one.
LEMMA PatchedAdds ==
    ASSUME NEW L, NEW M, NEW x, NEW e, Adds(L, M, x, e), NEW D, Patched(L, D),
           e.op = "put" => /\ e.payload # Lost
                           /\ \A i \in Index : Newest(L, i, e.id) /\ PutOf(L, i, e.id) =>
                                 e.delta /\ D[x] = [from |-> e.payload, to |-> L[i].payload]
    PROVE  Patched(M, D)
<1> SUFFICES ASSUME NEW r \in Record, NEW j \in Index, PutOf(M, j, r)
             PROVE  /\ M[j].payload # Lost
                    /\ \A i \in Index : PutOf(M, i, r) /\ Follows(M, i, j, r) =>
                          M[j].delta /\ D[j] = [from |-> M[j].payload, to |-> M[i].payload]
  BY DEF Patched
<1>1. CASE j = x
  <2>1. M[j] = e /\ r = e.id /\ e.op = "put"
    BY <1>1 DEF Adds, PutOf, Of
  <2>2. ASSUME NEW i \in Index, PutOf(M, i, r), Follows(M, i, j, r)
        PROVE  Newest(L, i, e.id) /\ PutOf(L, i, e.id) /\ M[i] = L[i]
    <3>1. i # x /\ i < x
      BY <1>1, <2>2, CollectionAssumption DEF Follows, Index
    <3>2. M[i] = L[i] /\ PutOf(L, i, e.id)
      BY <2>1, <2>2, <3>1 DEF Adds, PutOf, Of
    <3>3. \A k \in Index : k > i => ~Of(L, k, e.id)
      <4> SUFFICES ASSUME NEW k \in Index, k > i PROVE ~Of(L, k, e.id)
        OBVIOUS
      <4>1. CASE k < x
        <5>1. ~Of(M, k, r)
          BY <1>1, <2>2, <4>1, CollectionAssumption DEF Follows, Index
        <5>2. M[k] = L[k]
          BY <4>1, CollectionAssumption DEF Adds, Index
        <5> QED
          BY <2>1, <5>1, <5>2 DEF Of
      <4>2. CASE ~(k < x)
        BY <4>2, CollectionAssumption DEF Adds, Of, Index
      <4> QED
        BY <4>1, <4>2
    <3> QED
      BY <3>2, <3>3 DEF Newest, PutOf
  <2> QED
    BY <1>1, <2>1, <2>2
<1>2. CASE j # x
  <2>1. M[j] = L[j] /\ PutOf(L, j, r) /\ j < x
    BY <1>2, CollectionAssumption DEF Adds, PutOf, Of, Index
  <2>2. ASSUME NEW i \in Index, PutOf(M, i, r), Follows(M, i, j, r)
        PROVE  M[i] = L[i] /\ PutOf(L, i, r) /\ Follows(L, i, j, r)
    <3>1. i # x /\ i < j
      BY <2>1, <2>2, CollectionAssumption DEF Follows, Index
    <3>2. \A k \in Index : i < k /\ k < j => M[k] = L[k]
      BY <2>1, CollectionAssumption DEF Adds, Index
    <3> QED
      BY <2>2, <3>1, <3>2 DEF Adds, PutOf, Of, Follows
  <2> QED
    BY <2>1, <2>2 DEF Patched
<1> QED
  BY <1>1, <1>2

\* A patch written for an entry to come changes none that has one.
LEMMA PatchedAhead ==
    ASSUME NEW L, NEW D, NEW E, NEW x, x \in Index => L[x] = NoEntry, Patched(L, D),
           \A i \in Index : i # x => E[i] = D[i]
    PROVE  Patched(L, E)
BY DEF Patched, PutOf, Of

-----------------------------------------------------------------------------
(* Only one call is in flight, so that it is enough to look at that one.   *)
TellsBut(k) == \A r \in Record : (Owing(k) /\ k.id = r) \/ Told(ledger, r, store[r], life[r])
ShownBut(k) ==
    \A h \in Handle, r \in Record :
        /\ Cached(h, r) \/ cache[h][r] = Missing
        /\ (k.pc \in Written /\ k.id = r)
           \/ (Cached(h, r) \/ (mode = "eager" /\ hydrated[h]) => cache[h][r] = store[r])
Fits(k) == TellsBut(k) /\ ShownBut(k) /\ Owes(k) /\ Knows(k)

LEMMA ExactAt ==
    ASSUME TypeOK, Chain, Exact, NEW c \in Caller, call[c].pc # "idle" \/ Quiet
    PROVE  Fits(call[c])
<1>1. \A d \in Caller : Owing(call[d]) \/ call[d].pc \in Written => d = c
  BY DEF Chain, Alone, Quiet, Owing, Written, InAppend
<1>2. TellsBut(call[c])
  BY <1>1 DEF Exact, Tells, TellsBut
<1>3. ShownBut(call[c])
  BY <1>1 DEF Exact, Shown, ShownBut
<1> QED
  BY <1>2, <1>3 DEF Exact, Fits

LEMMA ExactFrom ==
    ASSUME TypeOK, Chain, Exact, NEW c \in Caller, call[c].pc # "idle" \/ Quiet,
           NEW m, call' = [call EXCEPT ![c] = m], Fits(m)', Patched(ledger', deltas'),
           DOMAIN life' = Record
    PROVE  Exact'
<1>1. call'[c] = m
  BY DEF TypeOK
<1>2. Tells'
  BY <1>1 DEF Fits, TellsBut, Tells
<1>3. Shown'
  BY <1>1 DEF Fits, ShownBut, Shown, Cached
<1>4. ASSUME NEW d \in Caller PROVE (Owes(call[d]) /\ Knows(call[d]))'
  <2>1. PICK k : k = call'[d]
    OBVIOUS
  <2>2. CASE d = c
    BY <1>1, <2>1, <2>2 DEF Fits
  <2>3. CASE d # c
    <3>1. call'[d] = call[d] /\ call[d].pc = "idle"
      BY <2>3 DEF TypeOK, Chain, Alone, Quiet
    <3>2. k.pc = "idle"
      BY <2>1, <3>1
    <3>3. (Owes(k) /\ Knows(k))'
      BY <3>2 DEF Owes, Owing, Knows
    <3> QED
      BY <2>1, <3>3
  <2> QED
    BY <2>2, <2>3
<1> QED
  BY <1>2, <1>3, <1>4 DEF Exact

\* A step that leaves all of it alone, save the call.
LEMMA ExactStays ==
    ASSUME TypeOK, Chain, Exact, NEW c \in Caller, call[c].pc # "idle" \/ Quiet, NEW k, k = call[c],
           NEW m, call' = [call EXCEPT ![c] = m], (Owes(m) /\ Knows(m))',
           Owing(m) <=> Owing(k), m.pc \in Written <=> k.pc \in Written, k.pc \in Written => m.id = k.id,
           UNCHANGED <<store, ledger, deltas, life, mode, cache, hydrated>>
    PROVE  Exact'
<1>1. Fits(k)
  BY ExactAt
<1>2. Owing(k) => k.pc \in Written
  BY DEF Written, InAppend, Owing
<1>3. TellsBut(m)'
  BY <1>1, <1>2 DEF Fits, TellsBut
<1>4. ShownBut(m)'
  BY <1>1 DEF Fits, ShownBut, Cached
<1>5. DOMAIN life' = Record /\ Patched(ledger', deltas')
  BY DEF Exact
<1>6. Fits(m)'
  BY <1>3, <1>4 DEF Fits
<1> QED
  BY <1>5, <1>6, ExactFrom

(* A cache that takes up what the store holds shows it, or lets go of it.  *)
LEMMA ShownTakes ==
    ASSUME TypeOK, NEW k, NEW m, ShownBut(k), m.pc \notin Written, NEW h \in Handle, NEW r \in Record,
           cache' \in Remembered(h, r, store[r]), UNCHANGED <<store, mode, hydrated>>,
           Exists(store[r]) \/ store[r] = Missing,
           k.pc \in Written => k.id = r /\ \A g \in Handle : g = h
    PROVE  ShownBut(m)'
<1>1. \A g \in Handle, q \in Record :
          \/ cache'[g][q] = IF g = h /\ q = r THEN store[r] ELSE cache[g][q]
          \/ mode # "eager" /\ cache'[g][q] = Missing
  BY RememberedIs
<1>2. ~Exists(Missing)
  BY DEF Exists, Missing
<1> SUFFICES ASSUME NEW g \in Handle, NEW q \in Record
             PROVE  /\ Exists(cache'[g][q]) \/ cache'[g][q] = Missing
                    /\ Exists(cache'[g][q]) \/ (mode = "eager" /\ hydrated[g]) => cache'[g][q] = store[q]
  BY DEF ShownBut, Cached
<1>3. CASE cache'[g][q] = IF g = h /\ q = r THEN store[r] ELSE cache[g][q]
  BY <1>3 DEF ShownBut, Cached
<1>4. CASE mode # "eager" /\ cache'[g][q] = Missing
  BY <1>2, <1>4
<1> QED
  BY <1>1, <1>3, <1>4

(* ensureHydrated, and what a get reads.                                   *)
LEMMA HydrateExact ==
    ASSUME TypeOK, Chain, Exact, NEW c \in Caller,
           HydrateList(c) \/ (\E r \in Record : HydrateRead(c, r))
    PROVE  Exact'
<1> USE DEF disk, memory, counts
<1>a. PICK k \in CallType : k = call[c]
  BY DEF TypeOK
<1>b. Knows(k)
  BY <1>a DEF Exact
<1>1. CASE HydrateList(c)
  <2>1. PICK X : X = {r \in Record : Exists(store[r])}
    OBVIOUS
  <2>2. PICK m : m = [k EXCEPT !.pc = "hydrate", !.todo = X]
    OBVIOUS
  <2>3. m.pc = "hydrate"
    BY <2>2 DEF CallType
  <2>4. /\ call' = [call EXCEPT ![c] = m] /\ k.pc = "list"
        /\ UNCHANGED <<store, ledger, deltas, life, mode, cache, hydrated>>
    BY <1>1, <1>a, <2>1, <2>2 DEF HydrateList, TypeOK
  <2>5. (Owes(m) /\ Knows(m))'
    BY <1>b, <2>3, <2>4 DEF Owes, Owing, Knows
  <2> QED
    BY <1>a, <2>3, <2>4, <2>5, ExactStays DEF Owing, Written, InAppend
<1>2. ASSUME NEW r \in Record, HydrateRead(c, r) PROVE Exact'
  <2>1. PICK e : e = store[r]
    OBVIOUS
  <2>2. PICK m : m = [k EXCEPT !.pc = "decrypt", !.todo = @ \ {r}, !.rec = r, !.env = e]
    OBVIOUS
  <2>3. m.pc = "decrypt"
    BY <2>2 DEF CallType
  <2>4. /\ call' = [call EXCEPT ![c] = m] /\ k.pc = "hydrate"
        /\ UNCHANGED <<store, ledger, deltas, life, mode, cache, hydrated>>
    <3>1. call' = [call EXCEPT ![c] = m]
      BY <1>2, <1>a, <2>1, <2>2 DEF HydrateRead
    <3>2. k.pc = "hydrate" /\ UNCHANGED <<store, ledger, deltas, life, mode, cache, hydrated>>
      BY <1>2, <1>a DEF HydrateRead
    <3> QED BY <3>1, <3>2
  <2>5. (Owes(m) /\ Knows(m))'
    BY <1>b, <2>3, <2>4 DEF Owes, Owing, Knows
  <2> QED
    BY <1>a, <2>3, <2>4, <2>5, ExactStays DEF Owing, Written, InAppend
<1> QED
  BY <1>1, <1>2

\* A record put into the cache is what the store holds.
LEMMA HydrateSetExact ==
    ASSUME TypeOK, Chain, Books, Exact, NEW c \in Caller, HydrateSet(c)
    PROVE  Exact'
<1>a. PICK k \in CallType : k = call[c]
  BY DEF TypeOK
<1>1. PICK m : m = [k EXCEPT !.pc = "hydrate", !.rec = AnyRecord, !.env = Missing]
  OBVIOUS
<1>2. m.pc = "hydrate"
  BY <1>1 DEF CallType
<1>3. /\ call' = [call EXCEPT ![c] = m] /\ k.pc = "decrypt" /\ k.h \in Handle /\ k.rec \in Record
      /\ cache' = IF Exists(k.env) THEN [cache EXCEPT ![k.h][k.rec] = k.env] ELSE cache
      /\ UNCHANGED <<store, ledger, deltas, life, mode, hydrated>>
  BY <1>a, <1>1 DEF HydrateSet, TypeOK, CallType, disk, counts
<1>4. k.env = store[k.rec]
  BY <1>a, <1>3 DEF Books, Reads
<1>5. \A h \in Handle, r \in Record :
          cache'[h][r] = IF h = k.h /\ r = k.rec /\ Exists(store[r]) THEN store[r] ELSE cache[h][r]
  BY <1>3, <1>4 DEF TypeOK
<1>6. Fits(k)
  BY <1>a, <1>3, ExactAt
<1>7. TellsBut(m)'
  BY <1>2, <1>3, <1>6 DEF Fits, TellsBut, Owing
<1>8. ShownBut(m)'
  BY <1>2, <1>3, <1>5, <1>6 DEF Fits, ShownBut, Cached, Written, InAppend
<1>9. (Owes(m) /\ Knows(m))'
  BY <1>2, <1>3, <1>6 DEF Fits, Owes, Owing, Knows
<1>10. Fits(m)'
  BY <1>7, <1>8, <1>9 DEF Fits
<1> QED
  BY <1>a, <1>3, <1>10, ExactFrom DEF Exact

\* Nothing the store holds is missing in a cache that has been filled.
LEMMA HydrateEndExact ==
    ASSUME TypeOK, Chain, Books, Exact, NEW c \in Caller, HydrateEnd(c)
    PROVE  Exact'
<1>a. PICK k \in CallType : k = call[c]
  BY DEF TypeOK
<1>1. PICK m : m = [k EXCEPT !.pc = "ready"]
  OBVIOUS
<1>2. m.pc = "ready" /\ m.h = k.h
  BY <1>1 DEF CallType
<1>3. /\ call' = [call EXCEPT ![c] = m] /\ k.pc = "hydrate" /\ k.todo = {} /\ k.h \in Handle
      /\ hydrated' = [hydrated EXCEPT ![k.h] = TRUE]
      /\ UNCHANGED <<store, ledger, deltas, life, mode, cache>>
  BY <1>a, <1>1 DEF HydrateEnd, Goto, TypeOK, CallType, disk, counts
<1>4. Fits(k) /\ Hydrating(k) /\ Stock
  BY <1>a, <1>3, ExactAt DEF Books, Reads
<1>5. \A r \in Record : cache[k.h][r] = store[r]
  <2> SUFFICES ASSUME NEW r \in Record PROVE cache[k.h][r] = store[r]
    OBVIOUS
  <2>1. CASE Exists(store[r])
    BY <1>3, <1>4, <2>1 DEF Hydrating
  <2>2. CASE ~Exists(store[r])
    <3>1. store[r] = Missing
      BY <1>4, <2>2 DEF Stock, TypeOK, Envelope, Missing, Exists
    <3> QED
      BY <1>3, <1>4, <2>2, <3>1 DEF Fits, ShownBut, Cached, Written, InAppend
  <2> QED
    BY <2>1, <2>2
<1>6. TellsBut(m)'
  BY <1>2, <1>3, <1>4 DEF Fits, TellsBut, Owing
<1>7. ShownBut(m)'
  <2>1. \A h \in Handle : hydrated'[h] => hydrated[h] \/ h = k.h
    BY <1>3 DEF TypeOK
  <2> QED
    BY <1>2, <1>3, <1>4, <1>5, <2>1 DEF Fits, ShownBut, Cached, Written, InAppend
<1>8. (Owes(m) /\ Knows(m))'
  BY <1>2, <1>3, <1>4 DEF Fits, Owes, Owing, Knows, TypeOK
<1>9. Fits(m)'
  BY <1>6, <1>7, <1>8 DEF Fits
<1> QED
  BY <1>a, <1>3, <1>9, ExactFrom DEF Exact

LEMMA FetchExact ==
    ASSUME TypeOK, Chain, Books, Exact, MaxFails = 0, NEW c \in Caller,
           Fetch(c) \/ FetchedGet(c) \/ GetEnds(c) \/ Fail(c)
    PROVE  Exact'
<1> USE DEF disk, memory, counts
<1>a. PICK k \in CallType : k = call[c]
  BY DEF TypeOK
<1>b. Knows(k) /\ Stock
  BY <1>a DEF Exact, Books
<1>1. ASSUME Return(c), UNCHANGED <<store, ledger, deltas, life, mode, cache, hydrated>>,
             k.pc \in {"fetch", "ready"}
      PROVE  Exact'
  <2>1. PICK m : m = Idle
    OBVIOUS
  <2>2. m.pc = "idle" /\ call' = [call EXCEPT ![c] = m]
    BY <1>1, <2>1 DEF Idle, Return
  <2>3. (Owes(m) /\ Knows(m))'
    BY <2>2 DEF Owes, Owing, Knows
  <2> QED
    BY <1>a, <1>1, <2>2, <2>3, ExactStays DEF Owing, Written, InAppend
<1>2. CASE Fetch(c)
  <2>1. /\ k.pc = "fetch" /\ UNCHANGED <<store, ledger, deltas, life, mode, cache, hydrated>>
    BY <1>2, <1>a DEF Fetch
  <2>2. CASE call' = [call EXCEPT ![c].pc = "fetched", ![c].env = store[k.id]]
    <3>1. PICK e : e = store[k.id]
      OBVIOUS
    <3>2. PICK m : m = [k EXCEPT !.pc = "fetched", !.env = e]
      OBVIOUS
    <3>3. m.pc = "fetched" /\ m.id = k.id /\ m.env = e
      BY <3>2 DEF CallType
    <3>4. call' = [call EXCEPT ![c] = m]
      BY <1>a, <2>2, <3>1, <3>2 DEF TypeOK
    <3>5. (Owes(m) /\ Knows(m))'
      BY <2>1, <3>1, <3>3 DEF Owes, Owing, Knows
    <3> QED
      BY <1>a, <2>1, <3>3, <3>4, <3>5, ExactStays DEF Owing, Written, InAppend
  <2>3. CASE Goto(c, "fetched") /\ ~Exists(store[k.id])
    <3>1. PICK m : m = [k EXCEPT !.pc = "fetched"]
      OBVIOUS
    <3>2. m.pc = "fetched" /\ m.id = k.id /\ m.env = k.env
      BY <3>1 DEF CallType
    <3>3. call' = [call EXCEPT ![c] = m]
      BY <1>a, <2>3, <3>1 DEF TypeOK, Goto
    <3>4. store[k.id] = Missing
      <4>1. k.id \in Record
        BY DEF CallType
      <4> QED
        BY <1>b, <2>3, <4>1 DEF Stock, TypeOK, Envelope, Missing, Exists
    <3>5. (Owes(m) /\ Knows(m))'
      BY <1>b, <2>1, <3>2, <3>4 DEF Owes, Owing, Knows
    <3> QED
      BY <1>a, <2>1, <3>2, <3>3, <3>5, ExactStays DEF Owing, Written, InAppend
  <2>4. CASE Return(c)
    BY <1>1, <2>1, <2>4
  <2> QED
    BY <1>2, <1>a, <2>2, <2>3, <2>4 DEF Fetch
<1>3. CASE FetchedGet(c)
  <2>1. /\ k.pc = "fetched" /\ k.op = "get" /\ cache' \in Remembered(k.h, k.id, k.env) /\ Return(c)
        /\ k.h \in Handle /\ k.id \in Record
        /\ UNCHANGED <<store, ledger, deltas, life, mode, hydrated>>
    BY <1>3, <1>a DEF FetchedGet, CallType
  <2>2. k.env = store[k.id]
    BY <1>b, <2>1 DEF Knows
  <2>3. PICK m : m = Idle
    OBVIOUS
  <2>4. m.pc = "idle" /\ call' = [call EXCEPT ![c] = m]
    BY <2>1, <2>3 DEF Idle, Return
  <2>5. Fits(k)
    BY <1>a, <2>1, ExactAt
  <2>6. ShownBut(m)'
    <3>1. Exists(store[k.id]) \/ store[k.id] = Missing
      BY <1>b, <2>1 DEF Stock, TypeOK, Envelope, Missing, Exists
    <3>2. k.pc \notin Written /\ m.pc \notin Written /\ ShownBut(k)
      BY <2>1, <2>4, <2>5 DEF Written, InAppend, Fits
    <3> QED
      BY <2>1, <2>2, <3>1, <3>2, ShownTakes
  <2>7. TellsBut(m)'
    BY <2>1, <2>4, <2>5 DEF Fits, TellsBut, Owing
  <2>8. (Owes(m) /\ Knows(m))'
    BY <2>4 DEF Owes, Owing, Knows
  <2>9. Fits(m)'
    BY <2>6, <2>7, <2>8 DEF Fits
  <2> QED
    BY <1>a, <2>1, <2>4, <2>9, ExactFrom DEF Exact
<1>4. CASE GetEnds(c)
  <2>1. /\ k.pc = "ready" /\ Return(c) /\ UNCHANGED <<store, ledger, deltas, life, mode, cache, hydrated>>
    BY <1>4, <1>a DEF GetEnds
  <2> QED
    BY <1>1, <2>1
<1>5. ~Fail(c)
  BY DEF Fail, TypeOK
<1> QED
  BY <1>2, <1>3, <1>4, <1>5

(* The record a put or delete builds on is what the store holds.           *)
LEMMA PrepareExact ==
    ASSUME TypeOK, Chain, Exact, NEW c \in Caller, Resolve(c) \/ SaveHistory(c) \/ Peek(c)
    PROVE  Exact'
<1> USE DEF disk, memory, counts
<1>a. PICK k \in CallType : k = call[c]
  BY DEF TypeOK
<1>b. k.h \in Handle /\ k.id \in Record
  BY DEF CallType
<1>c. UNCHANGED <<store, ledger, deltas, life, mode, cache, hydrated>>
  BY DEF Resolve, SaveHistory, Peek
<1>1. ASSUME NEW m, call' = [call EXCEPT ![c] = m], k.pc \in {"ready", "fetched", "history", "peek"},
             m.pc \in {"history", "peek", "write"}, m.ex = store[m.id]
      PROVE  Exact'
  <2>1. (Owes(m) /\ Knows(m))'
    BY <1>1, <1>c DEF Owes, Owing, Knows
  <2> QED
    BY <1>a, <1>c, <1>1, <2>1, ExactStays DEF Owing, Written, InAppend
<1>2. CASE Resolve(c)
  <2>1. PICK x : x = Existing(c)
    OBVIOUS
  <2>2. PICK p : p = IF Exists(x) THEN "history" ELSE AfterHistory(k.op)
    OBVIOUS
  <2>3. PICK m : m = [k EXCEPT !.ex = x, !.env = Missing, !.pc = p]
    OBVIOUS
  <2>4. m.pc = p /\ m.id = k.id /\ m.ex = x /\ p \in {"history", "peek", "write"}
    BY <2>2, <2>3 DEF CallType, AfterHistory
  <2>5. call' = [call EXCEPT ![c] = m] /\ k.pc \in {"ready", "fetched"} /\ k.op # "get"
    BY <1>2, <1>a, <2>1, <2>2, <2>3 DEF Resolve, TypeOK
  <2>6. x = store[k.id]
    <3>1. Fits(k)
      BY <1>a, <2>5, ExactAt
    <3>2. CASE k.pc = "fetched"
      BY <1>a, <2>1, <3>1, <3>2 DEF Existing, Fits, Knows
    <3>3. CASE k.pc = "ready"
      <4>1. x = cache[k.h][k.id]
        BY <1>a, <2>1, <3>3 DEF Existing
      <4>2. mode = "eager" /\ hydrated[k.h]
        BY <2>5, <3>1, <3>3 DEF Fits, Knows
      <4> QED
        BY <1>b, <3>1, <3>3, <4>1, <4>2 DEF Fits, ShownBut, Written, InAppend
    <3> QED
      BY <2>5, <3>2, <3>3
  <2> QED
    BY <1>1, <2>4, <2>5, <2>6
<1>3. CASE SaveHistory(c)
  <2>1. PICK p : p = AfterHistory(k.op)
    OBVIOUS
  <2>2. PICK m : m = [k EXCEPT !.pc = p]
    OBVIOUS
  <2>3. m.pc = p /\ m.id = k.id /\ m.ex = k.ex /\ p \in {"peek", "write"}
    BY <2>1, <2>2 DEF CallType, AfterHistory
  <2>4. call' = [call EXCEPT ![c] = m] /\ k.pc = "history"
    BY <1>3, <1>a, <2>1, <2>2 DEF SaveHistory, Goto, TypeOK
  <2>5. k.ex = store[k.id]
    BY <1>a, <2>4 DEF Exact, Knows
  <2> QED
    BY <1>1, <2>3, <2>4, <2>5
<1>4. CASE Peek(c)
  <2>1. PICK w : w = store[k.id].w
    OBVIOUS
  <2>2. PICK m : m = [k EXCEPT !.pc = "write", !.payload = w]
    OBVIOUS
  <2>3. m.pc = "write" /\ m.id = k.id /\ m.ex = k.ex
    BY <2>2 DEF CallType
  <2>4. call' = [call EXCEPT ![c] = m] /\ k.pc = "peek"
    BY <1>4, <1>a, <2>1, <2>2 DEF Peek, TypeOK
  <2>5. k.ex = store[k.id]
    BY <1>a, <2>4 DEF Exact, Knows
  <2> QED
    BY <1>1, <2>3, <2>4, <2>5
<1> QED
  BY <1>2, <1>3, <1>4

LEMMA ToldLonger ==
    ASSUME NEW L, NEW r, NEW f, NEW lf, NEW lg, Told(L, r, f, lf),
           \A v \in 1..f.v : v \in DOMAIN lf => v \in DOMAIN lg /\ lg[v] = lf[v]
    PROVE  Told(L, r, f, lg)
BY DEF Told

(* The record is written: its entry is owed from here on.                  *)
LEMMA WriteExact ==
    ASSUME TypeOK, Chain, Exact, NEW c \in Caller, WritePut(c) \/ WriteDelete(c)
    PROVE  Exact'
<1> USE DEF memory, counts
<1>a. PICK k \in CallType : k = call[c]
  BY DEF TypeOK
<1>b. k.id \in Record /\ k.ex.v \in Nat
  BY DEF CallType, Envelope
<1>c. k.pc = "write" /\ UNCHANGED <<ledger, deltas, mode, cache, hydrated>>
  BY <1>a DEF WritePut, WriteDelete
<1>d. Fits(k) /\ DOMAIN life = Record /\ Patched(ledger', deltas')
  BY <1>a, <1>c, ExactAt DEF Exact
<1>1. ASSUME NEW m, call' = [call EXCEPT ![c] = m], m.pc = "head", m.id = k.id, Owes(m)',
             DOMAIN life' = Record,
             \A r \in Record : r # k.id => store'[r] = store[r] /\ life'[r] = life[r]
      PROVE  Exact'
  <2>1. TellsBut(m)'
    BY <1>c, <1>d, <1>1 DEF Fits, TellsBut, Owing
  <2>2. ShownBut(m)'
    BY <1>c, <1>d, <1>1 DEF Fits, ShownBut, Cached, Written, InAppend
  <2>3. Knows(m)'
    BY <1>1 DEF Knows
  <2>4. Fits(m)'
    BY <1>1, <2>1, <2>2, <2>3 DEF Fits
  <2> QED
    BY <1>a, <1>c, <1>d, <1>1, <2>4, ExactFrom
<1>2. CASE WritePut(c)
  <2>1. PICK m : m = [k EXCEPT !.pc = "head", !.payload = k.n]
    OBVIOUS
  <2>2. m.pc = "head" /\ m.n = k.n /\ m.id = k.id /\ m.op = k.op /\ m.ex = k.ex
    BY <2>1 DEF CallType
  <2>3. PICK old : old = life[k.id]
    OBVIOUS
  <2>4. PICK new : new = [i \in 1..(k.ex.v + 1) |->
                             IF i = k.ex.v + 1 THEN k.n ELSE IF i \in DOMAIN old THEN old[i] ELSE 0]
    OBVIOUS
  <2>5. /\ call' = [call EXCEPT ![c] = m] /\ life' = [life EXCEPT ![k.id] = new]
        /\ store' = [store EXCEPT ![k.id] = [v |-> k.ex.v + 1, w |-> k.n]]
    BY <1>2, <1>a, <2>1, <2>3, <2>4 DEF WritePut, TypeOK
  <2>6. DOMAIN life' = Record /\ life'[k.id] = new
    BY <1>b, <1>d, <2>5
  <2>7. \A r \in Record : r # k.id => store'[r] = store[r] /\ life'[r] = life[r]
    BY <1>d, <2>5 DEF TypeOK
  <2>8. Told(ledger, k.id, k.ex, old)
    BY <1>b, <1>c, <1>d, <2>3 DEF Fits, TellsBut, Owing, Knows
  <2>9. \A v \in 1..k.ex.v : v \in DOMAIN old => v \in DOMAIN new /\ new[v] = old[v]
    BY <1>b, <2>4
  <2>10. Told(ledger, k.id, k.ex, new)
    BY <2>8, <2>9, ToldLonger
  <2>11. k.ex.v + 1 \in DOMAIN new /\ new[k.ex.v + 1] = k.n
    BY <1>b, <2>4
  <2>12. Owes(m)'
    BY <1>c, <2>2, <2>6, <2>10, <2>11 DEF Owes
  <2> QED
    BY <1>1, <2>2, <2>5, <2>6, <2>7, <2>12
<1>3. CASE WriteDelete(c)
  <2>1. PICK m : m = [k EXCEPT !.pc = "head"]
    OBVIOUS
  <2>2. m.pc = "head" /\ m.id = k.id /\ m.op = k.op
    BY <2>1 DEF CallType
  <2>3. /\ call' = [call EXCEPT ![c] = m] /\ k.op = "delete" /\ life' = [life EXCEPT ![k.id] = <<>>]
        /\ store' = [store EXCEPT ![k.id] = Missing]
    BY <1>3, <1>a, <2>1 DEF WriteDelete, Goto, TypeOK
  <2>4. DOMAIN life' = Record
    BY <1>d, <2>3
  <2>5. \A r \in Record : r # k.id => store'[r] = store[r] /\ life'[r] = life[r]
    BY <1>d, <2>3 DEF TypeOK
  <2>6. Owes(m)'
    BY <2>2, <2>3 DEF Owes
  <2> QED
    BY <1>1, <2>2, <2>3, <2>4, <2>5, <2>6
<1> QED
  BY <1>2, <1>3

(* LedgerStore.append up to the patch.                                     *)
LEMMA HeadExact ==
    ASSUME TypeOK, Chain, Exact, NEW c \in Caller, AppendCached(c) \/ AppendLoad(c) \/ AppendLoaded(c)
    PROVE  Exact'
<1> USE DEF disk, memory, counts
<1>a. PICK k \in CallType : k = call[c]
  BY DEF TypeOK
<1>b. Owes(k)
  BY <1>a DEF Exact
<1>c. UNCHANGED <<store, ledger, deltas, life, mode, cache, hydrated>>
  BY DEF AppendCached, AppendLoad, AppendLoaded
<1>1. ASSUME NEW m, call' = [call EXCEPT ![c] = m], k.pc \in {"head", "hash"},
             m.pc \in {"hash", "delta", "entry"}, m.n = k.n, m.id = k.id, m.op = k.op, m.ex = k.ex,
             m.pc = "entry" => ~HasDelta(m)
      PROVE  Exact'
  <2>1. (Owes(m) /\ Knows(m))'
    BY <1>b, <1>c, <1>1 DEF Owes, Owing, Knows
  <2> QED
    BY <1>a, <1>c, <1>1, <2>1, ExactStays DEF Owing, Written, InAppend
<1>2. CASE AppendLoad(c)
  <2>1. PICK hd : hd = StoredHead
    OBVIOUS
  <2>2. PICK m : m = [k EXCEPT !.pc = "hash", !.next = hd]
    OBVIOUS
  <2>3. m.pc = "hash" /\ m.n = k.n /\ m.id = k.id /\ m.op = k.op /\ m.ex = k.ex
    BY <2>2 DEF CallType
  <2>4. call' = [call EXCEPT ![c] = m] /\ k.pc = "head"
    BY <1>2, <1>a, <2>1, <2>2 DEF AppendLoad, TypeOK
  <2> QED
    BY <1>1, <2>3, <2>4
<1>3. CASE AppendCached(c) \/ AppendLoaded(c)
  <2>1. PICK hd : k.pc \in {"head", "hash"} /\ WithHead(c, hd)
    BY <1>3, <1>a DEF AppendCached, AppendLoaded
  <2>2. PICK p : p = IF HasDelta(k) THEN "delta" ELSE "entry"
    OBVIOUS
  <2>3. PICK m : m = [k EXCEPT !.next = hd, !.pc = p]
    OBVIOUS
  <2>4. m.pc = p /\ m.n = k.n /\ m.id = k.id /\ m.op = k.op /\ m.ex = k.ex
    BY <2>3 DEF CallType
  <2>5. call' = [call EXCEPT ![c] = m]
    BY <1>a, <2>1, <2>2, <2>3 DEF WithHead, TypeOK
  <2>6. HasDelta(m) <=> HasDelta(k)
    BY <2>4 DEF HasDelta
  <2> QED
    BY <1>1, <2>1, <2>2, <2>4, <2>5, <2>6
<1> QED
  BY <1>2, <1>3

\* The next entry goes to a place that is free and has a patch.
LEMMA PlaceFree ==
    ASSUME TypeOK, Chain, Fresh, NEW c \in Caller, call[c].pc \in {"delta", "entry"}
    PROVE  LET x == call[c].next.next IN
           x \in Index /\ ledger[x] = NoEntry /\ \A i \in Index : i > x => ledger[i] = NoEntry
<1>1. PICK k \in CallType : k = call[c]
  BY DEF TypeOK
<1>2. PICK x \in Nat : x = k.next.next
  BY DEF CallType, Head
<1>3. At(k.next) /\ Pending(c)
  BY <1>1 DEF Chain, CallsAt, Appending, Pending
<1>4. x < ops /\ Last(x)
  BY <1>2, <1>3 DEF At, Room
<1>5. ops <= MaxOps /\ ops \in Nat
  BY CollectionAssumption DEF TypeOK
<1>6. x \in Index
  BY <1>4, <1>5, CollectionAssumption DEF Index
<1>7. ledger[x] = NoEntry
  BY <1>1, <1>2, <1>6 DEF Fresh, Unused
<1> QED
  BY <1>1, <1>2, <1>4, <1>6, <1>7 DEF Last

LEMMA DeltaExact ==
    ASSUME TypeOK, Chain, Fresh, Exact, NEW c \in Caller, AppendDelta(c)
    PROVE  Exact'
<1>a. PICK k \in CallType : k = call[c]
  BY DEF TypeOK
<1>1. PICK m : m = [k EXCEPT !.pc = "entry"]
  OBVIOUS
<1>2. /\ m.pc = "entry" /\ m.n = k.n /\ m.id = k.id /\ m.op = k.op /\ m.ex = k.ex /\ m.next = k.next
  BY <1>1 DEF CallType
<1>3. PICK x \in Index : x = k.next.next /\ ledger[x] = NoEntry
  BY <1>a, PlaceFree DEF AppendDelta
<1>4. /\ call' = [call EXCEPT ![c] = m] /\ k.pc = "delta"
      /\ deltas' = [deltas EXCEPT ![x] = [from |-> k.n, to |-> k.ex.w]]
      /\ UNCHANGED <<store, ledger, life, mode, cache, hydrated>>
  BY <1>a, <1>1, <1>3 DEF AppendDelta, Goto, TypeOK, memory, counts
<1>5. \A i \in Index : deltas'[i] = IF i = x THEN [from |-> k.n, to |-> k.ex.w] ELSE deltas[i]
  BY <1>4 DEF TypeOK
<1>6. Patched(ledger', deltas')
  <2>1. Patched(ledger, deltas)
    BY DEF Exact
  <2>2. \A i \in Index : i # x => deltas'[i] = deltas[i]
    BY <1>5
  <2>3. Patched(ledger, deltas')
    BY <1>3, <2>1, <2>2, PatchedAhead
  <2> QED
    BY <1>4, <2>3
<1>7. Fits(k)
  BY <1>a, <1>4, ExactAt
<1>8. TellsBut(m)'
  BY <1>2, <1>4, <1>7 DEF Fits, TellsBut, Owing
<1>9. ShownBut(m)'
  BY <1>2, <1>4, <1>7 DEF Fits, ShownBut, Cached, Written, InAppend
<1>10. Owes(m)'
  BY <1>2, <1>3, <1>4, <1>5, <1>7 DEF Fits, Owes, Owing
<1>11. Knows(m)'
  BY <1>2 DEF Knows
<1>12. Fits(m)'
  BY <1>8, <1>9, <1>10, <1>11 DEF Fits
<1> QED
  BY <1>a, <1>4, <1>6, <1>12, ExactFrom DEF Exact

(* The entry is written: what was owed is told.                            *)
LEMMA EntryExact ==
    ASSUME OneWriter, TypeOK, Dense, Chain, Fresh, Books, Exact, NEW c \in Caller, AppendEntry(c)
    PROVE  Exact'
<1>a. PICK k \in CallType : k = call[c]
  BY DEF TypeOK
<1>1. PICK m : m = [k EXCEPT !.pc = "done"]
  OBVIOUS
<1>2. m.pc = "done" /\ m.id = k.id /\ m.op = k.op
  BY <1>1 DEF CallType
<1>3. PICK e : e = NewEntry(k)
  OBVIOUS
<1>4. PICK x \in Index : /\ x = k.next.next /\ ledger[x] = NoEntry
                         /\ \A i \in Index : i > x => ledger[i] = NoEntry
  BY <1>a, PlaceFree DEF AppendEntry
<1>5. /\ call' = [call EXCEPT ![c] = m] /\ k.pc = "entry" /\ ledger' = [ledger EXCEPT ![x] = e]
      /\ UNCHANGED <<store, deltas, life, mode, cache, hydrated>>
  BY <1>a, <1>1, <1>3, <1>4 DEF AppendEntry, Goto, TypeOK, memory, counts
<1>6. PICK d \in BOOLEAN : d = HasDelta(k)
  BY DEF HasDelta, Exists
<1>7. /\ e.op = k.op /\ e.id = k.id /\ e.payload = k.payload /\ e.delta = d /\ e.stamp = k.n
      /\ (k.op = "put" => e.version = k.ex.v + 1)
  BY <1>3, <1>6 DEF NewEntry
<1>8. /\ k.n \in Nat /\ k.n # 0 /\ k.id \in Record /\ k.ex.v \in Nat /\ k.op \in {"put", "delete"}
  <2>1. k.n \in 1..ops /\ k.op # "get"
    BY <1>a, <1>5 DEF Dense, CallsNumbered, GetReads, Writing, InAppend
  <2>2. ops \in Nat
    BY CollectionAssumption DEF TypeOK
  <2> QED
    BY <2>1, <2>2 DEF CallType, Envelope
<1>9. PICK L : L = ledger
  OBVIOUS
<1>10. PICK M : M = ledger'
  OBVIOUS
<1>11. Adds(L, M, x, e)
  <2>1. e # NoEntry
    BY <1>7, <1>8 DEF NoEntry
  <2>2. \A i \in Index : M[i] = IF i = x THEN e ELSE L[i]
    BY <1>5, <1>9, <1>10 DEF TypeOK
  <2> QED
    BY <1>4, <1>9, <2>1, <2>2 DEF Adds
<1>12. Fits(k) /\ store[k.id] = Result(k) /\ (k.op = "put" => k.payload = k.n)
  BY <1>a, <1>5, ExactAt DEF Books, Writes, Written, InAppend
<1>13. k.op = "put" => /\ Told(L, k.id, k.ex, life[k.id]) /\ k.ex.v + 1 \in DOMAIN life[k.id]
                       /\ life[k.id][k.ex.v + 1] = k.n
  BY <1>5, <1>9, <1>12 DEF Fits, Owes, Owing
<1>14. Patched(M, deltas)
  <2>1. Patched(L, deltas)
    BY <1>9 DEF Exact
  <2>2. ASSUME k.op = "put", NEW i \in Index, Newest(L, i, k.id), PutOf(L, i, k.id)
        PROVE  d /\ deltas[x] = [from |-> k.payload, to |-> L[i].payload]
    <3>1. Current(L, i, k.id)
      BY <2>2 DEF Newest, Current
    <3>2. L[i].version \in 1..k.ex.v
      BY <1>13, <2>2, <3>1 DEF Told
    <3>3. Exists(k.ex)
      BY <1>8, <3>2 DEF Exists
    <3>4. PICK j \in Index : Newest(L, j, k.id) /\ L[j].payload = k.ex.w
      BY <1>13, <2>2, <3>3 DEF Told
    <3>5. i = j
      BY <2>2, <3>4, CollectionAssumption DEF Newest, Index
    <3>6. HasDelta(k)
      BY <2>2, <3>3 DEF HasDelta
    <3>7. deltas[x] = [from |-> k.n, to |-> k.ex.w]
      BY <1>4, <1>5, <1>12, <3>6 DEF Fits, Owes
    <3> QED
      BY <1>6, <1>12, <2>2, <3>4, <3>5, <3>6, <3>7
  <2>3. e.op = "put" => /\ e.payload # Lost
                        /\ \A i \in Index : Newest(L, i, e.id) /\ PutOf(L, i, e.id) =>
                              e.delta /\ deltas[x] = [from |-> e.payload, to |-> L[i].payload]
    BY <1>7, <1>8, <1>12, <2>2 DEF Lost
  <2> QED
    BY <1>11, <2>1, <2>3, PatchedAdds
<1>15. \A r \in Record : Told(M, r, store[r], life[r])
  <2> SUFFICES ASSUME NEW r \in Record PROVE Told(M, r, store[r], life[r])
    OBVIOUS
  <2>1. CASE r # k.id
    <3>1. Told(L, r, store[r], life[r])
      BY <1>9, <1>12, <2>1 DEF Fits, TellsBut
    <3>2. e.id # r
      BY <1>7, <2>1
    <3> QED
      BY <1>11, <3>1, <3>2, ToldOfOthers
  <2>2. CASE r = k.id /\ k.op = "put"
    <3>1. PICK g : g = store[r]
      OBVIOUS
    <3>2. g.v = k.ex.v + 1 /\ g.w = k.n
      BY <1>12, <2>2, <3>1 DEF Result
    <3>3. PICK f : f = k.ex
      OBVIOUS
    <3>4. PICK lf : lf = life[k.id]
      OBVIOUS
    <3>5. Told(L, e.id, f, lf) /\ e.version = f.v + 1 /\ f.v + 1 \in DOMAIN lf
      BY <1>7, <1>13, <2>2, <3>3, <3>4
    <3>6. lf[f.v + 1] = e.payload /\ f.v \in Nat /\ e.op = "put" /\ g.v = f.v + 1 /\ g.w = e.payload
      BY <1>7, <1>8, <1>12, <1>13, <2>2, <3>2, <3>3, <3>4
    <3>7. Told(M, e.id, g, lf)
      BY <1>11, <3>5, <3>6, ToldOfPut
    <3> QED
      BY <1>7, <2>2, <3>1, <3>4, <3>7
  <2>3. CASE r = k.id /\ k.op = "delete"
    <3>1. e.op = "delete" /\ e.id = r /\ store[r] = Missing
      BY <1>7, <1>12, <2>3 DEF Result
    <3>2. PICK lf : lf = life[r]
      OBVIOUS
    <3>3. Told(M, e.id, Missing, lf)
      BY <1>11, <3>1, ToldOfDelete
    <3> QED
      BY <3>1, <3>2, <3>3
  <2> QED
    BY <1>8, <2>1, <2>2, <2>3
<1>16. TellsBut(m)'
  BY <1>5, <1>10, <1>15 DEF TellsBut
<1>17. ShownBut(m)'
  BY <1>2, <1>5, <1>12 DEF Fits, ShownBut, Cached, Written, InAppend
<1>18. (Owes(m) /\ Knows(m))'
  BY <1>2 DEF Owes, Owing, Knows
<1>19. Fits(m)'
  BY <1>16, <1>17, <1>18 DEF Fits
<1>20. DOMAIN life' = Record /\ Patched(ledger', deltas')
  BY <1>5, <1>10, <1>14 DEF Exact
<1> QED
  BY <1>a, <1>5, <1>19, <1>20, ExactFrom

(* The call returns: the cache is told of the write.                       *)
LEMMA FinishExact ==
    ASSUME OneWriter, TypeOK, Dense, Chain, Books, Exact, NEW c \in Caller, Finish(c)
    PROVE  Exact'
<1>a. PICK k \in CallType : k = call[c]
  BY DEF TypeOK
<1>1. PICK m : m = Idle
  OBVIOUS
<1>2. /\ m.pc = "idle" /\ call' = [call EXCEPT ![c] = m] /\ k.pc = "done"
      /\ UNCHANGED <<store, ledger, deltas, life, mode, hydrated>>
      /\ k.h \in Handle /\ k.id \in Record
  BY <1>a, <1>1 DEF Finish, Return, CallType, disk, counts, Idle
<1>3. cache' \in IF k.op = "put" THEN Remembered(k.h, k.id, [v |-> k.ex.v + 1, w |-> k.n])
                                 ELSE {[cache EXCEPT ![k.h][k.id] = Missing]}
  BY <1>a DEF Finish
<1>4. Fits(k) /\ store[k.id] = Result(k)
  BY <1>a, <1>2, ExactAt DEF Books, Writes, Written, InAppend
<1>5. TellsBut(m)'
  BY <1>2, <1>4 DEF Fits, TellsBut, Owing
<1>6. ShownBut(m)'
  <2>1. m.pc \notin Written
    BY <1>2 DEF Written, InAppend
  <2>2. \A g \in Handle : g = k.h
    BY <1>2 DEF OneWriter
  <2>3. CASE k.op = "put"
    <3>1. cache' \in Remembered(k.h, k.id, store[k.id])
      BY <1>3, <1>4, <2>3 DEF Result
    <3>2. Exists(store[k.id])
      <4>1. k.ex.v \in Nat
        BY DEF CallType, Envelope
      <4> QED
        BY <1>4, <2>3, <4>1 DEF Result, Exists
    <3> QED
      BY <1>2, <1>4, <2>1, <2>2, <3>1, <3>2, ShownTakes DEF Fits
  <2>4. CASE k.op # "put"
    <3>1. store[k.id] = Missing
      BY <1>4, <2>4 DEF Result
    <3>2. \A h \in Handle, r \in Record : cache'[h][r] = IF r = k.id THEN Missing ELSE cache[h][r]
      BY <1>2, <1>3, <2>2, <2>4 DEF TypeOK
    <3> QED
      BY <1>2, <1>4, <3>1, <3>2 DEF Fits, ShownBut, Cached
  <2> QED
    BY <2>3, <2>4
<1>7. (Owes(m) /\ Knows(m))'
  BY <1>2 DEF Owes, Owing, Knows
<1>8. Fits(m)'
  BY <1>5, <1>6, <1>7 DEF Fits
<1> QED
  BY <1>a, <1>2, <1>8, ExactFrom DEF Exact

(* A call begins.                                                          *)
LEMMA BeginExact ==
    ASSUME WholeCalls, TypeOK, Chain, Exact, NEW c \in Caller, NEW op \in {"put", "delete", "get"},
           NEW h \in Handle, NEW r \in Record, Begin(c, op, h, r)
    PROVE  Exact'
<1>1. PICK E : E = IF mode = "lazy" /\ op # "get" THEN cache[h][r] ELSE Missing
  OBVIOUS
<1>2. PICK p : p = IF mode = "lazy"
                   THEN (IF ~Cached(h, r) THEN "fetch" ELSE IF op = "get" THEN "ready" ELSE "fetched")
                   ELSE (IF op = "delete" \/ hydrated[h] THEN "ready" ELSE "list")
  OBVIOUS
<1>3. PICK m : m = [Idle EXCEPT !.op = op, !.h = h, !.id = r, !.n = ops + 1, !.env = E, !.pc = p]
  OBVIOUS
<1>4. m.pc = p /\ m.op = op /\ m.h = h /\ m.id = r /\ m.env = E
  BY <1>3 DEF Idle
<1>5. /\ call' = [call EXCEPT ![c] = m] /\ call[c].pc = "idle" /\ Quiet
      /\ op = "delete" /\ mode = "eager" => hydrated[h]
      /\ UNCHANGED <<store, ledger, deltas, life, mode, cache, hydrated>>
  BY <1>1, <1>2, <1>3 DEF Begin, disk, memory, WholeCalls, OneWriter
<1>6. mode \in {"eager", "lazy"}
  BY CollectionAssumption DEF TypeOK
<1>7. \/ Cached(h, r) /\ cache[h][r] = store[r]
      \/ ~Cached(h, r) /\ cache[h][r] = Missing
  <2>1. Fits(call[c])
    BY <1>5, ExactAt
  <2> QED
    BY <1>5, <2>1 DEF Fits, ShownBut, Written, InAppend
<1>8. (Owes(m) /\ Knows(m))'
  <2>1. p \in {"fetch", "ready", "fetched", "list"}
    BY <1>2
  <2>2. Owes(m)'
    BY <1>4, <2>1 DEF Owes, Owing
  <2>3. p = "list" => mode = "eager"
    BY <1>2, <1>6
  <2>4. p = "ready" /\ op # "get" => mode = "eager" /\ hydrated[h]
    BY <1>2, <1>5, <1>6
  <2>5. p = "fetch" => E = Missing
    BY <1>1, <1>2, <1>7
  <2>6. p = "fetched" => E = store[r]
    BY <1>1, <1>2, <1>7
  <2> QED
    BY <1>4, <1>5, <2>1, <2>2, <2>3, <2>4, <2>5, <2>6 DEF Knows
<1>9. ~Owing(m) /\ ~Owing(call[c]) /\ m.pc \notin Written /\ call[c].pc \notin Written
  BY <1>2, <1>4, <1>5 DEF Owing, Written, InAppend
<1> QED
  BY <1>5, <1>8, <1>9, ExactStays

(* A restart between two calls.                                            *)
LEMMA OutsideExact ==
    ASSUME WholeCalls, TypeOK, Chain, Exact, (\E r \in Record : SyncPut(r)) \/ Crash \/ UNCHANGED vars
    PROVE  Exact'
<1>1. ~\E r \in Record : SyncPut(r)
  BY DEF SyncPut, WholeCalls, TypeOK
<1>2. CASE Crash
  <2>1. /\ cache' = [h \in Handle |-> [r \in Record |-> Missing]]
        /\ hydrated' = [h \in Handle |-> FALSE]
        /\ call' = [c \in Caller |-> Idle] /\ UNCHANGED <<store, ledger, deltas, life, mode>> /\ Quiet
    BY <1>2 DEF Crash, disk, WholeCalls
  <2>2. \A d \in Caller : call'[d].pc = "idle" /\ ~Owing(call[d])
    BY <2>1 DEF Idle, Quiet, Owing
  <2>3. \A h \in Handle, r \in Record : cache'[h][r] = Missing /\ ~hydrated'[h]
    BY <2>1
  <2>4. Shown'
    BY <2>3 DEF Shown, Cached, Missing, Exists
  <2>5. Tells'
    BY <2>1, <2>2 DEF Exact, Tells
  <2>6. \A d \in Caller : (Owes(call[d]) /\ Knows(call[d]))'
    BY <2>2 DEF Owes, Owing, Knows
  <2> QED
    BY <2>1, <2>4, <2>5, <2>6 DEF Exact
<1>3. CASE UNCHANGED vars
  <2>1. UNCHANGED <<store, ledger, deltas, life, mode, cache, hydrated, call>>
    BY <1>3 DEF vars, disk, memory
  <2>2. \A k : Owes(k) /\ Knows(k) => (Owes(k) /\ Knows(k))'
    BY <2>1 DEF Owes, Knows
  <2> QED
    BY <2>1, <2>2 DEF Exact, Tells, Shown, Cached
<1> QED
  BY <1>1, <1>2, <1>3

LEMMA ExactStep ==
    ASSUME WholeCalls, TypeOK, Dense, Chain, Fresh, Books, Exact, [Next]_vars
    PROVE  Exact'
<1>0. OneWriter /\ MaxFails = 0
  BY DEF WholeCalls
<1>1. ASSUME NEW c \in Caller, Step(c) \/ Fail(c) PROVE Exact'
  BY <1>0, <1>1, HydrateExact, HydrateSetExact, HydrateEndExact, FetchExact, PrepareExact, WriteExact,
     HeadExact, DeltaExact, EntryExact, FinishExact DEF Step
<1>2. ASSUME NEW c \in Caller, NEW op \in {"put", "delete", "get"}, NEW h \in Handle, NEW r \in Record,
             Begin(c, op, h, r)
      PROVE  Exact'
  BY <1>2, BeginExact
<1>3. CASE (\E r \in Record : SyncPut(r)) \/ Crash \/ UNCHANGED vars
  BY <1>3, OutsideExact
<1> QED
  BY <1>1, <1>2, <1>3 DEF Next

LEMMA InitExact == Init => Exact
<1> SUFFICES ASSUME Init PROVE Exact
  OBVIOUS
<1>1. \A i \in Index, r \in Record : ~Of(ledger, i, r)
  BY DEF Init, Of
<1>2. Patched(ledger, deltas)
  BY <1>1 DEF Patched, PutOf
<1>3. \A r \in Record : Told(ledger, r, store[r], life[r])
  BY <1>1 DEF Told, Current, PutOf, Init, Missing, Exists
<1>4. \A c \in Caller : call[c].pc = "idle"
  BY DEF Init, Idle
<1>5. Shown
  BY DEF Init, Shown, Cached, Missing, Exists
<1>6. \A c \in Caller : Owes(call[c]) /\ Knows(call[c])
  BY <1>4 DEF Owes, Owing, Knows
<1> QED
  BY <1>2, <1>3, <1>5, <1>6 DEF Exact, Tells, Init

(* verifyBackupIntegrity (vault.ts:1300-1404) finds nothing, a cache is    *)
(* what the store holds, and LedgerStore.reconstruct                       *)
(* (ledger/store.ts:446-509) returns exactly the content each version of a *)
(* record had, after any calls of a single writer that came to their end,  *)
(* with restarts in between.                                               *)
THEOREM ReadersFindTheTruth == WholeCalls => (Spec => []ReconstructsExactly)
<1> SUFFICES ASSUME WholeCalls PROVE Spec => []ReconstructsExactly
  OBVIOUS
<1> DEFINE Inv == TypeOK /\ Dense /\ Chain /\ Fresh /\ Books /\ Exact
<1>1. Init => Inv
  BY InitDense, InitChain, InitFresh, InitBooks, InitExact
<1>2. Inv /\ [Next]_vars => Inv'
  BY DenseStep, ChainStep, FreshStep, BooksStep, ExactStep DEF WholeCalls, Answered
<1>3. Inv => ReconstructsExactly
  <2> SUFFICES ASSUME Inv, Quiet
               PROVE  /\ Verifies /\ DataMatches
                      /\ \A h \in Handle, r \in Record :
                            (mode = "eager" /\ hydrated[h]) \/ Cached(h, r) => cache[h][r] = store[r]
                      /\ \A r \in Record : Exists(store[r]) =>
                            \A v \in 1..store[r].v : Reconstruct(r, v) = life[r][v]
    BY DEF ReconstructsExactly, IntegrityHolds, CacheCurrent, ReconstructExact
  <2>1. \A c \in Caller : ~Owing(call[c]) /\ call[c].pc \notin Written
    BY DEF Quiet, Owing, Written, InAppend
  <2>2. \A r \in Record : Told(ledger, r, store[r], life[r])
    BY <2>1 DEF Exact, Tells
  <2>3. Verifies
    BY ChainVerified DEF ChainVerifies
  <2>4. DataMatches
    <3> SUFFICES ASSUME NEW r \in Record, NEW i \in LatestOf(r), ledger[i].op = "put"
                 PROVE  Exists(store[r]) /\ store[r].w = ledger[i].payload
      BY DEF DataMatches
    <3>1. i \in Index /\ Newest(ledger, i, r) /\ Current(ledger, i, r)
      BY CollectionAssumption DEF LatestOf, Used, Newest, Current, PutOf, Of, Index
    <3>2. ledger[i].version \in 1..store[r].v
      BY <2>2, <3>1 DEF Told
    <3>3. Exists(store[r])
      BY <3>2 DEF Exists, TypeOK, Envelope
    <3>4. PICK j \in Index : Newest(ledger, j, r) /\ ledger[j].payload = store[r].w
      BY <2>2, <3>3 DEF Told
    <3>5. i = j
      BY <3>1, <3>4, CollectionAssumption DEF Newest, Index
    <3> QED
      BY <3>3, <3>4, <3>5
  <2>5. \A h \in Handle, r \in Record :
            (mode = "eager" /\ hydrated[h]) \/ Cached(h, r) => cache[h][r] = store[r]
    BY <2>1 DEF Exact, Shown
  <2>6. \A r \in Record : \A v \in 1..store[r].v : Reconstruct(r, v) = life[r][v]
    <3> SUFFICES ASSUME NEW r \in Record, NEW v \in 1..store[r].v
                 PROVE  Reconstruct(r, v) = life[r][v]
      OBVIOUS
    <3>1. Told(ledger, r, store[r], life[r]) /\ Patched(ledger, deltas)
      BY <2>2 DEF Exact
    <3> QED
      BY <3>1, Reconstructed
  <2> QED
    BY <2>3, <2>4, <2>5, <2>6
<1> QED
  BY <1>1, <1>2, <1>3, PTL DEF Spec
=============================================================================
