----------------------- MODULE StoreMiddleware_proofs -----------------------
(***************************************************************************)
(* Proof that a store behind a stack of middleware keeps the contract of a *)
(* store and that its cache is coherent: for every stack without a layer   *)
(* that may skip a call below the cache, whatever the keys, versions,      *)
(* callers, limits and thresholds are and however calls of different keys  *)
(* overlap.                                                                *)
(***************************************************************************)
EXTENDS StoreMiddleware, SequenceTheorems, TLAPS

(* Calls of one key follow one another, and a call that fails has not been *)
(* carried out.                                                            *)
Careful == "sameKey" \notin Allowed /\ "lostAnswer" \notin Allowed

(* The cache is below what may answer in place of the base store, and      *)
(* saveAll, which writes past it (store-middleware.ts:358), is not called. *)
CacheLast ==
    \A s \in Stacks : \A p \in 1..Len(s) : s[p] = "cache" =>
        /\ "saveAll" \notin Allowed
        /\ \A i \in 1..Len(s) : s[i] \in {"breaker", "health"} => i < p

-----------------------------------------------------------------------------
(***************************************************************************)
(* The invariant.  The operators take the stack s, the records r and the   *)
(* entries h of the cache as arguments.                                    *)
(***************************************************************************)
Records  == [Key -> Value \cup {None}]
CallType ==
    [op : {"none", "get", "put", "delete", "loadAll", "saveAll"}, key : Key \cup {None},
     val : Value \cup {None}, exp : Expected \cup {None}, at : Nat, dir : {"down", "up"},
     res : Answer, tries : Nat]
HealthType == [suspended : BOOLEAN, bad : Nat, good : Nat]
CacheEntry == [key : Key, val : Value \cup {None}, expired : BOOLEAN]

\* The call is on its way below the cache.
Below(s, q) ==
    \E p \in 1..Len(s) : s[p] = "cache" /\ (IF q.dir = "down" THEN q.at > p ELSE q.at >= p)

Asked(q) ==
    /\ q.op \in {"get", "put", "delete", "loadAll", "saveAll"} /\ q.key \in Key /\ q.val \in Value
    /\ q.exp # None => q.op = "put"
    /\ q.op \in Bulk => q.op \in Allowed

\* An outcome on its way up: a refused put would be refused still, and what comes up to
\* the cache is what the base store holds.
RefusedBy(r, q) == q.op = "put" /\ q.exp # None /\ r[q.key] \notin {None, q.exp}
Served(r, q) ==
    /\ q.op = "get" => q.res.records[q.key] = r[q.key]
    /\ q.op = "put" => r[q.key] = q.val
Outcome(s, r, q) ==
    /\ q.at <= Len(s) /\ q.res.is \in {"ok", "error", "conflict"}
    /\ Failed(q.res) => q.res = Says(q.res.is, Absent)
    /\ q.res.is = "conflict" => RefusedBy(r, q)
    /\ q.res.is = "ok" /\ Below(s, q) => Served(r, q)
Shape(s, r, q) ==
    /\ Asked(q)
    /\ q.dir = "down" => q.at \in 1..(Len(s) + 1)
    /\ q.dir = "up" => Outcome(s, r, q)

\* Between its removal of the entry and its outcome a write has no entry.
Cleared(s, h, q) ==
    Below(s, q) /\ q.op \in {"put", "delete"} => \A i \in DOMAIN h : h[i].key # q.key

Distinct(h) == \A i, j \in DOMAIN h : h[i].key = h[j].key => i = j
Current(r, h) == \A i \in DOMAIN h : h[i].expired \/ h[i].val = r[h[i].key]
Sound(s, r, h) ==
    Distinct(h) /\ Current(r, h) /\ ((\A p \in 1..Len(s) : s[p] # "cache") => h = <<>>)

Apart(k) == \A c, d \in Caller, x \in Key : c # d => ~(Touches(k[c], x) /\ Touches(k[d], x))

IInv ==
    /\ stack \in Stacks /\ record \in Records /\ call \in [Caller -> CallType]
    /\ cache \in Seq(CacheEntry) /\ health \in HealthType
    /\ Apart(call) /\ Sound(stack, record, cache)
    /\ \A c \in Caller : call[c] = Idle
            \/ (Shape(stack, record, call[c]) /\ Cleared(stack, cache, call[c]))

-----------------------------------------------------------------------------
(***************************************************************************)
(* The cache.                                                              *)
(***************************************************************************)
LEMMA PlaceIs ==
    ASSUME NEW k, Entries(k) # {}
    PROVE  Place(k) \in DOMAIN cache /\ cache[Place(k)].key = k /\ Entry(k) = cache[Place(k)]
BY DEF Place, Entry, Entries

(* A removal leaves the other entries.                                     *)
LEMMA RemovalIs ==
    ASSUME NEW h \in Seq(CacheEntry), NEW p \in 1..Len(h)
    PROVE  LET g == RemoveAt(h, p) IN
           /\ g \in Seq(CacheEntry) /\ Len(g) = Len(h) - 1
           /\ \A i \in 1..Len(g) : g[i] = IF i < p THEN h[i] ELSE h[i + 1]
<1> DEFINE g1 == SubSeq(h, 1, p - 1)
           g2 == SubSeq(h, p + 1, Len(h))
<1>1. Len(h) \in Nat /\ p \in Nat /\ p - 1 \in Int /\ p + 1 \in Int
  BY LenProperties
<1>2. /\ g1 \in Seq(CacheEntry) /\ Len(g1) = p - 1
      /\ \A i \in 1..(p - 1) : g1[i] = h[i]
  BY <1>1, SubSeqProperties, LenProperties
<1>3. /\ g2 \in Seq(CacheEntry) /\ Len(g2) = Len(h) - p
      /\ \A i \in 1..(Len(h) - p) : g2[i] = h[p + i]
  BY <1>1, SubSeqProperties, LenProperties
<1> HIDE DEF g1, g2
<1>4. /\ g1 \o g2 \in Seq(CacheEntry) /\ Len(g1 \o g2) = Len(g1) + Len(g2)
      /\ \A i \in 1..(Len(g1) + Len(g2)) :
            (g1 \o g2)[i] = IF i <= Len(g1) THEN g1[i] ELSE g2[i - Len(g1)]
  BY <1>2, <1>3, ConcatProperties
<1>5. RemoveAt(h, p) = g1 \o g2
  BY DEF RemoveAt, g1, g2
<1>6. \A i \in 1..(Len(h) - 1) : i >= p => g2[i - (p - 1)] = h[i + 1]
  BY <1>1, <1>3
<1>7. PICK g : g = RemoveAt(h, p)
  OBVIOUS
<1>8. g \in Seq(CacheEntry) /\ Len(g) = Len(h) - 1
  BY <1>1, <1>2, <1>3, <1>4, <1>5, <1>7
<1>9. ASSUME NEW i \in 1..Len(g) PROVE g[i] = IF i < p THEN h[i] ELSE h[i + 1]
  <2>1. i \in 1..(Len(g1) + Len(g2)) /\ i \in Nat
    BY <1>1, <1>2, <1>3, <1>8
  <2>2. g[i] = IF i <= Len(g1) THEN g1[i] ELSE g2[i - Len(g1)]
    BY <2>1, <1>4, <1>5, <1>7
  <2>3. CASE i < p
    BY <2>1, <2>2, <2>3, <1>1, <1>2
  <2>4. CASE ~(i < p)
    BY <2>1, <2>2, <2>4, <1>1, <1>2, <1>6, <1>8
  <2> QED
    BY <2>3, <2>4
<1> QED
  BY <1>7, <1>8, <1>9

LEMMA WithoutIs ==
    ASSUME cache \in Seq(CacheEntry), NEW r, NEW s, Sound(s, r, cache), NEW k
    PROVE  /\ Without(k) \in Seq(CacheEntry) /\ Sound(s, r, Without(k))
           /\ \A i \in DOMAIN Without(k) :
                 /\ Without(k)[i].key # k
                 /\ \E j \in DOMAIN cache : cache[j] = Without(k)[i]
<1>1. CASE Entries(k) = {}
  BY <1>1 DEF Without, Entries
<1>2. CASE Entries(k) # {}
  <2>1. PICK p \in 1..Len(cache) : p = Place(k) /\ cache[p].key = k
    BY <1>2, PlaceIs, LenProperties
  <2>2. PICK g : g = RemoveAt(cache, p)
    OBVIOUS
  <2>3. /\ g \in Seq(CacheEntry) /\ Len(g) = Len(cache) - 1
        /\ \A i \in 1..Len(g) : g[i] = IF i < p THEN cache[i] ELSE cache[i + 1]
    BY <2>2, RemovalIs
  <2>4. Len(cache) \in Nat /\ DOMAIN cache = 1..Len(cache) /\ DOMAIN g = 1..Len(g)
    BY <2>3, LenProperties
  <2>5. \A i \in DOMAIN g : \E j \in DOMAIN cache :
           cache[j] = g[i] /\ j # p /\ j = (IF i < p THEN i ELSE i + 1)
    BY <2>3, <2>4
  <2>6. \A i \in DOMAIN g : g[i].key # k
    BY <2>1, <2>4, <2>5 DEF Sound, Distinct
  <2>7. Distinct(g)
    <3> SUFFICES ASSUME NEW i \in DOMAIN g, NEW j \in DOMAIN g, g[i].key = g[j].key PROVE i = j
      BY DEF Distinct
    <3>1. PICK a \in DOMAIN cache : cache[a] = g[i] /\ a = (IF i < p THEN i ELSE i + 1)
      BY <2>5
    <3>2. PICK b \in DOMAIN cache : cache[b] = g[j] /\ b = (IF j < p THEN j ELSE j + 1)
      BY <2>5
    <3>3. a = b
      BY <3>1, <3>2 DEF Sound, Distinct
    <3> QED
      BY <2>4, <3>1, <3>2, <3>3
  <2>8. Current(r, g)
    BY <2>5 DEF Sound, Current
  <2>9. (\A q \in 1..Len(s) : s[q] # "cache") => g = <<>>
    BY <2>4, <2>1 DEF Sound
  <2>10. Without(k) = g
    BY <1>2, <2>1, <2>2 DEF Without
  <2> QED
    BY <2>3, <2>5, <2>6, <2>7, <2>8, <2>9, <2>10 DEF Sound
<1> QED
  BY <1>1, <1>2

(* An entry is added at the end.                                           *)
LEMMA AppendIs ==
    ASSUME NEW s, NEW r, NEW h \in Seq(CacheEntry), Sound(s, r, h), NEW e \in CacheEntry,
           e.expired \/ e.val = r[e.key], \A i \in DOMAIN h : h[i].key # e.key,
           \E p \in 1..Len(s) : s[p] = "cache"
    PROVE  /\ Append(h, e) \in Seq(CacheEntry) /\ Sound(s, r, Append(h, e))
           /\ \A i \in DOMAIN Append(h, e) :
                 Append(h, e)[i] = e \/ \E j \in DOMAIN h : h[j] = Append(h, e)[i]
<1>1. /\ Append(h, e) \in Seq(CacheEntry) /\ Len(Append(h, e)) = Len(h) + 1
      /\ \A i \in 1..Len(h) : Append(h, e)[i] = h[i]
      /\ Append(h, e)[Len(h) + 1] = e
  BY AppendProperties
<1>2. PICK g : g = Append(h, e)
  OBVIOUS
<1>3. Len(h) \in Nat /\ DOMAIN h = 1..Len(h) /\ DOMAIN g = 1..(Len(h) + 1)
  BY <1>1, <1>2, LenProperties
<1>4. \A i \in DOMAIN g : IF i = Len(h) + 1 THEN g[i] = e ELSE i \in DOMAIN h /\ g[i] = h[i]
  BY <1>1, <1>2, <1>3
<1>5. Distinct(g) /\ Current(r, g)
  BY <1>4 DEF Sound, Distinct, Current
<1> QED
  BY <1>1, <1>2, <1>4, <1>5 DEF Sound

(* What a cache that sets a record to its current version holds.           *)
LEMMA StoredIs ==
    ASSUME cache \in Seq(CacheEntry), NEW r, NEW s, Sound(s, r, cache), NEW k \in Key,
           NEW v \in Value \cup {None}, v = r[k], \E p \in 1..Len(s) : s[p] = "cache"
    PROVE  /\ Stored(k, v) \in Seq(CacheEntry) /\ Sound(s, r, Stored(k, v))
           /\ \A i \in DOMAIN Stored(k, v) :
                 Stored(k, v)[i].key = k \/ \E j \in DOMAIN cache : cache[j] = Stored(k, v)[i]
<1>1. PICK e : e = [key |-> k, val |-> v, expired |-> FALSE]
  OBVIOUS
<1>2. e \in CacheEntry /\ e.key = k /\ e.val = v
  BY <1>1 DEF CacheEntry
<1>3. PICK h : h = IF Len(cache) >= MaxEntries THEN Tail(cache) ELSE cache
  OBVIOUS
<1>4. /\ h \in Seq(CacheEntry) /\ Sound(s, r, h) /\ \A i \in DOMAIN h : \E j \in DOMAIN cache : cache[j] = h[i]
  <2>1. CASE Len(cache) >= MaxEntries
    <3>1. MaxEntries \in Nat \ {0} /\ Len(cache) \in Nat
      BY MiddlewareAssumption, LenProperties
    <3>2. Len(cache) # 0 /\ cache # <<>>
      BY <2>1, <3>1, EmptySeq
    <3>3. /\ h \in Seq(CacheEntry) /\ Len(h) = Len(cache) - 1
          /\ \A i \in 1..Len(h) : h[i] = cache[i + 1]
      BY <1>3, <2>1, <3>2, HeadTailProperties
    <3>4. DOMAIN h = 1..Len(h) /\ DOMAIN cache = 1..Len(cache)
      BY <3>3, LenProperties
    <3>5. \A i \in DOMAIN h : i + 1 \in DOMAIN cache /\ h[i] = cache[i + 1]
      BY <3>1, <3>3, <3>4
    <3>6. \A i, j \in DOMAIN h : i + 1 = j + 1 => i = j
      BY <3>1, <3>3, <3>4
    <3> QED
      BY <3>3, <3>5, <3>6 DEF Sound, Distinct, Current
  <2>2. CASE ~(Len(cache) >= MaxEntries)
    BY <1>3, <2>2
  <2> QED
    BY <2>1, <2>2
<1>5. Stored(k, v) = IF \E i \in DOMAIN h : h[i].key = k
                     THEN [i \in DOMAIN h |-> IF h[i].key = k THEN e ELSE h[i]]
                     ELSE Append(h, e)
  BY <1>1, <1>3 DEF Stored
<1>6. CASE \E i \in DOMAIN h : h[i].key = k
  <2>1. PICK g : g = [i \in DOMAIN h |-> IF h[i].key = k THEN e ELSE h[i]]
    OBVIOUS
  <2>2. Len(h) \in Nat /\ DOMAIN h = 1..Len(h) /\ \A i \in DOMAIN h : h[i] \in CacheEntry
    BY <1>4, LenProperties
  <2>3. g \in [1..Len(h) -> CacheEntry]
    BY <1>2, <2>1, <2>2
  <2>4. g \in Seq(CacheEntry)
    BY <2>2, <2>3, SeqDef
  <2>5. DOMAIN g = DOMAIN h /\ \A i \in DOMAIN h : g[i] = IF h[i].key = k THEN e ELSE h[i]
    BY <2>1
  <2>6. \A i \in DOMAIN h : g[i].key = h[i].key
    BY <1>2, <2>5
  <2>7. Distinct(g) /\ Current(r, g)
    BY <1>2, <1>4, <2>5, <2>6 DEF Sound, Distinct, Current
  <2> QED
    BY <1>2, <1>4, <1>5, <1>6, <2>1, <2>4, <2>5, <2>7 DEF Sound
<1>7. CASE ~(\E i \in DOMAIN h : h[i].key = k)
  BY <1>2, <1>4, <1>5, <1>7, AppendIs
<1> QED
  BY <1>6, <1>7


-----------------------------------------------------------------------------
(***************************************************************************)
(* What the contract sees of a call.                                      *)
(***************************************************************************)
Promise(o, k, v, e, d, x) == [op |-> o, keys |-> k, val |-> v, exp |-> e, done |-> d, res |-> x]
Kept(o, k, v, e, x) == [op |-> o, keys |-> k, val |-> v, exp |-> e, done |-> TRUE, res |-> x]
WithDone(p)   == [p EXCEPT !.done = TRUE]
WithRes(p, a) == [p EXCEPT !.res = a]
Told(p, a)    == [p EXCEPT !.done = TRUE, !.res = a]
Promises(k)   == [c \in Caller |-> Promised(k[c])]
KeysOf(q)     == IF q.op = "none" THEN {} ELSE IF q.op \in Bulk THEN Key ELSE {q.key}
Same(m, q)    == m.op = q.op /\ m.key = q.key /\ m.val = q.val /\ m.exp = q.exp

LEMMA PromiseKept ==
    ASSUME NEW o, NEW k, NEW v, NEW e, NEW d, NEW x, NEW a
    PROVE  Told(Promise(o, k, v, e, d, x), a) = Kept(o, k, v, e, a)
<1> PICK t : t = TRUE
  OBVIOUS
<1>1. WithDone(Promise(o, k, v, e, d, x)) = Promise(o, k, v, e, t, x)
  <2>1. \A u : [Promise(o, k, v, e, d, x) EXCEPT !.done = u] = Promise(o, k, v, e, u, x)
    BY SMT DEF Promise
  <2>2. [Promise(o, k, v, e, d, x) EXCEPT !.done = t] = Promise(o, k, v, e, t, x)
    BY <2>1, Zenon
  <2>3. WithDone(Promise(o, k, v, e, d, x)) = [Promise(o, k, v, e, d, x) EXCEPT !.done = t]
    BY Zenon DEF WithDone
  <2> QED
    BY <2>2, <2>3, Zenon
<1>2. WithRes(Promise(o, k, v, e, t, x), a) = Promise(o, k, v, e, t, a)
  <2>1. \A u : [Promise(o, k, v, e, u, x) EXCEPT !.res = a] = Promise(o, k, v, e, u, a)
    BY SMT DEF Promise
  <2> QED
    BY <2>1, Zenon DEF WithRes
<1>3. \A p : Told(p, a) = WithRes(WithDone(p), a)
  BY DEF Told, WithDone, WithRes
<1>4. Promise(o, k, v, e, t, a) = Kept(o, k, v, e, a)
  BY Zenon DEF Promise, Kept
<1> QED
  BY <1>1, <1>2, <1>3, <1>4, Zenon

(* The promise of a call, without and with its answer.                     *)
LEMMA PromiseOf ==
    ASSUME NEW q
    PROVE  /\ ~Done(q) => \E b : b = FALSE /\ Promised(q) = Promise(q.op, KeysOf(q), q.val, q.exp, b, Nothing)
           /\ Done(q) => Promised(q) = Kept(q.op, KeysOf(q), q.val, q.exp, q.res)
<1>1. PICK b : b = Done(q)
  OBVIOUS
<1>2. PICK x : x = IF Done(q) THEN q.res ELSE Nothing
  OBVIOUS
<1>3. Promised(q) = Promise(q.op, KeysOf(q), q.val, q.exp, b, x)
  BY <1>1, <1>2, Zenon DEF Promised, Promise, KeysOf
<1>4. CASE ~Done(q)
  <2>1. b = FALSE /\ x = Nothing
    BY <1>1, <1>2, <1>4
  <2> QED
    BY <2>1, <1>3, <1>4
<1>5. CASE Done(q)
  <2>1. b = TRUE /\ x = q.res
    BY <1>1, <1>2, <1>5
  <2>2. Promise(q.op, KeysOf(q), q.val, q.exp, b, x) = Kept(q.op, KeysOf(q), q.val, q.exp, x)
    BY <2>1, Zenon DEF Promise, Kept
  <2> QED
    BY <2>1, <2>2, <1>3, <1>5
<1> QED
  BY <1>4, <1>5

LEMMA SilentPromise ==
    ASSUME NEW m, NEW q, Same(m, q), Done(m) <=> Done(q), Done(q) => m.res = q.res
    PROVE  Promised(m) = Promised(q)
<1>1. KeysOf(m) = KeysOf(q)
  BY DEF KeysOf, Same
<1>2. CASE Done(q)
  BY <1>1, <1>2, PromiseOf DEF Same
<1>3. CASE ~Done(q)
  BY <1>1, <1>3, PromiseOf DEF Same
<1> QED
  BY <1>2, <1>3

LEMMA ToldPromise ==
    ASSUME NEW m, NEW q, Same(m, q), ~Done(q), Done(m)
    PROVE  Promised(m) = Told(Promised(q), m.res)
<1>1. KeysOf(m) = KeysOf(q)
  BY DEF KeysOf, Same
<1>2. PICK b : b = FALSE /\ Promised(q) = Promise(q.op, KeysOf(q), q.val, q.exp, b, Nothing)
  BY PromiseOf
<1>3. Promised(m) = Kept(m.op, KeysOf(m), m.val, m.exp, m.res)
  BY PromiseOf
<1> QED
  BY <1>1, <1>2, <1>3, PromiseKept DEF Same

(* The fields of a promise.                                                *)
LEMMA PromiseFields ==
    ASSUME NEW q
    PROVE  /\ Promised(q).op = q.op /\ Promised(q).keys = KeysOf(q)
           /\ Promised(q).val = q.val /\ Promised(q).exp = q.exp
           /\ Promised(q).done <=> Done(q)
  BY DEF Promised, KeysOf

LEMMA IdlePromise == Promised(Idle) = Contract!Idle /\ Idle.op = "none" /\ ~Done(Idle)
<1>1. Idle.op = "none" /\ Idle.val = None /\ Idle.exp = None
  BY DEF Idle
<1>2. Contract!Nothing = Nothing
  BY DEF Contract!Nothing, Contract!Says, Contract!Absent, Nothing, Says, Absent
<1>3. ~Done(Idle)
  BY <1>1 DEF Done
<1>4. KeysOf(Idle) = {}
  BY <1>1 DEF KeysOf
<1>5. PICK b : b = FALSE /\ Promised(Idle) = Promise("none", {}, None, None, b, Nothing)
  BY <1>1, <1>3, <1>4, PromiseOf
<1>6. Contract!Idle = Promise("none", {}, None, None, b, Nothing)
  BY <1>2, <1>5, Zenon DEF Contract!Idle, Promise
<1> QED
  BY <1>1, <1>3, <1>5, <1>6

LEMMA ContractWords ==
    /\ Contract!Absent = Absent /\ Contract!Nothing = Nothing
    /\ \A h, r : Contract!Says(h, r) = Says(h, r)
  BY DEF Contract!Nothing, Contract!Says, Contract!Absent, Nothing, Says, Absent

-----------------------------------------------------------------------------
(***************************************************************************)
(* A step of one caller, seen from the stack and from the contract.       *)
(***************************************************************************)
LEMMA IdleFacts == Idle \in CallType /\ \A x : ~Touches(Idle, x)
  BY DEF Idle, CallType, Nothing, Says, Absent, Answer, Touches

LEMMA Working ==
    ASSUME IInv, NEW c \in Caller, call[c] # Idle
    PROVE  /\ call[c] \in CallType /\ Asked(call[c])
           /\ Shape(stack, record, call[c]) /\ Cleared(stack, cache, call[c])
  BY DEF IInv, Shape

\* A step changes records, and adds entries, only where its call touches them.
Local(q, r, s) == \A x \in Key : s[x] # r[x] => Touches(q, x)
Narrow(q, h, g) ==
    \A i \in DOMAIN g :
        (q.op \notin Bulk /\ g[i].key = q.key) \/ \E j \in DOMAIN h : h[j].key = g[i].key

(* The other calls do not notice.                                          *)
LEMMA OthersKeep ==
    ASSUME NEW s, NEW r, NEW r2, NEW h, NEW h2 \in Seq(CacheEntry), NEW q \in CallType, NEW d \in CallType,
           Asked(q), Asked(d), \A x \in Key : ~(Touches(q, x) /\ Touches(d, x)),
           Local(q, r, r2), Narrow(q, h, h2), Shape(s, r, d), Cleared(s, h, d)
    PROVE  Shape(s, r2, d) /\ Cleared(s, h2, d)
<1>1. Touches(d, d.key) /\ d.key \in Key /\ ~Touches(q, d.key) /\ Touches(q, q.key) /\ q.key \in Key
  BY DEF Asked, Touches
<1>2. r2[d.key] = r[d.key] /\ q.key # d.key
  BY <1>1 DEF Local
<1>3. Outcome(s, r, d) => Outcome(s, r2, d)
  BY <1>2 DEF Outcome, RefusedBy, Served
<1>4. Shape(s, r2, d)
  BY <1>3 DEF Shape
<1>5. Cleared(s, h2, d)
  BY <1>2 DEF Cleared, Narrow
<1> QED
  BY <1>4, <1>5

LEMMA OneCaller ==
    ASSUME IInv, NEW c \in Caller, call[c] # Idle, NEW m \in CallType, Same(m, call[c]),
           call' = [call EXCEPT ![c] = m], stack' = stack, record' \in Records,
           cache' \in Seq(CacheEntry), health' = health,
           Local(call[c], record, record'), Narrow(call[c], cache, cache'),
           Sound(stack, record', cache'), Shape(stack, record', m), Cleared(stack, cache', m)
    PROVE  IInv' /\ Promises(call)' = [Promises(call) EXCEPT ![c] = Promised(m)]
<1>1. /\ call' \in [Caller -> CallType] /\ call'[c] = m
      /\ \A d \in Caller \ {c} : call'[d] = call[d]
  BY DEF IInv
<1>2. \A x : Touches(m, x) <=> Touches(call[c], x)
  BY DEF Touches, Same
<1>3. \A d \in Caller : \A x : Touches(call'[d], x) <=> Touches(call[d], x)
  BY <1>1, <1>2
<1>4. Apart(call')
  BY <1>3 DEF IInv, Apart
<1>5. ASSUME NEW d \in Caller
      PROVE  call'[d] = Idle
             \/ (Shape(stack', record', call'[d]) /\ Cleared(stack', cache', call'[d]))
  <2>1. CASE d = c
    BY <2>1, <1>1
  <2>2. CASE d # c /\ call[d] = Idle
    BY <2>2, <1>1
  <2>3. CASE d # c /\ call[d] # Idle
    <3>1. /\ call[c] \in CallType /\ Asked(call[c]) /\ call[d] \in CallType /\ Asked(call[d])
          /\ Shape(stack, record, call[d]) /\ Cleared(stack, cache, call[d])
      BY <2>3, Working
    <3>2. \A x \in Key : ~(Touches(call[c], x) /\ Touches(call[d], x))
      BY <2>3 DEF IInv, Apart
    <3>3. PICK q, k, s, r, r2, h, h2 :
             q = call[c] /\ k = call[d] /\ s = stack /\ r = record /\ r2 = record' /\ h = cache /\ h2 = cache'
      OBVIOUS
    <3>4. Shape(s, r2, k) /\ Cleared(s, h2, k)
      BY <3>1, <3>2, <3>3, OthersKeep
    <3> QED
      BY <2>3, <1>1, <3>3, <3>4
  <2> QED
    BY <2>1, <2>2, <2>3
<1>6. IInv'
  BY <1>1, <1>4, <1>5 DEF IInv
<1>7. Promises(call)' = [Promises(call) EXCEPT ![c] = Promised(m)]
  BY <1>1 DEF Promises
<1> QED
  BY <1>6, <1>7

\* The contract's calls before and after a step.
LEMMA PromisesAre ==
    /\ Promises(call) = [d \in Caller |-> Promised(call[d])]
    /\ Promises(call)' = [d \in Caller |-> Promised(call'[d])]
  BY DEF Promises, Promised, Done, Failed

(* The step leaves the contract where it was.                              *)
LEMMA Silent ==
    ASSUME record' = record, Promises(call)' = Promises(call)
    PROVE  Contract!Next
  BY PromisesAre DEF Contract!Next

LEMMA SilentStep ==
    ASSUME NEW c \in Caller, NEW m, Same(m, call[c]), Done(m) <=> Done(call[c]),
           Done(call[c]) => m.res = call[c].res, record' = record,
           Promises(call)' = [Promises(call) EXCEPT ![c] = Promised(m)]
    PROVE  Contract!Next
<1>1. Promised(m) = Promised(call[c])
  BY SilentPromise
<1>2. Promises(call)' = Promises(call)
  BY <1>1 DEF Promises
<1> QED
  BY <1>2, Silent

(* The step answers the call.                                              *)
Effect(q, r, r2, a) ==
    ~Contract!Refused(q, r) /\ r2 \in Contract!Effects(q, r) /\ a = Contract!Reply(q, r)
Conflicts(q, r, r2, a) ==
    Contract!Refused(q, r) /\ r2 = r /\ a = Contract!Says("conflict", Contract!Absent)
Fails(r, r2, a) == r2 = r /\ a = Contract!Says("error", Contract!Absent)
Skips(q, r, r2, a, up) == r2 = r /\ ~up /\ a = Contract!Reply(q, Contract!Absent)

LEMMA AnswerStep ==
    ASSUME NEW c \in Caller, NEW m, Same(m, call[c]), call[c].op # "none", ~Done(call[c]), Done(m),
           Promises(call)' = [Promises(call) EXCEPT ![c] = Promised(m)],
           NEW p, p = Promised(call[c]),
           \/ Effect(p, record, record', m.res)
           \/ Conflicts(p, record, record', m.res)
           \/ Fails(record, record', m.res)
           \/ Skips(p, record, record', m.res, ~(circuit.state = "open" \/ health.suspended))
    PROVE  Contract!Next
<1>1. p.op # "none" /\ ~p.done
  BY PromiseFields
<1>2. [d \in Caller |-> Promised(call[d])][c] = p
  OBVIOUS
<1>3. Contract!Pending(c)
  BY <1>1, <1>2 DEF Contract!Pending
<1>4. Promised(m) = Told(p, m.res)
  BY ToldPromise
<1>5. Contract!Answer(c, m.res)
  BY <1>2, <1>4, PromisesAre DEF Contract!Answer, Told
<1>6. CASE Effect(p, record, record', m.res)
  <2>1. Contract!TakeEffect(c)
    BY <1>2, <1>3, <1>5, <1>6 DEF Contract!TakeEffect, Effect
  <2> QED
    BY <2>1 DEF Contract!Next
<1>7. CASE Conflicts(p, record, record', m.res)
  <2>1. Contract!Conflict(c)
    BY <1>2, <1>3, <1>5, <1>7 DEF Contract!Conflict, Conflicts
  <2> QED
    BY <2>1 DEF Contract!Next
<1>8. CASE Fails(record, record', m.res)
  <2>1. Contract!Fail(c)
    BY <1>3, <1>5, <1>8 DEF Contract!Fail, Fails
  <2> QED
    BY <2>1 DEF Contract!Next
<1>9. CASE Skips(p, record, record', m.res, ~(circuit.state = "open" \/ health.suspended))
  <2>1. Contract!Skip(c)
    BY <1>2, <1>3, <1>5, <1>9 DEF Contract!Skip, Skips
  <2> QED
    BY <2>1 DEF Contract!Next
<1> QED
  BY <1>6, <1>7, <1>8, <1>9

-----------------------------------------------------------------------------
(***************************************************************************)
(* Down and up the stack.                                                 *)
(***************************************************************************)
Lower(q)    == [q EXCEPT !.at = @ + 1, !.dir = "down"]
Raise(q, a) == [q EXCEPT !.at = @ - 1, !.dir = "up", !.res = a]
Again(q)    == [q EXCEPT !.at = @ + 1, !.dir = "down", !.res = Nothing, !.tries = @ + 1]

\* The fields of a call, one after the other.
WithAt(q, n)  == [q EXCEPT !.at = n]
WithDir(q, d) == [q EXCEPT !.dir = d]
With(q, a)    == [q EXCEPT !.res = a]
Tried(q)      == [q EXCEPT !.tries = @ + 1]

LEMMA WithAtIs ==
    ASSUME NEW q \in CallType, NEW n \in Nat
    PROVE  /\ WithAt(q, n) \in CallType /\ Same(WithAt(q, n), q)
           /\ WithAt(q, n).at = n /\ WithAt(q, n).dir = q.dir
BY DEF WithAt, CallType, Same

LEMMA WithDirIs ==
    ASSUME NEW q \in CallType, NEW d \in {"down", "up"}
    PROVE  /\ WithDir(q, d) \in CallType /\ Same(WithDir(q, d), q)
           /\ WithDir(q, d).at = q.at /\ WithDir(q, d).dir = d
BY DEF WithDir, CallType, Same

LEMMA WithIs ==
    ASSUME NEW q \in CallType, NEW a \in Answer
    PROVE  /\ With(q, a) \in CallType /\ Same(With(q, a), q)
           /\ With(q, a).at = q.at /\ With(q, a).dir = q.dir /\ With(q, a).res = a
BY DEF With, CallType, Same

LEMMA TriedIs ==
    ASSUME NEW q \in CallType
    PROVE  /\ Tried(q) \in CallType /\ Same(Tried(q), q)
           /\ Tried(q).at = q.at /\ Tried(q).dir = q.dir
BY DEF Tried, CallType, Same

LEMMA LowerIs ==
    ASSUME NEW q \in CallType
    PROVE  /\ Lower(q) \in CallType /\ Same(Lower(q), q)
           /\ Lower(q).at = q.at + 1 /\ Lower(q).dir = "down"
<1>1. q.at + 1 \in Nat
  BY DEF CallType
<1>2. Lower(q) = WithDir(WithAt(q, q.at + 1), "down")
  BY DEF Lower, WithAt, WithDir
<1>3. PICK m \in CallType : m = WithAt(q, q.at + 1) /\ Same(m, q) /\ m.at = q.at + 1
  BY <1>1, WithAtIs
<1>4. Lower(q) \in CallType /\ Same(Lower(q), m) /\ Lower(q).at = m.at /\ Lower(q).dir = "down"
  BY <1>2, <1>3, WithDirIs
<1> QED
  BY <1>3, <1>4 DEF Same

LEMMA RaiseIs ==
    ASSUME NEW q \in CallType, q.at # 0, NEW a \in Answer
    PROVE  /\ Raise(q, a) \in CallType /\ Same(Raise(q, a), q)
           /\ Raise(q, a).at = q.at - 1 /\ Raise(q, a).dir = "up" /\ Raise(q, a).res = a
<1>1. q.at - 1 \in Nat
  BY DEF CallType
<1>2. Raise(q, a) = With(WithDir(WithAt(q, q.at - 1), "up"), a)
  BY DEF Raise, WithAt, WithDir, With
<1>3. PICK m \in CallType : m = WithAt(q, q.at - 1) /\ Same(m, q) /\ m.at = q.at - 1
  BY <1>1, WithAtIs
<1>4. PICK n \in CallType : n = WithDir(m, "up") /\ Same(n, m) /\ n.at = m.at /\ n.dir = "up"
  BY WithDirIs
<1>5. Raise(q, a) = With(n, a)
  BY <1>2, <1>3, <1>4
<1>6. /\ With(n, a) \in CallType /\ Same(With(n, a), n) /\ With(n, a).at = n.at
      /\ With(n, a).dir = n.dir /\ With(n, a).res = a
  BY WithIs
<1> QED
  BY <1>3, <1>4, <1>5, <1>6 DEF Same

LEMMA AgainIs ==
    ASSUME NEW q \in CallType
    PROVE  /\ Again(q) \in CallType /\ Same(Again(q), q)
           /\ Again(q).at = q.at + 1 /\ Again(q).dir = "down"
<1>1. Nothing \in Answer
  BY DEF Nothing, Says, Absent, Answer
<1>2. Again(q) = Tried(With(Lower(q), Nothing))
  BY DEF Again, Lower, With, Tried
<1>3. PICK m \in CallType : m = Lower(q) /\ Same(m, q) /\ m.at = q.at + 1 /\ m.dir = "down"
  BY LowerIs
<1>4. PICK n \in CallType : n = With(m, Nothing) /\ Same(n, m) /\ n.at = m.at /\ n.dir = m.dir
  BY <1>1, WithIs
<1>5. /\ Again(q) \in CallType /\ Same(Again(q), n) /\ Again(q).at = n.at /\ Again(q).dir = n.dir
  BY <1>2, <1>3, <1>4, TriedIs
<1> QED
  BY <1>3, <1>4, <1>5 DEF Same

LEMMA DownIs == ASSUME NEW c \in Caller, IInv, Down(c) PROVE call' = [call EXCEPT ![c] = Lower(call[c])]
<1>1. call[c] \in CallType /\ call \in [Caller -> CallType]
  BY DEF IInv
<1> PICK k : k = call[c]
  OBVIOUS
<1>2. PICK k1 : k1 = [k EXCEPT !.at = @ + 1]
  OBVIOUS
<1>3. PICK f1 : f1 = [call EXCEPT ![c].at = @ + 1]
  OBVIOUS
<1>4. f1 = [call EXCEPT ![c] = k1]
  BY <1>1, <1>2, <1>3
<1>5. call' = [f1 EXCEPT ![c].dir = "down"]
  BY <1>3 DEF Down
<1>6. call' = [f1 EXCEPT ![c] = [k1 EXCEPT !.dir = "down"]]
  BY <1>1, <1>4, <1>5
<1>7. Lower(k) = [k1 EXCEPT !.dir = "down"]
  BY <1>2 DEF Lower
<1> QED
  BY <1>1, <1>4, <1>6, <1>7

LEMMA UpIs ==
    ASSUME NEW c \in Caller, NEW a, IInv, Up(c, a)
    PROVE  call' = [call EXCEPT ![c] = Raise(call[c], a)]
<1>1. call[c] \in CallType /\ call \in [Caller -> CallType]
  BY DEF IInv
<1> PICK k : k = call[c]
  OBVIOUS
<1>2. PICK k1 : k1 = [k EXCEPT !.at = @ - 1]
  OBVIOUS
<1>3. PICK k2 : k2 = [k1 EXCEPT !.dir = "up"]
  OBVIOUS
<1>4. PICK f1 : f1 = [call EXCEPT ![c].at = @ - 1]
  OBVIOUS
<1>5. PICK f2 : f2 = [f1 EXCEPT ![c].dir = "up"]
  OBVIOUS
<1>6. f1 = [call EXCEPT ![c] = k1]
  BY <1>1, <1>2, <1>4
<1>7. f2 = [call EXCEPT ![c] = k2]
  BY <1>1, <1>3, <1>5, <1>6
<1>8. call' = [f2 EXCEPT ![c].res = a]
  BY <1>4, <1>5 DEF Up
<1>9. call' = [call EXCEPT ![c] = [k2 EXCEPT !.res = a]]
  BY <1>1, <1>7, <1>8
<1>10. Raise(k, a) = [k2 EXCEPT !.res = a]
  BY <1>2, <1>3 DEF Raise
<1> QED
  BY <1>9, <1>10

LEMMA AtIs ==
    ASSUME NEW c \in Caller, NEW l, NEW d, IInv, At(c, l, d)
    PROVE  /\ call[c] # Idle /\ call[c].at \in 1..Len(stack) /\ stack[call[c].at] = l /\ call[c].dir = d
           /\ Len(stack) \in Nat /\ call[c].at \in Nat /\ call[c].at # 0 /\ stack \in Seq(Layers)
           /\ \A i, j \in 1..Len(stack) : stack[i] = stack[j] => i = j
<1>1. stack \in Seq(Layers) /\ IsInjective(stack)
  BY MiddlewareAssumption DEF IInv
<1>2. Len(stack) \in Nat /\ DOMAIN stack = 1..Len(stack)
  BY <1>1, LenProperties
<1>3. \A i, j \in 1..Len(stack) : stack[i] = stack[j] => i = j
  BY <1>1, <1>2 DEF IsInjective
<1>4. call[c].at \in 1..Len(stack) /\ stack[call[c].at] = l /\ call[c].dir = d
  BY DEF At
<1>5. call[c].at \in Nat /\ call[c].at # 0
  BY <1>2, <1>4
<1>6. Idle.at = 0
  BY DEF Idle
<1> QED
  BY <1>1, <1>2, <1>3, <1>4, <1>5, <1>6

(* A step down, or a further attempt, in a layer that is not the cache.    *)
LEMMA LowerBelow ==
    ASSUME NEW s, NEW q, NEW m, q.at \in 1..Len(s), Len(s) \in Nat, s[q.at] # "cache",
           m.at = q.at + 1, m.dir = "down", Below(s, m)
    PROVE  Below(s, q)
<1> PICK p \in 1..Len(s) : s[p] = "cache" /\ m.at > p
  BY DEF Below
<1>1. q.at > p
  OBVIOUS
<1> QED
  BY <1>1 DEF Below

(* A step up.                                                              *)
LEMMA RaiseBelow ==
    ASSUME NEW s, NEW q, NEW m, q.at \in Nat, Len(s) \in Nat, m.at = q.at - 1, m.dir = "up", Below(s, m)
    PROVE  Below(s, q)
<1> PICK p \in 1..Len(s) : s[p] = "cache" /\ m.at >= p
  BY DEF Below
<1>1. q.at > p
  OBVIOUS
<1> QED
  BY <1>1 DEF Below

(* A step that changes neither the records nor the cache.                  *)
LEMMA Moving ==
    ASSUME IInv, NEW c \in Caller, call[c] # Idle, NEW m \in CallType, Same(m, call[c]),
           call' = [call EXCEPT ![c] = m], UNCHANGED <<stack, record, cache, health>>,
           Shape(stack, record, m), Below(stack, m) => Below(stack, call[c])
    PROVE  IInv' /\ Promises(call)' = [Promises(call) EXCEPT ![c] = Promised(m)]
<1>1. Cleared(stack, cache, m)
  BY Working DEF Cleared, Same
<1>2. /\ record' \in Records /\ cache' \in Seq(CacheEntry) /\ Sound(stack, record', cache')
      /\ Local(call[c], record, record') /\ Narrow(call[c], cache, cache')
  BY DEF IInv, Local, Narrow
<1> QED
  BY <1>1, <1>2, OneCaller

LEMMA LowerKeeps ==
    ASSUME IInv, NEW c \in Caller, NEW l, At(c, l, "down"), l # "cache", Down(c),
           UNCHANGED <<stack, record, cache, health>>
    PROVE  IInv' /\ Contract!Next
<1> PICK q \in CallType : q = call[c]
  BY DEF IInv
<1> PICK m : m = Lower(q)
  OBVIOUS
<1>1. /\ call[c] # Idle /\ q.at \in 1..Len(stack) /\ stack[q.at] = l /\ q.dir = "down"
      /\ Len(stack) \in Nat /\ q.at \in Nat
  BY AtIs
<1>2. m \in CallType /\ Same(m, q) /\ m.at = q.at + 1 /\ m.dir = "down"
  BY LowerIs
<1>3. call' = [call EXCEPT ![c] = m]
  BY DownIs
<1>4. Asked(q)
  BY <1>1, Working
<1>5. Shape(stack, record, m)
  BY <1>1, <1>2, <1>4 DEF Shape, Asked, Same
<1>6. Below(stack, m) => Below(stack, q)
  BY <1>1, <1>2, LowerBelow
<1>7. IInv' /\ Promises(call)' = [Promises(call) EXCEPT ![c] = Promised(m)]
  BY <1>1, <1>2, <1>3, <1>5, <1>6, Moving
<1>8. ~Done(q) /\ ~Done(m)
  BY <1>1, <1>2 DEF Done
<1> QED
  BY <1>2, <1>7, <1>8, SilentStep

(* What the contract says of a call, in the words of the stack.            *)
LEMMA ContractFacts ==
    ASSUME NEW q, Asked(q), NEW p, p = Promised(q), NEW r \in Records
    PROVE  /\ Contract!Refused(p, r) <=> RefusedBy(r, q)
           /\ Contract!Reply(p, r) = Reply(q, r)
<1>1. p.op = q.op /\ p.keys = (IF q.op \in Bulk THEN Key ELSE {q.key}) /\ p.exp = q.exp
  BY PromiseFields DEF KeysOf, Asked
<1>2. Contract!Refused(p, r) <=> RefusedBy(r, q)
  BY <1>1 DEF Contract!Refused, RefusedBy, Bulk
<1>3. CASE q.op = "get"
  <2>1. Contract!Reply(p, r) = Says("ok", [k \in Key |-> IF k = q.key THEN r[k] ELSE None])
    BY <1>1, <1>3, ContractWords DEF Contract!Reply, Bulk
  <2>2. [k \in Key |-> IF k = q.key THEN r[k] ELSE None] = [Absent EXCEPT ![q.key] = r[q.key]]
    BY DEF Absent, Asked
  <2> QED
    BY <1>2, <1>3, <2>1, <2>2 DEF Reply
<1>4. CASE q.op = "loadAll"
  <2>1. Contract!Reply(p, r) = Says("ok", [k \in Key |-> r[k]])
    BY <1>1, <1>4, ContractWords DEF Contract!Reply, Bulk
  <2> QED
    BY <1>2, <1>4, <2>1 DEF Reply, Records
<1>5. CASE q.op \notin {"get", "loadAll"}
  <2>1. Contract!Reply(p, r) = Says("ok", Absent)
    BY <1>1, <1>5, ContractWords DEF Contract!Reply, Absent
  <2> QED
    BY <1>2, <1>5, <2>1 DEF Reply
<1> QED
  BY <1>3, <1>4, <1>5

(* A layer passes an outcome on: the contract sees a failure when it reaches the caller.  *)
LEMMA PassedOn ==
    ASSUME IInv, NEW c \in Caller, NEW q \in CallType, q = call[c], Asked(q), Outcome(stack, record, q),
           q.dir = "up", q.at # 0, NEW m, Same(m, q), m.at = q.at - 1, m.dir = "up", m.res = q.res,
           Promises(call)' = [Promises(call) EXCEPT ![c] = Promised(m)], record' = record
    PROVE  Contract!Next
<1>1. q.op # "none" /\ m.op # "none"
  BY DEF Asked, Same
<1>2. CASE ~Failed(q.res) \/ m.at # 0
  <2>1. (Done(m) <=> Done(q)) /\ (Done(q) => m.res = q.res)
    BY <1>1, <1>2 DEF Done
  <2> QED
    BY <2>1, SilentStep
<1>3. CASE Failed(q.res) /\ m.at = 0
  <2>1. ~Done(q) /\ Done(m)
    BY <1>1, <1>3 DEF Done
  <2>2. PICK p : p = Promised(q)
    OBVIOUS
  <2>3. record \in Records
    BY DEF IInv
  <2>4. CASE q.res.is = "conflict"
    <3>1. Contract!Refused(p, record) /\ m.res = Contract!Says("conflict", Contract!Absent)
      BY <1>3, <2>2, <2>3, <2>4, ContractFacts, ContractWords DEF Outcome
    <3>2. Conflicts(p, record, record', m.res)
      BY <3>1 DEF Conflicts
    <3> QED
      BY <1>1, <2>1, <2>2, <3>2, AnswerStep
  <2>5. CASE q.res.is = "error"
    <3>1. m.res = Contract!Says("error", Contract!Absent)
      BY <1>3, <2>5, ContractWords DEF Outcome
    <3>2. Fails(record, record', m.res)
      BY <3>1 DEF Fails
    <3> QED
      BY <1>1, <2>1, <2>2, <3>2, AnswerStep
  <2> QED
    BY <1>3, <2>4, <2>5 DEF Failed
<1> QED
  BY <1>2, <1>3

(* A layer passes an outcome on.                                           *)
LEMMA PassesOn ==
    ASSUME IInv, NEW c \in Caller, NEW l, At(c, l, "up"), Up(c, call[c].res),
           UNCHANGED <<stack, record, cache, health>>
    PROVE  IInv' /\ Contract!Next
<1> PICK q \in CallType : q = call[c]
  BY DEF IInv
<1> PICK m : m = Raise(q, q.res)
  OBVIOUS
<1>1. /\ call[c] # Idle /\ q.at \in 1..Len(stack) /\ stack[q.at] = l /\ q.dir = "up"
      /\ Len(stack) \in Nat /\ q.at \in Nat /\ q.at # 0
  BY AtIs
<1>2. q.res \in Answer
  BY DEF CallType
<1>3. m \in CallType /\ Same(m, q) /\ m.at = q.at - 1 /\ m.dir = "up" /\ m.res = q.res
  BY <1>1, <1>2, RaiseIs
<1>4. call' = [call EXCEPT ![c] = m]
  BY UpIs
<1>5. Asked(q) /\ Outcome(stack, record, q)
  BY <1>1, Working DEF Shape
<1>6. Below(stack, m) => Below(stack, q)
  BY <1>1, <1>3, RaiseBelow
<1>7. Outcome(stack, record, m)
  BY <1>1, <1>3, <1>5, <1>6 DEF Outcome, RefusedBy, Served, Same
<1>8. Shape(stack, record, m)
  BY <1>3, <1>5, <1>7 DEF Shape, Asked, Same
<1>9. IInv' /\ Promises(call)' = [Promises(call) EXCEPT ![c] = Promised(m)]
  BY <1>1, <1>3, <1>4, <1>6, <1>8, Moving
<1> QED
  BY <1>1, <1>3, <1>5, <1>9, PassedOn

(* A layer tries again.                                                    *)
LEMMA TriesAgain ==
    ASSUME IInv, NEW c \in Caller, At(c, "retry", "up"), Failed(call[c].res),
           call' = [call EXCEPT ![c].at = @ + 1, ![c].dir = "down", ![c].res = Nothing, ![c].tries = @ + 1],
           UNCHANGED <<stack, record, cache, health>>
    PROVE  IInv' /\ Contract!Next
<1> PICK q \in CallType : q = call[c]
  BY DEF IInv
<1> PICK m : m = Again(q)
  OBVIOUS
<1>1. /\ call[c] # Idle /\ q.at \in 1..Len(stack) /\ stack[q.at] = "retry" /\ q.dir = "up"
      /\ Len(stack) \in Nat /\ q.at \in Nat /\ q.at # 0
  BY AtIs
<1>2. m \in CallType /\ Same(m, q) /\ m.at = q.at + 1 /\ m.dir = "down"
  BY AgainIs
<1>3. call' = [call EXCEPT ![c] = m]
  <2>1. call[c] \in CallType /\ call \in [Caller -> CallType]
    BY DEF IInv
  <2>2. PICK n : n = Nothing
    OBVIOUS
  <2>3. PICK k1 : k1 = [q EXCEPT !.at = @ + 1]
    OBVIOUS
  <2>4. PICK k2 : k2 = [k1 EXCEPT !.dir = "down"]
    OBVIOUS
  <2>5. PICK k3 : k3 = [k2 EXCEPT !.res = n]
    OBVIOUS
  <2>6. PICK f1 : f1 = [call EXCEPT ![c].at = @ + 1]
    OBVIOUS
  <2>7. PICK f2 : f2 = [f1 EXCEPT ![c].dir = "down"]
    OBVIOUS
  <2>8. PICK f3 : f3 = [f2 EXCEPT ![c].res = n]
    OBVIOUS
  <2>9. f1 = [call EXCEPT ![c] = k1]
    BY <2>1, <2>3, <2>6
  <2>10. f2 = [call EXCEPT ![c] = k2]
    BY <2>1, <2>4, <2>7, <2>9
  <2>11. f3 = [call EXCEPT ![c] = k3]
    BY <2>1, <2>5, <2>8, <2>10
  <2>12. call' = [f3 EXCEPT ![c].tries = @ + 1]
    BY <2>2, <2>6, <2>7, <2>8
  <2>13. call' = [call EXCEPT ![c] = [k3 EXCEPT !.tries = @ + 1]]
    BY <2>1, <2>11, <2>12
  <2>14. m = [k3 EXCEPT !.tries = @ + 1]
    BY <2>2, <2>3, <2>4, <2>5 DEF Again
  <2> QED
    BY <2>13, <2>14
<1>4. Asked(q)
  BY <1>1, Working
<1>5. Shape(stack, record, m)
  BY <1>1, <1>2, <1>4 DEF Shape, Asked, Same
<1>6. Below(stack, m) => Below(stack, q)
  BY <1>1, <1>2, LowerBelow
<1>7. IInv' /\ Promises(call)' = [Promises(call) EXCEPT ![c] = Promised(m)]
  BY <1>1, <1>2, <1>3, <1>5, <1>6, Moving
<1>8. ~Done(q) /\ ~Done(m)
  BY <1>1, <1>2 DEF Done
<1> QED
  BY <1>2, <1>7, <1>8, SilentStep

(* A layer answers in place of the base store.                             *)
LEMMA Answering ==
    ASSUME IInv, NEW q \in CallType, Asked(q), NEW r \in Records
    PROVE  Reply(q, r) \in Answer /\ Reply(q, r).is = "ok" /\ ~Failed(Reply(q, r))
<1>1. PICK f : f = IF q.op = "get" THEN [Absent EXCEPT ![q.key] = r[q.key]]
                   ELSE IF q.op = "loadAll" THEN r ELSE Absent
  OBVIOUS
<1>2. f \in Records
  BY <1>1 DEF Records, Absent, Asked
<1>3. Reply(q, r) = Says("ok", f)
  BY <1>1 DEF Reply
<1> QED
  BY <1>2, <1>3 DEF Says, Answer, Failed, Records

LEMMA AbsentIs == Absent \in Records
  BY DEF Absent, Records

LEMMA FallsBack ==
    ASSUME CacheLast, IInv, NEW c \in Caller, NEW l \in {"breaker", "health"}, At(c, l, "down"),
           Up(c, Fallback(call[c])), UNCHANGED <<stack, record, cache, health>>,
           circuit.state = "open" \/ health.suspended
    PROVE  IInv' /\ Contract!Next
<1> PICK q \in CallType : q = call[c]
  BY DEF IInv
<1> PICK a : a = Fallback(q)
  OBVIOUS
<1> PICK m : m = Raise(q, a)
  OBVIOUS
<1>1. /\ call[c] # Idle /\ q.at \in 1..Len(stack) /\ stack[q.at] = l /\ q.dir = "down"
      /\ Len(stack) \in Nat /\ q.at \in Nat /\ q.at # 0
  BY AtIs
<1>2. Asked(q)
  BY <1>1, Working
<1>3. a \in Answer /\ a.is = "ok" /\ ~Failed(a) /\ a = Reply(q, Absent)
  BY <1>2, AbsentIs, Answering DEF Fallback
<1>4. m \in CallType /\ Same(m, q) /\ m.at = q.at - 1 /\ m.dir = "up" /\ m.res = a
  BY <1>1, <1>3, RaiseIs
<1>5. call' = [call EXCEPT ![c] = m]
  BY UpIs
<1>6. ~Below(stack, m)
  <2>1. stack \in Stacks
    BY DEF IInv
  <2>2. ASSUME NEW p \in 1..Len(stack), stack[p] = "cache" PROVE q.at < p
    BY <1>1, <2>1, <2>2 DEF CacheLast
  <2> QED
    BY <1>1, <1>4, <2>2 DEF Below
<1>7. Outcome(stack, record, m)
  BY <1>1, <1>3, <1>4, <1>6 DEF Outcome
<1>8. Shape(stack, record, m)
  BY <1>2, <1>4, <1>7 DEF Shape, Asked, Same
<1>9. IInv' /\ Promises(call)' = [Promises(call) EXCEPT ![c] = Promised(m)]
  BY <1>1, <1>4, <1>5, <1>6, <1>8, Moving
<1>10. q.op # "none" /\ ~Done(q) /\ Done(m)
  BY <1>1, <1>2, <1>3, <1>4 DEF Asked, Done, Same
<1>11. PICK p : p = Promised(q)
  OBVIOUS
<1>12. a = Contract!Reply(p, Contract!Absent)
  BY <1>2, <1>3, <1>11, AbsentIs, ContractFacts, ContractWords
<1>13. Skips(p, record, record', m.res, ~(circuit.state = "open" \/ health.suspended))
  BY <1>4, <1>12 DEF Skips
<1> QED
  BY <1>4, <1>9, <1>10, <1>11, <1>13, AnswerStep

-----------------------------------------------------------------------------
(***************************************************************************)
(* The base store.                                                        *)
(***************************************************************************)
LEMMA AtBase ==
    ASSUME IInv, NEW c \in Caller, call[c].at = Base, call[c].dir = "down"
    PROVE  /\ call[c] # Idle /\ Len(stack) \in Nat /\ call[c].at = Len(stack) + 1 /\ call[c].at # 0
           /\ (\E p \in 1..Len(stack) : stack[p] = "cache") => Below(stack, call[c])
<1>1. stack \in Seq(Layers) /\ Len(stack) \in Nat
  BY MiddlewareAssumption, LenProperties DEF IInv
<1>2. call[c].at = Len(stack) + 1
  BY DEF Base
<1>3. call[c] # Idle
  BY DEF Idle
<1> QED
  BY <1>1, <1>2, <1>3 DEF Below

(* What the base store makes of a call.                                    *)
LEMMA AfterIs ==
    ASSUME NEW q, Asked(q), NEW r \in Records, NEW p, p = Promised(q)
    PROVE  /\ After(q, r) \in Records /\ Local(q, r, After(q, r))
           /\ After(q, r) \in Contract!Effects(p, r)
           /\ q.op \in {"get", "loadAll"} => After(q, r) = r
           /\ q.op = "put" => After(q, r)[q.key] = q.val
<1>1. p.op = q.op /\ p.val = q.val /\ p.keys = (IF q.op \in Bulk THEN Key ELSE {q.key})
  BY PromiseFields DEF KeysOf, Asked
<1>2. CASE q.op = "put"
  <2>1. After(q, r) = [r EXCEPT ![q.key] = q.val]
    BY <1>2 DEF After
  <2>2. Contract!Written(p, r, q.val) = [r EXCEPT ![q.key] = q.val]
    BY <1>1, <1>2 DEF Contract!Written, Bulk, Records
  <2>3. After(q, r) \in Contract!Effects(p, r)
    BY <1>1, <1>2, <2>1, <2>2 DEF Contract!Effects
  <2>4. After(q, r) \in Records /\ Local(q, r, After(q, r)) /\ After(q, r)[q.key] = q.val
    BY <1>2, <2>1 DEF Records, Local, Touches, Asked
  <2> QED
    BY <1>2, <2>3, <2>4
<1>3. CASE q.op = "delete"
  <2>1. After(q, r) = [r EXCEPT ![q.key] = None]
    BY <1>3 DEF After
  <2>2. Contract!Written(p, r, None) = [r EXCEPT ![q.key] = None]
    BY <1>1, <1>3 DEF Contract!Written, Bulk, Records
  <2>3. After(q, r) \in Contract!Effects(p, r)
    BY <1>1, <1>3, <2>1, <2>2 DEF Contract!Effects
  <2>4. After(q, r) \in Records /\ Local(q, r, After(q, r))
    BY <1>3, <2>1 DEF Records, Local, Touches, Asked
  <2> QED
    BY <1>3, <2>3, <2>4
<1>4. CASE q.op = "saveAll"
  <2>1. After(q, r) = [k \in Key |-> q.val]
    BY <1>4 DEF After
  <2>2. Contract!Written(p, r, q.val) = [k \in Key |-> q.val]
    BY <1>1, <1>4 DEF Contract!Written, Bulk
  <2>3. After(q, r) \in Contract!Effects(p, r)
    BY <1>1, <1>4, <2>1, <2>2 DEF Contract!Effects
  <2>4. After(q, r) \in Records /\ Local(q, r, After(q, r))
    BY <1>4, <2>1 DEF Records, Local, Touches, Asked, Bulk
  <2> QED
    BY <1>4, <2>3, <2>4
<1>5. CASE q.op \in {"get", "loadAll"}
  <2>1. After(q, r) = r
    BY <1>5 DEF After
  <2>2. r \in Contract!Effects(p, r)
    BY <1>1, <1>5 DEF Contract!Effects
  <2> QED
    BY <1>5, <2>1, <2>2 DEF Local
<1> QED
  BY <1>2, <1>3, <1>4, <1>5 DEF Asked

LEMMA BaseRaises ==
    ASSUME IInv, NEW c \in Caller, call[c].at = Base, call[c].dir = "down", NEW a \in Answer, Up(c, a)
    PROVE  \E m \in CallType :
              /\ call' = [call EXCEPT ![c] = m] /\ Same(m, call[c])
              /\ m.at = Len(stack) /\ m.dir = "up" /\ m.res = a /\ Len(stack) \in Nat
              /\ Below(stack, m) => Below(stack, call[c])
<1> PICK q \in CallType : q = call[c]
  BY DEF IInv
<1> PICK m : m = Raise(q, a)
  OBVIOUS
<1>1. Len(stack) \in Nat /\ q.at = Len(stack) + 1 /\ q.at # 0 /\ q.at \in Nat
  BY AtBase
<1>2. m \in CallType /\ Same(m, q) /\ m.at = q.at - 1 /\ m.dir = "up" /\ m.res = a
  BY <1>1, RaiseIs
<1>3. call' = [call EXCEPT ![c] = m]
  BY UpIs
<1>4. Below(stack, m) => Below(stack, q)
  BY <1>1, <1>2, RaiseBelow
<1>5. m.at = Len(stack)
  BY <1>1, <1>2
<1> QED
  BY <1>1, <1>2, <1>3, <1>4, <1>5, Zenon

(* An error or a conflict leaves the records alone.                        *)
LEMMA BaseRefuses ==
    ASSUME IInv, NEW c \in Caller, call[c].at = Base, call[c].dir = "down",
           NEW how \in {"error", "conflict"}, Up(c, Says(how, Absent)),
           how = "conflict" => RefusedBy(record, call[c]),
           UNCHANGED <<stack, record, cache, health>>
    PROVE  IInv' /\ Contract!Next
<1> PICK q \in CallType : q = call[c]
  BY DEF IInv
<1> PICK a : a = Says(how, Absent)
  OBVIOUS
<1>1. a \in Answer /\ a.is = how /\ Failed(a)
  BY AbsentIs DEF Says, Answer, Failed, Records
<1>2. PICK m \in CallType :
              /\ call' = [call EXCEPT ![c] = m] /\ Same(m, q)
              /\ m.at = Len(stack) /\ m.dir = "up" /\ m.res = a /\ Len(stack) \in Nat
              /\ Below(stack, m) => Below(stack, q)
  BY <1>1, BaseRaises
<1>3. call[c] # Idle
  BY AtBase
<1>4. Asked(q)
  BY <1>3, Working
<1>5. Outcome(stack, record, m)
  BY <1>1, <1>2 DEF Outcome, RefusedBy, Same
<1>6. Shape(stack, record, m)
  BY <1>2, <1>4, <1>5 DEF Shape, Asked, Same
<1>7. IInv' /\ Promises(call)' = [Promises(call) EXCEPT ![c] = Promised(m)]
  BY <1>2, <1>3, <1>6, Moving
<1>8. q.op # "none" /\ m.op # "none" /\ ~Done(q)
  BY <1>2, <1>4 DEF Asked, Same, Done
<1>9. CASE m.at # 0
  <2>1. ~Done(m)
    BY <1>1, <1>2, <1>9 DEF Done
  <2> QED
    BY <1>2, <1>7, <1>8, <2>1, SilentStep
<1>10. CASE m.at = 0
  <2>1. Done(m)
    BY <1>2, <1>8, <1>10 DEF Done
  <2>2. PICK p : p = Promised(q)
    OBVIOUS
  <2>3. record \in Records
    BY DEF IInv
  <2>4. CASE how = "conflict"
    <3>1. Contract!Refused(p, record) /\ m.res = Contract!Says("conflict", Contract!Absent)
      BY <1>2, <1>4, <2>2, <2>3, <2>4, ContractFacts, ContractWords
    <3>2. Conflicts(p, record, record', m.res)
      BY <3>1 DEF Conflicts
    <3> QED
      BY <1>2, <1>7, <1>8, <2>1, <2>2, <3>2, AnswerStep
  <2>5. CASE how = "error"
    <3>1. m.res = Contract!Says("error", Contract!Absent)
      BY <1>2, <2>5, ContractWords
    <3>2. Fails(record, record', m.res)
      BY <3>1 DEF Fails
    <3> QED
      BY <1>2, <1>7, <1>8, <2>1, <2>2, <3>2, AnswerStep
  <2> QED
    BY <2>4, <2>5
<1> QED
  BY <1>9, <1>10

(* No entry of the cache speaks of what a call changes.                    *)
LEMMA EntriesStand ==
    ASSUME CacheLast, IInv, NEW c \in Caller, call[c].at = Base, call[c].dir = "down",
           NEW r \in Records, r = After(call[c], record)
    PROVE  Sound(stack, r, cache)
<1> PICK q \in CallType : q = call[c]
  BY DEF IInv
<1>1. Asked(q) /\ Cleared(stack, cache, q) /\ record \in Records /\ stack \in Stacks
  BY AtBase, Working DEF IInv
<1>2. Local(q, record, r) /\ (q.op \in {"get", "loadAll"} => r = record)
  BY <1>1, AfterIs
<1>3. Sound(stack, record, cache)
  BY DEF IInv
<1>4. CASE \A p \in 1..Len(stack) : stack[p] # "cache"
  <2>1. cache = <<>>
    BY <1>3, <1>4 DEF Sound
  <2> QED
    BY <2>1, <1>3 DEF Sound, Current
<1>5. CASE \E p \in 1..Len(stack) : stack[p] = "cache"
  <2>1. Below(stack, q)
    BY <1>5, AtBase
  <2>2. q.op # "saveAll"
    BY <1>1, <1>5 DEF CacheLast, Asked, Bulk
  <2>3. CASE q.op \in {"get", "loadAll"}
    BY <1>2, <1>3, <2>3
  <2>4. CASE q.op \in {"put", "delete"}
    <3>1. \A i \in DOMAIN cache : cache[i].key # q.key
      BY <1>1, <2>1, <2>4 DEF Cleared
    <3>2. \A i \in DOMAIN cache : cache[i].key \in Key
      <4>1. cache \in Seq(CacheEntry)
        BY DEF IInv
      <4>2. \A i \in 1..Len(cache) : cache[i] \in CacheEntry
        BY <4>1, ElementOfSeq
      <4> QED
        BY <4>1, <4>2, LenProperties DEF CacheEntry
    <3>3. \A i \in DOMAIN cache : r[cache[i].key] = record[cache[i].key]
      BY <1>2, <2>4, <3>1, <3>2 DEF Local, Touches, Bulk
    <3> QED
      BY <1>3, <3>3 DEF Sound, Current
  <2> QED
    BY <1>1, <2>2, <2>3, <2>4 DEF Asked
<1> QED
  BY <1>4, <1>5

LEMMA BaseCarriesOut ==
    ASSUME CacheLast, IInv, NEW c \in Caller, call[c].at = Base, call[c].dir = "down",
           ~RefusedBy(record, call[c]), Up(c, Reply(call[c], record)),
           record' = After(call[c], record), UNCHANGED <<stack, cache, health>>
    PROVE  IInv' /\ Contract!Next
<1> PICK q \in CallType : q = call[c]
  BY DEF IInv
<1> PICK a : a = Reply(q, record)
  OBVIOUS
<1> PICK r2 : r2 = After(q, record)
  OBVIOUS
<1>1. call[c] # Idle
  BY AtBase
<1>2. Asked(q) /\ Cleared(stack, cache, q) /\ record \in Records
  BY <1>1, Working DEF IInv
<1>3. a \in Answer /\ a.is = "ok" /\ ~Failed(a)
  BY <1>2, Answering
<1>4. PICK m \in CallType :
              /\ call' = [call EXCEPT ![c] = m] /\ Same(m, q)
              /\ m.at = Len(stack) /\ m.dir = "up" /\ m.res = a /\ Len(stack) \in Nat
              /\ Below(stack, m) => Below(stack, q)
  BY <1>3, BaseRaises
<1> PICK p : p = Promised(q)
  OBVIOUS
<1>5. /\ r2 \in Records /\ Local(q, record, r2) /\ r2 \in Contract!Effects(p, record)
      /\ q.op \in {"get", "loadAll"} => r2 = record
      /\ q.op = "put" => r2[q.key] = q.val
  BY <1>2, AfterIs
<1>6. Sound(stack, r2, cache)
  BY <1>5, EntriesStand
<1>7. q.op = "get" => a.records[q.key] = r2[q.key]
  BY <1>2, <1>5 DEF Reply, Says, Absent, Asked
<1>8. Outcome(stack, r2, m)
  BY <1>3, <1>4, <1>5, <1>7 DEF Outcome, Served, Same
<1>9. Shape(stack, r2, m)
  BY <1>2, <1>4, <1>8 DEF Shape, Asked, Same
<1>10. Cleared(stack, cache, m)
  BY <1>2, <1>4 DEF Cleared, Same
<1>11. cache \in Seq(CacheEntry) /\ Narrow(q, cache, cache)
  BY DEF IInv, Narrow
<1>12. IInv' /\ Promises(call)' = [Promises(call) EXCEPT ![c] = Promised(m)]
  BY <1>1, <1>4, <1>5, <1>6, <1>9, <1>10, <1>11, OneCaller
<1>13. q.op # "none" /\ ~Done(q) /\ Done(m)
  BY <1>2, <1>3, <1>4 DEF Asked, Same, Done
<1>14. ~Contract!Refused(p, record) /\ a = Contract!Reply(p, record)
  BY <1>2, ContractFacts
<1>15. Effect(p, record, record', m.res)
  BY <1>4, <1>5, <1>14 DEF Effect
<1> QED
  BY <1>4, <1>12, <1>13, <1>15, AnswerStep

LEMMA BaseAnswersKeeps ==
    ASSUME CacheLast, IInv, NEW c \in Caller, BaseAnswers(c)
    PROVE  IInv' /\ Contract!Next
<1>1. Refused(call[c]) <=> RefusedBy(record, call[c])
  BY DEF Refused, RefusedBy
<1>2. CASE Refused(call[c])
  <2>1. PICK how : how = "conflict"
    OBVIOUS
  <2>2. /\ call[c].at = Base /\ call[c].dir = "down" /\ Up(c, Says(how, Absent))
        /\ UNCHANGED <<stack, record, cache, health>>
    BY <1>2, <2>1 DEF BaseAnswers
  <2> QED
    BY <1>1, <1>2, <2>1, <2>2, BaseRefuses
<1>3. CASE ~Refused(call[c])
  BY <1>1, <1>3, BaseCarriesOut DEF BaseAnswers
<1> QED
  BY <1>2, <1>3

LEMMA BaseFailsKeeps ==
    ASSUME Careful, IInv, NEW c \in Caller, BaseFails(c)
    PROVE  IInv' /\ Contract!Next
<1>1. record' = record
  BY DEF BaseFails, Careful
<1>2. PICK how : how = "error"
  OBVIOUS
<1>3. /\ call[c].at = Base /\ call[c].dir = "down" /\ Up(c, Says(how, Absent))
      /\ UNCHANGED <<stack, record, cache, health>>
  BY <1>1, <1>2 DEF BaseFails
<1>4. how \in {"error", "conflict"} /\ (how = "conflict" => RefusedBy(record, call[c]))
  BY <1>2
<1> QED
  BY <1>3, <1>4, BaseRefuses

-----------------------------------------------------------------------------
(***************************************************************************)
(* The cache.                                                             *)
(***************************************************************************)
LEMMA CacheHitKeeps ==
    ASSUME IInv, NEW c \in Caller, At(c, "cache", "down"), call[c].op = "get", Live(call[c].key),
           cache' = Append(Without(call[c].key), Entry(call[c].key)),
           Up(c, Says("ok", [Absent EXCEPT ![call[c].key] = Entry(call[c].key).val])),
           UNCHANGED <<stack, record, health>>
    PROVE  IInv' /\ Contract!Next
<1> PICK q \in CallType : q = call[c]
  BY DEF IInv
<1> PICK e : e = Entry(q.key)
  OBVIOUS
<1>1. /\ call[c] # Idle /\ q.at \in 1..Len(stack) /\ stack[q.at] = "cache" /\ q.dir = "down"
      /\ Len(stack) \in Nat /\ q.at \in Nat /\ q.at # 0
      /\ \A i, j \in 1..Len(stack) : stack[i] = stack[j] => i = j
  BY AtIs
<1>2. Asked(q) /\ record \in Records /\ cache \in Seq(CacheEntry) /\ Sound(stack, record, cache)
  BY <1>1, Working DEF IInv
<1>3. PICK j \in DOMAIN cache : e = cache[j] /\ e.key = q.key
  BY PlaceIs DEF Live
<1>4. e \in CacheEntry
  <2>1. DOMAIN cache = 1..Len(cache)
    BY <1>2, LenProperties
  <2> QED
    BY <1>2, <1>3, <2>1, ElementOfSeq
<1>5. ~e.expired /\ e.val = record[q.key]
  BY <1>2, <1>3 DEF Live, Sound, Current
<1>6. PICK h : h = Without(q.key)
  OBVIOUS
<1>7. /\ h \in Seq(CacheEntry) /\ Sound(stack, record, h)
      /\ \A i \in DOMAIN h : h[i].key # q.key /\ \E n \in DOMAIN cache : cache[n] = h[i]
  BY <1>2, <1>6, WithoutIs
<1>8. /\ cache' \in Seq(CacheEntry) /\ Sound(stack, record, cache')
      /\ \A i \in DOMAIN cache' : cache'[i] = e \/ \E n \in DOMAIN h : h[n] = cache'[i]
  <2>1. cache' = Append(h, e)
    BY <1>6
  <2>2. e.expired \/ e.val = record[e.key]
    BY <1>3, <1>5
  <2>3. \A i \in DOMAIN h : h[i].key # e.key
    BY <1>3, <1>7
  <2> QED
    BY <1>1, <1>4, <1>7, <2>1, <2>2, <2>3, AppendIs
<1>9. Narrow(q, cache, cache')
  BY <1>3, <1>7, <1>8 DEF Narrow
<1> PICK a : a = Reply(q, record)
  OBVIOUS
<1>10. a \in Answer /\ a.is = "ok" /\ ~Failed(a)
  BY <1>2, Answering
<1>11. a = Says("ok", [Absent EXCEPT ![q.key] = e.val])
  BY <1>5 DEF Reply
<1> PICK m : m = Raise(q, a)
  OBVIOUS
<1>12. m \in CallType /\ Same(m, q) /\ m.at = q.at - 1 /\ m.dir = "up" /\ m.res = a
  BY <1>1, <1>10, RaiseIs
<1>13. call' = [call EXCEPT ![c] = m]
  BY <1>11, UpIs
<1>14. ~Below(stack, m)
  BY <1>1, <1>12 DEF Below
<1>15. Outcome(stack, record, m)
  BY <1>1, <1>10, <1>12, <1>14 DEF Outcome
<1>16. Shape(stack, record, m) /\ Cleared(stack, cache', m)
  BY <1>2, <1>12, <1>14, <1>15 DEF Shape, Asked, Same, Cleared
<1>17. record' \in Records /\ Sound(stack, record', cache') /\ Local(q, record, record')
  BY <1>2, <1>8 DEF Local
<1>18. IInv' /\ Promises(call)' = [Promises(call) EXCEPT ![c] = Promised(m)]
  BY <1>1, <1>8, <1>9, <1>12, <1>13, <1>16, <1>17, OneCaller
<1>19. q.op # "none" /\ ~Done(q) /\ Done(m)
  BY <1>1, <1>2, <1>10, <1>12 DEF Asked, Same, Done
<1> PICK p : p = Promised(q)
  OBVIOUS
<1>20. ~Contract!Refused(p, record) /\ a = Contract!Reply(p, record)
  BY <1>2, ContractFacts DEF RefusedBy
<1>21. record \in Contract!Effects(p, record)
  BY PromiseFields DEF Contract!Effects
<1>22. Effect(p, record, record', m.res)
  BY <1>12, <1>20, <1>21 DEF Effect
<1> QED
  BY <1>12, <1>18, <1>19, <1>22, AnswerStep

LEMMA CacheMissKeeps ==
    ASSUME IInv, NEW c \in Caller, At(c, "cache", "down"), Down(c),
           cache' = (IF call[c].op \in {"get", "put", "delete"} THEN Without(call[c].key) ELSE cache),
           UNCHANGED <<stack, record, health>>
    PROVE  IInv' /\ Contract!Next
<1> PICK q \in CallType : q = call[c]
  BY DEF IInv
<1> PICK m : m = Lower(q)
  OBVIOUS
<1>1. /\ call[c] # Idle /\ q.at \in 1..Len(stack) /\ stack[q.at] = "cache" /\ q.dir = "down"
      /\ Len(stack) \in Nat /\ q.at \in Nat
  BY AtIs
<1>2. Asked(q) /\ record \in Records /\ cache \in Seq(CacheEntry) /\ Sound(stack, record, cache)
  BY <1>1, Working DEF IInv
<1>3. m \in CallType /\ Same(m, q) /\ m.at = q.at + 1 /\ m.dir = "down"
  BY LowerIs
<1>4. call' = [call EXCEPT ![c] = m]
  BY DownIs
<1>5. Shape(stack, record, m)
  BY <1>1, <1>2, <1>3 DEF Shape, Asked, Same
<1>6. PICK h : h = Without(q.key)
  OBVIOUS
<1>7. /\ h \in Seq(CacheEntry) /\ Sound(stack, record, h)
      /\ \A i \in DOMAIN h : h[i].key # q.key /\ \E n \in DOMAIN cache : cache[n] = h[i]
  BY <1>2, <1>6, WithoutIs
<1>8. cache' = IF q.op \in {"get", "put", "delete"} THEN h ELSE cache
  BY <1>6
<1>9. /\ cache' \in Seq(CacheEntry) /\ Sound(stack, record, cache')
      /\ Narrow(q, cache, cache') /\ Cleared(stack, cache', m)
  <2>1. CASE q.op \in {"get", "put", "delete"}
    BY <1>3, <1>7, <1>8, <2>1 DEF Narrow, Cleared, Same
  <2>2. CASE q.op \notin {"get", "put", "delete"}
    BY <1>2, <1>3, <1>8, <2>2 DEF Narrow, Cleared, Same
  <2> QED
    BY <2>1, <2>2
<1>10. record' \in Records /\ Sound(stack, record', cache') /\ Local(q, record, record')
  BY <1>2, <1>9 DEF Local
<1>11. IInv' /\ Promises(call)' = [Promises(call) EXCEPT ![c] = Promised(m)]
  BY <1>1, <1>3, <1>4, <1>5, <1>9, <1>10, OneCaller
<1>12. ~Done(q) /\ ~Done(m)
  BY <1>1, <1>3 DEF Done
<1> QED
  BY <1>3, <1>11, <1>12, SilentStep

LEMMA CacheDownKeeps ==
    ASSUME IInv, NEW c \in Caller, CacheDown(c)
    PROVE  IInv' /\ Contract!Next
<1>1. CASE call[c].op = "get" /\ Live(call[c].key)
  BY <1>1, CacheHitKeeps DEF CacheDown
<1>2. CASE ~(call[c].op = "get" /\ Live(call[c].key))
  BY <1>2, CacheMissKeeps DEF CacheDown
<1> QED
  BY <1>1, <1>2

(* An outcome that comes up to the cache, and what the cache makes of it.  *)
LEMMA CacheStores ==
    ASSUME IInv, NEW q \in CallType, Asked(q), Outcome(stack, record, q), Below(stack, q), q.dir = "up",
           NEW h, h = (IF Failed(q.res) THEN cache
                       ELSE IF q.op = "get" THEN Stored(q.key, q.res.records[q.key])
                       ELSE IF q.op = "put" THEN Stored(q.key, q.val) ELSE cache)
    PROVE  h \in Seq(CacheEntry) /\ Sound(stack, record, h) /\ Narrow(q, cache, h)
<1>1. record \in Records /\ cache \in Seq(CacheEntry) /\ Sound(stack, record, cache)
  BY DEF IInv
<1>2. \E p \in 1..Len(stack) : stack[p] = "cache"
  BY DEF Below
<1>3. CASE h = cache
  BY <1>1, <1>3 DEF Narrow
<1>4. CASE h # cache
  <2>1. ~Failed(q.res) /\ q.op \in {"get", "put"}
    BY <1>4
  <2>2. Served(record, q)
    BY <2>1 DEF Outcome, Failed
  <2>3. PICK v : v = record[q.key]
    OBVIOUS
  <2>4. v \in Value \cup {None} /\ q.key \in Key
    BY <1>1, <2>3 DEF Records, Asked
  <2>5. h = Stored(q.key, v)
    BY <2>1, <2>2, <2>3 DEF Served
  <2>6. /\ h \in Seq(CacheEntry) /\ Sound(stack, record, h)
        /\ \A i \in DOMAIN h : h[i].key = q.key \/ \E j \in DOMAIN cache : cache[j] = h[i]
    BY <1>1, <1>2, <2>3, <2>4, <2>5, StoredIs
  <2>7. q.op \notin Bulk
    BY <2>1 DEF Bulk
  <2> QED
    BY <2>6, <2>7 DEF Narrow
<1> QED
  BY <1>3, <1>4

LEMMA CacheUpKeeps ==
    ASSUME IInv, NEW c \in Caller, CacheUp(c)
    PROVE  IInv' /\ Contract!Next
<1> PICK q \in CallType : q = call[c]
  BY DEF IInv
<1> PICK m : m = Raise(q, q.res)
  OBVIOUS
<1>0. At(c, "cache", "up") /\ Up(c, q.res) /\ UNCHANGED <<stack, record, health>>
  BY DEF CacheUp
<1>1. /\ call[c] # Idle /\ q.at \in 1..Len(stack) /\ stack[q.at] = "cache" /\ q.dir = "up"
      /\ Len(stack) \in Nat /\ q.at \in Nat /\ q.at # 0
      /\ \A i, j \in 1..Len(stack) : stack[i] = stack[j] => i = j
  BY <1>0, AtIs
<1>2. Asked(q) /\ Outcome(stack, record, q) /\ record \in Records
  BY <1>1, Working DEF Shape, IInv
<1>3. Below(stack, q)
  BY <1>1 DEF Below
<1>4. PICK h : h = (IF Failed(q.res) THEN cache
                    ELSE IF q.op = "get" THEN Stored(q.key, q.res.records[q.key])
                    ELSE IF q.op = "put" THEN Stored(q.key, q.val) ELSE cache)
  OBVIOUS
<1>5. h \in Seq(CacheEntry) /\ Sound(stack, record, h) /\ Narrow(q, cache, h)
  BY <1>1, <1>2, <1>3, <1>4, CacheStores
<1>6. cache' = h
  BY <1>4 DEF CacheUp
<1>7. q.res \in Answer
  BY DEF CallType
<1>8. m \in CallType /\ Same(m, q) /\ m.at = q.at - 1 /\ m.dir = "up" /\ m.res = q.res
  BY <1>1, <1>7, RaiseIs
<1>9. call' = [call EXCEPT ![c] = m]
  BY <1>0, UpIs
<1>10. ~Below(stack, m)
  BY <1>1, <1>8 DEF Below
<1>11. Outcome(stack, record, m)
  BY <1>1, <1>2, <1>8, <1>10 DEF Outcome, RefusedBy, Same
<1>12. Shape(stack, record, m) /\ Cleared(stack, h, m)
  BY <1>2, <1>8, <1>10, <1>11 DEF Shape, Asked, Same, Cleared
<1>13. record' \in Records /\ Local(q, record, record') /\ record' = record
  BY <1>0, <1>2 DEF Local
<1>14. IInv' /\ Promises(call)' = [Promises(call) EXCEPT ![c] = Promised(m)]
  <2>1. /\ cache' \in Seq(CacheEntry) /\ Sound(stack, record', cache')
        /\ Narrow(q, cache, cache') /\ Cleared(stack, cache', m) /\ Shape(stack, record', m)
    BY <1>5, <1>6, <1>12, <1>13
  <2>2. stack' = stack /\ health' = health
    BY <1>0
  <2> QED
    BY <2>1, <2>2, <1>1, <1>8, <1>9, <1>13, OneCaller
<1> QED
  BY <1>1, <1>2, <1>8, <1>13, <1>14, PassedOn

-----------------------------------------------------------------------------
(***************************************************************************)
(* The caller, and the rest.                                              *)
(***************************************************************************)
Started(op, k, v, e) ==
    [op |-> op, key |-> k, val |-> v, exp |-> e,
     at |-> 1, dir |-> "down", res |-> Nothing, tries |-> 0]

LEMMA StartedIs ==
    ASSUME NEW op \in {"get", "put", "delete", "loadAll", "saveAll"}, NEW k \in Key, NEW v \in Value,
           NEW e \in Expected \cup {None}, op \in Bulk => op \in Allowed, e # None => op = "put"
    PROVE  LET m == Started(op, k, v, e) IN
           /\ m \in CallType /\ Asked(m) /\ m.op = op /\ m.key = k /\ m.at = 1 /\ m.dir = "down"
           /\ Promised(m) \in Contract!Operation
<1>1. PICK n \in Answer : n = Nothing
  BY AbsentIs DEF Nothing, Says, Answer, Records
<1>2. PICK m : m = Started(op, k, v, e)
  OBVIOUS
<1>3. /\ m \in CallType /\ m.op = op /\ m.key = k /\ m.val = v /\ m.exp = e
      /\ m.at = 1 /\ m.dir = "down"
  BY <1>1, <1>2 DEF Started, CallType
<1>4. Asked(m)
  BY <1>3 DEF Asked
<1>5. ~Done(m)
  BY <1>3 DEF Done
<1>6. PICK b : b = FALSE /\ Promised(m) = Promise(op, KeysOf(m), v, e, b, Nothing)
  BY <1>3, <1>5, PromiseOf
<1>7. PICK ks : ks = KeysOf(m)
  OBVIOUS
<1>8. ks \in SUBSET Key /\ (op \in Bulk => ks = Key) /\ (op \notin Bulk => ks = {k})
  BY <1>3, <1>7 DEF KeysOf
<1>9. Promise(op, ks, v, e, b, n) \in
         [op : {"get", "put", "delete", "loadAll", "saveAll"}, keys : SUBSET Key, val : Value,
          exp : (Value \cup Expected) \cup {None}, done : {FALSE}, res : {n}]
  BY <1>6, <1>8 DEF Promise
<1>10. Contract!Nothing = n
  BY <1>1, ContractWords
<1>11. PICK p : p = Promise(op, ks, v, e, b, n)
  OBVIOUS
<1>12. p.op = op /\ p.keys = ks
  BY <1>11 DEF Promise
<1>13. p \in Contract!Operation
  BY <1>8, <1>9, <1>10, <1>11, <1>12 DEF Contract!Operation, Bulk
<1> QED
  BY <1>1, <1>2, <1>3, <1>4, <1>6, <1>7, <1>11, <1>13

LEMMA InvokeKeeps ==
    ASSUME Careful, IInv, NEW c \in Caller, Invoke(c)
    PROVE  IInv' /\ Contract!Next
<1>1. PICK op \in {"get", "put", "delete", "loadAll", "saveAll"}, k \in Key, v \in Value,
           e \in Expected \cup {None} :
        /\ op \in Bulk => op \in Allowed
        /\ e # None => op = "put"
        /\ \A d \in Caller, x \in Key : ~(Touches(call[d], x) /\ Touches([op |-> op, key |-> k], x))
        /\ call' = [call EXCEPT ![c] = Started(op, k, v, e)]
  BY DEF Invoke, Careful, Started
<1> PICK m : m = Started(op, k, v, e)
  OBVIOUS
<1>2. /\ m \in CallType /\ Asked(m) /\ m.op = op /\ m.key = k /\ m.at = 1 /\ m.dir = "down"
      /\ Promised(m) \in Contract!Operation
  BY <1>1, StartedIs
<1>3. call[c] = Idle /\ UNCHANGED <<stack, record, cache, health>>
  BY DEF Invoke
<1>4. /\ call' = [call EXCEPT ![c] = m] /\ call' \in [Caller -> CallType] /\ call'[c] = m
      /\ \A d \in Caller \ {c} : call'[d] = call[d]
  BY <1>1, <1>2 DEF IInv
<1>5. \A x : Touches(m, x) <=> Touches([op |-> op, key |-> k], x)
  BY <1>2 DEF Touches
<1>6. \A d \in Caller, x \in Key : ~(Touches(call[d], x) /\ Touches(m, x))
  BY <1>1, <1>5
<1>7. Apart(call')
  <2> SUFFICES ASSUME NEW a \in Caller, NEW b \in Caller, NEW x \in Key, a # b
               PROVE  ~(Touches(call'[a], x) /\ Touches(call'[b], x))
    BY DEF Apart
  <2>1. CASE a = c
    BY <2>1, <1>4, <1>6
  <2>2. CASE b = c
    BY <2>2, <1>4, <1>6
  <2>3. CASE a # c /\ b # c
    BY <2>3, <1>4 DEF IInv, Apart
  <2> QED
    BY <2>1, <2>2, <2>3
<1>8. Shape(stack, record, m) /\ Cleared(stack, cache, m)
  <2>1. Len(stack) \in Nat
    BY MiddlewareAssumption, LenProperties DEF IInv
  <2>2. ~Below(stack, m)
    BY <1>2, <2>1 DEF Below
  <2> QED
    BY <1>2, <2>1, <2>2 DEF Shape, Cleared
<1>9. ASSUME NEW d \in Caller
      PROVE  call'[d] = Idle
             \/ (Shape(stack', record', call'[d]) /\ Cleared(stack', cache', call'[d]))
  <2>1. CASE d = c
    BY <2>1, <1>3, <1>4, <1>8
  <2>2. CASE d # c
    BY <2>2, <1>3, <1>4 DEF IInv
  <2> QED
    BY <2>1, <2>2
<1>10. IInv'
  BY <1>3, <1>4, <1>7, <1>9 DEF IInv
<1>11. Promises(call)' = [Promises(call) EXCEPT ![c] = Promised(m)]
  BY <1>4 DEF Promises
<1>12. /\ [d \in Caller |-> Promised(call[d])][c] = Contract!Idle
       /\ [d \in Caller |-> Promised(call'[d])][c] = Promised(m)
  BY <1>3, <1>4, IdlePromise
<1>13. Contract!Invoke(c)
  BY <1>2, <1>3, <1>11, <1>12, PromisesAre DEF Contract!Invoke
<1> QED
  BY <1>10, <1>13 DEF Contract!Next

LEMMA ReturnKeeps ==
    ASSUME IInv, NEW c \in Caller, Return(c)
    PROVE  IInv' /\ Contract!Next
<1>1. /\ call[c].op # "none" /\ call[c].at = 0 /\ call' = [call EXCEPT ![c] = Idle]
      /\ UNCHANGED <<stack, record, cache, health>>
  BY DEF Return
<1>2. call[c] # Idle
  BY <1>1 DEF Idle
<1>3. call[c].dir = "up"
  <2>1. call[c] \in CallType /\ Shape(stack, record, call[c])
    BY <1>2, Working
  <2>2. call[c].dir = "down" => call[c].at \in 1..(Len(stack) + 1)
    BY <2>1 DEF Shape
  <2>3. call[c].dir \in {"down", "up"}
    BY <2>1 DEF CallType
  <2> QED
    BY <1>1, <2>2, <2>3
<1>4. /\ call' \in [Caller -> CallType] /\ call'[c] = Idle
      /\ \A d \in Caller \ {c} : call'[d] = call[d]
  BY <1>1, IdleFacts DEF IInv
<1>5. \A d \in Caller : \A x \in Key : Touches(call'[d], x) => Touches(call[d], x)
  BY <1>4, IdleFacts
<1>6. Apart(call')
  BY <1>5 DEF IInv, Apart
<1>7. ASSUME NEW d \in Caller
      PROVE  call'[d] = Idle
             \/ (Shape(stack', record', call'[d]) /\ Cleared(stack', cache', call'[d]))
  BY <1>1, <1>4 DEF IInv
<1>8. IInv'
  BY <1>1, <1>4, <1>6, <1>7 DEF IInv
<1>9. Promises(call)' = [Promises(call) EXCEPT ![c] = Contract!Idle]
  BY <1>4, IdlePromise DEF Promises
<1>10. [d \in Caller |-> Promised(call[d])][c].done
  BY <1>1, <1>3, PromiseFields DEF Done
<1>11. Contract!Return(c)
  BY <1>1, <1>9, <1>10, PromisesAre DEF Contract!Return
<1> QED
  BY <1>8, <1>11 DEF Contract!Next

(* An entry expires.                                                       *)
LEMMA ExpireKeeps ==
    ASSUME IInv, Expire
    PROVE  IInv' /\ Contract!Next
<1>1. UNCHANGED <<stack, record, call, health>>
  BY DEF Expire
<1>2. PICK i \in DOMAIN cache : cache' = [cache EXCEPT ![i].expired = TRUE]
  BY DEF Expire
<1>3. /\ cache \in Seq(CacheEntry) /\ Len(cache) \in Nat /\ DOMAIN cache = 1..Len(cache)
      /\ Sound(stack, record, cache)
  BY LenProperties DEF IInv
<1>4. \A j \in DOMAIN cache : cache[j] \in CacheEntry
  BY <1>3, ElementOfSeq
<1>5. PICK e : e = [cache[i] EXCEPT !.expired = TRUE]
  OBVIOUS
<1>6. e \in CacheEntry /\ e.key = cache[i].key /\ e.expired
  BY <1>4, <1>5 DEF CacheEntry
<1>7. cache' = [cache EXCEPT ![i] = e]
  BY <1>2, <1>5
<1>8. cache' \in Seq(CacheEntry) /\ Len(cache') = Len(cache) /\ DOMAIN cache' = DOMAIN cache
  BY <1>3, <1>6, <1>7, ExceptSeq, LenProperties
<1>9. \A j \in DOMAIN cache : cache'[j].key = cache[j].key /\ (cache'[j].expired \/ cache'[j] = cache[j])
  BY <1>6, <1>7
<1>10. Sound(stack, record, cache')
  <2>1. Distinct(cache') /\ Current(record, cache')
    BY <1>3, <1>8, <1>9 DEF Sound, Distinct, Current
  <2>2. (\A p \in 1..Len(stack) : stack[p] # "cache") => cache' = <<>>
    BY <1>3 DEF Sound
  <2> QED
    BY <2>1, <2>2 DEF Sound
<1>11. ASSUME NEW c \in Caller
       PROVE  call'[c] = Idle
              \/ (Shape(stack', record', call'[c]) /\ Cleared(stack', cache', call'[c]))
  BY <1>1, <1>8, <1>9 DEF IInv, Cleared
<1>12. IInv'
  BY <1>1, <1>8, <1>10, <1>11 DEF IInv
<1>13. Promises(call)' = Promises(call)
  BY <1>1, PromisesAre
<1> QED
  BY <1>1, <1>12, <1>13, Silent

(* The circuit and the ping.                                               *)
LEMMA OthersMove ==
    ASSUME IInv, UNCHANGED <<stack, record, call, cache>>, health' \in HealthType
    PROVE  IInv' /\ Contract!Next
<1>1. IInv'
  BY DEF IInv
<1>2. Promises(call)' = Promises(call)
  BY PromisesAre
<1> QED
  BY <1>1, <1>2, Silent

LEMMA PingKeeps ==
    ASSUME IInv, PingSucceeds \/ PingFails
    PROVE  IInv' /\ Contract!Next
<1>1. UNCHANGED <<stack, record, call, cache>>
  BY DEF PingSucceeds, PingFails
<1>2. health' \in HealthType
  <2>1. health \in HealthType /\ ResumeAfter \in Nat /\ SuspendAfter \in Nat
    BY MiddlewareAssumption DEF IInv
  <2>2. Capped(health.good, ResumeAfter) \in Nat /\ Capped(health.bad, SuspendAfter) \in Nat
    BY <2>1 DEF HealthType, Capped
  <2>3. PICK g \in Nat, b \in Nat : g = Capped(health.good, ResumeAfter) /\ b = Capped(health.bad, SuspendAfter)
    BY <2>2
  <2>4. /\ [health EXCEPT !.bad = 0, !.good = g] \in HealthType
        /\ [health EXCEPT !.bad = b, !.good = 0] \in HealthType
        /\ [suspended |-> FALSE, bad |-> 0, good |-> 0] \in HealthType
        /\ [suspended |-> TRUE, bad |-> 0, good |-> 0] \in HealthType
    BY <2>1 DEF HealthType
  <2> QED
    BY <2>3, <2>4 DEF PingSucceeds, PingFails
<1> QED
  BY <1>1, <1>2, OthersMove

-----------------------------------------------------------------------------
LEMMA HandleKeeps ==
    ASSUME CacheLast, IInv, NEW c \in Caller, Handle(c)
    PROVE  IInv' /\ Contract!Next
<1>1. CASE BaseAnswers(c)
  BY <1>1, BaseAnswersKeeps
<1>2. CASE RetryDown(c)
  <2> PICK l : l = "retry"
    OBVIOUS
  <2>1. At(c, l, "down") /\ l # "cache" /\ Down(c) /\ UNCHANGED <<stack, record, cache, health>>
    BY <1>2 DEF RetryDown
  <2> QED
    BY <2>1, LowerKeeps
<1>3. CASE RetryUp(c)
  <2>1. CASE Failed(call[c].res) /\ call[c].tries < MaxRetries
    BY <1>3, <2>1, TriesAgain DEF RetryUp
  <2>2. CASE ~(Failed(call[c].res) /\ call[c].tries < MaxRetries)
    BY <1>3, <2>2, PassesOn DEF RetryUp
  <2> QED
    BY <2>1, <2>2
<1>4. CASE Logged(c) \/ Tracked(c)
  <2>1. PICK l \in {"logging", "metrics"} :
           (At(c, l, "down") /\ Down(c)) \/ (At(c, l, "up") /\ Up(c, call[c].res))
    BY <1>4 DEF Logged, Tracked
  <2>2. UNCHANGED <<stack, record, cache, health>> /\ l # "cache"
    BY <1>4 DEF Logged, Tracked
  <2> QED
    BY <2>1, <2>2, LowerKeeps, PassesOn
<1>5. CASE BreakerDown(c)
  <2> PICK l \in {"breaker", "health"} : l = "breaker"
    OBVIOUS
  <2>1. At(c, l, "down") /\ UNCHANGED <<stack, record, cache, health>> /\ l # "cache"
    BY <1>5 DEF BreakerDown
  <2>2. CASE circuit.state = "open" /\ circuit.cooling
    <3>1. Up(c, Fallback(call[c]))
      BY <1>5, <2>2 DEF BreakerDown
    <3> QED
      BY <2>1, <2>2, <3>1, FallsBack
  <2>3. CASE ~(circuit.state = "open" /\ circuit.cooling)
    <3>1. Down(c)
      BY <1>5, <2>3 DEF BreakerDown
    <3> QED
      BY <2>1, <3>1, LowerKeeps
  <2> QED
    BY <2>2, <2>3
<1>6. CASE BreakerUp(c)
  BY <1>6, PassesOn DEF BreakerUp
<1>7. CASE CacheDown(c)
  BY <1>7, CacheDownKeeps
<1>8. CASE CacheUp(c)
  BY <1>8, CacheUpKeeps
<1>9. CASE HealthDown(c)
  <2> PICK l \in {"breaker", "health"} : l = "health"
    OBVIOUS
  <2>1. At(c, l, "down") /\ UNCHANGED <<stack, record, cache, health>> /\ l # "cache"
    BY <1>9 DEF HealthDown
  <2>2. CASE health.suspended
    <3>1. Up(c, Fallback(call[c]))
      BY <1>9, <2>2 DEF HealthDown
    <3> QED
      BY <2>1, <2>2, <3>1, FallsBack
  <2>3. CASE ~health.suspended
    <3>1. Down(c)
      BY <1>9, <2>3 DEF HealthDown
    <3> QED
      BY <2>1, <3>1, LowerKeeps
  <2> QED
    BY <2>2, <2>3
<1>10. CASE HealthUp(c)
  BY <1>10, PassesOn DEF HealthUp
<1>11. CASE Return(c)
  BY <1>11, ReturnKeeps
<1> QED
  BY <1>1, <1>2, <1>3, <1>4, <1>5, <1>6, <1>7, <1>8, <1>9, <1>10, <1>11 DEF Handle

LEMMA NextKeeps ==
    ASSUME Careful, CacheLast, IInv, [Next]_vars
    PROVE  IInv' /\ [Contract!Next]_(Contract!vars)
<1>1. CASE \E c \in Caller : Invoke(c)
  BY <1>1, InvokeKeeps
<1>2. CASE \E c \in Caller : BaseFails(c)
  BY <1>2, BaseFailsKeeps
<1>3. CASE \E c \in Caller : Handle(c)
  BY <1>3, HandleKeeps
<1>4. CASE CoolDown \/ UNCHANGED vars
  <2>1. UNCHANGED <<stack, record, call, cache>> /\ health' = health
    BY <1>4 DEF CoolDown, vars
  <2>2. health' \in HealthType
    BY <2>1 DEF IInv
  <2> QED
    BY <2>1, <2>2, OthersMove
<1>5. CASE Expire
  BY <1>5, ExpireKeeps
<1>6. CASE PingSucceeds \/ PingFails
  BY <1>6, PingKeeps
<1> QED
  BY <1>1, <1>2, <1>3, <1>4, <1>5, <1>6 DEF Next

LEMMA InitKeeps ==
    ASSUME Init
    PROVE  IInv /\ Contract!Init
<1>1. record \in Records /\ record \in [Key -> Value \cup {None}]
  BY DEF Init, Records
<1>2. call \in [Caller -> CallType] /\ \A c \in Caller : call[c] = Idle
  BY IdleFacts DEF Init
<1>3. Apart(call)
  BY <1>2, IdleFacts DEF Apart
<1>4. cache = <<>> /\ cache \in Seq(CacheEntry) /\ DOMAIN cache = {}
  BY EmptySeq DEF Init
<1>5. Sound(stack, record, cache)
  BY <1>4 DEF Sound, Distinct, Current
<1>6. stack \in Stacks /\ health \in HealthType
  BY DEF Init, HealthType
<1>7. IInv
  BY <1>1, <1>2, <1>3, <1>4, <1>5, <1>6 DEF IInv
<1>8. [c \in Caller |-> Promised(call[c])] = [c \in Caller |-> Contract!Idle]
  BY <1>2, IdlePromise
<1>9. (~(circuit.state = "open" \/ health.suspended)) \in BOOLEAN
  OBVIOUS
<1> QED
  BY <1>1, <1>7, <1>8, <1>9 DEF Contract!Init

(* What the cache answers with is what the base store holds.               *)
LEMMA Coherent ==
    ASSUME IInv
    PROVE  CacheCoherent
<1> SUFFICES ASSUME NEW k \in Key, Live(k) PROVE Entry(k).val = record[k]
  BY DEF CacheCoherent
<1>1. PICK j \in DOMAIN cache : Entry(k) = cache[j] /\ cache[j].key = k
  BY PlaceIs DEF Live
<1> QED
  BY <1>1 DEF IInv, Sound, Current, Live

(* A store behind a stack of middleware keeps the contract of the store below it, and  *)
(* its cache is coherent (store-middleware.ts): as long as calls of one key follow one  *)
(* another, a call that fails has not been carried out, and nothing that may answer for *)
(* the base store, or write past the cache, lies below the cache.                      *)
THEOREM StackKeepsContract ==
    ASSUME Careful, CacheLast
    PROVE  Spec => ContractKept
<1>1. Init => IInv /\ Contract!Init
  BY InitKeeps
<1>2. IInv /\ [Next]_vars => IInv' /\ [Contract!Next]_(Contract!vars)
  BY NextKeeps
<1>3. IInv => CacheCoherent
  BY Coherent
<1> QED
  BY <1>1, <1>2, <1>3, PTL DEF Spec, ContractKept, KeepsContract, Contract!Spec
=============================================================================
