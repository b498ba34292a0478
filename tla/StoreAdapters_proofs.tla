------------------------ MODULE StoreAdapters_proofs ------------------------
(***************************************************************************)
(* Proof that the adapters implement the contract of a store: whatever the *)
(* keys, versions, callers and adapters are, as long as the operations an  *)
(* adapter carries out in several steps are not interrupted, and a listing *)
(* returns the whole collection.  Below, in this order: the blob sets, the *)
(* bundle store, the routing store and the scans.                          *)
(***************************************************************************)
EXTENDS MCStores, Integers, Sequences, FiniteSetTheorems, SequenceTheorems, TLAPS

Uninterrupted == "interrupted" \notin Allowed /\ "crash" \notin Allowed
OneListing    == \A a \in Adapters : a.name \in {"dynamo", "s3"} => Last <= Listed

(* The operators below take the adapter a, the records r and the calls k as *)
(* arguments, so that they say the same before and after a step.            *)
SeveralOf(a, q) ==
    \/ q.op = "put" /\ ((a.check = "before" /\ q.exp # None) \/ a.write = "torn")
    \/ q.op = "loadAll" /\ a.load # "atomic"
    \/ q.op = "saveAll" /\ a.save = "each"
WritingOf(a, q) ==
    q.op \in {"put", "saveAll"} /\ SeveralOf(a, q) /\ q.pc \in {"start", "write", "content", "save"}
SettledOf(a, r, k) ==
    LET writers == {c \in Caller : WritingOf(a, k[c])}
    IN  IF writers = {} THEN r ELSE k[CHOOSE c \in writers : TRUE].old
Promises(k) == [c \in Caller |-> Promised(k[c])]

Records  == [Key -> Value \cup {None}]
CallType ==
    [op : {"none", "get", "put", "delete", "loadAll", "saveAll"}, keys : SUBSET Key,
     val : Value \cup {None}, exp : Value \cup {None},
     pc : {"idle", "start", "write", "content", "load", "save", "done"},
     todo : SUBSET Key, seen : Records,
     res : [is : {"none", "ok", "conflict", "error"}, records : Records], old : Records]

TypeOK ==
    /\ adapter \in Adapters
    /\ record \in [Key -> Value \cup {None, Torn}]
    /\ call \in [Caller -> CallType]

(* What a caller may ask for. *)
Asked(q) ==
    /\ q.op \in {"get", "put", "delete", "loadAll", "saveAll"}
    /\ q.op \in {"get", "put", "delete"} => \E k \in Key : q.keys = {k}
    /\ q.op = "loadAll" => q.keys = Key
    /\ q.op \in {"put", "saveAll"} => q.val \in Value
    /\ q.op # "put" => q.exp = None

(* The version a put names is the one of the record it has found. *)
Accepted(q) == q.exp # None => \A k \in q.keys : q.old[k] \in {None, q.exp}

(* What is read, or written, is what is no longer to do. *)
Loaded(r, q) ==
    /\ \A k \in q.todo : r[k] # None
    /\ \A k \in Key \ q.todo : q.seen[k] = r[k]
Saved(r, q) ==
    /\ q.todo \subseteq q.keys
    /\ \A k \in Key \ q.keys : r[k] = q.old[k]
    /\ \A k \in q.keys \ q.todo : r[k] = q.val

(* How far a call has come. *)
Stage(a, r, q) ==
    \/ q.pc = "done"
    \/ q.pc = "start" /\ q.seen = Absent /\ (WritingOf(a, q) => q.old = r)
    \/ q.pc = "write" /\ q.op = "put" /\ a.check = "before" /\ q.exp # None
       /\ q.old = r /\ Accepted(q)
    \/ q.pc = "content" /\ q.op = "put" /\ a.write = "torn" /\ Accepted(q)
       /\ \A k \in Key \ q.keys : r[k] = q.old[k]
    \/ q.pc = "load" /\ q.op = "loadAll" /\ a.load # "atomic" /\ Loaded(r, q)
    \/ q.pc = "save" /\ q.op = "saveAll" /\ a.save = "each" /\ Saved(r, q)

Exclusive(a, k) ==
    \A c, d \in Caller : c # d /\ k[c] # Idle /\ k[d] # Idle => ~SeveralOf(a, k[c])

IInv ==
    /\ TypeOK
    /\ Exclusive(adapter, call)
    /\ \A c \in Caller : call[c] = Idle \/ (Asked(call[c]) /\ Stage(adapter, record, call[c]))
    /\ record \in Records \/ \E c \in Caller : call[c].pc = "content"

-----------------------------------------------------------------------------
(***************************************************************************)
(* The operators of the model.                                            *)
(***************************************************************************)
LEMMA FirstOne == \A k \in Key : First({k}) = k
<1> SUFFICES ASSUME NEW k \in Key PROVE First({k}) = k
  OBVIOUS
<1>1. k \in {k} /\ \A j \in {k} : k <= j
  BY DEF Key
<1> QED
  BY <1>1 DEF First

(* A set of ids has a first one: the shortest of the intervals 1..k. *)
LEMMA FirstIsMember ==
    ASSUME NEW S \in SUBSET Key, S # {}
    PROVE  First(S) \in S /\ \A j \in S : First(S) <= j
<1> DEFINE T == {1..k : k \in S}
           R == StrictSubsetOrdering(Key)
<1>1. IsWellFoundedOn(R, FiniteSubsetsOf(Key))
  BY FS_StrictSubsetOrderingWellFounded
<1>2. T \subseteq FiniteSubsetsOf(Key) /\ T # {}
  <2>1. ASSUME NEW k \in S PROVE IsFiniteSet(1..k) /\ 1..k \subseteq Key
    BY FS_Interval, AdapterAssumption DEF Key
  <2> QED
    BY <2>1 DEF FiniteSubsetsOf
<1>3. PICK x \in T : \A y \in T : ~(<<y, x>> \in R)
  <2> HIDE DEF T, R
  <2> QED
    BY <1>1, <1>2, WFMin
<1>4. PICK m \in S : x = 1..m
  OBVIOUS
<1>5. ASSUME NEW j \in S PROVE m <= j
  <2>1. m \in Nat /\ j \in Nat /\ m \in 1..m /\ 1..j \subseteq Key /\ 1..m \subseteq Key
    BY AdapterAssumption DEF Key
  <2>2. CASE j < m
    <3>1. 1..j \subseteq 1..m /\ 1..j # 1..m
      BY <2>1, <2>2
    <3>2. <<1..j, 1..m>> \in R
      BY <2>1, <3>1 DEF StrictSubsetOrdering
    <3> QED
      BY <3>2, <1>3, <1>4
  <2> QED
    BY <2>1, <2>2
<1> QED
  BY <1>5 DEF First

(* A listing that may return all records does. *)
LEMMA VisibleIsStored ==
    ASSUME OneListing, TypeOK
    PROVE  Visible = Stored
<1>1. CASE adapter.name \notin {"dynamo", "s3"}
  BY <1>1 DEF Visible
<1>2. CASE adapter.name \in {"dynamo", "s3"}
  <2>1. Last <= Listed /\ Last \in Nat /\ Listed \in Nat
    BY <1>2, AdapterAssumption DEF OneListing, TypeOK
  <2>2. ASSUME NEW k \in Stored PROVE Cardinality({j \in Stored : j < k}) < Listed
    <3> DEFINE T == {j \in Stored : j < k}
    <3>1. k \in Key /\ k \in Nat /\ 1 <= k /\ k <= Last
      BY <2>1 DEF Stored, Key
    <3>2. T \in SUBSET (1..(k - 1))
      BY <3>1, <2>1 DEF Stored, Key
    <3>3. IsFiniteSet(1..(k - 1)) /\ Cardinality(1..(k - 1)) = k - 1
      <4>1. 1 \in Int /\ k - 1 \in Int
        BY <3>1
      <4>2. Cardinality(1..(k - 1)) = IF 1 > k - 1 THEN 0 ELSE (k - 1) - 1 + 1
        BY <4>1, FS_Interval
      <4> QED
        BY <3>1, <4>1, <4>2, FS_Interval
    <3> HIDE DEF T
    <3>4. IsFiniteSet(T) /\ Cardinality(T) <= k - 1
      BY <3>2, <3>3, FS_Subset
    <3>5. Cardinality(T) \in Nat
      BY <3>4, FS_CardinalityType
    <3> QED
      BY <3>1, <3>4, <3>5, <2>1 DEF T
  <2> QED
    BY <1>2, <2>2 DEF Visible, Leading
<1> QED
  BY <1>1, <1>2

LEMMA IdleFacts ==
    /\ Idle \in CallType /\ Idle.op = "none" /\ Idle.pc = "idle"
    /\ \A a : ~SeveralOf(a, Idle) /\ ~WritingOf(a, Idle)
<1>1. Absent \in Records
  BY DEF Absent, Records
<1> QED
  BY <1>1 DEF Idle, CallType, Says, SeveralOf, WritingOf

LEMMA SettledFacts ==
    ASSUME NEW a, NEW r, NEW k, NEW c \in Caller, \A d \in Caller \ {c} : ~WritingOf(a, k[d])
    PROVE  SettledOf(a, r, k) = IF WritingOf(a, k[c]) THEN k[c].old ELSE r
<1> DEFINE W == {d \in Caller : WritingOf(a, k[d])}
<1>1. CASE WritingOf(a, k[c])
  <2>1. W = {c}
    BY <1>1
  <2> QED
    BY <2>1, <1>1 DEF SettledOf
<1>2. CASE ~WritingOf(a, k[c])
  <2>1. W = {}
    BY <1>2
  <2> QED
    BY <2>1, <1>2 DEF SettledOf
<1> QED
  BY <1>1, <1>2

LEMMA Same ==
    /\ Settled = SettledOf(adapter, record, call)
    /\ \A q : Several(q) = SeveralOf(adapter, q)
  BY DEF Settled, SettledOf, Several, SeveralOf, Writing, WritingOf

-----------------------------------------------------------------------------
(***************************************************************************)
(* A step of one caller, seen from the adapter and from the contract.     *)
(***************************************************************************)
(* A call in progress: nobody else is half way.                            *)
LEMMA Working ==
    ASSUME IInv, NEW c \in Caller, call[c] # Idle
    PROVE  /\ call[c] \in CallType /\ Asked(call[c]) /\ Stage(adapter, record, call[c])
           /\ \A d \in Caller \ {c} : ~SeveralOf(adapter, call[d]) /\ ~WritingOf(adapter, call[d])
           /\ Settled = IF WritingOf(adapter, call[c]) THEN call[c].old ELSE record
           /\ call[c].pc # "content" => record \in Records
           /\ SeveralOf(adapter, call[c]) => \A d \in Caller \ {c} : call[d] = Idle
<1>1. call[c] \in CallType /\ Asked(call[c]) /\ Stage(adapter, record, call[c])
  BY DEF IInv, TypeOK
<1>2. ASSUME NEW d \in Caller \ {c}
      PROVE  ~SeveralOf(adapter, call[d]) /\ ~WritingOf(adapter, call[d])
  <2>1. CASE call[d] = Idle
    BY <2>1, IdleFacts
  <2>2. CASE call[d] # Idle
    BY <2>2 DEF IInv, Exclusive, WritingOf
  <2> QED
    BY <2>1, <2>2
<1>3. Settled = IF WritingOf(adapter, call[c]) THEN call[c].old ELSE record
  BY <1>2, Same, SettledFacts
<1>4. ASSUME NEW d \in Caller \ {c} PROVE call[d].pc # "content"
  <2>1. CASE call[d] = Idle
    BY <2>1, IdleFacts
  <2>2. CASE call[d] # Idle
    BY <1>2, <2>2 DEF IInv, Stage, SeveralOf
  <2> QED
    BY <2>1, <2>2
<1> QED
  BY <1>1, <1>2, <1>3, <1>4 DEF IInv, Exclusive

(* What a stage says of its call. *)
LEMMA LoadStage ==
    ASSUME NEW a, NEW r, NEW q, Stage(a, r, q), q.pc = "load"
    PROVE  /\ a.load # "atomic" /\ \A k \in q.todo : r[k] # None
           /\ \A k \in Key \ q.todo : q.seen[k] = r[k]
<1>1. a.load # "atomic" /\ Loaded(r, q)
  BY DEF Stage
<1> QED
  BY <1>1, Zenon DEF Loaded

LEMMA SaveStage ==
    ASSUME NEW a, NEW r, NEW q, Stage(a, r, q), q.pc = "save"
    PROVE  /\ a.save = "each" /\ q.todo \subseteq q.keys
           /\ \A k \in Key \ q.keys : r[k] = q.old[k]
           /\ \A k \in q.keys \ q.todo : r[k] = q.val
<1>1. a.save = "each" /\ Saved(r, q)
  BY DEF Stage
<1> QED
  BY <1>1, Zenon DEF Saved

(* Only calls of several steps depend on the records. *)
LEMMA StageFree ==
    ASSUME NEW a, NEW r, NEW s, NEW q, Stage(a, r, q), ~SeveralOf(a, q)
    PROVE  Stage(a, s, q)
  BY DEF Stage, SeveralOf, WritingOf

(* What is left to show of a step of one caller. *)
LEMMA OneCaller ==
    ASSUME IInv, NEW c \in Caller, call[c] # Idle, NEW q \in CallType,
           call' = [call EXCEPT ![c] = q], adapter' = adapter,
           record' \in [Key -> Value \cup {None, Torn}],
           record' \in Records \/ q.pc = "content",
           q.op = call[c].op, q.keys = call[c].keys, q.val = call[c].val, q.exp = call[c].exp,
           Stage(adapter, record', q)
    PROVE  /\ IInv'
           /\ Settled' = IF WritingOf(adapter, q) THEN q.old ELSE record'
           /\ Promises(call)' = [Promises(call) EXCEPT ![c] = Promised(q)]
<1>1. /\ call' \in [Caller -> CallType] /\ call'[c] = q
      /\ \A d \in Caller \ {c} : call'[d] = call[d]
  BY DEF IInv, TypeOK
<1>2. Asked(q)
  BY Working DEF Asked
<1>3. SeveralOf(adapter, q) = SeveralOf(adapter, call[c])
  BY DEF SeveralOf
<1>4. \A d \in Caller \ {c} : ~SeveralOf(adapter, call[d]) /\ ~WritingOf(adapter, call[d])
  BY Working
<1>5. TypeOK'
  BY <1>1 DEF IInv, TypeOK
<1>6. Exclusive(adapter', call')
  BY <1>1, <1>3, <1>4 DEF IInv, Exclusive
<1>7. ASSUME NEW d \in Caller
      PROVE  call'[d] = Idle \/ (Asked(call'[d]) /\ Stage(adapter', record', call'[d]))
  <2>1. CASE d = c
    BY <2>1, <1>1, <1>2
  <2>2. CASE d # c
    BY <2>2, <1>1, <1>4, StageFree DEF IInv
  <2> QED
    BY <2>1, <2>2
<1>8. record' \in Records \/ \E d \in Caller : call'[d].pc = "content"
  BY <1>1
<1>9. Settled' = SettledOf(adapter', record', call')
  BY Same DEF Settled, SettledOf, Several, SeveralOf, Writing, WritingOf
<1>10. Settled' = IF WritingOf(adapter, q) THEN q.old ELSE record'
  <2>1. \A d \in Caller \ {c} : ~WritingOf(adapter', call'[d])
    BY <1>1, <1>4
  <2>2. SettledOf(adapter', record', call') =
           IF WritingOf(adapter', call'[c]) THEN call'[c].old ELSE record'
    BY <2>1, SettledFacts
  <2> QED
    BY <2>2, <1>1, <1>9
<1>11. Promises(call)' = [Promises(call) EXCEPT ![c] = Promised(q)]
  BY <1>1 DEF Promises
<1> QED
  BY <1>5, <1>6, <1>7, <1>8, <1>10, <1>11 DEF IInv

(* What the contract sees of an answer. *)
Promise(o, k, v, e, d, x) == [op |-> o, keys |-> k, val |-> v, exp |-> e, done |-> d, res |-> x]
Kept(o, k, v, e, x) == [op |-> o, keys |-> k, val |-> v, exp |-> e, done |-> TRUE, res |-> x]
WithDone(p)   == [p EXCEPT !.done = TRUE]
WithRes(p, a) == [p EXCEPT !.res = a]
Told(p, a)    == [p EXCEPT !.done = TRUE, !.res = a]

LEMMA PromiseKept ==
    ASSUME NEW o, NEW k, NEW v, NEW e, NEW d, NEW x, NEW a
    PROVE  Told(Promise(o, k, v, e, d, x), a) = Kept(o, k, v, e, a)
<1> PICK t : t = TRUE
  OBVIOUS
<1>1. WithDone(Promise(o, k, v, e, d, x)) = Promise(o, k, v, e, t, x)
  <2>1. \A u : [Promise(o, k, v, e, d, x) EXCEPT !.done = u] = Promise(o, k, v, e, u, x)
    BY SMT DEF Promise
  <2>2. [Promise(o, k, v, e, d, x) EXCEPT !.done = t] = Promise(o, k, v, e, t, x)
    BY <2>1, Zenon
  <2>3. WithDone(Promise(o, k, v, e, d, x)) = [Promise(o, k, v, e, d, x) EXCEPT !.done = t]
    BY Zenon DEF WithDone
  <2> QED
    BY <2>2, <2>3, Zenon
<1>2. WithRes(Promise(o, k, v, e, t, x), a) = Promise(o, k, v, e, t, a)
  <2>1. \A u : [Promise(o, k, v, e, u, x) EXCEPT !.res = a] = Promise(o, k, v, e, u, a)
    BY SMT DEF Promise
  <2> QED
    BY <2>1, Zenon DEF WithRes
<1>3. \A p : Told(p, a) = WithRes(WithDone(p), a)
  BY DEF Told, WithDone, WithRes
<1>4. Promise(o, k, v, e, t, a) = Kept(o, k, v, e, a)
  BY Zenon DEF Promise, Kept
<1> QED
  BY <1>1, <1>2, <1>3, <1>4, Zenon

(* The call with its answer. *)
Answered(q, how, r) ==
    [q EXCEPT !.pc = "done", !.res = Says(how, r), !.todo = {}, !.seen = Absent, !.old = Absent]

LEMMA AnsweredFacts ==
    ASSUME NEW q \in CallType, NEW how \in {"ok", "conflict", "error"}, NEW r \in Records
    PROVE  LET g == Answered(q, how, r) IN
           /\ g \in CallType /\ g.pc = "done" /\ g.res = Says(how, r)
           /\ g.op = q.op /\ g.keys = q.keys /\ g.val = q.val /\ g.exp = q.exp
<1> DEFINE g == Answered(q, how, r)
           g1 == [q EXCEPT !.pc = "done"]
           g2 == [g1 EXCEPT !.res = Says(how, r)]
           g3 == [g2 EXCEPT !.todo = {}]
           g4 == [g3 EXCEPT !.seen = Absent]
<1>1. /\ g1 \in CallType /\ g1.pc = "done" /\ g1.op = q.op /\ g1.keys = q.keys /\ g1.val = q.val
      /\ g1.exp = q.exp
  BY DEF CallType
<1>2. g = [g4 EXCEPT !.old = Absent]
  BY DEF Answered
<1> HIDE DEF g, g1
<1>3. Says(how, r) \in [is : {"none", "ok", "conflict", "error"}, records : Records]
  BY DEF Says
<1>4. /\ g2 \in CallType /\ g2.pc = "done" /\ g2.op = q.op /\ g2.keys = q.keys /\ g2.val = q.val
      /\ g2.exp = q.exp /\ g2.res = Says(how, r)
  BY <1>1, <1>3 DEF CallType
<1> HIDE DEF g2
<1>5. /\ g3 \in CallType /\ g3.pc = "done" /\ g3.op = q.op /\ g3.keys = q.keys /\ g3.val = q.val
      /\ g3.exp = q.exp /\ g3.res = Says(how, r)
  BY <1>4 DEF CallType
<1> HIDE DEF g3
<1>6. Absent \in Records
  BY DEF Absent, Records
<1>7. /\ g4 \in CallType /\ g4.pc = "done" /\ g4.op = q.op /\ g4.keys = q.keys /\ g4.val = q.val
      /\ g4.exp = q.exp /\ g4.res = Says(how, r)
  BY <1>5, <1>6 DEF CallType
<1> HIDE DEF g4
<1>8. /\ g \in CallType /\ g.pc = "done" /\ g.op = q.op /\ g.keys = q.keys /\ g.val = q.val
      /\ g.exp = q.exp /\ g.res = Says(how, r)
  BY <1>2, <1>6, <1>7 DEF CallType
<1> QED
  BY <1>8 DEF g

(* The step that gives the answer. *)
LEMMA Answers ==
    ASSUME IInv, NEW c \in Caller, call[c] # Idle,
           NEW how \in {"ok", "conflict", "error"}, NEW r \in Records, Answer(c, how, r),
           adapter' = adapter, record' \in Records
    PROVE  /\ IInv' /\ Settled' = record'
           /\ Promises(call)' =
                 [Promises(call) EXCEPT ![c] = Told(Promised(call[c]), Says(how, r))]
<1> PICK q \in CallType : q = call[c]
  BY Working
<1> DEFINE g == Answered(q, how, r)
<1>1. call' = [call EXCEPT ![c] = g]
  BY DEF Answer, Goto, Answered
<1>2. /\ g \in CallType /\ g.pc = "done" /\ g.res = Says(how, r)
      /\ g.op = q.op /\ g.keys = q.keys /\ g.val = q.val /\ g.exp = q.exp
  BY AnsweredFacts
<1> HIDE DEF g
<1>3. Stage(adapter, record', g) /\ ~WritingOf(adapter, g)
  BY <1>2 DEF Stage, WritingOf
<1>4. record' \in [Key -> Value \cup {None, Torn}]
  BY DEF Records
<1>5. /\ IInv' /\ Settled' = record'
      /\ Promises(call)' = [Promises(call) EXCEPT ![c] = Promised(g)]
  BY <1>1, <1>2, <1>3, <1>4, OneCaller
<1>6. Promised(g) = Told(Promised(q), Says(how, r))
  <2> DEFINE v == IF q.op \in {"put", "saveAll", "none"} THEN q.val ELSE CHOOSE w \in Value : TRUE
  <2>1. PICK b : Promised(q) = Promise(q.op, q.keys, v, q.exp, b, q.res)
    <3>1. Promised(q) = Promise(q.op, q.keys, v, q.exp, q.pc = "done", q.res)
      BY DEF Promised, Promise
    <3> QED
      BY <3>1, Zenon
  <2>2. Promised(g) = Kept(g.op, g.keys, v, g.exp, g.res)
    <3>1. Promised(g) = Promise(g.op, g.keys, v, g.exp, g.pc = "done", g.res)
      BY <1>2 DEF Promised, Promise
    <3>2. PICK t : t = (g.pc = "done")
      OBVIOUS
    <3>3. t = TRUE
      BY <3>2, <1>2
    <3>4. Promised(g) = Promise(g.op, g.keys, v, g.exp, t, g.res)
      BY <3>1, <3>2, Zenon
    <3>5. Promise(g.op, g.keys, v, g.exp, t, g.res) = Kept(g.op, g.keys, v, g.exp, g.res)
      BY <3>3, Zenon DEF Promise, Kept
    <3> QED
      BY <3>4, <3>5
  <2> HIDE DEF v
  <2>5. Told(Promised(q), Says(how, r)) = Kept(q.op, q.keys, v, q.exp, Says(how, r))
    BY <2>1, PromiseKept
  <2> QED
    BY <1>2, <2>2, <2>5
<1>7. Promises(call)[c] = Promised(q)
  BY DEF Promises
<1> QED
  BY <1>5, <1>6, <1>7

(* What the contract asks of a step that answers a call. *)
LEMMA ContractStep ==
    ASSUME NEW c \in Caller, NEW p, NEW a, p = Promised(call[c]),
           p.op # "none", ~p.done,
           Promises(call)' = [Promises(call) EXCEPT ![c] = Told(p, a)],
           \/ /\ ~Contract!Refused(p, Settled) /\ Settled' \in Contract!Effects(p, Settled)
              /\ a = Contract!Reply(p, Settled)
           \/ /\ Contract!Refused(p, Settled) /\ Settled' = Settled
              /\ a = Contract!Says("conflict", Contract!Absent)
    PROVE  Contract!Next
<1>1. Promises(call) = [d \in Caller |-> Promised(call[d])]
  BY DEF Promises
<1>2. [d \in Caller |-> Promised(call[d])][c] = p
  OBVIOUS
<1>3. Promises(call)' = [d \in Caller |-> Promised(call'[d])]
  BY DEF Promises, Promised
<1>4. Contract!Pending(c)
  BY <1>2 DEF Contract!Pending
<1>5. Contract!Answer(c, a)
  BY <1>1, <1>2, <1>3 DEF Contract!Answer, Told
<1>6. CASE /\ ~Contract!Refused(p, Settled) /\ Settled' \in Contract!Effects(p, Settled)
           /\ a = Contract!Reply(p, Settled)
  <2>1. Contract!TakeEffect(c)
    BY <1>2, <1>4, <1>5, <1>6 DEF Contract!TakeEffect
  <2> QED
    BY <2>1 DEF Contract!Next
<1>7. CASE /\ Contract!Refused(p, Settled) /\ Settled' = Settled
           /\ a = Contract!Says("conflict", Contract!Absent)
  <2>1. Contract!Conflict(c)
    BY <1>2, <1>4, <1>5, <1>7 DEF Contract!Conflict
  <2> QED
    BY <2>1 DEF Contract!Next
<1> QED
  BY <1>6, <1>7

(* The step that answers a call is a step of the contract. *)
LEMMA Answering ==
    ASSUME IInv, NEW c \in Caller, call[c] # Idle, call[c].pc # "done", NEW p,
           p = Promised(call[c]), NEW how \in {"ok", "conflict", "error"}, NEW r \in Records,
           Answer(c, how, r), adapter' = adapter, record' \in Records,
           \/ /\ ~Contract!Refused(p, Settled) /\ record' \in Contract!Effects(p, Settled)
              /\ Says(how, r) = Contract!Reply(p, Settled)
           \/ /\ Contract!Refused(p, Settled) /\ record' = Settled
              /\ Says(how, r) = Contract!Says("conflict", Contract!Absent)
    PROVE  IInv' /\ Contract!Next
<1>1. /\ IInv' /\ Settled' = record'
      /\ Promises(call)' = [Promises(call) EXCEPT ![c] = Told(Promised(call[c]), Says(how, r))]
  BY Answers
<1>2. p.op # "none" /\ ~p.done
  BY Working DEF Asked, Promised
<1> QED
  BY <1>1, <1>2, ContractStep

(* A step inside a call changes nothing for the contract. *)
LEMMA Moving ==
    ASSUME IInv, NEW c \in Caller, call[c] # Idle, call[c].pc # "done", NEW q \in CallType,
           call' = [call EXCEPT ![c] = q], adapter' = adapter,
           record' \in [Key -> Value \cup {None, Torn}],
           record' \in Records \/ q.pc = "content",
           q.op = call[c].op, q.keys = call[c].keys, q.val = call[c].val, q.exp = call[c].exp,
           q.res = call[c].res, q.pc # "done", Stage(adapter, record', q),
           Settled = IF WritingOf(adapter, q) THEN q.old ELSE record'
    PROVE  IInv' /\ UNCHANGED Contract!vars
<1>1. /\ IInv' /\ Settled' = Settled
      /\ Promises(call)' = [Promises(call) EXCEPT ![c] = Promised(q)]
  BY OneCaller
<1>2. Promised(q) = Promised(call[c])
  <2>1. PICK b : b = (q.pc = "done")
    OBVIOUS
  <2>2. b = (call[c].pc = "done")
    BY <2>1
  <2> DEFINE v(g) == IF g.op \in {"put", "saveAll", "none"} THEN g.val ELSE CHOOSE w \in Value : TRUE
  <2>3. \A g : Promised(g) = Promise(g.op, g.keys, v(g), g.exp, g.pc = "done", g.res)
    BY Zenon DEF Promised, Promise
  <2>4. v(q) = v(call[c])
    OBVIOUS
  <2> HIDE DEF v
  <2>5. Promised(q) = Promise(q.op, q.keys, v(q), q.exp, b, q.res)
    BY <2>1, <2>3, Zenon
  <2>6. Promised(call[c]) =
          Promise(call[c].op, call[c].keys, v(call[c]), call[c].exp, b, call[c].res)
    BY <2>2, <2>3, Zenon
  <2> QED
    BY <2>4, <2>5, <2>6
<1>3. Promises(call)' = Promises(call)
  BY <1>1, <1>2 DEF Promises
<1>4. /\ Promises(call) = [d \in Caller |-> Promised(call[d])]
      /\ Promises(call)' = [d \in Caller |-> Promised(call'[d])]
  BY DEF Promises, Promised
<1> QED
  BY <1>1, <1>3, <1>4 DEF Contract!vars

WithPc(q, p)   == [q EXCEPT !.pc = p]
WithTodo(q, t) == [q EXCEPT !.todo = t]
WithSeen(q, s) == [q EXCEPT !.seen = s]
SameCall(g, q) ==
    /\ g.op = q.op /\ g.keys = q.keys /\ g.val = q.val /\ g.exp = q.exp
    /\ g.res = q.res /\ g.old = q.old

(* The step moves on inside the call. *)
LEMMA PcFacts ==
    ASSUME NEW q \in CallType, NEW p \in {"start", "write", "content", "load", "save"}
    PROVE  LET g == WithPc(q, p) IN
           g \in CallType /\ SameCall(g, q) /\ g.pc = p /\ g.todo = q.todo /\ g.seen = q.seen
  BY DEF WithPc, CallType, SameCall

LEMMA TodoFacts ==
    ASSUME NEW q \in CallType, NEW t \in SUBSET Key
    PROVE  LET g == WithTodo(q, t) IN
           g \in CallType /\ SameCall(g, q) /\ g.pc = q.pc /\ g.todo = t /\ g.seen = q.seen
  BY DEF WithTodo, CallType, SameCall

LEMMA SeenFacts ==
    ASSUME NEW q \in CallType, NEW s \in Records
    PROVE  LET g == WithSeen(q, s) IN
           g \in CallType /\ SameCall(g, q) /\ g.pc = q.pc /\ g.todo = q.todo /\ g.seen = s
  BY DEF WithSeen, CallType, SameCall

(* A call with one id, and what the contract makes of it. *)
LEMMA OneKey ==
    ASSUME NEW q \in CallType, Asked(q), q.op \in {"get", "put", "delete"}
    PROVE  /\ First(q.keys) \in Key /\ q.keys = {First(q.keys)}
           /\ \A v, r : r \in [Key -> Value \cup {None, Torn}] =>
                 [r EXCEPT ![First(q.keys)] = v] = Contract!Written(Promised(q), r, v)
<1>1. PICK k \in Key : q.keys = {k}
  BY DEF Asked
<1>2. First(q.keys) = k
  BY <1>1, FirstOne
<1>3. ASSUME NEW v, NEW r \in [Key -> Value \cup {None, Torn}]
      PROVE  [r EXCEPT ![k] = v] = Contract!Written(Promised(q), r, v)
  <2>1. Promised(q).keys = {k}
    BY <1>1 DEF Promised
  <2> QED
    BY <2>1 DEF Contract!Written
<1> QED
  BY <1>1, <1>2, <1>3

(* What the contract says of the call in the words of the adapter. *)
LEMMA ContractFacts ==
    ASSUME NEW q \in CallType, Asked(q), NEW r
    PROVE  LET p == Promised(q) IN
           /\ p.op = q.op /\ p.keys = q.keys /\ p.exp = q.exp
           /\ q.op \in {"put", "saveAll"} => p.val = q.val
           /\ Contract!Refused(p, r) <=>
                 q.op = "put" /\ q.exp # None /\ \E k \in q.keys : r[k] \notin {None, q.exp}
           /\ q.op \in {"put", "delete", "saveAll"} => Contract!Reply(p, r) = Says("ok", Absent)
           /\ q.op \in {"get", "loadAll"} =>
                 Contract!Reply(p, r) = Says("ok", [k \in Key |-> IF k \in q.keys THEN r[k] ELSE None])
           /\ Contract!Says("conflict", Contract!Absent) = Says("conflict", Absent)
<1> DEFINE p == Promised(q)
<1>1. /\ p.op = q.op /\ p.keys = q.keys /\ p.exp = q.exp
      /\ q.op \in {"put", "saveAll"} => p.val = q.val
  BY DEF Promised
<1> HIDE DEF p
<1>2. Contract!Refused(p, r) <=>
        q.op = "put" /\ q.exp # None /\ \E k \in q.keys : r[k] \notin {None, q.exp}
  BY <1>1 DEF Contract!Refused
<1>3. ASSUME q.op \in {"put", "delete", "saveAll"}
      PROVE  Contract!Reply(p, r) = Says("ok", Absent)
  BY <1>1, <1>3 DEF Contract!Reply, Contract!Says, Says, Absent
<1>4. ASSUME q.op \in {"get", "loadAll"}
      PROVE  Contract!Reply(p, r) = Says("ok", [k \in Key |-> IF k \in q.keys THEN r[k] ELSE None])
  BY <1>1, <1>4 DEF Contract!Reply, Contract!Says, Says
<1>5. Contract!Says("conflict", Contract!Absent) = Says("conflict", Absent)
  BY DEF Contract!Says, Contract!Absent, Says, Absent
<1> QED
  BY <1>1, <1>2, <1>3, <1>4, <1>5 DEF p

(* No record is torn for a reader. *)
LEMMA NoneTorn == \A r \in Records : \A k \in Key : r[k] # Torn
  BY AdapterAssumption DEF Records

-----------------------------------------------------------------------------
(***************************************************************************)
(* The actions.                                                           *)
(***************************************************************************)
LEMMA GetKeeps ==
    ASSUME IInv, NEW c \in Caller, Get(c)
    PROVE  IInv' /\ [Contract!Next]_(Contract!vars)
<1> PICK q \in CallType : q = call[c]
  BY DEF IInv, TypeOK
<1>1. q.op = "get" /\ q.pc = "start" /\ call[c] # Idle
  BY IdleFacts DEF Get, Is
<1>2. /\ Asked(q) /\ ~WritingOf(adapter, q) /\ Settled = record /\ record \in Records
  BY <1>1, Working DEF WritingOf
<1>3. Read(q, record) = [k \in Key |-> IF k \in q.keys THEN record[k] ELSE None]
  BY <1>2, NoneTorn DEF Read
<1>4. Read(q, record) \in Records
  BY <1>2, <1>3 DEF Records
<1>5. PICK p : p = Promised(q)
  OBVIOUS
<1>6. /\ ~Contract!Refused(p, Settled) /\ Says("ok", Read(q, record)) = Contract!Reply(p, Settled)
      /\ p.op = "get"
  BY <1>1, <1>2, <1>3, <1>5, ContractFacts
<1>7. record \in Contract!Effects(p, Settled)
  BY <1>2, <1>6 DEF Contract!Effects
<1>8. Answer(c, "ok", Read(q, record)) /\ adapter' = adapter /\ record' = record
  BY DEF Get
<1> QED
  BY <1>1, <1>2, <1>4, <1>5, <1>6, <1>7, <1>8, Answering

LEMMA DeleteKeeps ==
    ASSUME IInv, NEW c \in Caller, Delete(c)
    PROVE  IInv' /\ [Contract!Next]_(Contract!vars)
<1> PICK q \in CallType : q = call[c]
  BY DEF IInv, TypeOK
<1>1. q.op = "delete" /\ q.pc = "start" /\ call[c] # Idle
  BY IdleFacts DEF Delete, Is
<1>2. Asked(q) /\ Settled = record /\ record \in Records
  BY <1>1, Working DEF WritingOf
<1>3. PICK p : p = Promised(q)
  OBVIOUS
<1>4. /\ ~Contract!Refused(p, Settled) /\ Says("ok", Absent) = Contract!Reply(p, Settled)
      /\ p.op = "delete" /\ p.keys = q.keys
  BY <1>1, <1>2, <1>3, ContractFacts
<1>5. record' = [k \in Key |-> IF k \in q.keys THEN None ELSE record[k]]
  BY DEF Delete, Write
<1>6. record' \in Contract!Effects(p, Settled)
  BY <1>2, <1>4, <1>5 DEF Contract!Effects, Contract!Written
<1>7. record' \in Records /\ Absent \in Records
  BY <1>2, <1>5 DEF Records, Absent
<1>8. Answer(c, "ok", Absent) /\ adapter' = adapter
  BY DEF Delete
<1> QED
  BY <1>1, <1>2, <1>3, <1>4, <1>6, <1>7, <1>8, Answering

(* A put that names another version than the one it finds is refused. *)
LEMMA Refusal ==
    ASSUME IInv, NEW c \in Caller, call[c] # Idle, call[c].op = "put",
           call[c].pc = "start", call[c].exp # None,
           record[First(call[c].keys)] \notin {None, call[c].exp},
           Answer(c, "conflict", Absent), UNCHANGED <<adapter, record>>
    PROVE  IInv' /\ [Contract!Next]_(Contract!vars)
<1> PICK q \in CallType : q = call[c]
  BY Working
<1>1. /\ Asked(q) /\ (WritingOf(adapter, q) => q.old = record)
      /\ Settled = record /\ record \in Records
  BY Working DEF Stage
<1>2. First(q.keys) \in q.keys
  BY <1>1, OneKey
<1>3. PICK p : p = Promised(q)
  OBVIOUS
<1>4. /\ Contract!Refused(p, Settled)
      /\ Says("conflict", Absent) = Contract!Says("conflict", Contract!Absent)
  BY <1>1, <1>2, <1>3, ContractFacts
<1>5. Absent \in Records
  BY DEF Records, Absent
<1> QED
  BY <1>1, <1>3, <1>4, <1>5, Answering

LEMMA PutCheckKeeps ==
    ASSUME IInv, NEW c \in Caller, PutCheck(c)
    PROVE  IInv' /\ [Contract!Next]_(Contract!vars)
<1> PICK q \in CallType : q = call[c]
  BY DEF IInv, TypeOK
<1>1. /\ q.op = "put" /\ q.pc = "start" /\ call[c] # Idle
      /\ adapter.check = "before" /\ q.exp # None
      /\ UNCHANGED <<adapter, record>>
  BY IdleFacts DEF PutCheck, Is
<1>2. WritingOf(adapter, q)
  BY <1>1 DEF WritingOf, SeveralOf
<1>3. Asked(q) /\ q.old = record /\ Settled = record /\ record \in Records
  BY <1>1, <1>2, Working DEF Stage
<1>4. First(q.keys) \in Key /\ q.keys = {First(q.keys)}
  BY <1>1, <1>3, OneKey
<1>5. record[First(q.keys)] # Torn
  BY <1>3, <1>4, NoneTorn
<1>6. CASE record[First(q.keys)] \notin {None, q.exp}
  <2>1. Answer(c, "conflict", Absent)
    BY <1>5, <1>6 DEF PutCheck
  <2> QED
    BY <1>1, <1>6, <2>1, Refusal
<1>7. CASE record[First(q.keys)] \in {None, q.exp}
  <2> DEFINE g == WithPc(q, "write")
  <2>1. call' = [call EXCEPT ![c] = g]
    BY <1>5, <1>7 DEF PutCheck, Goto, WithPc
  <2>2. /\ g \in CallType /\ SameCall(g, q) /\ g.pc = "write"
    BY PcFacts
  <2> HIDE DEF g
  <2>3. Accepted(g)
    BY <1>3, <1>4, <1>7, <2>2 DEF Accepted, SameCall
  <2>4. Stage(adapter, record', g) /\ WritingOf(adapter, g)
    BY <1>1, <1>3, <2>2, <2>3 DEF Stage, WritingOf, SeveralOf, SameCall
  <2>5. record' \in [Key -> Value \cup {None, Torn}]
    BY <1>1, <1>3 DEF Records
  <2>6. Settled = g.old
    BY <1>3, <2>2 DEF SameCall
  <2>7. /\ g.op = call[c].op /\ g.keys = call[c].keys /\ g.val = call[c].val
        /\ g.exp = call[c].exp /\ g.res = call[c].res /\ g.pc # "done" /\ call[c].pc # "done"
    BY <1>1, <2>2 DEF SameCall
  <2> QED
    BY <1>1, <1>3, <2>1, <2>2, <2>4, <2>5, <2>6, <2>7, Moving
<1> QED
  BY <1>6, <1>7

(* The write of a put, once its version is accepted. *)
LEMMA PutEffect ==
    ASSUME IInv, NEW c \in Caller, call[c] # Idle, call[c].op = "put", call[c].pc # "done",
           NEW q \in CallType, q = call[c], Settled \in Records,
           \A k \in q.keys : q.exp # None => Settled[k] \in {None, q.exp},
           record \in [Key -> Value \cup {None, Torn}],
           \A k \in Key \ q.keys : record[k] = Settled[k],
           record' = Only(First(q.keys), q.val), adapter' = adapter, Answer(c, "ok", Absent)
    PROVE  IInv' /\ [Contract!Next]_(Contract!vars)
<1>1. Asked(q) /\ q.val \in Value
  BY Working DEF Asked
<1>2. PICK p : p = Promised(q)
  OBVIOUS
<1>3. /\ ~Contract!Refused(p, Settled) /\ Says("ok", Absent) = Contract!Reply(p, Settled)
      /\ p.op = "put" /\ p.keys = q.keys /\ p.val = q.val
  BY <1>1, <1>2, ContractFacts
<1>4. First(q.keys) \in Key /\ q.keys = {First(q.keys)}
  BY <1>1, OneKey
<1>5. record' = [k \in Key |-> IF k \in q.keys THEN q.val ELSE Settled[k]]
  BY <1>4 DEF Only
<1>6. record' \in Contract!Effects(p, Settled)
  BY <1>3, <1>5 DEF Contract!Effects, Contract!Written
<1>7. record' \in Records /\ Absent \in Records
  BY <1>1, <1>5 DEF Records, Absent
<1> QED
  BY <1>1, <1>2, <1>3, <1>6, <1>7, Answering

LEMMA PutWriteKeeps ==
    ASSUME IInv, NEW c \in Caller, PutWrite(c)
    PROVE  IInv' /\ [Contract!Next]_(Contract!vars)
<1> PICK q \in CallType : q = call[c]
  BY DEF IInv, TypeOK
<1>1. /\ q.op = "put" /\ call[c] # Idle /\ adapter' = adapter
      /\ q.pc = "write" \/ (q.pc = "start" /\ (adapter.check = "atomic" \/ q.exp = None))
  BY IdleFacts DEF PutWrite, Is
<1>2. /\ Asked(q) /\ Stage(adapter, record, q) /\ record \in Records
      /\ Settled = IF WritingOf(adapter, q) THEN q.old ELSE record
  BY <1>1, Working
<1>3. Settled = record
  BY <1>1, <1>2 DEF Stage
<1>4. First(q.keys) \in Key /\ q.keys = {First(q.keys)} /\ q.val \in Value
  BY <1>1, <1>2, OneKey DEF Asked
<1>5. CASE Refuses(c)
  <2>1. /\ q.exp # None /\ record[First(q.keys)] \notin {None, q.exp}
        /\ Answer(c, "conflict", Absent) /\ record' = record /\ adapter.check = "atomic"
    BY <1>5 DEF PutWrite, Refuses
  <2>2. q.pc = "start"
    BY <1>1, <1>2, <2>1 DEF Stage
  <2> QED
    BY <1>1, <2>1, <2>2, Refusal
<1>6. ASSUME ~Refuses(c)
      PROVE  q.exp # None => record[First(q.keys)] \in {None, q.exp}
  <2>1. CASE q.pc = "write"
    BY <1>1, <1>2, <1>4, <2>1 DEF Stage, Accepted
  <2>2. CASE q.pc = "start"
    BY <1>1, <1>6, <2>2 DEF Refuses
  <2> QED
    BY <1>1, <2>1, <2>2
<1>7. record \in [Key -> Value \cup {None, Torn}]
  BY <1>2 DEF Records
<1>8. CASE ~Refuses(c) /\ adapter.write = "atomic"
  <2>1. Answer(c, "ok", Absent) /\ record' = Only(First(q.keys), q.val)
    BY <1>8 DEF PutWrite, Write
  <2> QED
    BY <1>1, <1>2, <1>3, <1>4, <1>6, <1>7, <1>8, <2>1, PutEffect
<1>9. CASE ~Refuses(c) /\ adapter.write = "torn"
  <2> DEFINE g == WithPc(q, "content")
  <2>1. call' = [call EXCEPT ![c] = g] /\ record' = Only(First(q.keys), Torn)
    BY <1>9 DEF PutWrite, Goto, WithPc, Write
  <2>2. g \in CallType /\ SameCall(g, q) /\ g.pc = "content"
    BY PcFacts
  <2> HIDE DEF g
  <2>3. WritingOf(adapter, q) /\ q.old = record
    BY <1>1, <1>2, <1>3, <1>9 DEF WritingOf, SeveralOf
  <2>4. Accepted(g)
    BY <1>4, <1>6, <1>9, <2>2, <2>3 DEF Accepted, SameCall
  <2>5. \A k \in Key \ g.keys : record'[k] = g.old[k]
    BY <1>4, <1>7, <2>1, <2>2, <2>3 DEF Only, SameCall
  <2>6. Stage(adapter, record', g) /\ WritingOf(adapter, g)
    BY <1>1, <1>9, <2>2, <2>4, <2>5 DEF Stage, WritingOf, SeveralOf, SameCall
  <2>7. record' \in [Key -> Value \cup {None, Torn}]
    BY <1>7, <2>1 DEF Only
  <2>8. Settled = g.old
    BY <1>3, <2>2, <2>3 DEF SameCall
  <2>9. /\ g.op = call[c].op /\ g.keys = call[c].keys /\ g.val = call[c].val
        /\ g.exp = call[c].exp /\ g.res = call[c].res /\ g.pc # "done" /\ call[c].pc # "done"
    BY <1>1, <2>2 DEF SameCall
  <2> QED
    BY <1>1, <2>1, <2>2, <2>6, <2>7, <2>8, <2>9, Moving
<1> QED
  BY <1>5, <1>8, <1>9 DEF PutWrite

LEMMA PutContentKeeps ==
    ASSUME IInv, NEW c \in Caller, PutContent(c)
    PROVE  IInv' /\ [Contract!Next]_(Contract!vars)
<1> PICK q \in CallType : q = call[c]
  BY DEF IInv, TypeOK
<1>1. /\ q.op = "put" /\ q.pc = "content" /\ call[c] # Idle
      /\ adapter' = adapter /\ record' = Only(First(q.keys), q.val) /\ Answer(c, "ok", Absent)
  BY IdleFacts DEF PutContent, Is, Write
<1>2. Asked(q) /\ Stage(adapter, record, q)
  BY <1>1, Working
<1>3. /\ WritingOf(adapter, q) /\ Accepted(q) /\ \A k \in Key \ q.keys : record[k] = q.old[k]
  BY <1>1, <1>2 DEF Stage, WritingOf, SeveralOf
<1>4. Settled = q.old /\ q.old \in Records
  BY <1>1, <1>3, Working DEF CallType
<1>5. record \in [Key -> Value \cup {None, Torn}]
  BY DEF IInv, TypeOK
<1> QED
  BY <1>1, <1>3, <1>4, <1>5, PutEffect DEF Accepted

(* A loadAll that has got everything. *)
LEMMA LoadEffect ==
    ASSUME IInv, NEW c \in Caller, call[c] # Idle, call[c].op = "loadAll",
           call[c].pc # "done", call[c].pc # "content", NEW r, r = record,
           Answer(c, "ok", r), UNCHANGED <<adapter, record>>
    PROVE  IInv' /\ [Contract!Next]_(Contract!vars)
<1> PICK q \in CallType : q = call[c]
  BY Working
<1>1. Asked(q) /\ q.keys = Key /\ Settled = record /\ record \in Records
  BY Working DEF Asked, WritingOf
<1>2. PICK p : p = Promised(q)
  OBVIOUS
<1>3. r = [k \in Key |-> IF k \in q.keys THEN Settled[k] ELSE None]
  BY <1>1 DEF Records
<1>4. /\ ~Contract!Refused(p, Settled) /\ Says("ok", r) = Contract!Reply(p, Settled)
      /\ p.op = "loadAll"
  BY <1>1, <1>2, <1>3, ContractFacts
<1>5. record \in Contract!Effects(p, Settled)
  BY <1>1, <1>4 DEF Contract!Effects
<1> QED
  BY <1>1, <1>2, <1>4, <1>5, Answering

LEMMA LoadAllKeeps ==
    ASSUME OneListing, IInv, NEW c \in Caller, LoadAll(c)
    PROVE  IInv' /\ [Contract!Next]_(Contract!vars)
<1> PICK q \in CallType : q = call[c]
  BY DEF IInv, TypeOK
<1>1. /\ q.op = "loadAll" /\ q.pc = "start" /\ call[c] # Idle
      /\ UNCHANGED <<adapter, record>>
  BY IdleFacts DEF LoadAll, Is
<1>2. Asked(q) /\ q.seen = Absent /\ Settled = record /\ record \in Records
  BY <1>1, Working DEF WritingOf, Stage
<1>3. Visible = Stored
  BY VisibleIsStored DEF IInv
<1>4. CASE adapter.load = "atomic"
  <2>1. Answer(c, "ok", [k \in Key |-> IF k \in Stored THEN record[k] ELSE None])
    BY <1>3, <1>4 DEF LoadAll
  <2>2. [k \in Key |-> IF k \in Stored THEN record[k] ELSE None] = record
    BY <1>2 DEF Stored, Records
  <2>3. Answer(c, "ok", record)
    BY <2>1, <2>2
  <2> QED
    BY <1>1, <2>3, LoadEffect
<1>5. CASE adapter.load # "atomic"
  <2> DEFINE g1 == WithPc(q, "load")
             g  == WithTodo(g1, Stored)
  <2>1. call' = [call EXCEPT ![c] = g]
    BY <1>3, <1>5 DEF LoadAll, Goto, WithPc, WithTodo
  <2>2. g1 \in CallType /\ SameCall(g1, q) /\ g1.pc = "load" /\ g1.seen = q.seen
    BY PcFacts
  <2>3. Stored \in SUBSET Key
    BY DEF Stored
  <2> HIDE DEF g1
  <2>4. g \in CallType /\ SameCall(g, g1) /\ g.pc = "load" /\ g.todo = Stored /\ g.seen = q.seen
    BY <2>2, <2>3, TodoFacts
  <2> HIDE DEF g
  <2>5. \A k \in Key \ g.todo : g.seen[k] = record[k]
    BY <1>2, <2>4 DEF Stored, Absent
  <2>6. \A k \in g.todo : record[k] # None
    BY <2>4 DEF Stored
  <2>7. /\ g.op = call[c].op /\ g.keys = call[c].keys /\ g.val = call[c].val
        /\ g.exp = call[c].exp /\ g.res = call[c].res /\ g.pc # "done" /\ call[c].pc # "done"
    BY <1>1, <2>2, <2>4 DEF SameCall
  <2>8. Stage(adapter, record', g) /\ ~WritingOf(adapter, g)
    BY <1>1, <1>5, <2>4, <2>5, <2>6, <2>7 DEF Stage, Loaded, WritingOf
  <2>9. record' \in [Key -> Value \cup {None, Torn}]
    BY <1>1, <1>2 DEF Records
  <2> QED
    BY <1>1, <1>2, <2>1, <2>4, <2>7, <2>8, <2>9, Moving
<1> QED
  BY <1>4, <1>5

LEMMA LoadNextKeeps ==
    ASSUME IInv, NEW c \in Caller, LoadNext(c)
    PROVE  IInv' /\ [Contract!Next]_(Contract!vars)
<1> PICK q \in CallType : q = call[c]
  BY DEF IInv, TypeOK
<1>1. /\ q.op = "loadAll" /\ q.pc = "load" /\ call[c] # Idle /\ q.todo # {}
      /\ UNCHANGED <<adapter, record>>
  BY IdleFacts DEF LoadNext, Is
<1>2. /\ Settled = record /\ record \in Records /\ adapter.load # "atomic"
      /\ \A k \in q.todo : record[k] # None
      /\ \A k \in Key \ q.todo : q.seen[k] = record[k]
      /\ q.seen \in Records /\ q.todo \in SUBSET Key
  BY <1>1, Working DEF WritingOf, Stage, Loaded, CallType
<1>3. PICK k \in q.todo : k = First(q.todo)
  BY <1>1, <1>2, FirstIsMember
<1>4. record[k] \in Value /\ k \in Key
  BY <1>2, <1>3 DEF Records
<1> DEFINE g1 == WithTodo(q, q.todo \ {k})
           s  == [q.seen EXCEPT ![k] = record[k]]
           g  == WithSeen(g1, s)
<1>5. call' = [call EXCEPT ![c] = [q EXCEPT !.todo = @ \ {k}, !.seen[k] = record[k]]]
  <2>1. record[First(call[c].todo)] \in Value
    BY <1>3, <1>4
  <2>2. Goto(c, [call[c] EXCEPT !.todo = @ \ {First(call[c].todo)},
                                !.seen[First(call[c].todo)] = record[First(call[c].todo)]])
    BY <2>1, Zenon DEF LoadNext
  <2> QED
    BY <1>3, <2>2, Zenon DEF Goto
<1>6. g1 \in CallType /\ SameCall(g1, q) /\ g1.pc = "load" /\ g1.todo = q.todo \ {k} /\ g1.seen = q.seen
  BY <1>1, <1>2, TodoFacts
<1>7. s \in Records
  BY <1>2, <1>4 DEF Records
<1>8. call' = [call EXCEPT ![c] = g]
  <2>1. [q EXCEPT !.todo = @ \ {k}, !.seen[k] = record[k]] =
          [[q EXCEPT !.todo = @ \ {k}] EXCEPT !.seen = [@ EXCEPT ![k] = record[k]]]
    OBVIOUS
  <2>2. [q EXCEPT !.todo = @ \ {k}] = g1
    BY DEF WithTodo, CallType
  <2>3. [g1 EXCEPT !.seen = [@ EXCEPT ![k] = record[k]]] = WithSeen(g1, [g1.seen EXCEPT ![k] = record[k]])
    BY <1>6 DEF WithSeen, CallType
  <2> QED
    BY <1>5, <1>6, <2>1, <2>2, <2>3
<1> HIDE DEF g1, s
<1>9. g \in CallType /\ SameCall(g, g1) /\ g.pc = "load" /\ g.todo = q.todo \ {k} /\ g.seen = s
  BY <1>6, <1>7, SeenFacts
<1> HIDE DEF g
<1>10. \A j \in Key \ g.todo : g.seen[j] = record[j]
  BY <1>2, <1>4, <1>9 DEF s, Records
<1>11. /\ g.op = call[c].op /\ g.keys = call[c].keys /\ g.val = call[c].val
      /\ g.exp = call[c].exp /\ g.res = call[c].res /\ g.pc # "done" /\ call[c].pc # "done"
  BY <1>1, <1>6, <1>9 DEF SameCall
<1>12. Stage(adapter, record', g) /\ ~WritingOf(adapter, g)
  BY <1>1, <1>2, <1>9, <1>10, <1>11 DEF Stage, Loaded, WritingOf
<1>13. record' \in [Key -> Value \cup {None, Torn}]
  BY <1>1, <1>2 DEF Records
<1> QED
  BY <1>1, <1>2, <1>8, <1>9, <1>11, <1>12, <1>13, Moving

LEMMA LoadEndKeeps ==
    ASSUME IInv, NEW c \in Caller, LoadEnd(c)
    PROVE  IInv' /\ [Contract!Next]_(Contract!vars)
<1> PICK q \in CallType : q = call[c]
  BY DEF IInv, TypeOK
<1>1. q.op = "loadAll" /\ q.pc = "load" /\ call[c] # Idle
  BY IdleFacts DEF LoadEnd, Is
<1>2. /\ record \in Records /\ q.seen \in Records
      /\ \A k \in Key \ q.todo : q.seen[k] = record[k]
  <2>1. record \in Records /\ Stage(adapter, record, q)
    BY <1>1, Working
  <2>2. q.seen \in Records
    BY DEF CallType
  <2> QED
    BY <1>1, <2>1, <2>2, LoadStage
<1>3. q.todo = {} /\ Answer(c, "ok", q.seen) /\ UNCHANGED <<adapter, record>>
  BY DEF LoadEnd
<1>4. q.seen = record
  BY <1>2, <1>3 DEF Records
<1> QED
  BY <1>1, <1>3, <1>4, LoadEffect

(* The write of a saveAll has come to its end: r is what the rest was. *)
LEMMA SaveEffect ==
    ASSUME IInv, NEW c \in Caller, call[c] # Idle, call[c].op = "saveAll", call[c].pc # "done",
           NEW q \in CallType, q = call[c], NEW r, r \in {Settled, Absent}, Settled \in Records,
           record' = [k \in Key |-> IF k \in q.keys THEN q.val ELSE r[k]],
           Answer(c, "ok", Absent), adapter' = adapter
    PROVE  IInv' /\ [Contract!Next]_(Contract!vars)
<1>1. Asked(q) /\ q.val \in Value
  BY Working DEF Asked
<1>2. PICK p : p = Promised(q)
  OBVIOUS
<1>3. /\ ~Contract!Refused(p, Settled) /\ Says("ok", Absent) = Contract!Reply(p, Settled)
      /\ p.op = "saveAll" /\ p.keys = q.keys /\ p.val = q.val
  BY <1>1, <1>2, ContractFacts
<1>4. Contract!Absent = Absent /\ Absent \in Records
  BY DEF Contract!Absent, Absent, Records
<1>5. Contract!Effects(p, Settled) =
        {Contract!Written(p, Settled, p.val), Contract!Written(p, Absent, p.val)}
  BY <1>3, <1>4 DEF Contract!Effects
<1>6. record' = Contract!Written(p, r, p.val)
  BY <1>3 DEF Contract!Written
<1>7. record' \in Records
  BY <1>1, <1>4 DEF Records
<1> QED
  BY <1>1, <1>2, <1>3, <1>4, <1>5, <1>6, <1>7, Answering

LEMMA SaveAllKeeps ==
    ASSUME IInv, NEW c \in Caller, SaveAll(c)
    PROVE  IInv' /\ [Contract!Next]_(Contract!vars)
<1> PICK q \in CallType : q = call[c]
  BY DEF IInv, TypeOK
<1>1. q.op = "saveAll" /\ q.pc = "start" /\ call[c] # Idle /\ adapter' = adapter
  BY IdleFacts DEF SaveAll, Is
<1>2. /\ record \in Records /\ Stage(adapter, record, q)
      /\ Settled = IF WritingOf(adapter, q) THEN q.old ELSE record
  BY <1>1, Working
<1>3. Settled = record
  BY <1>1, <1>2 DEF Stage
<1>4. CASE adapter.save = "each"
  <2> DEFINE g1 == WithPc(q, "save")
             g  == WithTodo(g1, q.keys)
  <2>1. call' = [call EXCEPT ![c] = g] /\ record' = record
    BY <1>4 DEF SaveAll, Goto, WithPc, WithTodo
  <2>2. g1 \in CallType /\ SameCall(g1, q) /\ g1.pc = "save" /\ g1.seen = q.seen
    BY PcFacts
  <2>3. q.keys \in SUBSET Key
    BY DEF CallType
  <2> HIDE DEF g1
  <2>4. g \in CallType /\ SameCall(g, g1) /\ g.pc = "save" /\ g.todo = q.keys
    BY <2>2, <2>3, TodoFacts
  <2> HIDE DEF g
  <2>5. /\ g.op = call[c].op /\ g.keys = call[c].keys /\ g.val = call[c].val /\ g.old = q.old
        /\ g.exp = call[c].exp /\ g.res = call[c].res /\ g.pc # "done" /\ call[c].pc # "done"
    BY <1>1, <2>2, <2>4 DEF SameCall
  <2>6. WritingOf(adapter, q) /\ q.old = record
    BY <1>1, <1>2, <1>4 DEF WritingOf, SeveralOf, Stage
  <2>7. Stage(adapter, record', g) /\ WritingOf(adapter, g)
    BY <1>1, <1>4, <2>1, <2>4, <2>5, <2>6 DEF Stage, Saved, WritingOf, SeveralOf
  <2>8. record' \in [Key -> Value \cup {None, Torn}] /\ record' \in Records
    BY <1>2, <2>1 DEF Records
  <2> QED
    BY <1>1, <1>3, <2>1, <2>4, <2>5, <2>6, <2>7, <2>8, Moving
<1>5. CASE adapter.save # "each"
  <2>1. PICK r : r = IF adapter.save = "replace" THEN Absent ELSE record
    OBVIOUS
  <2>2. /\ record' = [k \in Key |-> IF k \in q.keys THEN q.val ELSE r[k]]
        /\ Answer(c, "ok", Absent)
    BY <1>5, <2>1 DEF SaveAll, Write
  <2>3. r \in {Settled, Absent}
    BY <1>3, <2>1
  <2> QED
    BY <1>1, <1>2, <1>3, <2>2, <2>3, SaveEffect
<1> QED
  BY <1>4, <1>5

LEMMA SaveNextKeeps ==
    ASSUME IInv, NEW c \in Caller, SaveNext(c)
    PROVE  IInv' /\ [Contract!Next]_(Contract!vars)
<1> PICK q \in CallType : q = call[c]
  BY DEF IInv, TypeOK
<1>1. /\ q.op = "saveAll" /\ q.pc = "save" /\ call[c] # Idle /\ q.todo # {}
      /\ adapter' = adapter
  BY IdleFacts DEF SaveNext, Is
<1>2. /\ Asked(q) /\ record \in Records /\ Stage(adapter, record, q)
      /\ Settled = IF WritingOf(adapter, q) THEN q.old ELSE record
  BY <1>1, Working
<1>3. /\ adapter.save = "each" /\ q.todo \subseteq q.keys
      /\ \A k \in Key \ q.keys : record[k] = q.old[k]
      /\ \A k \in q.keys \ q.todo : record[k] = q.val
  BY <1>1, <1>2, SaveStage
<1>4. q.val \in Value /\ q.todo \in SUBSET Key /\ q.keys \in SUBSET Key
  BY <1>1, <1>2 DEF Asked, CallType
<1>5. PICK k \in q.todo : k = First(q.todo)
  BY <1>1, <1>4, FirstIsMember
<1> DEFINE g == WithTodo(q, q.todo \ {k})
<1>6. call' = [call EXCEPT ![c] = g] /\ record' = [record EXCEPT ![k] = q.val]
  BY <1>5 DEF SaveNext, Goto, WithTodo, Write, Only
<1>7. g \in CallType /\ SameCall(g, q) /\ g.pc = "save" /\ g.todo = q.todo \ {k}
  BY <1>1, <1>4, TodoFacts
<1> HIDE DEF g
<1>8. /\ g.op = call[c].op /\ g.keys = call[c].keys /\ g.val = call[c].val /\ g.old = q.old
      /\ g.exp = call[c].exp /\ g.res = call[c].res /\ g.pc # "done" /\ call[c].pc # "done"
  BY <1>1, <1>7 DEF SameCall
<1>9. record' \in Records /\ record' \in [Key -> Value \cup {None, Torn}]
  BY <1>2, <1>4, <1>5, <1>6 DEF Records
<1>10. /\ \A j \in Key \ g.keys : record'[j] = g.old[j]
       /\ \A j \in g.keys \ g.todo : record'[j] = g.val
       /\ g.todo \subseteq g.keys
  BY <1>2, <1>3, <1>4, <1>5, <1>6, <1>7, <1>8 DEF Records
<1>11. WritingOf(adapter, q) /\ WritingOf(adapter, g) /\ Stage(adapter, record', g)
  BY <1>1, <1>3, <1>7, <1>8, <1>10 DEF Stage, Saved, WritingOf, SeveralOf
<1>12. Settled = g.old
  BY <1>2, <1>8, <1>11
<1> QED
  BY <1>1, <1>6, <1>7, <1>8, <1>9, <1>11, <1>12, Moving

LEMMA SaveEndKeeps ==
    ASSUME IInv, NEW c \in Caller, SaveEnd(c)
    PROVE  IInv' /\ [Contract!Next]_(Contract!vars)
<1> PICK q \in CallType : q = call[c]
  BY DEF IInv, TypeOK
<1>1. q.op = "saveAll" /\ q.pc = "save" /\ call[c] # Idle
  BY IdleFacts DEF SaveEnd, Is
<1>2. /\ record \in Records /\ Stage(adapter, record, q)
      /\ Settled = IF WritingOf(adapter, q) THEN q.old ELSE record
  BY <1>1, Working
<1>3. /\ adapter.save = "each"
      /\ \A k \in Key \ q.keys : record[k] = q.old[k]
      /\ \A k \in q.keys \ q.todo : record[k] = q.val
  BY <1>1, <1>2, SaveStage
<1>4. Settled = q.old /\ q.old \in Records
  BY <1>1, <1>2, <1>3 DEF WritingOf, SeveralOf, CallType
<1>5. q.todo = {} /\ Answer(c, "ok", Absent) /\ UNCHANGED <<adapter, record>>
  BY DEF SaveEnd
<1>6. record' = [k \in Key |-> IF k \in q.keys THEN q.val ELSE q.old[k]]
  BY <1>2, <1>3, <1>5 DEF Records
<1>7. PICK r : r = Settled
  OBVIOUS
<1>8. record' = [k \in Key |-> IF k \in q.keys THEN q.val ELSE r[k]]
  BY <1>4, <1>6, <1>7
<1> QED
  BY <1>1, <1>4, <1>5, <1>7, <1>8, SaveEffect

(* Between two calls. *)
LEMMA IdlePromise == Promised(Idle) = Contract!Idle
<1>1. Idle.op = "none" /\ Idle.keys = {} /\ Idle.val = None /\ Idle.exp = None
      /\ Idle.pc # "done" /\ Idle.res = Says("none", Absent)
  BY DEF Idle
<1>2. Contract!Nothing = Says("none", Absent)
  BY DEF Contract!Nothing, Contract!Says, Contract!Absent, Says, Absent
<1> QED
  BY <1>1, <1>2 DEF Promised, Contract!Idle

(* Nobody writes: what is settled is what is stored. *)
LEMMA NoWriter ==
    ASSUME NEW a, NEW r, NEW k, \A d \in Caller : ~WritingOf(a, k[d])
    PROVE  SettledOf(a, r, k) = r
  BY DEF SettledOf

LEMMA ReturnKeeps ==
    ASSUME IInv, NEW c \in Caller, Return(c)
    PROVE  IInv' /\ [Contract!Next]_(Contract!vars)
<1>1. call[c].pc = "done" /\ call[c] # Idle /\ UNCHANGED <<adapter, record>>
  BY IdleFacts DEF Return
<1>2. call' = [call EXCEPT ![c] = Idle]
  BY DEF Return, Goto
<1>3. /\ call' \in [Caller -> CallType] /\ call'[c] = Idle
      /\ \A d \in Caller \ {c} : call'[d] = call[d]
  BY <1>2, IdleFacts DEF IInv, TypeOK
<1>4. \A d \in Caller \ {c} : ~SeveralOf(adapter, call[d]) /\ ~WritingOf(adapter, call[d])
  BY <1>1, Working
<1>5. \A d \in Caller : ~WritingOf(adapter, call[d]) /\ ~WritingOf(adapter', call'[d])
  BY <1>1, <1>3, <1>4, IdleFacts DEF WritingOf
<1>6. record \in Records
  BY <1>1, Working
<1>7. TypeOK' /\ Exclusive(adapter', call')
  BY <1>1, <1>3 DEF IInv, TypeOK, Exclusive
<1>8. ASSUME NEW d \in Caller
      PROVE  call'[d] = Idle \/ (Asked(call'[d]) /\ Stage(adapter', record', call'[d]))
  BY <1>1, <1>3 DEF IInv
<1>9. IInv'
  BY <1>1, <1>6, <1>7, <1>8 DEF IInv
<1>10. Settled = record /\ Settled' = record'
  <2>1. SettledOf(adapter, record, call) = record /\ SettledOf(adapter', record', call') = record'
    BY <1>5, NoWriter
  <2>2. Settled' = SettledOf(adapter', record', call')
    BY Same DEF Settled, SettledOf, Several, SeveralOf, Writing, WritingOf
  <2> QED
    BY <2>1, <2>2, Same
<1>11. Promises(call)' = [Promises(call) EXCEPT ![c] = Contract!Idle]
  BY <1>2, <1>3, IdlePromise DEF Promises
<1>12. /\ Promises(call) = [d \in Caller |-> Promised(call[d])]
       /\ Promises(call)' = [d \in Caller |-> Promised(call'[d])]
  BY DEF Promises, Promised
<1>13. Promised(call[c]).done
  BY <1>1 DEF Promised
<1>14. Contract!Return(c)
  BY <1>1, <1>10, <1>11, <1>12, <1>13 DEF Contract!Return
<1> QED
  BY <1>9, <1>14 DEF Contract!Next

LEMMA CrashKeeps ==
    ASSUME Uninterrupted, IInv, Crash
    PROVE  IInv' /\ [Contract!Next]_(Contract!vars)
<1>1. /\ \A d \in Caller : ~SeveralOf(adapter, call[d])
      /\ call' = [d \in Caller |-> Idle] /\ UNCHANGED <<adapter, record>>
  BY Same DEF Crash, Uninterrupted
<1>2. \A d \in Caller : ~WritingOf(adapter, call[d]) /\ ~WritingOf(adapter', call'[d])
  BY <1>1, IdleFacts DEF WritingOf
<1>3. record \in Records
  <2>1. ASSUME NEW d \in Caller, call[d].pc = "content" PROVE FALSE
    BY <1>1, <2>1, IdleFacts DEF IInv, Stage, SeveralOf
  <2> QED
    BY <2>1 DEF IInv
<1>4. IInv'
  BY <1>1, <1>3, IdleFacts DEF IInv, TypeOK, Exclusive
<1>5. Settled = record /\ Settled' = record'
  <2>1. SettledOf(adapter, record, call) = record /\ SettledOf(adapter', record', call') = record'
    BY <1>2, NoWriter
  <2>2. Settled' = SettledOf(adapter', record', call')
    BY Same DEF Settled, SettledOf, Several, SeveralOf, Writing, WritingOf
  <2> QED
    BY <2>1, <2>2, Same
<1>6. Promises(call)' = [d \in Caller |-> Contract!Idle]
  BY <1>1, IdlePromise DEF Promises
<1>7. Promises(call)' = [d \in Caller |-> Promised(call'[d])]
  BY DEF Promises, Promised
<1>8. Contract!Crash
  BY <1>1, <1>5, <1>6, <1>7 DEF Contract!Crash
<1> QED
  BY <1>4, <1>8 DEF Contract!Next

(* A page changes neither the records nor the calls. *)
LEMMA OtherKeeps ==
    ASSUME IInv, UNCHANGED <<adapter, record, call>>
    PROVE  IInv' /\ [Contract!Next]_(Contract!vars)
<1>1. IInv'
  BY DEF IInv, TypeOK
<1>2. Settled' = Settled
  BY DEF Settled, Writing, Several
<1>3. [c \in Caller |-> Promised(call[c])]' = [c \in Caller |-> Promised(call[c])]
  BY DEF Promised
<1> QED
  BY <1>1, <1>2, <1>3 DEF Contract!vars

(* A call that begins. *)
Started(q, s) ==
    [Idle EXCEPT !.op = q.op, !.keys = q.keys, !.val = q.val, !.exp = q.exp, !.pc = "start",
                 !.old = s]

LEMMA OperationFacts ==
    ASSUME NEW q \in Operations
    PROVE  /\ q.op \in {"get", "put", "delete", "loadAll", "saveAll"} /\ q.keys \in SUBSET Key
           /\ q.val \in Value \cup {None} /\ q.exp \in Value \cup {None} /\ Asked(q)
<1>1. CASE q \in [op : {"get", "delete"}, keys : {{k} : k \in Key}, val : {None}, exp : {None}]
  BY <1>1 DEF Asked
<1>2. CASE q \in [op : {"put"}, keys : {{k} : k \in Key}, val : Value, exp : Value \cup {None}]
  BY <1>2 DEF Asked
<1>3. CASE q \in [op : {"loadAll"}, keys : {Key}, val : {None}, exp : {None}]
  BY <1>3 DEF Asked
<1>4. CASE q \in [op : {"saveAll"}, keys : SUBSET Key, val : Value, exp : {None}]
  BY <1>4 DEF Asked
<1> QED
  BY <1>1, <1>2, <1>3, <1>4 DEF Operations

LEMMA StartedFacts ==
    ASSUME NEW q \in Operations, NEW s \in Records
    PROVE  LET g == Started(q, s) IN
           /\ g \in CallType /\ g.op = q.op /\ g.keys = q.keys /\ g.val = q.val /\ g.exp = q.exp
           /\ g.pc = "start" /\ g.old = s /\ g.seen = Absent /\ g.res = Says("none", Absent)
           /\ Asked(g)
<1> DEFINE g1 == [Idle EXCEPT !.op = q.op]
           g2 == [g1 EXCEPT !.keys = q.keys]
           g3 == [g2 EXCEPT !.val = q.val]
           g4 == [g3 EXCEPT !.exp = q.exp]
           g5 == [g4 EXCEPT !.pc = "start"]
           g  == [g5 EXCEPT !.old = s]
<1>0. Started(q, s) = g
  BY DEF Started
<1>1. Idle \in CallType /\ Idle.seen = Absent /\ Idle.res = Says("none", Absent)
  BY IdleFacts DEF Idle
<1>2. g1 \in CallType /\ g1.op = q.op /\ g1.seen = Absent /\ g1.res = Says("none", Absent)
  BY <1>1, OperationFacts DEF CallType
<1> HIDE DEF g1
<1>3. /\ g2 \in CallType /\ g2.op = q.op /\ g2.seen = Absent /\ g2.res = Says("none", Absent)
      /\ g2.keys = q.keys
  BY <1>2, OperationFacts DEF CallType
<1> HIDE DEF g2
<1>4. /\ g3 \in CallType /\ g3.op = q.op /\ g3.seen = Absent /\ g3.res = Says("none", Absent)
      /\ g3.keys = q.keys /\ g3.val = q.val
  BY <1>3, OperationFacts DEF CallType
<1> HIDE DEF g3
<1>5. /\ g4 \in CallType /\ g4.op = q.op /\ g4.seen = Absent /\ g4.res = Says("none", Absent)
      /\ g4.keys = q.keys /\ g4.val = q.val /\ g4.exp = q.exp
  BY <1>4, OperationFacts DEF CallType
<1> HIDE DEF g4
<1>6. /\ g5 \in CallType /\ g5.op = q.op /\ g5.seen = Absent /\ g5.res = Says("none", Absent)
      /\ g5.keys = q.keys /\ g5.val = q.val /\ g5.exp = q.exp /\ g5.pc = "start"
  BY <1>5 DEF CallType
<1> HIDE DEF g5
<1>7. /\ g \in CallType /\ g.op = q.op /\ g.seen = Absent /\ g.res = Says("none", Absent)
      /\ g.keys = q.keys /\ g.val = q.val /\ g.exp = q.exp /\ g.pc = "start" /\ g.old = s
  BY <1>6 DEF CallType
<1> HIDE DEF g
<1>8. Asked(g)
  BY <1>7, OperationFacts DEF Asked
<1> QED
  BY <1>0, <1>7, <1>8

(* What is asked of the adapter may be asked of the contract. *)
LEMMA StartedPromise ==
    ASSUME NEW g \in CallType, Asked(g), g.pc = "start", g.res = Says("none", Absent)
    PROVE  Promised(g) \in Contract!Operation
<1> DEFINE v == IF g.op \in {"put", "saveAll", "none"} THEN g.val ELSE CHOOSE w \in Value : TRUE
           p == Promised(g)
           N == Contract!Nothing
           R == [op : {"get", "put", "delete", "loadAll", "saveAll"}, keys : SUBSET Key,
                 val : Value, exp : Value \cup {None}, done : {FALSE}, res : {N}]
<1>1. v \in Value
  BY AdapterAssumption DEF Asked
<1>2. N = Says("none", Absent)
  BY DEF Contract!Nothing, Contract!Says, Contract!Absent, Says, Absent
<1>3. (g.pc = "done") = FALSE
  OBVIOUS
<1>4. p = Promise(g.op, g.keys, v, g.exp, g.pc = "done", g.res)
  BY DEF Promised, Promise
<1> HIDE DEF v, N
<1>5. Promise(g.op, g.keys, v, g.exp, g.pc = "done", g.res) \in R
  BY <1>1, <1>2, <1>3 DEF Promise, Asked, CallType
<1>6. p.op = g.op /\ p.keys = g.keys
  BY DEF Promised
<1>7. CASE p.op = "loadAll"
  BY <1>4, <1>5, <1>6, <1>7 DEF Contract!Operation, Asked, N
<1>8. CASE p.op = "saveAll"
  BY <1>4, <1>5, <1>6, <1>8 DEF Contract!Operation, Asked, N
<1>9. CASE p.op \notin {"loadAll", "saveAll"}
  BY <1>4, <1>5, <1>6, <1>9 DEF Contract!Operation, Asked, N
<1> QED
  BY <1>7, <1>8, <1>9

LEMMA InvokeKeeps ==
    ASSUME Uninterrupted, IInv, NEW c \in Caller, Invoke(c)
    PROVE  IInv' /\ [Contract!Next]_(Contract!vars)
<1> PICK q \in Operations :
        /\ \A d \in Caller : call[d] = Idle
               \/ ~(SeveralOf(adapter, call[d]) \/ SeveralOf(adapter, q))
        /\ call' = [call EXCEPT ![c] = Started(q, IF SeveralOf(adapter, q) THEN record ELSE Absent)]
  BY Same DEF Invoke, Goto, Uninterrupted, Started
<1> DEFINE s == IF SeveralOf(adapter, q) THEN record ELSE Absent
           g == Started(q, s)
<1>1. call[c] = Idle /\ UNCHANGED <<adapter, record>>
  BY DEF Invoke
<1>2. SeveralOf(adapter, q) => \A d \in Caller : call[d] = Idle
  OBVIOUS
<1>3. \A d \in Caller : ~SeveralOf(adapter, call[d]) /\ ~WritingOf(adapter, call[d])
  BY IdleFacts DEF WritingOf
<1>4. SeveralOf(adapter, q) => record \in Records
  BY <1>2, IdleFacts DEF IInv
<1>5. s \in Records
  BY <1>4 DEF Absent, Records
<1> HIDE DEF s
<1>6. /\ g \in CallType /\ g.op = q.op /\ g.keys = q.keys /\ g.val = q.val /\ g.exp = q.exp
      /\ g.pc = "start" /\ g.old = s /\ g.seen = Absent /\ g.res = Says("none", Absent)
      /\ Asked(g)
  BY <1>5, StartedFacts
<1>7. call' = [call EXCEPT ![c] = g]
  BY DEF s
<1> HIDE DEF g
<1>8. SeveralOf(adapter, g) = SeveralOf(adapter, q)
  BY <1>6 DEF SeveralOf
<1>9. /\ call' \in [Caller -> CallType] /\ call'[c] = g
      /\ \A d \in Caller \ {c} : call'[d] = call[d]
  BY <1>6, <1>7 DEF IInv, TypeOK
<1>10. WritingOf(adapter, g) => g.old = record
  BY <1>6, <1>8 DEF s, WritingOf
<1>11. Stage(adapter, record, g)
  BY <1>6, <1>10 DEF Stage
<1>12. TypeOK' /\ Exclusive(adapter', call')
  BY <1>1, <1>2, <1>3, <1>8, <1>9 DEF IInv, TypeOK, Exclusive
<1>13. ASSUME NEW d \in Caller
       PROVE  call'[d] = Idle \/ (Asked(call'[d]) /\ Stage(adapter', record', call'[d]))
  BY <1>1, <1>6, <1>9, <1>11 DEF IInv
<1>14. record' \in Records \/ \E d \in Caller : call'[d].pc = "content"
  BY <1>1, <1>9, IdleFacts DEF IInv
<1>15. IInv'
  BY <1>12, <1>13, <1>14 DEF IInv
<1>16. Settled = record /\ Settled' = record
  <2>1. SettledOf(adapter, record, call) = record
    BY <1>3, NoWriter
  <2>2. \A d \in Caller \ {c} : ~WritingOf(adapter', call'[d])
    BY <1>1, <1>3, <1>9
  <2>3. SettledOf(adapter', record', call') =
          IF WritingOf(adapter', call'[c]) THEN call'[c].old ELSE record'
    <3>1. PICK a, r, k : a = adapter' /\ r = record' /\ k = call'
      OBVIOUS
    <3>2. \A d \in Caller \ {c} : ~WritingOf(a, k[d])
      BY <2>2, <3>1
    <3>3. SettledOf(a, r, k) = IF WritingOf(a, k[c]) THEN k[c].old ELSE r
      BY <3>2, SettledFacts
    <3> QED
      BY <3>1, <3>3
  <2>4. Settled' = SettledOf(adapter', record', call')
    BY Same DEF Settled, SettledOf, Several, SeveralOf, Writing, WritingOf
  <2> QED
    BY <1>1, <1>9, <1>10, <2>1, <2>3, <2>4, Same
<1>17. Promises(call)' = [Promises(call) EXCEPT ![c] = Promised(g)]
  BY <1>9 DEF Promises
<1>18. /\ Promises(call) = [d \in Caller |-> Promised(call[d])]
       /\ Promises(call)' = [d \in Caller |-> Promised(call'[d])]
  BY DEF Promises, Promised
<1>19. /\ [d \in Caller |-> Promised(call[d])][c] = Contract!Idle
       /\ [d \in Caller |-> Promised(call'[d])][c] = Promised(g)
  BY <1>1, <1>9, IdlePromise
<1>20. Promised(g) \in Contract!Operation
  BY <1>6, StartedPromise
<1>21. Contract!Invoke(c)
  BY <1>16, <1>17, <1>18, <1>19, <1>20 DEF Contract!Invoke
<1> QED
  BY <1>15, <1>21 DEF Contract!Next

-----------------------------------------------------------------------------
LEMMA InitKeeps ==
    ASSUME Init
    PROVE  IInv /\ Contract!Init
<1>1. Absent \in Records
  BY DEF Absent, Records
<1>2. IInv
  BY <1>1, IdleFacts DEF Init, IInv, TypeOK, Exclusive, Records
<1>3. Settled = record
  <2>1. \A d \in Caller : ~WritingOf(adapter, call[d])
    BY IdleFacts DEF Init
  <2> QED
    BY <2>1, NoWriter, Same
<1>4. [d \in Caller |-> Promised(call[d])] = [d \in Caller |-> Contract!Idle]
  BY IdlePromise DEF Init
<1>5. Settled \in [Key -> Value \cup {None}]
  BY <1>1, <1>3 DEF Init, Records
<1> QED
  BY <1>2, <1>4, <1>5 DEF Contract!Init

LEMMA NextKeeps ==
    ASSUME Uninterrupted, OneListing, IInv, [Next]_vars
    PROVE  IInv' /\ [Contract!Next]_(Contract!vars)
<1>1. CASE \E c \in Caller : Invoke(c)
  BY <1>1, InvokeKeeps
<1>2. CASE \E c \in Caller : Return(c)
  BY <1>2, ReturnKeeps
<1>3. CASE \E c \in Caller : Handle(c)
  <2> PICK c \in Caller : Handle(c)
    BY <1>3
  <2>1. CASE Get(c) \/ Delete(c)
    BY <2>1, GetKeeps, DeleteKeeps
  <2>2. CASE PutCheck(c) \/ PutWrite(c) \/ PutContent(c)
    BY <2>2, PutCheckKeeps, PutWriteKeeps, PutContentKeeps
  <2>3. CASE LoadAll(c) \/ LoadNext(c) \/ LoadEnd(c)
    BY <2>3, LoadAllKeeps, LoadNextKeeps, LoadEndKeeps
  <2>4. CASE SaveAll(c) \/ SaveNext(c) \/ SaveEnd(c)
    BY <2>4, SaveAllKeeps, SaveNextKeeps, SaveEndKeeps
  <2> QED
    BY <2>1, <2>2, <2>3, <2>4 DEF Handle
<1>4. CASE ScanStart \/ ScanPage \/ ScanEnd \/ UNCHANGED vars
  BY <1>4, OtherKeeps DEF ScanStart, ScanPage, ScanEnd, vars
<1>5. CASE Crash
  BY <1>5, CrashKeeps
<1> QED
  BY <1>1, <1>2, <1>3, <1>4, <1>5 DEF Next

(* Every adapter (packages/to-...) implements the contract that its callers rely on, as *)
(* long as the operations it carries out in several steps run alone and to their end,  *)
(* and one listing of DynamoDB or S3 returns the whole collection.                     *)
THEOREM AdaptersKeepContract ==
    ASSUME Uninterrupted, OneListing
    PROVE  Spec => KeepsContract
<1>1. Init => IInv /\ Contract!Init
  BY InitKeeps
<1>2. IInv /\ [Next]_vars => IInv' /\ [Contract!Next]_(Contract!vars)
  BY NextKeeps
<1> QED
  BY <1>1, <1>2, PTL DEF Spec, KeepsContract, Contract!Spec
-----------------------------------------------------------------------------
(***************************************************************************)
(* BlobSet: whatever the records, slots, contents and labels are, and      *)
(* however many calls overlap and end half way, the count of a content     *)
(* covers what names it, and what is named can be read.                    *)
(***************************************************************************)
(* What the callers do not do: BlobSet lists what goes wrong otherwise.    *)
BlobsApart ==
    "firstUpload" \notin BlobAllowed /\ "firstSlot" \notin BlobAllowed /\ "sameLabel" \notin BlobAllowed
    /\ "publishCut" \notin BlobAllowed /\ "sharedHandle" \notin BlobAllowed

TagOrNone == ETag \cup {None}
BlobCallType ==
    [op : {"none", "put", "delete", "publish", "deleteVersion", "get"},
     pc : {"idle", "lookup", "chunk", "index", "refLoad", "refStore", "slotLoad", "slotStore",
           "verLoad", "verStore", "getIndex", "getChunk", "missing"},
     rec : Record \cup {None}, slot : Slot \cup {None}, label : Label \cup {None}, tag : TagOrNone,
     count : Nat, delta : {0, 1}, ver : Nat, seen : [Slot -> TagOrNone], ref : Int, old : TagOrNone, tries : Nat]
IndexEntry == [ver : Nat, ref : Int, count : Nat]
BlobTypeOK ==
    /\ index \in [ETag -> IndexEntry]
    /\ chunk \in [ETag -> [1..2 -> Nat]]
    /\ slots \in [Record -> [ver : Nat, map : [Slot -> TagOrNone]]]
    /\ published \in [Record -> [Slot -> [Label -> TagOrNone]]]
    /\ deferred \in [Caller -> TagOrNone]
    /\ blobCall \in [Caller -> BlobCallType]
    /\ contested \in BOOLEAN

\* The contents that have an index entry.
Indexed(ix) == {e \in ETag : ix[e].ver # 0}
Uploading(k) == k.pc \in {"lookup", "chunk", "index"}
Counting(k) == k.pc \in {"refLoad", "refStore"}
Labelling(k) == k.op \in {"publish", "deleteVersion"}

\* What a call carries fits its operation.
Shape(k) ==
    /\ k.pc = "idle" <=> k.op = "none"
    /\ k.op = "none" => k = Blobs!Idle
    /\ k.op # "none" => k.rec \in Record /\ k.slot \in Slot
    /\ Labelling(k) => k.label \in Label
    /\ Uploading(k) => k.op = "put" /\ k.tag \in ETag /\ k.delta = 1 /\ k.count \in Counts
    /\ Counting(k) => k.op # "get" /\ k.tag \in ETag /\ k.tries \in 1..MaxTries
    /\ Counting(k) /\ k.delta = 1 => k.op \in {"put", "publish"}
    /\ k.pc = "slotLoad" => k.op \in {"put", "delete", "publish", "get"}
    /\ k.pc = "slotStore" => k.op \in {"put", "delete"}
    /\ k.pc \in {"slotLoad", "slotStore"} /\ k.op = "put" => k.tag \in ETag /\ k.delta = 1
    /\ k.pc \in {"verLoad", "verStore"} /\ k.op = "publish" => k.tag \in ETag
    /\ k.op = "deleteVersion" /\ k.pc \in {"verLoad", "verStore"} => k.tag = None
    /\ k.pc = "verLoad" => Labelling(k) \/ (k.op = "get" /\ k.label \in Label)
    /\ k.pc = "verStore" => Labelling(k)
    /\ k.pc \in {"getIndex", "getChunk"} => k.tag \in ETag /\ k.op = "get"
    /\ k.pc # "missing"

\* Whatever is named has an entry, and an entry its chunks.
Names(ix, sl, pu, def) ==
    /\ \A r \in Record : \A s \in Slot : sl[r].map[s] \in Indexed(ix) \cup {None}
    /\ \A r \in Record : \A s \in Slot : \A l \in Label : pu[r][s][l] \in Indexed(ix) \cup {None}
    /\ \A c \in Caller : def[c] \in Indexed(ix) \cup {None}
Carries(k, ix) ==
    /\ k.tag \in Indexed(ix) \cup {None} \/ Uploading(k)
    /\ k.old \in Indexed(ix) \cup {None}
    /\ \A s \in Slot : k.seen[s] \in Indexed(ix) \cup {None}
Whole(ix, ch) == \A e \in Indexed(ix) : ix[e].count \in Counts /\ \A i \in 1..ix[e].count : ch[e][i] = ix[e].count

\* How far an upload has come, and a get.
Uploaded(k, ix, ch) ==
    /\ k.pc \in {"chunk", "index"} => ix[k.tag].ver = 0
    /\ k.pc = "chunk" => k.tries \in 1..k.count /\ \A i \in 1..(k.tries - 1) : ch[k.tag][i] = k.count
    /\ k.pc = "index" => \A i \in 1..k.count : ch[k.tag][i] = k.count
    /\ k.pc = "getChunk" => k.tries \in 1..k.count /\ k.count = ix[k.tag].count

\* What was read, as long as the version is the same.
ReadRef(k, ix) ==
    k.pc = "refStore" =>
        k.ver \in 1..ix[k.tag].ver /\ (k.ver = ix[k.tag].ver => k.ref = ix[k.tag].ref)
ReadSlots(k, sl) ==
    k.pc = "slotStore" =>
        /\ k.ver \in 0..sl[k.rec].ver
        /\ k.ver = 0 => sl[k.rec].ver = 0
        /\ k.ver = sl[k.rec].ver =>
             k.seen = [sl[k.rec].map EXCEPT ![k.slot] = IF k.op = "put" THEN k.tag ELSE None]
ReadLabel(k, pu) == k.pc = "verStore" => pu[k.rec][k.slot][k.label] = k.old /\ k.old # k.tag

\* What a put or delete will take the count of, while no write of slots was refused.
Replaces(k, d, sl) ==
    /\ k.pc = "slotStore" /\ k.op = "put" =>
          (k.ver = sl[k.rec].ver =>
             LET has == sl[k.rec].map[k.slot] IN d = IF has = k.tag THEN None ELSE has)
    /\ ~(k.pc = "slotStore" /\ k.op = "put") => d = None
    /\ k.pc = "slotStore" /\ k.op = "delete" =>
          (k.ver = sl[k.rec].ver => k.old = sl[k.rec].map[k.slot] /\ k.old # None)
    /\ k.pc = "slotLoad" => k.old = None
    /\ k.op = "put" => k.old = IF k.pc = "slotStore" THEN d ELSE None

\* One call at a time: the first upload of a content, the first call of a record, a label.
Apart(k, m, ix, sl) ==
    /\ k.tag = m.tag /\ k.tag \in ETag => k.tag \in Indexed(ix)
    /\ k.rec = m.rec /\ k.rec \in Record => sl[k.rec].ver # 0
    /\ ~(Labelling(k) /\ Labelling(m) /\ k.rec = m.rec /\ k.slot = m.slot /\ k.label = m.label)

\* The calls that have named e and not counted it, and those that have counted it and do not name it.
Owes(k, e) == k.op = "publish" /\ Counting(k) /\ k.delta = 1 /\ k.tag = e
Holds(k, e) ==
    \/ k.op = "put" /\ k.pc \in {"slotLoad", "slotStore"} /\ k.tag = e
    \/ Counting(k) /\ k.delta = 0 /\ k.tag = e
    \/ k.op = "publish" /\ Counting(k) /\ k.delta = 1 /\ k.old = e

SlotsOf(sl, e) == {x \in Record \X Slot : sl[x[1]].map[x[2]] = e}
VersionsOf(pu, e) == {x \in Record \X Slot \X Label : pu[x[1]][x[2]][x[3]] = e}
Owing(f, e) == {c \in Caller : Owes(f[c], e)}
Holding(f, e) == {c \in Caller : Holds(f[c], e)}
Covered(ix, sl, pu, f, e) ==
    ix[e].ref + Cardinality(Owing(f, e))
        >= Cardinality(SlotsOf(sl, e)) + Cardinality(VersionsOf(pu, e)) + Cardinality(Holding(f, e))

Fits(k, d, ix, ch, sl, pu, spoilt) ==
    /\ Shape(k) /\ Carries(k, ix) /\ Uploaded(k, ix, ch)
    /\ ReadRef(k, ix) /\ ReadSlots(k, sl) /\ ReadLabel(k, pu)
    /\ spoilt = FALSE => Replaces(k, d, sl)
Blank(ix) == \A e \in ETag : ix[e].ver = 0 => ix[e].ref = 0

Books ==
    /\ BlobTypeOK
    /\ Blank(index) /\ Names(index, slots, published, deferred)
    /\ Whole(index, chunk) /\ \A b, c \in Caller : b # c => Apart(blobCall[b], blobCall[c], index, slots)
    /\ \A c \in Caller : Fits(blobCall[c], deferred[c], index, chunk, slots, published, contested)
    /\ contested = FALSE => \A e \in ETag : Covered(index, slots, published, blobCall, e)

(***************************************************************************)
(* Counting: one element more or less.                                    *)
(***************************************************************************)
Bit(x, S) == IF x \in S THEN 1 ELSE 0
LEMMA OneChanges ==
    ASSUME NEW S, NEW T, NEW x, IsFiniteSet(S), IsFiniteSet(T), S \ {x} = T \ {x}
    PROVE  Cardinality(T) - Bit(x, T) = Cardinality(S) - Bit(x, S)
<1>1. Cardinality(S \ {x}) = Cardinality(S) - Bit(x, S)
  BY FS_RemoveElement, FS_CardinalityType DEF Bit
<1>2. Cardinality(T \ {x}) = Cardinality(T) - Bit(x, T)
  BY FS_RemoveElement, FS_CardinalityType DEF Bit
<1> QED BY <1>1, <1>2

\* Finiteness, in the module and in its instance.
LEMMA SameFinite == \A S : Blobs!IsFiniteSet(S) <=> IsFiniteSet(S)
  BY DEF Blobs!IsFiniteSet, IsFiniteSet
LEMMA SameCount == \A S : Blobs!Cardinality(S) = Cardinality(S)
  BY DEF Blobs!Cardinality, Cardinality, Blobs!IsFiniteSet, IsFiniteSet
LEMMA InstanceFinite ==
    ASSUME Blobs!BlobAssumption
    PROVE  IsFiniteSet(Caller) /\ IsFiniteSet(Record) /\ IsFiniteSet(Slot) /\ IsFiniteSet(Label)
  BY SameFinite DEF Blobs!BlobAssumption

LEMMA CallsFinite ==
    ASSUME Blobs!BlobAssumption, NEW f, NEW e
    PROVE  /\ IsFiniteSet(Owing(f, e)) /\ IsFiniteSet(Holding(f, e))
           /\ Cardinality(Owing(f, e)) \in Nat /\ Cardinality(Holding(f, e)) \in Nat
  BY InstanceFinite, FS_Subset, FS_CardinalityType DEF Owing, Holding
LEMMA NamesFinite ==
    ASSUME Blobs!BlobAssumption, NEW sl, NEW pu, NEW e
    PROVE  /\ IsFiniteSet(SlotsOf(sl, e)) /\ IsFiniteSet(VersionsOf(pu, e))
           /\ Cardinality(SlotsOf(sl, e)) \in Nat /\ Cardinality(VersionsOf(pu, e)) \in Nat
<1>1. IsFiniteSet(Record \X Slot)
  BY InstanceFinite, FS_Product
<1>2. IsFiniteSet((Record \X Slot) \X Label)
  BY <1>1, InstanceFinite, FS_Product
<1>3. IsFiniteSet(Record \X Slot \X Label)
  <2> DEFINE P == (Record \X Slot) \X Label
             T == Record \X Slot \X Label
             F == [y \in P |-> <<y[1][1], y[1][2], y[2]>>]
  <2>1. \A y \in P : <<y[1][1], y[1][2], y[2]>> \in T
    OBVIOUS
  <2>2. \A t \in T : \E y \in P : F[y] = t
    <3> SUFFICES ASSUME NEW t \in T PROVE \E y \in P : F[y] = t
      OBVIOUS
    <3>1. PICK r \in Record, s \in Slot, l \in Label : t = <<r, s, l>>
      OBVIOUS
    <3>2. PICK y : y = <<<<r, s>>, l>>
      OBVIOUS
    <3>3. y \in P /\ y[1] = <<r, s>> /\ y[2] = l /\ y[1][1] = r /\ y[1][2] = s
      BY <3>2
    <3> QED BY <3>1, <3>3
  <2>3. F \in Surjection(P, T)
    BY <2>1, <2>2, Zenon DEF Surjection
  <2> QED BY <1>2, <2>3, FS_Surjection
<1> QED BY <1>1, <1>3, FS_Subset, FS_CardinalityType DEF SlotsOf, VersionsOf

Recount(f, g, k, m, e) ==
    /\ Cardinality(Owing(g, e)) - (IF Owes(m, e) THEN 1 ELSE 0)
         = Cardinality(Owing(f, e)) - (IF Owes(k, e) THEN 1 ELSE 0)
    /\ Cardinality(Holding(g, e)) - (IF Holds(m, e) THEN 1 ELSE 0)
         = Cardinality(Holding(f, e)) - (IF Holds(k, e) THEN 1 ELSE 0)
\* A call becomes m: how many owe and hold changes by that call's share.
LEMMA Recounted ==
    ASSUME Blobs!BlobAssumption, NEW f, NEW g, NEW c \in Caller, NEW m, NEW e,
           f \in [Caller -> BlobCallType], g = [f EXCEPT ![c] = m]
    PROVE  Recount(f, g, f[c], m, e)
<1>1. g[c] = m /\ \A b \in Caller \ {c} : g[b] = f[b]
  OBVIOUS
<1>2. Owing(g, e) \ {c} = Owing(f, e) \ {c} /\ Holding(g, e) \ {c} = Holding(f, e) \ {c}
  BY <1>1, Zenon DEF Owing, Holding
<1>3. /\ c \in Owing(g, e) <=> Owes(m, e)
      /\ c \in Owing(f, e) <=> Owes(f[c], e)
      /\ c \in Holding(g, e) <=> Holds(m, e)
      /\ c \in Holding(f, e) <=> Holds(f[c], e)
  BY <1>1, Zenon DEF Owing, Holding
<1>4. /\ Cardinality(Owing(g, e)) - Bit(c, Owing(g, e)) = Cardinality(Owing(f, e)) - Bit(c, Owing(f, e))
      /\ Cardinality(Holding(g, e)) - Bit(c, Holding(g, e)) = Cardinality(Holding(f, e)) - Bit(c, Holding(f, e))
  BY <1>2, CallsFinite, OneChanges
<1> HIDE DEF Owes, Holds
<1> QED BY <1>3, <1>4 DEF Bit, Recount

\* One name less for od, one more for nw.
Exchange(a, b, nw, od, e) == a - (IF nw = e THEN 1 ELSE 0) = b - (IF od = e THEN 1 ELSE 0)
\* A slot, and a version, becomes n.
LEMMA SlotRecounted ==
    ASSUME Blobs!BlobAssumption, NEW sl, NEW q, NEW r \in Record, NEW s \in Slot, NEW n, NEW v, NEW e,
           sl \in [Record -> [ver : Nat, map : [Slot -> TagOrNone]]],
           q = [sl EXCEPT ![r] = [ver |-> v, map |-> [sl[r].map EXCEPT ![s] = n]]]
    PROVE  Exchange(Cardinality(SlotsOf(q, e)), Cardinality(SlotsOf(sl, e)), n, sl[r].map[s], e)
<1> DEFINE x == <<r, s>>
<1>1. /\ q[r].map[s] = n
      /\ \A t \in Slot \ {s} : q[r].map[t] = sl[r].map[t]
      /\ \A p \in Record \ {r} : q[p] = sl[p]
  OBVIOUS
<1>2. \A y \in Record \X Slot : y # x => (q[y[1]].map[y[2]] = sl[y[1]].map[y[2]])
  <2> SUFFICES ASSUME NEW p \in Record, NEW t \in Slot, <<p, t>> # x
               PROVE  q[p].map[t] = sl[p].map[t]
    OBVIOUS
  <2>1. p # r \/ t # s
    OBVIOUS
  <2> QED BY <1>1, <2>1
<1>3. SlotsOf(q, e) \ {x} = SlotsOf(sl, e) \ {x}
  BY <1>2 DEF SlotsOf
<1>4. (x \in SlotsOf(q, e) <=> n = e) /\ (x \in SlotsOf(sl, e) <=> sl[r].map[s] = e)
  BY <1>1 DEF SlotsOf
<1>5. Cardinality(SlotsOf(q, e)) - Bit(x, SlotsOf(q, e)) = Cardinality(SlotsOf(sl, e)) - Bit(x, SlotsOf(sl, e))
  <2>1. IsFiniteSet(SlotsOf(q, e)) /\ IsFiniteSet(SlotsOf(sl, e))
    BY NamesFinite
  <2> HIDE DEF SlotsOf, x
  <2> QED BY <1>3, <2>1, OneChanges
<1> QED BY <1>4, <1>5 DEF Bit, Exchange

LEMMA VersionRecounted ==
    ASSUME Blobs!BlobAssumption, NEW pu, NEW q, NEW r \in Record, NEW s \in Slot, NEW l \in Label, NEW n, NEW e,
           pu \in [Record -> [Slot -> [Label -> TagOrNone]]],
           q = [pu EXCEPT ![r][s][l] = n]
    PROVE  Exchange(Cardinality(VersionsOf(q, e)), Cardinality(VersionsOf(pu, e)), n, pu[r][s][l], e)
<1> DEFINE x == <<r, s, l>>
<1>1. /\ q[r][s][l] = n
      /\ \A p \in Record : \A t \in Slot : \A u \in Label :
            (p # r \/ t # s \/ u # l) => q[p][t][u] = pu[p][t][u]
  OBVIOUS
<1>2. \A y \in Record \X Slot \X Label : y # x => q[y[1]][y[2]][y[3]] = pu[y[1]][y[2]][y[3]]
  <2> SUFFICES ASSUME NEW p \in Record, NEW t \in Slot, NEW u \in Label, <<p, t, u>> # x
               PROVE  q[p][t][u] = pu[p][t][u]
    OBVIOUS
  <2>1. p # r \/ t # s \/ u # l
    OBVIOUS
  <2> QED BY <1>1, <2>1
<1>3. VersionsOf(q, e) \ {x} = VersionsOf(pu, e) \ {x}
  BY <1>2 DEF VersionsOf
<1>4. (x \in VersionsOf(q, e) <=> n = e) /\ (x \in VersionsOf(pu, e) <=> pu[r][s][l] = e)
  BY <1>1 DEF VersionsOf
<1>5. Cardinality(VersionsOf(q, e)) - Bit(x, VersionsOf(q, e))
        = Cardinality(VersionsOf(pu, e)) - Bit(x, VersionsOf(pu, e))
  <2>1. IsFiniteSet(VersionsOf(q, e)) /\ IsFiniteSet(VersionsOf(pu, e))
    BY NamesFinite
  <2> HIDE DEF VersionsOf, x
  <2> QED BY <1>3, <2>1, OneChanges
<1> QED BY <1>4, <1>5 DEF Bit, Exchange

-----------------------------------------------------------------------------
(***************************************************************************)
(* A step: call c becomes m, the store what it then is; the other calls    *)
(* still fit it.                                                           *)
(***************************************************************************)
LEMMA Becomes ==
    ASSUME Books, NEW c \in Caller, NEW m \in BlobCallType, NEW d \in TagOrNone,
           blobCall' = [blobCall EXCEPT ![c] = m], deferred' = [deferred EXCEPT ![c] = d],
           index' \in [ETag -> IndexEntry], chunk' \in [ETag -> [1..2 -> Nat]],
           slots' \in [Record -> [ver : Nat, map : [Slot -> TagOrNone]]],
           published' \in [Record -> [Slot -> [Label -> TagOrNone]]],
           contested' \in BOOLEAN, contested' = FALSE => contested = FALSE,
           BlobsApart,
           Blank(index'), Names(index', slots', published', deferred'), Whole(index', chunk'),
           Indexed(index) \subseteq Indexed(index'),
           \A r \in Record : slots[r].ver # 0 => slots'[r].ver # 0,
           Fits(m, d, index', chunk', slots', published', contested'),
           \A b \in Caller : b # c =>
               /\ Apart(m, blobCall[b], index', slots')
               /\ Fits(blobCall[b], deferred[b], index', chunk', slots', published', contested'),
           contested' = FALSE => \A e \in ETag : Covered(index', slots', published', blobCall', e)
    PROVE  Books'
<1>1. blobCall \in [Caller -> BlobCallType] /\ deferred \in [Caller -> TagOrNone]
  BY DEF Books, BlobTypeOK
<1>2. blobCall' \in [Caller -> BlobCallType] /\ deferred' \in [Caller -> TagOrNone]
      /\ blobCall'[c] = m /\ deferred'[c] = d
      /\ \A b \in Caller : b # c => blobCall'[b] = blobCall[b] /\ deferred'[b] = deferred[b]
  BY <1>1
<1>3. BlobTypeOK'
  BY <1>2 DEF BlobTypeOK
<1>4. \A b \in Caller : Fits(blobCall'[b], deferred'[b], index', chunk', slots', published', contested')
  BY <1>2
<1>5. \A k, n : Apart(k, n, index, slots) => Apart(k, n, index', slots')
  BY DEF Apart
<1>6. \A k, n, ix, sl : Apart(k, n, ix, sl) => Apart(n, k, ix, sl)
  BY DEF Apart
<1>7. ASSUME NEW a \in Caller, NEW b \in Caller, a # b
      PROVE  Apart(blobCall'[a], blobCall'[b], index', slots')
  <2>1. CASE a = c
    BY <1>2, <1>7, <2>1
  <2>2. CASE b = c
    BY <1>2, <1>6, <1>7, <2>2
  <2>3. CASE a # c /\ b # c
    BY <1>2, <1>5, <1>7, <2>3 DEF Books
  <2> QED BY <2>1, <2>2, <2>3
<1> QED BY <1>3, <1>4, <1>7 DEF Books

\* The same operation goes on, with a content that has an entry.
Continues(m, k, ix) ==
    \/ m = Blobs!Idle
    \/ /\ m.op = k.op /\ m.rec = k.rec /\ m.slot = k.slot /\ m.label = k.label
       /\ m.tag = k.tag \/ m.tag \in Indexed(ix) \cup {None}
LEMMA StillApart ==
    ASSUME Blobs!BlobAssumption, NEW k, NEW m, NEW n, NEW ix, NEW sl, Apart(k, n, ix, sl), Continues(m, k, ix)
    PROVE  Apart(m, n, ix, sl)
<1>1. None \notin ETag /\ None \notin Record
  BY DEF Blobs!BlobAssumption
<1>2. CASE m = Blobs!Idle
  BY <1>1, <1>2 DEF Blobs!Idle, Apart, Labelling
<1>3. CASE m # Blobs!Idle
  BY <1>1, <1>3 DEF Continues, Apart, Labelling, Indexed
<1> QED BY <1>2, <1>3

LEMMA IdleFits ==
    ASSUME Blobs!BlobAssumption, NEW ix, NEW ch, NEW sl, NEW pu, NEW spoilt, NEW d, spoilt = FALSE => d = None
    PROVE  Blobs!Idle \in BlobCallType /\ Fits(Blobs!Idle, d, ix, ch, sl, pu, spoilt)
<1>1. /\ Blobs!Idle \in BlobCallType /\ Blobs!Idle.op = "none" /\ Blobs!Idle.pc = "idle" /\ Blobs!Idle.tag = None /\ Blobs!Idle.old = None
      /\ \A s \in Slot : Blobs!Idle.seen[s] = None
  BY DEF Blobs!Idle, BlobCallType, TagOrNone
<1> HIDE DEF Blobs!Idle
<1> QED BY <1>1 DEF Fits, Shape, Carries, Uploaded, ReadRef, ReadSlots, ReadLabel, Replaces, Labelling,
                    Uploading, Counting, Indexed

\* A step of one call alone.
LEMMA Alone ==
    ASSUME Books, Blobs!BlobAssumption, BlobsApart, NEW c \in Caller, NEW m \in BlobCallType, NEW d \in TagOrNone,
           blobCall' = [blobCall EXCEPT ![c] = m], deferred' = [deferred EXCEPT ![c] = d],
           UNCHANGED Blobs!store, contested' \in BOOLEAN, contested' = FALSE => contested = FALSE,
           d \in Indexed(index) \cup {None},
           Fits(m, d, index, chunk, slots, published, contested'),
           \A b \in Caller : b # c => Apart(m, blobCall[b], index, slots),
           contested' = FALSE => \A e \in ETag :
               (Owes(blobCall[c], e) => Owes(m, e)) /\ (Holds(m, e) => Holds(blobCall[c], e))
    PROVE  Books'
<1>1. index' = index /\ chunk' = chunk /\ slots' = slots /\ published' = published
  BY DEF Blobs!store
<1>2. BlobTypeOK /\ blobCall \in [Caller -> BlobCallType] /\ deferred \in [Caller -> TagOrNone]
  BY DEF Books, BlobTypeOK
<1>3. Names(index, slots, published, deferred')
  BY <1>2 DEF Books, Names
<1>4. \A b \in Caller : Fits(blobCall[b], deferred[b], index, chunk, slots, published, contested')
  BY DEF Books, Fits
<1>5. ASSUME contested' = FALSE, NEW e \in ETag PROVE Covered(index, slots, published, blobCall', e)
  <2>1. Covered(index, slots, published, blobCall, e)
    BY <1>5 DEF Books
  <2>2. /\ Cardinality(Owing(blobCall', e)) >= Cardinality(Owing(blobCall, e))
        /\ Cardinality(Holding(blobCall', e)) <= Cardinality(Holding(blobCall, e))
    <3>1. /\ Cardinality(Owing(blobCall', e)) - (IF Owes(m, e) THEN 1 ELSE 0)
                = Cardinality(Owing(blobCall, e)) - (IF Owes(blobCall[c], e) THEN 1 ELSE 0)
          /\ Cardinality(Holding(blobCall', e)) - (IF Holds(m, e) THEN 1 ELSE 0)
                = Cardinality(Holding(blobCall, e)) - (IF Holds(blobCall[c], e) THEN 1 ELSE 0)
      <4>1. Recount(blobCall, blobCall', blobCall[c], m, e)
        BY <1>2, Recounted
      <4> QED BY <4>1 DEF Recount
    <3>2. /\ Cardinality(Owing(blobCall', e)) \in Nat /\ Cardinality(Owing(blobCall, e)) \in Nat
          /\ Cardinality(Holding(blobCall', e)) \in Nat /\ Cardinality(Holding(blobCall, e)) \in Nat
      BY CallsFinite
    <3>3. (Owes(blobCall[c], e) => Owes(m, e)) /\ (Holds(m, e) => Holds(blobCall[c], e))
      BY <1>5
    <3> HIDE DEF Owes, Holds
    <3> QED BY <3>1, <3>2, <3>3
  <2>3. index[e].ref \in Int
    BY <1>2 DEF BlobTypeOK, IndexEntry
  <2> QED BY <2>1, <2>2, <2>3, CallsFinite, NamesFinite DEF Covered
<1> QED BY <1>1, <1>2, <1>3, <1>4, <1>5, Becomes DEF Books, BlobTypeOK

-----------------------------------------------------------------------------
(***************************************************************************)
(* The steps.                                                              *)
(***************************************************************************)
\* A call in progress: what the invariant says of it.
LEMMA InCall ==
    ASSUME Books, Blobs!BlobAssumption, NEW c \in Caller
    PROVE  /\ blobCall[c] \in BlobCallType /\ deferred[c] \in TagOrNone /\ deferred[c] \in Indexed(index) \cup {None}
           /\ Fits(blobCall[c], deferred[c], index, chunk, slots, published, contested)
           /\ \A b \in Caller : b # c => Apart(blobCall[c], blobCall[b], index, slots)
           /\ \A e \in ETag : index[e].ver \in Nat /\ index[e].ref \in Int /\ index[e].count \in Nat
           /\ \A r \in Record : slots[r].ver \in Nat /\ slots[r].map \in [Slot -> TagOrNone]
           /\ blobCall \in [Caller -> BlobCallType] /\ deferred \in [Caller -> TagOrNone] /\ contested \in BOOLEAN
           /\ deferred = [deferred EXCEPT ![c] = deferred[c]]
  BY DEF Books, BlobTypeOK, IndexEntry, Names

LEMMA EndStep ==
    ASSUME Books, Blobs!BlobAssumption, BlobsApart, NEW c \in Caller, blobCall' = [blobCall EXCEPT ![c] = Blobs!Idle],
           UNCHANGED Blobs!store, contested' \in BOOLEAN, contested' = FALSE => contested = FALSE,
           NEW d \in Indexed(index) \cup {None}, deferred' = [deferred EXCEPT ![c] = d],
           contested' = FALSE => d = None /\ \A e \in ETag : ~Owes(blobCall[c], e)
    PROVE  Books'
<1>1. Blobs!Idle \in BlobCallType /\ Fits(Blobs!Idle, d, index, chunk, slots, published, contested')
  BY IdleFits
<1>2. \A b \in Caller : b # c => Apart(Blobs!Idle, blobCall[b], index, slots)
  BY InCall, StillApart DEF Continues
<1>3. \A e \in ETag : ~Holds(Blobs!Idle, e)
  BY DEF Blobs!Idle, Holds, Counting
<1>4. d \in TagOrNone
  BY DEF TagOrNone, Indexed
<1> QED BY <1>1, <1>2, <1>3, <1>4, Alone

\* It ends, and nothing was noted for a decrement.
LEMMA JustEnds ==
    ASSUME Books, Blobs!BlobAssumption, BlobsApart, NEW c \in Caller, blobCall' = [blobCall EXCEPT ![c] = Blobs!Idle],
           UNCHANGED <<Blobs!store, deferred>>, contested' \in BOOLEAN, contested' = FALSE => contested = FALSE,
           ~(blobCall[c].pc = "slotStore" /\ blobCall[c].op = "put") \/ contested' = TRUE,
           contested' = FALSE => \A e \in ETag : ~Owes(blobCall[c], e)
    PROVE  Books'
<1>1. contested' = FALSE => deferred[c] = None
  BY InCall DEF Fits, Replaces
<1> QED BY <1>1, InCall, EndStep

\* What a step of a call alone leaves as it is, for one that goes on as m.
LEMMA GoesOn ==
    ASSUME Books, Blobs!BlobAssumption, BlobsApart, NEW c \in Caller, NEW m \in BlobCallType,
           blobCall' = [blobCall EXCEPT ![c] = m], UNCHANGED <<Blobs!store, deferred>>,
           contested' \in BOOLEAN, contested' = FALSE => contested = FALSE,
           Continues(m, blobCall[c], index),
           Fits(m, deferred[c], index, chunk, slots, published, contested'),
           contested' = FALSE => \A e \in ETag :
               (Owes(blobCall[c], e) => Owes(m, e)) /\ (Holds(m, e) => Holds(blobCall[c], e))
    PROVE  Books'
<1>1. \A b \in Caller : b # c => Apart(m, blobCall[b], index, slots)
  BY InCall, StillApart
<1>2. /\ UNCHANGED Blobs!store /\ deferred' = [deferred EXCEPT ![c] = deferred[c]]
      /\ deferred[c] \in TagOrNone /\ deferred[c] \in Indexed(index) \cup {None}
  BY InCall
<1> QED BY <1>1, <1>2, Alone

LEMMA RefLoadStep ==
    ASSUME Books, Blobs!BlobAssumption, BlobsApart, NEW c \in Caller, Blobs!RefLoad(c)
    PROVE  Books'
<1>1. PICK k : k = blobCall[c]
  OBVIOUS
<1>2. k \in BlobCallType /\ Fits(k, deferred[c], index, chunk, slots, published, contested) /\ k.pc = "refLoad"
  BY <1>1, InCall DEF Blobs!RefLoad, Blobs!At
<1>3. PICK e \in ETag : e = k.tag /\ index[e].ver # 0 /\ index[e].ver \in Nat /\ index[e].ref \in Int
  BY <1>2, InCall DEF Fits, Shape, Carries, Counting, Uploading, Indexed, Blobs!BlobAssumption
<1>4. PICK v \in Nat : v = index[e].ver
  BY <1>3
<1>5. PICK n \in Int : n = index[e].ref
  BY <1>3
<1>6. PICK m : m = [k EXCEPT !.pc = "refStore", !.ver = v, !.ref = n]
  OBVIOUS
<1>7. /\ m \in BlobCallType /\ m.pc = "refStore" /\ m.ver = v /\ m.ref = n
      /\ m.op = k.op /\ m.rec = k.rec /\ m.slot = k.slot /\ m.label = k.label /\ m.tag = k.tag
      /\ m.count = k.count /\ m.delta = k.delta /\ m.seen = k.seen /\ m.old = k.old /\ m.tries = k.tries
  BY <1>2, <1>6 DEF BlobCallType
<1>8. blobCall' = [blobCall EXCEPT ![c] = m] /\ UNCHANGED <<Blobs!store, deferred, contested>>
  BY <1>1, <1>3, <1>4, <1>5, <1>6 DEF Blobs!RefLoad, Blobs!Goto
<1>9. Continues(m, k, index)
  BY <1>7 DEF Continues
<1>10. Fits(m, deferred[c], index, chunk, slots, published, contested)
  BY <1>2, <1>3, <1>4, <1>5, <1>7 DEF Fits, Shape, Carries, Uploaded, ReadRef, ReadSlots, ReadLabel, Replaces, Labelling,
                    Uploading, Counting
<1>11. \A f \in ETag : (Owes(k, f) => Owes(m, f)) /\ (Holds(m, f) => Holds(k, f))
  BY <1>2, <1>7 DEF Owes, Holds, Counting
<1> QED BY <1>1, <1>7, <1>8, <1>9, <1>10, <1>11, InCall, GoesOn

LEMMA LookupStep ==
    ASSUME Books, Blobs!BlobAssumption, BlobsApart, NEW c \in Caller, Blobs!Lookup(c)
    PROVE  Books'
<1>1. PICK k : k = blobCall[c]
  OBVIOUS
<1>2. k \in BlobCallType /\ Fits(k, deferred[c], index, chunk, slots, published, contested) /\ k.pc = "lookup"
  BY <1>1, InCall DEF Blobs!Lookup, Blobs!At
<1>3. k.tag \in ETag /\ k.op = "put" /\ k.delta = 1 /\ k.count \in Counts /\ k.rec \in Record /\ k.slot \in Slot
  BY <1>2 DEF Fits, Shape, Uploading
<1>4. UNCHANGED <<Blobs!store, deferred, contested>>
  BY DEF Blobs!Lookup
<1>5. CASE index[k.tag].ver # 0
  <2>1. PICK m : m = [k EXCEPT !.pc = "refLoad", !.tries = 1, !.count = 0]
    OBVIOUS
  <2>2. /\ m \in BlobCallType /\ m.pc = "refLoad"
        /\ m.op = k.op /\ m.rec = k.rec /\ m.slot = k.slot /\ m.label = k.label /\ m.tag = k.tag
        /\ m.delta = k.delta /\ m.seen = k.seen /\ m.old = k.old
    BY <1>2, <2>1 DEF BlobCallType
  <2>a. m.tries \in 1..MaxTries
    <3>1. m.tries = 1
      BY <1>2, <2>1 DEF BlobCallType
    <3> QED BY <3>1 DEF Blobs!BlobAssumption
  <2>3. blobCall' = [blobCall EXCEPT ![c] = m]
    BY <1>1, <1>5, <2>1 DEF Blobs!Lookup, Blobs!Goto
  <2>4. Continues(m, k, index)
    BY <2>2 DEF Continues
  <2>5. Fits(m, deferred[c], index, chunk, slots, published, contested)
    BY <1>2, <1>3, <1>5, <2>2, <2>a DEF Fits, Shape, Carries, Uploaded, ReadRef, ReadSlots, ReadLabel,
         Replaces, Labelling, Uploading, Counting, Indexed
  <2>6. \A f \in ETag : (Owes(k, f) => Owes(m, f)) /\ (Holds(m, f) => Holds(k, f))
    BY <1>2, <1>3, <2>2 DEF Owes, Holds, Counting
  <2> QED BY <1>1, <1>4, <2>2, <2>3, <2>4, <2>5, <2>6, InCall, GoesOn
<1>6. CASE index[k.tag].ver = 0
  <2>1. PICK m : m = [k EXCEPT !.pc = "chunk", !.tries = 1]
    OBVIOUS
  <2>2. /\ m \in BlobCallType /\ m.pc = "chunk" /\ m.tries = 1
        /\ m.op = k.op /\ m.rec = k.rec /\ m.slot = k.slot /\ m.label = k.label /\ m.tag = k.tag
        /\ m.count = k.count /\ m.delta = k.delta /\ m.seen = k.seen /\ m.old = k.old
    BY <1>2, <2>1 DEF BlobCallType
  <2>3. blobCall' = [blobCall EXCEPT ![c] = m]
    BY <1>1, <1>6, <2>1 DEF Blobs!Lookup, Blobs!Goto
  <2>4. Continues(m, k, index)
    BY <2>2 DEF Continues
  <2>5. m.tries \in 1..m.count /\ (1..(m.tries - 1)) = {}
    <3>1. m.count \in 1..2 /\ m.tries = 1
      BY <1>3, <2>2 DEF Blobs!BlobAssumption
    <3> QED BY <3>1
  <2>6. Fits(m, deferred[c], index, chunk, slots, published, contested)
    BY <1>2, <1>3, <1>6, <2>2, <2>5 DEF Fits, Shape, Carries, Uploaded, ReadRef, ReadSlots, ReadLabel,
         Replaces, Labelling, Uploading, Counting, Indexed
  <2>7. \A f \in ETag : (Owes(k, f) => Owes(m, f)) /\ (Holds(m, f) => Holds(k, f))
    BY <1>2, <1>3, <2>2 DEF Owes, Holds, Counting
  <2> QED BY <1>1, <1>4, <2>2, <2>3, <2>4, <2>6, <2>7, InCall, GoesOn
<1> QED BY <1>5, <1>6

LEMMA PublishSlotStep ==
    ASSUME Books, Blobs!BlobAssumption, BlobsApart, NEW c \in Caller, Blobs!PublishSlot(c)
    PROVE  Books'
<1>1. PICK k : k = blobCall[c]
  OBVIOUS
<1>2. /\ k \in BlobCallType /\ Fits(k, deferred[c], index, chunk, slots, published, contested)
      /\ k.pc = "slotLoad" /\ k.op = "publish"
  BY <1>1, InCall DEF Blobs!PublishSlot, Blobs!At
<1>3. k.rec \in Record /\ k.slot \in Slot /\ k.label \in Label
  BY <1>2 DEF Fits, Shape, Labelling
<1>4. UNCHANGED <<Blobs!store, deferred, contested>>
  BY DEF Blobs!PublishSlot
<1>5. PICK has : has = slots[k.rec].map[k.slot]
  OBVIOUS
<1>6. has \in Indexed(index) \cup {None}
  BY <1>3, <1>5 DEF Books, Names
<1>7. CASE has = None
  <2>1. blobCall' = [blobCall EXCEPT ![c] = Blobs!Idle]
    BY <1>1, <1>5, <1>7 DEF Blobs!PublishSlot, Blobs!Ends, Blobs!Goto
  <2> QED BY <1>1, <1>2, <1>4, <2>1, InCall, JustEnds DEF Owes, Counting
<1>8. CASE has # None
  <2>1. PICK m : m = [k EXCEPT !.pc = "verLoad", !.tag = has]
    OBVIOUS
  <2>2. has \in ETag /\ has \in Indexed(index)
    BY <1>6, <1>8 DEF Indexed
  <2>3. /\ m \in BlobCallType /\ m.pc = "verLoad" /\ m.tag = has
        /\ m.op = k.op /\ m.rec = k.rec /\ m.slot = k.slot /\ m.label = k.label
        /\ m.count = k.count /\ m.delta = k.delta /\ m.seen = k.seen /\ m.old = k.old
    BY <1>2, <2>1, <2>2 DEF BlobCallType, TagOrNone
  <2>4. blobCall' = [blobCall EXCEPT ![c] = m]
    BY <1>1, <1>5, <1>8, <2>1 DEF Blobs!PublishSlot, Blobs!Goto
  <2>5. Continues(m, k, index)
    BY <2>2, <2>3 DEF Continues
  <2>6. Fits(m, deferred[c], index, chunk, slots, published, contested)
    BY <1>2, <1>3, <2>2, <2>3 DEF Fits, Shape, Carries, Uploaded, ReadRef, ReadSlots, ReadLabel,
         Replaces, Labelling, Uploading, Counting, Indexed
  <2>7. \A f \in ETag : (Owes(k, f) => Owes(m, f)) /\ (Holds(m, f) => Holds(k, f))
    BY <1>2, <1>3, <2>3 DEF Owes, Holds, Counting
  <2> QED BY <1>1, <1>4, <2>3, <2>4, <2>5, <2>6, <2>7, InCall, GoesOn
<1> QED BY <1>7, <1>8

LEMMA VersionLoadStep ==
    ASSUME Books, Blobs!BlobAssumption, BlobsApart, NEW c \in Caller, Blobs!VersionLoad(c)
    PROVE  Books'
<1>1. PICK k : k = blobCall[c]
  OBVIOUS
<1>2. /\ k \in BlobCallType /\ Fits(k, deferred[c], index, chunk, slots, published, contested)
      /\ k.pc = "verLoad" /\ k.op # "get"
  BY <1>1, InCall DEF Blobs!VersionLoad, Blobs!At
<1>3. k.rec \in Record /\ k.slot \in Slot /\ k.label \in Label /\ Labelling(k)
  BY <1>2 DEF Fits, Shape, Labelling
<1>4. UNCHANGED <<Blobs!store, deferred, contested>>
  BY DEF Blobs!VersionLoad
<1>5. PICK has : has = published[k.rec][k.slot][k.label]
  OBVIOUS
<1>6. has \in Indexed(index) \cup {None}
  BY <1>3, <1>5 DEF Books, Names
<1>a. (IF k.op = "publish" THEN k.tag ELSE None) = k.tag
  BY <1>2, <1>3 DEF Fits, Shape, Labelling
<1>7. CASE has = k.tag
  <2>1. blobCall' = [blobCall EXCEPT ![c] = Blobs!Idle]
    BY <1>1, <1>5, <1>7, <1>a DEF Blobs!VersionLoad, Blobs!Ends, Blobs!Goto
  <2> QED BY <1>1, <1>2, <1>4, <2>1, InCall, JustEnds DEF Owes, Counting
<1>8. CASE has # k.tag
  <2>1. PICK m : m = [k EXCEPT !.pc = "verStore", !.old = has]
    OBVIOUS
  <2>2. has \in TagOrNone
    BY <1>6 DEF Indexed, TagOrNone
  <2>3. /\ m \in BlobCallType /\ m.pc = "verStore" /\ m.old = has
        /\ m.op = k.op /\ m.rec = k.rec /\ m.slot = k.slot /\ m.label = k.label /\ m.tag = k.tag
        /\ m.count = k.count /\ m.delta = k.delta /\ m.seen = k.seen
    BY <1>2, <2>1, <2>2 DEF BlobCallType
  <2>4. blobCall' = [blobCall EXCEPT ![c] = m]
    BY <1>1, <1>5, <1>8, <1>a, <2>1 DEF Blobs!VersionLoad, Blobs!Goto
  <2>5. Continues(m, k, index)
    BY <2>2, <2>3 DEF Continues
  <2>6. Fits(m, deferred[c], index, chunk, slots, published, contested)
    BY <1>2, <1>3, <1>5, <1>6, <1>8, <2>2, <2>3 DEF Fits, Shape, Carries, Uploaded, ReadRef, ReadSlots, ReadLabel,
         Replaces, Labelling, Uploading, Counting, Indexed
  <2>7. \A f \in ETag : (Owes(k, f) => Owes(m, f)) /\ (Holds(m, f) => Holds(k, f))
    BY <1>2, <1>3, <2>3 DEF Owes, Holds, Counting
  <2> QED BY <1>1, <1>4, <2>3, <2>4, <2>5, <2>6, <2>7, InCall, GoesOn
<1> QED BY <1>7, <1>8

LEMMA GetNameStep ==
    ASSUME Books, Blobs!BlobAssumption, BlobsApart, NEW c \in Caller, Blobs!GetName(c)
    PROVE  Books'
<1>1. PICK k : k = blobCall[c]
  OBVIOUS
<1>2. /\ k \in BlobCallType /\ Fits(k, deferred[c], index, chunk, slots, published, contested)
      /\ k.pc \in {"slotLoad", "verLoad"} /\ k.op = "get"
  BY <1>1, InCall DEF Blobs!GetName
<1>3. k.rec \in Record /\ k.slot \in Slot /\ (k.pc = "verLoad" => k.label \in Label)
  BY <1>2 DEF Fits, Shape, Labelling
<1>4. UNCHANGED <<Blobs!store, deferred, contested>>
  BY DEF Blobs!GetName
<1>5. PICK has : has = IF k.pc = "slotLoad" THEN slots[k.rec].map[k.slot] ELSE published[k.rec][k.slot][k.label]
  OBVIOUS
<1>6. has \in Indexed(index) \cup {None}
  BY <1>2, <1>3, <1>5 DEF Books, Names
<1>7. CASE has = None
  <2>1. blobCall' = [blobCall EXCEPT ![c] = Blobs!Idle]
    BY <1>1, <1>5, <1>7 DEF Blobs!GetName, Blobs!Ends, Blobs!Goto
  <2> QED BY <1>1, <1>2, <1>4, <2>1, InCall, JustEnds DEF Owes, Counting
<1>8. CASE has # None
  <2>1. PICK m : m = [k EXCEPT !.pc = "getIndex", !.tag = has]
    OBVIOUS
  <2>2. has \in ETag /\ has \in Indexed(index)
    BY <1>6, <1>8 DEF Indexed
  <2>3. /\ m \in BlobCallType /\ m.pc = "getIndex" /\ m.tag = has
        /\ m.op = k.op /\ m.rec = k.rec /\ m.slot = k.slot /\ m.label = k.label
        /\ m.count = k.count /\ m.delta = k.delta /\ m.seen = k.seen /\ m.old = k.old
    BY <1>2, <2>1, <2>2 DEF BlobCallType, TagOrNone
  <2>4. blobCall' = [blobCall EXCEPT ![c] = m]
    BY <1>1, <1>5, <1>8, <2>1 DEF Blobs!GetName, Blobs!Goto
  <2>5. Continues(m, k, index)
    BY <2>2, <2>3 DEF Continues
  <2>6. Fits(m, deferred[c], index, chunk, slots, published, contested)
    BY <1>2, <1>3, <2>2, <2>3 DEF Fits, Shape, Carries, Uploaded, ReadRef, ReadSlots, ReadLabel,
         Replaces, Labelling, Uploading, Counting, Indexed
  <2>7. \A f \in ETag : (Owes(k, f) => Owes(m, f)) /\ (Holds(m, f) => Holds(k, f))
    BY <1>2, <1>3, <2>3 DEF Owes, Holds, Counting
  <2> QED BY <1>1, <1>4, <2>3, <2>4, <2>5, <2>6, <2>7, InCall, GoesOn
<1> QED BY <1>7, <1>8

LEMMA GetIndexStep ==
    ASSUME Books, Blobs!BlobAssumption, BlobsApart, NEW c \in Caller, Blobs!GetIndex(c)
    PROVE  Books'
<1>1. PICK k : k = blobCall[c]
  OBVIOUS
<1>2. /\ k \in BlobCallType /\ Fits(k, deferred[c], index, chunk, slots, published, contested)
      /\ k.pc = "getIndex"
  BY <1>1, InCall DEF Blobs!GetIndex, Blobs!At
<1>3. k.tag \in ETag /\ k.op = "get" /\ k.tag \in Indexed(index)
  BY <1>2 DEF Fits, Shape, Carries, Uploading, Blobs!BlobAssumption
<1>4. UNCHANGED <<Blobs!store, deferred, contested>>
  BY DEF Blobs!GetIndex
<1>5. PICK n : n = index[k.tag].count
  OBVIOUS
<1>6. n \in Counts /\ n \in Nat /\ 1 \in 1..n /\ index[k.tag].ver # 0
  <2>1. n \in Counts /\ index[k.tag].ver # 0
    BY <1>3, <1>5 DEF Books, Whole, Indexed
  <2>2. n \in 1..2
    BY <2>1 DEF Blobs!BlobAssumption
  <2> QED BY <2>1, <2>2
<1>7. PICK m : m = [k EXCEPT !.pc = "getChunk", !.count = n, !.tries = 1]
  OBVIOUS
<1>8. /\ m \in BlobCallType /\ m.pc = "getChunk" /\ m.tag = k.tag /\ m.count = n /\ m.tries = 1
      /\ m.op = k.op /\ m.rec = k.rec /\ m.slot = k.slot /\ m.label = k.label
      /\ m.delta = k.delta /\ m.seen = k.seen /\ m.old = k.old
  BY <1>2, <1>6, <1>7 DEF BlobCallType
<1>9. blobCall' = [blobCall EXCEPT ![c] = m]
  BY <1>1, <1>5, <1>6, <1>7 DEF Blobs!GetIndex, Blobs!Goto
<1>10. Continues(m, k, index)
  BY <1>8 DEF Continues
<1>11. Fits(m, deferred[c], index, chunk, slots, published, contested)
  BY <1>2, <1>3, <1>5, <1>6, <1>8 DEF Fits, Shape, Carries, Uploaded, ReadRef, ReadSlots, ReadLabel,
       Replaces, Labelling, Uploading, Counting
<1>12. \A f \in ETag : (Owes(k, f) => Owes(m, f)) /\ (Holds(m, f) => Holds(k, f))
  BY <1>2, <1>3, <1>8 DEF Owes, Holds, Counting
<1> QED BY <1>1, <1>4, <1>8, <1>9, <1>10, <1>11, <1>12, InCall, GoesOn

LEMMA GetChunkStep ==
    ASSUME Books, Blobs!BlobAssumption, BlobsApart, NEW c \in Caller, Blobs!GetChunk(c)
    PROVE  Books'
<1>1. PICK k : k = blobCall[c]
  OBVIOUS
<1>2. /\ k \in BlobCallType /\ Fits(k, deferred[c], index, chunk, slots, published, contested)
      /\ k.pc = "getChunk"
  BY <1>1, InCall DEF Blobs!GetChunk, Blobs!At
<1>3. /\ k.tag \in ETag /\ k.op = "get" /\ k.tag \in Indexed(index)
      /\ k.tries \in 1..k.count /\ k.count = index[k.tag].count /\ k.count \in Nat /\ k.tries \in Nat
  BY <1>2 DEF Fits, Shape, Carries, Uploading, Uploaded, Blobs!BlobAssumption, BlobCallType
<1>4. chunk[k.tag][k.tries] = k.count
  BY <1>3 DEF Books, Whole
<1>5. UNCHANGED <<Blobs!store, deferred, contested>>
  BY DEF Blobs!GetChunk
<1>6. CASE k.tries < k.count
  <2>1. PICK m : m = [k EXCEPT !.tries = @ + 1]
    OBVIOUS
  <2>2. /\ m \in BlobCallType /\ m.pc = k.pc /\ m.tag = k.tag /\ m.count = k.count /\ m.tries = k.tries + 1
        /\ m.op = k.op /\ m.rec = k.rec /\ m.slot = k.slot /\ m.label = k.label
        /\ m.delta = k.delta /\ m.seen = k.seen /\ m.old = k.old
    BY <1>2, <1>3, <2>1 DEF BlobCallType
  <2>3. blobCall' = [blobCall EXCEPT ![c] = m]
    BY <1>1, <1>4, <1>6, <2>1 DEF Blobs!GetChunk, Blobs!Goto
  <2>4. Continues(m, k, index)
    BY <2>2 DEF Continues
  <2>5. m.tries \in 1..m.count
    BY <1>3, <1>6, <2>2
  <2>6. Fits(m, deferred[c], index, chunk, slots, published, contested)
    BY <1>2, <1>3, <2>2, <2>5 DEF Fits, Shape, Carries, Uploaded, ReadRef, ReadSlots, ReadLabel,
         Replaces, Labelling, Uploading, Counting
  <2>7. \A f \in ETag : (Owes(k, f) => Owes(m, f)) /\ (Holds(m, f) => Holds(k, f))
    BY <1>2, <1>3, <2>2 DEF Owes, Holds, Counting
  <2> QED BY <1>1, <1>5, <2>2, <2>3, <2>4, <2>6, <2>7, InCall, GoesOn
<1>7. CASE ~(k.tries < k.count)
  <2>1. blobCall' = [blobCall EXCEPT ![c] = Blobs!Idle]
    BY <1>1, <1>4, <1>7 DEF Blobs!GetChunk, Blobs!Goto
  <2> QED BY <1>1, <1>2, <1>5, <2>1, InCall, JustEnds DEF Owes, Counting
<1> QED BY <1>6, <1>7

LEMMA SlotLoadStep ==
    ASSUME Books, Blobs!BlobAssumption, BlobsApart, NEW c \in Caller, Blobs!SlotLoad(c)
    PROVE  Books'
<1>1. PICK k : k = blobCall[c]
  OBVIOUS
<1>2. /\ k \in BlobCallType /\ Fits(k, deferred[c], index, chunk, slots, published, contested)
      /\ k.pc = "slotLoad" /\ k.op \in {"put", "delete"}
  BY <1>1, InCall DEF Blobs!SlotLoad, Blobs!At
<1>3. k.rec \in Record /\ k.slot \in Slot /\ (k.op = "put" => k.tag \in ETag /\ k.tag \in Indexed(index))
  BY <1>2 DEF Fits, Shape, Carries, Uploading, Blobs!BlobAssumption
<1>4. UNCHANGED <<Blobs!store, contested>> /\ Blobs!HandleOf(c) = c
  BY DEF Blobs!SlotLoad, Blobs!HandleOf, BlobsApart
<1>5. PICK has : has = slots[k.rec].map[k.slot]
  OBVIOUS
<1>6. has \in Indexed(index) \cup {None} /\ k.old \in Indexed(index) \cup {None}
      /\ \A s \in Slot : slots[k.rec].map[s] \in Indexed(index) \cup {None}
  BY <1>2, <1>3, <1>5 DEF Books, Names, Fits, Carries
<1>7. \A x \in Indexed(index) \cup {None} : x \in TagOrNone /\ (x # None => x \in ETag)
  BY DEF Indexed, TagOrNone
<1>8. CASE k.op = "delete" /\ has = None
  <2>0. UNCHANGED deferred
    BY <1>1, <1>5, <1>8 DEF Blobs!SlotLoad
  <2>1. CASE k.old = None
    <3>1. blobCall' = [blobCall EXCEPT ![c] = Blobs!Idle]
      BY <1>1, <1>5, <1>8, <2>1 DEF Blobs!SlotLoad, Blobs!Goto
    <3> QED BY <1>1, <1>2, <1>4, <2>0, <3>1, InCall, JustEnds DEF Owes, Counting
  <2>2. CASE k.old # None
    <3>1. PICK m : m = [k EXCEPT !.pc = "refLoad", !.tag = k.old, !.delta = 0, !.tries = 1]
      OBVIOUS
    <3>2. /\ m \in BlobCallType /\ m.pc = "refLoad" /\ m.tag = k.old /\ m.delta = 0
          /\ m.op = k.op /\ m.rec = k.rec /\ m.slot = k.slot /\ m.label = k.label
          /\ m.seen = k.seen /\ m.old = k.old
      BY <1>2, <1>6, <1>7, <3>1 DEF BlobCallType
    <3>a. m.tries \in 1..MaxTries
      <4>1. m.tries = 1
        BY <1>2, <3>1 DEF BlobCallType
      <4> QED BY <4>1 DEF Blobs!BlobAssumption
    <3>3. blobCall' = [blobCall EXCEPT ![c] = m]
      BY <1>1, <1>5, <1>8, <2>2, <3>1 DEF Blobs!SlotLoad, Blobs!Goto
    <3>4. Continues(m, k, index)
      BY <1>6, <3>2 DEF Continues
    <3>5. contested = TRUE
      BY <1>2, <2>2, InCall DEF Fits, Replaces
    <3>6. Fits(m, deferred[c], index, chunk, slots, published, contested)
      BY <1>2, <1>3, <1>6, <1>7, <1>8, <2>2, <3>2, <3>5, <3>a DEF Fits, Shape, Carries, Uploaded, ReadRef, ReadSlots,
           ReadLabel, Labelling, Uploading, Counting
    <3> QED BY <1>1, <1>4, <2>0, <3>2, <3>3, <3>4, <3>5, <3>6, InCall, GoesOn
  <2> QED BY <2>1, <2>2
<1>9. CASE ~(k.op = "delete" /\ has = None)
  <2>1. PICK old : old = IF k.op = "put" THEN (IF has \notin {None, k.tag} THEN has ELSE k.old)
                         ELSE IF has = None THEN k.old ELSE has
    OBVIOUS
  <2>2. PICK new : new = IF k.op = "put" THEN k.tag ELSE None
    OBVIOUS
  <2>3. PICK seen : seen = [slots[k.rec].map EXCEPT ![k.slot] = new]
    OBVIOUS
  <2>4. PICK v : v = slots[k.rec].ver
    OBVIOUS
  <2>5. PICK d : d = IF k.op = "put" /\ has \notin {None, k.tag} THEN has ELSE deferred[c]
    OBVIOUS
  <2>6. PICK m : m = [k EXCEPT !.pc = "slotStore", !.ver = v, !.old = old, !.seen = seen]
    OBVIOUS
  <2>7. /\ old \in Indexed(index) \cup {None} /\ d \in Indexed(index) \cup {None} /\ new \in Indexed(index) \cup {None}
        /\ v \in Nat /\ slots[k.rec].map \in [Slot -> TagOrNone] /\ old \in TagOrNone /\ new \in TagOrNone /\ d \in TagOrNone
    BY <1>3, <1>6, <1>7, <2>1, <2>2, <2>4, <2>5, InCall DEF TagOrNone
  <2>8. seen \in [Slot -> TagOrNone] /\ \A s \in Slot : seen[s] \in Indexed(index) \cup {None}
    BY <1>3, <1>6, <2>3, <2>7
  <2>9. /\ m \in BlobCallType /\ m.pc = "slotStore" /\ m.ver = v /\ m.old = old /\ m.seen = seen /\ m.tag = k.tag
        /\ m.op = k.op /\ m.rec = k.rec /\ m.slot = k.slot /\ m.label = k.label /\ m.delta = k.delta
    BY <1>2, <2>6, <2>7, <2>8 DEF BlobCallType
  <2>10. blobCall' = [blobCall EXCEPT ![c] = m]
    BY <1>1, <1>5, <1>9, <2>1, <2>2, <2>3, <2>4, <2>6 DEF Blobs!SlotLoad, Blobs!Goto
  <2>11. deferred' = [deferred EXCEPT ![c] = d]
    <3>1. deferred = [deferred EXCEPT ![c] = deferred[c]]
      BY InCall
    <3> QED BY <1>1, <1>4, <1>5, <1>9, <2>5, <3>1 DEF Blobs!SlotLoad
  <2>12. contested = FALSE => deferred[c] = None /\ k.old = None
    BY <1>2 DEF Fits, Replaces
  <2>13. ReadSlots(m, slots)
    BY <2>2, <2>3, <2>4, <2>7, <2>9 DEF ReadSlots
  <2>14. contested = FALSE => Replaces(m, d, slots)
    BY <1>2, <1>3, <1>5, <1>9, <2>1, <2>5, <2>9, <2>12 DEF Replaces
  <2>15. Fits(m, d, index, chunk, slots, published, contested)
    BY <1>2, <1>3, <2>7, <2>8, <2>9, <2>13, <2>14 DEF Fits, Shape, Carries, Uploaded, ReadRef,
         ReadLabel, Labelling, Uploading, Counting
  <2>16. \A f \in ETag : (Owes(k, f) => Owes(m, f)) /\ (Holds(m, f) => Holds(k, f))
    BY <1>2, <2>9 DEF Owes, Holds, Counting
  <2>17. \A b \in Caller : b # c => Apart(m, blobCall[b], index, slots)
    BY <1>1, <2>9, InCall, StillApart DEF Continues
  <2> QED BY <1>1, <1>4, <2>7, <2>9, <2>10, <2>11, <2>15, <2>16, <2>17, InCall, Alone
<1> QED BY <1>8, <1>9

LEMMA CutStep ==
    ASSUME Books, Blobs!BlobAssumption, BlobsApart, NEW c \in Caller, Blobs!Cut(c)
    PROVE  Books'
<1>1. UNCHANGED <<Blobs!store, contested>> /\ Blobs!HandleOf(c) = c
  BY DEF Blobs!Cut, Blobs!HandleOf, BlobsApart
<1>2. blobCall' = [blobCall EXCEPT ![c] = Blobs!Idle] /\ deferred' = [deferred EXCEPT ![c] = None]
  BY <1>1 DEF Blobs!Cut, Blobs!Ends, Blobs!Goto
<1>3. \A e \in ETag : ~Owes(blobCall[c], e)
  BY DEF Blobs!Cut, BlobsApart, Owes, Counting
<1> QED BY <1>1, <1>2, <1>3, InCall, EndStep

\* The counts go from those of ix to those of new and call k becomes m: no count lacks for it.
Pays(m, k, new, ix) ==
    \A e \in ETag :
        new[e].ref + (IF Owes(m, e) THEN 1 ELSE 0) - (IF Holds(m, e) THEN 1 ELSE 0)
          >= ix[e].ref + (IF Owes(k, e) THEN 1 ELSE 0) - (IF Holds(k, e) THEN 1 ELSE 0)

LEMMA PaidFor ==
    ASSUME Books, Blobs!BlobAssumption, NEW c \in Caller, NEW m \in BlobCallType, NEW g, NEW new \in [ETag -> IndexEntry],
           g = [blobCall EXCEPT ![c] = m], contested = FALSE, NEW e \in ETag,
           Pays(m, blobCall[c], new, index)
    PROVE  Covered(new, slots, published, g, e)
<1>1. blobCall \in [Caller -> BlobCallType] /\ index \in [ETag -> IndexEntry]
  BY DEF Books, BlobTypeOK
<1>2. /\ Cardinality(Owing(g, e)) - (IF Owes(m, e) THEN 1 ELSE 0)
            = Cardinality(Owing(blobCall, e)) - (IF Owes(blobCall[c], e) THEN 1 ELSE 0)
      /\ Cardinality(Holding(g, e)) - (IF Holds(m, e) THEN 1 ELSE 0)
            = Cardinality(Holding(blobCall, e)) - (IF Holds(blobCall[c], e) THEN 1 ELSE 0)
  <2>1. Recount(blobCall, g, blobCall[c], m, e)
    BY <1>1, Recounted
  <2> QED BY <2>1 DEF Recount
<1>3. Covered(index, slots, published, blobCall, e)
  BY DEF Books
<1>4. /\ Cardinality(Owing(g, e)) \in Nat /\ Cardinality(Owing(blobCall, e)) \in Nat
      /\ Cardinality(Holding(g, e)) \in Nat /\ Cardinality(Holding(blobCall, e)) \in Nat
  BY CallsFinite
<1>5. Cardinality(SlotsOf(slots, e)) \in Nat /\ Cardinality(VersionsOf(published, e)) \in Nat
  BY NamesFinite
<1>6. index[e].ref \in Int /\ new[e].ref \in Int
  BY <1>1 DEF IndexEntry
<1>7. new[e].ref + (IF Owes(m, e) THEN 1 ELSE 0) - (IF Holds(m, e) THEN 1 ELSE 0)
        >= index[e].ref + (IF Owes(blobCall[c], e) THEN 1 ELSE 0) - (IF Holds(blobCall[c], e) THEN 1 ELSE 0)
  BY DEF Pays
<1> HIDE DEF Owes, Holds
<1> QED BY <1>2, <1>3, <1>4, <1>5, <1>6, <1>7 DEF Covered

\* The entry of content t becomes en, with a greater version; of the others only those fit
\* that do not upload it.
LEMMA IndexMoves ==
    ASSUME Books, Blobs!BlobAssumption, BlobsApart, NEW c \in Caller, NEW m \in BlobCallType,
           NEW t \in ETag, NEW en \in IndexEntry, en.ver > index[t].ver,
           blobCall' = [blobCall EXCEPT ![c] = m], index' = [index EXCEPT ![t] = en],
           UNCHANGED <<chunk, slots, published, deferred, contested>>,
           index[t].ver # 0 => en.count = index[t].count,
           en.count \in Counts, \A i \in 1..en.count : chunk[t][i] = en.count,
           NEW k, k = blobCall[c], k.tag = t,
           Fits(m, deferred[c], index', chunk, slots, published, contested),
           Continues(m, k, index),
           Pays(m, k, index', index)
    PROVE  Books'
<1>1. /\ index \in [ETag -> IndexEntry] /\ blobCall \in [Caller -> BlobCallType] /\ deferred \in [Caller -> TagOrNone]
      /\ chunk \in [ETag -> [1..2 -> Nat]]
      /\ slots \in [Record -> [ver : Nat, map : [Slot -> TagOrNone]]]
      /\ published \in [Record -> [Slot -> [Label -> TagOrNone]]] /\ contested \in BOOLEAN
  BY DEF Books, BlobTypeOK
<1>2. /\ index' \in [ETag -> IndexEntry] /\ index'[t] = en /\ \A e \in ETag : e # t => index'[e] = index[e]
  BY <1>1
<1>3. index[t].ver \in Nat /\ en.ver \in Nat /\ en.ver # 0 /\ index[t].count \in Nat
  BY <1>1 DEF IndexEntry
<1>4. Indexed(index) \subseteq Indexed(index') /\ t \in Indexed(index')
  BY <1>2, <1>3 DEF Indexed
<1>5. Blank(index') /\ Names(index', slots, published, deferred) /\ Whole(index', chunk)
  BY <1>2, <1>3, <1>4 DEF Books, Blank, Names, Whole, Indexed
<1>6. ASSUME NEW b \in Caller, b # c
      PROVE  /\ Apart(m, blobCall[b], index', slots)
             /\ Fits(blobCall[b], deferred[b], index', chunk, slots, published, contested)
  <2>1. PICK n : n = blobCall[b]
    OBVIOUS
  <2>2. /\ n \in BlobCallType /\ Fits(n, deferred[b], index, chunk, slots, published, contested)
        /\ Apart(k, n, index, slots)
    BY <1>6, <2>1, InCall
  <2>3. Apart(m, n, index, slots)
    BY <2>2, StillApart
  <2>4. Apart(m, n, index', slots)
    BY <1>4, <2>3 DEF Apart
  <2>5. n.tag = t => index[t].ver # 0
    BY <2>2 DEF Apart, Indexed
  <2>6. Carries(n, index')
    BY <1>4, <2>2 DEF Fits, Carries
  <2>7. Uploaded(n, index', chunk)
    <3>1. n.pc \in {"chunk", "index", "getChunk"} => n.tag \in ETag
      BY <2>2 DEF Fits, Shape, Uploading
    <3>2. Uploaded(n, index, chunk)
      BY <2>2 DEF Fits
    <3> QED BY <1>2, <2>5, <3>1, <3>2 DEF Uploaded
  <2>8. ReadRef(n, index')
    <3>1. n.pc = "refStore" => n.tag \in ETag /\ n.ver \in Nat
      BY <2>2 DEF Fits, Shape, Counting, BlobCallType
    <3>2. ReadRef(n, index)
      BY <2>2 DEF Fits
    <3> QED BY <1>2, <1>3, <3>1, <3>2 DEF ReadRef
  <2> QED BY <2>1, <2>2, <2>4, <2>6, <2>7, <2>8 DEF Fits
<1>7. ASSUME contested = FALSE, NEW e \in ETag PROVE Covered(index', slots, published, blobCall', e)
  <2>1. PICK f, new : f = blobCall' /\ new = index'
    OBVIOUS
  <2>2. f = [blobCall EXCEPT ![c] = m] /\ new \in [ETag -> IndexEntry]
    BY <1>2, <2>1
  <2>3. Pays(m, blobCall[c], new, index)
    BY <2>1
  <2> QED BY <1>7, <2>1, <2>2, <2>3, PaidFor
<1>8. \A r \in Record : slots[r].ver # 0 => slots'[r].ver # 0
  OBVIOUS
<1>9. deferred' = [deferred EXCEPT ![c] = deferred[c]] /\ deferred[c] \in TagOrNone
  BY InCall
<1>10. chunk' = chunk /\ slots' = slots /\ published' = published /\ deferred' = deferred /\ contested' = contested
  OBVIOUS
<1>11. /\ chunk' \in [ETag -> [1..2 -> Nat]]
       /\ slots' \in [Record -> [ver : Nat, map : [Slot -> TagOrNone]]]
       /\ published' \in [Record -> [Slot -> [Label -> TagOrNone]]]
       /\ contested' \in BOOLEAN /\ (contested' = FALSE => contested = FALSE)
       /\ Blank(index') /\ Names(index', slots', published', deferred') /\ Whole(index', chunk')
       /\ Fits(m, deferred[c], index', chunk', slots', published', contested')
  BY <1>1, <1>5, <1>10
<1>12. \A b \in Caller : b # c =>
          /\ Apart(m, blobCall[b], index', slots')
          /\ Fits(blobCall[b], deferred[b], index', chunk', slots', published', contested')
  BY <1>6, <1>10
<1>13. contested' = FALSE => \A e \in ETag : Covered(index', slots', published', blobCall', e)
  BY <1>7, <1>10
<1>14. /\ blobCall' = [blobCall EXCEPT ![c] = m] /\ index' \in [ETag -> IndexEntry]
       /\ Indexed(index) \subseteq Indexed(index')
  BY <1>2, <1>4
<1> QED BY <1>8, <1>9, <1>11, <1>12, <1>13, <1>14, Becomes

LEMMA RefStoreStep ==
    ASSUME Books, Blobs!BlobAssumption, BlobsApart, NEW c \in Caller, Blobs!RefStore(c)
    PROVE  Books'
<1>1. PICK k : k = blobCall[c]
  OBVIOUS
<1>2. /\ k \in BlobCallType /\ Fits(k, deferred[c], index, chunk, slots, published, contested) /\ k.pc = "refStore"
  BY <1>1, InCall DEF Blobs!RefStore, Blobs!At
<1>3. PICK t \in ETag : /\ t = k.tag /\ t \in Indexed(index) /\ k.op # "get" /\ k.tries \in 1..MaxTries
                        /\ k.delta = 1 => k.op \in {"put", "publish"}
  BY <1>2 DEF Fits, Shape, Carries, Counting, Uploading, Blobs!BlobAssumption
<1>4. index[t].ver \in Nat /\ index[t].ref \in Int /\ index[t].count \in Nat
  BY InCall
<1>5. UNCHANGED <<chunk, slots, published, deferred>>
  BY DEF Blobs!RefStore
<1>6. CASE index[t].ver # k.ver
  <2>0. UNCHANGED <<Blobs!store, deferred>> /\ contested' = (contested \/ k.tries = MaxTries)
    BY <1>1, <1>3, <1>5, <1>6 DEF Blobs!RefStore, Blobs!store
  <2>a. contested' \in BOOLEAN /\ (contested' = FALSE => contested = FALSE /\ k.tries # MaxTries)
    BY <2>0, InCall
  <2>1. CASE k.tries < MaxTries
    <3>1. PICK m : m = [k EXCEPT !.pc = "refLoad", !.tries = @ + 1]
      OBVIOUS
    <3>2. /\ m \in BlobCallType /\ m.pc = "refLoad" /\ m.tries = k.tries + 1
          /\ m.op = k.op /\ m.rec = k.rec /\ m.slot = k.slot /\ m.label = k.label /\ m.tag = k.tag
          /\ m.delta = k.delta /\ m.seen = k.seen /\ m.old = k.old
      <4>1. k.tries + 1 \in Nat
        BY <1>2 DEF BlobCallType
      <4> QED BY <1>2, <3>1, <4>1 DEF BlobCallType
    <3>3. blobCall' = [blobCall EXCEPT ![c] = m]
      BY <1>1, <1>3, <1>6, <2>1, <3>1 DEF Blobs!RefStore, Blobs!Goto
    <3>4. Continues(m, k, index)
      BY <3>2 DEF Continues
    <3>5. m.tries \in 1..MaxTries
      BY <1>3, <2>1, <3>2 DEF Blobs!BlobAssumption
    <3>6. Fits(m, deferred[c], index, chunk, slots, published, contested)
      BY <1>2, <1>3, <3>2, <3>5 DEF Fits, Shape, Carries, Uploaded, ReadRef, ReadSlots,
           ReadLabel, Labelling, Uploading, Counting, Replaces
    <3>7. \A f \in ETag : (Owes(k, f) => Owes(m, f)) /\ (Holds(m, f) => Holds(k, f))
      BY <1>2, <3>2 DEF Owes, Holds, Counting
    <3>8. Fits(m, deferred[c], index, chunk, slots, published, contested')
      BY <2>a, <3>6 DEF Fits
    <3> QED BY <1>1, <2>0, <2>a, <3>2, <3>3, <3>4, <3>7, <3>8, GoesOn
  <2>2. CASE ~(k.tries < MaxTries)
    <3>1. blobCall' = [blobCall EXCEPT ![c] = Blobs!Idle]
      BY <1>1, <1>3, <1>6, <2>2 DEF Blobs!RefStore, Blobs!Goto
    <3>2. contested' = TRUE
      <4>1. k.tries = MaxTries
        BY <1>3, <2>2 DEF Blobs!BlobAssumption
      <4> QED BY <2>0, <4>1
    <3> QED BY <2>0, <3>1, <3>2, JustEnds
  <2> QED BY <2>1, <2>2
<1>7. CASE index[t].ver = k.ver
  <2>1. PICK n \in Int : n = (IF k.delta = 1 THEN k.ref + 1 ELSE k.ref - 1)
    BY <1>2 DEF BlobCallType
  <2>2. k.ref = index[t].ref /\ k.ver \in Nat
    BY <1>2, <1>3, <1>7 DEF Fits, ReadRef, BlobCallType
  <2>a. PICK v \in Nat : v = k.ver + 1
    BY <2>2
  <2>b. PICK x \in IndexEntry : x = index[t]
    BY DEF Books, BlobTypeOK
  <2>3. PICK en : en = [x EXCEPT !.ver = v, !.ref = n]
    OBVIOUS
  <2>c. en \in IndexEntry /\ en.ver = v /\ en.ref = n /\ en.count = x.count
    BY <2>3 DEF IndexEntry
  <2>4. en \in IndexEntry /\ en.ver = k.ver + 1 /\ en.ref = n /\ en.count = index[t].count
    BY <2>a, <2>b, <2>c
  <2>5. index' = [index EXCEPT ![t] = en] /\ index \in [ETag -> IndexEntry]
    <3>1. index' = [index EXCEPT ![t].ver = v, ![t].ref = n]
      BY <1>1, <1>3, <1>7, <2>1, <2>a DEF Blobs!RefStore
    <3>2. index \in [ETag -> IndexEntry]
      BY DEF Books, BlobTypeOK
    <3> QED BY <2>b, <2>3, <3>1, <3>2, ZenonT(60)
  <2>6. en.count \in Counts /\ \A i \in 1..en.count : chunk[t][i] = en.count
    BY <1>3, <2>4 DEF Books, Whole
  <2>7. blobCall' = [blobCall EXCEPT ![c] = Blobs!AfterRef(k)] /\ contested' = contested
    BY <1>1, <1>3, <1>7 DEF Blobs!RefStore, Blobs!Goto
  <2>8. Indexed(index) \subseteq Indexed(index')
    BY <2>4, <2>5, <2>2 DEF Indexed
  <2>9. index'[t].ref = n /\ \A e \in ETag : e # t => index'[e].ref = index[e].ref
    BY <2>4, <2>5
  <2>10. \A e \in ETag : index[e].ref \in Int
    BY InCall
  <2>d. en.ver > index[t].ver /\ (index[t].ver # 0 => en.count = index[t].count)
    BY <1>7, <2>2, <2>4
  <2>e. UNCHANGED <<chunk, slots, published, deferred, contested>>
    BY <1>5, <2>7
  <2>11. CASE k.op = "put" /\ k.delta = 1
    <3>a. PICK z \in Nat : z = 0
      OBVIOUS
    <3>b. z \in Int /\ 1 \in Nat
      OBVIOUS
    <3>1. PICK m : m = [k EXCEPT !.pc = "slotLoad", !.tries = 1, !.ref = z, !.ver = z]
      OBVIOUS
    <3>2. /\ m \in BlobCallType /\ m.pc = "slotLoad"
          /\ m.op = k.op /\ m.rec = k.rec /\ m.slot = k.slot /\ m.label = k.label /\ m.tag = k.tag
          /\ m.delta = k.delta /\ m.seen = k.seen /\ m.old = k.old
      <4>1. m \in BlobCallType
        BY <1>2, <3>1, <3>b DEF BlobCallType
      <4>2. m.pc = "slotLoad" /\ m.op = k.op /\ m.rec = k.rec /\ m.slot = k.slot /\ m.label = k.label
        BY <1>2, <3>1 DEF BlobCallType
      <4>3. m.tag = k.tag /\ m.delta = k.delta /\ m.seen = k.seen /\ m.old = k.old
        BY <1>2, <3>1 DEF BlobCallType
      <4> QED BY <4>1, <4>2, <4>3
    <3>3. blobCall' = [blobCall EXCEPT ![c] = m]
      BY <2>7, <2>11, <3>1, <3>a DEF Blobs!AfterRef
    <3>4. Continues(m, k, index)
      BY <3>2 DEF Continues
    <3>5. Fits(m, deferred[c], index', chunk, slots, published, contested)
      BY <1>2, <1>3, <2>8, <2>11, <3>2 DEF Fits, Shape, Carries, Uploaded, ReadRef, ReadSlots,
           ReadLabel, Labelling, Uploading, Counting, Replaces
    <3>6. \A e \in ETag : ~Owes(k, e) /\ ~Owes(m, e) /\ ~Holds(k, e) /\ (Holds(m, e) <=> e = t)
      BY <1>2, <1>3, <2>11, <3>2 DEF Owes, Holds, Counting
    <3>7. Pays(m, k, index', index)
      BY <2>1, <2>2, <2>9, <2>10, <2>11, <3>6 DEF Pays
    <3>8. m \in BlobCallType /\ k.tag = t
      BY <1>3, <3>2
    <3> QED BY <1>1, <2>d, <2>e, <2>4, <2>5, <2>6, <3>3, <3>4, <3>5, <3>7, <3>8, IndexMoves
  <2>12. CASE k.op = "publish" /\ k.delta = 1 /\ k.old # None
    <3>b. PICK o : o = k.old
      OBVIOUS
    <3>1. PICK m : m = [k EXCEPT !.pc = "refLoad", !.tag = o, !.old = None, !.delta = 0, !.tries = 1]
      OBVIOUS
    <3>0. k.old \in Indexed(index) /\ k.old \in ETag /\ k.old \in TagOrNone /\ None \in TagOrNone
      BY <1>2, <2>12 DEF Fits, Carries, Indexed, TagOrNone
    <3>2. /\ m \in BlobCallType /\ m.pc = "refLoad" /\ m.tag = k.old /\ m.old = None /\ m.delta = 0 /\ m.tries = 1
          /\ m.op = k.op /\ m.rec = k.rec /\ m.slot = k.slot /\ m.label = k.label /\ m.seen = k.seen
      BY <1>2, <3>0, <3>1, <3>b DEF BlobCallType
    <3>3. blobCall' = [blobCall EXCEPT ![c] = m]
      BY <2>7, <2>12, <3>1, <3>b DEF Blobs!AfterRef
    <3>4. Continues(m, k, index)
      BY <3>0, <3>2 DEF Continues
    <3>a. 1 \in 1..MaxTries
      BY DEF Blobs!BlobAssumption
    <3>5. Fits(m, deferred[c], index', chunk, slots, published, contested)
      BY <1>2, <1>3, <2>8, <2>12, <3>0, <3>2, <3>a DEF Fits, Shape, Carries, Uploaded, ReadRef, ReadSlots,
           ReadLabel, Labelling, Uploading, Counting, Replaces
    <3>6. \A e \in ETag : /\ (Owes(k, e) <=> e = t) /\ ~Owes(m, e)
                          /\ (Holds(k, e) <=> e = k.old) /\ (Holds(m, e) <=> e = k.old)
      BY <1>2, <1>3, <2>12, <3>2 DEF Owes, Holds, Counting
    <3>7. Pays(m, k, index', index)
      BY <2>1, <2>2, <2>9, <2>10, <2>12, <3>6 DEF Pays
    <3>8. m \in BlobCallType /\ k.tag = t
      BY <1>3, <3>2
    <3> QED BY <1>1, <2>d, <2>e, <2>4, <2>5, <2>6, <3>3, <3>4, <3>5, <3>7, <3>8, IndexMoves
  <2>13. CASE ~(k.op = "put" /\ k.delta = 1) /\ ~(k.op = "publish" /\ k.delta = 1 /\ k.old # None)
    <3>3. blobCall' = [blobCall EXCEPT ![c] = Blobs!Idle]
      BY <2>7, <2>13 DEF Blobs!AfterRef
    <3>4. Continues(Blobs!Idle, k, index) /\ Blobs!Idle \in BlobCallType
      BY IdleFits DEF Continues
    <3>5. Fits(Blobs!Idle, deferred[c], index', chunk, slots, published, contested)
      <4>1. contested = FALSE => deferred[c] = None
        BY <1>2 DEF Fits, Replaces
      <4> QED BY <4>1, IdleFits
    <3>6. k.delta \in {0, 1} /\ (k.delta = 1 => k.op = "publish" /\ k.old = None)
      BY <1>2, <1>3, <2>13 DEF BlobCallType
    <3>7. None \notin ETag
      BY DEF Blobs!BlobAssumption
    <3>8. \A e \in ETag : ~Owes(Blobs!Idle, e) /\ ~Holds(Blobs!Idle, e)
      BY DEF Blobs!Idle, Owes, Holds, Counting
    <3>9. \A e \in ETag : /\ Owes(k, e) <=> (k.delta = 1 /\ e = t)
                          /\ Holds(k, e) <=> (k.delta = 0 /\ e = t)
      BY <1>2, <1>3, <3>6, <3>7 DEF Owes, Holds, Counting
    <3>10. Pays(Blobs!Idle, k, index', index)
      BY <2>1, <2>2, <2>9, <2>10, <3>6, <3>8, <3>9 DEF Pays
    <3>11. Blobs!Idle \in BlobCallType /\ k.tag = t
      BY <1>3, <3>4
    <3> QED BY <1>1, <2>d, <2>e, <2>4, <2>5, <2>6, <3>3, <3>4, <3>5, <3>10, <3>11, IndexMoves
  <2> QED BY <2>11, <2>12, <2>13
<1> QED BY <1>6, <1>7

\* A step that moves only chunks of a content without an entry.
LEMMA WriteChunkStep ==
    ASSUME Books, Blobs!BlobAssumption, BlobsApart, NEW c \in Caller, Blobs!WriteChunk(c)
    PROVE  Books'
<1>1. PICK k : k = blobCall[c]
  OBVIOUS
<1>2. k \in BlobCallType /\ Fits(k, deferred[c], index, chunk, slots, published, contested) /\ k.pc = "chunk"
  BY <1>1, InCall DEF Blobs!WriteChunk, Blobs!At
<1>3. /\ k.tag \in ETag /\ k.op = "put" /\ k.delta = 1 /\ k.count \in Counts /\ k.rec \in Record /\ k.slot \in Slot
      /\ index[k.tag].ver = 0 /\ k.tries \in 1..k.count /\ \A i \in 1..(k.tries - 1) : chunk[k.tag][i] = k.count
  BY <1>2 DEF Fits, Shape, Uploading, Uploaded
<1>4. /\ k.count \in 1..2 /\ k.tries \in 1..2 /\ k.tries \in Nat /\ k.count \in Nat
  <2>1. k.count \in 1..2
    BY <1>3 DEF Blobs!BlobAssumption
  <2> QED BY <1>3, <2>1
<1>5. UNCHANGED <<index, slots, published, deferred, contested>>
  BY DEF Blobs!WriteChunk
<1>6. chunk \in [ETag -> [1..2 -> Nat]]
  BY DEF Books, BlobTypeOK
<1>7. PICK ch : ch = chunk'
  OBVIOUS
<1>8. /\ ch \in [ETag -> [1..2 -> Nat]] /\ \A e \in ETag : e # k.tag => ch[e] = chunk[e]
      /\ ch[k.tag][k.tries] = k.count
      /\ \A i \in 1..2 : i # k.tries => ch[k.tag][i] = chunk[k.tag][i]
  <2>1. ch = [chunk EXCEPT ![k.tag][k.tries] = k.count]
    BY <1>1, <1>7 DEF Blobs!WriteChunk
  <2> QED BY <1>3, <1>4, <1>6, <2>1
<1>9. Whole(index, ch)
  BY <1>3, <1>8 DEF Books, Whole, Indexed
<1>10. PICK m : m = IF k.tries < k.count THEN [k EXCEPT !.tries = @ + 1] ELSE [k EXCEPT !.pc = "index"]
  OBVIOUS
<1>11. blobCall' = [blobCall EXCEPT ![c] = m]
  BY <1>1, <1>10 DEF Blobs!WriteChunk, Blobs!Goto
<1>12. /\ m \in BlobCallType /\ m.pc \in {"chunk", "index"} /\ m.tag = k.tag /\ m.count = k.count
       /\ m.op = k.op /\ m.rec = k.rec /\ m.slot = k.slot /\ m.label = k.label
       /\ m.delta = k.delta /\ m.seen = k.seen /\ m.old = k.old
  <2>1. CASE k.tries < k.count
    BY <1>2, <1>4, <1>10, <2>1 DEF BlobCallType
  <2>2. CASE ~(k.tries < k.count)
    BY <1>2, <1>10, <2>2 DEF BlobCallType
  <2> QED BY <2>1, <2>2
<1>13. Uploaded(m, index, ch)
  <2>1. CASE k.tries < k.count
    <3>1. m.pc = "chunk" /\ m.tries = k.tries + 1
      BY <1>2, <1>4, <1>10, <2>1 DEF BlobCallType
    <3>2. m.tries \in 1..m.count
      BY <1>3, <1>4, <1>12, <2>1, <3>1
    <3>3. \A i \in 1..(m.tries - 1) : ch[k.tag][i] = k.count
      <4> SUFFICES ASSUME NEW i \in 1..(m.tries - 1) PROVE ch[k.tag][i] = k.count
        OBVIOUS
      <4>1. i \in 1..2 /\ (i = k.tries \/ i \in 1..(k.tries - 1))
        BY <1>4, <3>1
      <4> QED BY <1>3, <1>8, <4>1
    <3> QED BY <1>3, <1>12, <3>1, <3>2, <3>3 DEF Uploaded
  <2>2. CASE ~(k.tries < k.count)
    <3>1. m.pc = "index" /\ k.tries = k.count
      BY <1>2, <1>3, <1>4, <1>10, <2>2 DEF BlobCallType
    <3>2. \A i \in 1..k.count : ch[k.tag][i] = k.count
      <4> SUFFICES ASSUME NEW i \in 1..k.count PROVE ch[k.tag][i] = k.count
        OBVIOUS
      <4>1. i \in 1..2 /\ (i = k.tries \/ i \in 1..(k.tries - 1))
        BY <1>4, <3>1
      <4> QED BY <1>3, <1>8, <4>1
    <3> QED BY <1>3, <1>12, <3>1, <3>2 DEF Uploaded
  <2> QED BY <2>1, <2>2
<1>14. Fits(m, deferred[c], index, ch, slots, published, contested)
  BY <1>2, <1>3, <1>12, <1>13 DEF Fits, Shape, Carries, ReadRef, ReadSlots, ReadLabel,
       Replaces, Labelling, Uploading, Counting
<1>15. ASSUME NEW b \in Caller, b # c
       PROVE  /\ Apart(m, blobCall[b], index, slots)
              /\ Fits(blobCall[b], deferred[b], index, ch, slots, published, contested)
  <2>1. PICK n : n = blobCall[b]
    OBVIOUS
  <2>2. /\ n \in BlobCallType /\ Fits(n, deferred[b], index, chunk, slots, published, contested)
        /\ Apart(k, n, index, slots)
    BY <1>1, <1>15, <2>1, InCall
  <2>3. Continues(m, k, index)
    BY <1>12 DEF Continues
  <2>4. Apart(m, n, index, slots)
    BY <2>2, <2>3, StillApart
  <2>5. n.tag # k.tag
    BY <1>3, <2>2 DEF Apart, Indexed
  <2>6. Uploaded(n, index, ch)
    <3>1. n.pc \in {"chunk", "index", "getChunk"} => n.tag \in ETag
      BY <2>2 DEF Fits, Shape, Uploading
    <3>2. Uploaded(n, index, chunk)
      BY <2>2 DEF Fits
    <3> QED BY <1>8, <2>5, <3>1, <3>2 DEF Uploaded
  <2> QED BY <2>1, <2>2, <2>4, <2>6 DEF Fits
<1>16. \A e \in ETag : ~Owes(k, e) /\ ~Owes(m, e) /\ ~Holds(k, e) /\ ~Holds(m, e)
  BY <1>2, <1>3, <1>12 DEF Owes, Holds, Counting
<1>17. ASSUME contested = FALSE, NEW e \in ETag PROVE Covered(index, slots, published, blobCall', e)
  <2>1. index \in [ETag -> IndexEntry] /\ \A f \in ETag : index[f].ref \in Int
    BY InCall DEF Books, BlobTypeOK
  <2>2. Pays(m, k, index, index)
    BY <1>16, <2>1 DEF Pays
  <2>3. PICK f : f = blobCall'
    OBVIOUS
  <2> QED BY <1>1, <1>11, <1>12, <1>17, <2>1, <2>2, <2>3, PaidFor
<1>18. /\ index' = index /\ chunk' = ch /\ slots' = slots /\ published' = published /\ deferred' = deferred
       /\ contested' = contested
  BY <1>5, <1>7
<1>19. /\ index' \in [ETag -> IndexEntry] /\ slots' \in [Record -> [ver : Nat, map : [Slot -> TagOrNone]]]
       /\ published' \in [Record -> [Slot -> [Label -> TagOrNone]]] /\ contested' \in BOOLEAN
       /\ chunk' \in [ETag -> [1..2 -> Nat]]
  BY <1>8, <1>18 DEF Books, BlobTypeOK
<1>20. /\ Blank(index') /\ Names(index', slots', published', deferred') /\ Whole(index', chunk')
       /\ Indexed(index) \subseteq Indexed(index') /\ \A r \in Record : slots[r].ver # 0 => slots'[r].ver # 0
       /\ contested' = FALSE => contested = FALSE
       /\ Fits(m, deferred[c], index', chunk', slots', published', contested')
  BY <1>9, <1>14, <1>18 DEF Books
<1>21. \A b \in Caller : b # c =>
          /\ Apart(m, blobCall[b], index', slots')
          /\ Fits(blobCall[b], deferred[b], index', chunk', slots', published', contested')
  BY <1>15, <1>18
<1>22. contested' = FALSE => \A e \in ETag : Covered(index', slots', published', blobCall', e)
  BY <1>17, <1>18
<1>23. deferred' = [deferred EXCEPT ![c] = deferred[c]] /\ deferred[c] \in TagOrNone
  BY <1>18, InCall
<1> QED BY <1>11, <1>12, <1>19, <1>20, <1>21, <1>22, <1>23, Becomes

LEMMA WriteIndexStep ==
    ASSUME Books, Blobs!BlobAssumption, BlobsApart, NEW c \in Caller, Blobs!WriteIndex(c)
    PROVE  Books'
<1>1. PICK k : k = blobCall[c]
  OBVIOUS
<1>2. k \in BlobCallType /\ Fits(k, deferred[c], index, chunk, slots, published, contested) /\ k.pc = "index"
  BY <1>1, InCall DEF Blobs!WriteIndex, Blobs!At
<1>3. PICK t \in ETag :
         /\ t = k.tag /\ k.op = "put" /\ k.delta = 1 /\ k.count \in Counts /\ k.rec \in Record /\ k.slot \in Slot
         /\ index[t].ver = 0 /\ \A i \in 1..k.count : chunk[t][i] = k.count
  BY <1>2 DEF Fits, Shape, Uploading, Uploaded
<1>4. k.count \in Nat /\ index[t].ref = 0
  BY <1>2, <1>3 DEF BlobCallType, Books, Blank
<1>5. UNCHANGED <<chunk, slots, published, deferred, contested>>
  BY DEF Blobs!WriteIndex
<1>6. PICK en : en = [ver |-> 1, ref |-> 1, count |-> k.count]
  OBVIOUS
<1>7. en \in IndexEntry /\ en.ver = 1 /\ en.ref = 1 /\ en.count = k.count
  BY <1>4, <1>6 DEF IndexEntry
<1>8. index' = [index EXCEPT ![t] = en] /\ index \in [ETag -> IndexEntry]
  BY <1>1, <1>3, <1>6 DEF Blobs!WriteIndex, Books, BlobTypeOK
<1>9. /\ index'[t] = en /\ t \in Indexed(index') /\ Indexed(index) \subseteq Indexed(index')
      /\ \A e \in ETag : e # t => index'[e] = index[e]
  BY <1>7, <1>8 DEF Indexed
<1>10. PICK m : m = [k EXCEPT !.pc = "slotLoad", !.tries = 1, !.count = 0]
  OBVIOUS
<1>11. /\ m \in BlobCallType /\ m.pc = "slotLoad"
       /\ m.op = k.op /\ m.rec = k.rec /\ m.slot = k.slot /\ m.label = k.label /\ m.tag = k.tag
       /\ m.delta = k.delta /\ m.seen = k.seen /\ m.old = k.old
  BY <1>2, <1>10 DEF BlobCallType
<1>12. blobCall' = [blobCall EXCEPT ![c] = m]
  BY <1>1, <1>10 DEF Blobs!WriteIndex, Blobs!Goto
<1>13. Continues(m, k, index)
  BY <1>11 DEF Continues
<1>14. Fits(m, deferred[c], index', chunk, slots, published, contested)
  BY <1>2, <1>3, <1>9, <1>11 DEF Fits, Shape, Carries, Uploaded, ReadRef, ReadSlots,
       ReadLabel, Labelling, Uploading, Counting, Replaces
<1>15. \A e \in ETag : ~Owes(k, e) /\ ~Owes(m, e) /\ ~Holds(k, e) /\ (Holds(m, e) <=> e = t)
  BY <1>2, <1>3, <1>11 DEF Owes, Holds, Counting
<1>16. \A e \in ETag : index[e].ref \in Int
  BY InCall
<1>17. Pays(m, k, index', index)
  BY <1>4, <1>7, <1>9, <1>15, <1>16 DEF Pays
<1>18. en.ver > index[t].ver /\ (index[t].ver # 0 => en.count = index[t].count)
       /\ en.count \in Counts /\ (\A i \in 1..en.count : chunk[t][i] = en.count) /\ k.tag = t
  BY <1>3, <1>7
<1>19. en \in IndexEntry /\ m \in BlobCallType /\ index' = [index EXCEPT ![t] = en]
  BY <1>7, <1>8, <1>11
<1> QED BY <1>1, <1>5, <1>12, <1>13, <1>14, <1>17, <1>18, <1>19, IndexMoves

\* Call k becomes m, and so much is named by nw more, by od less.
Trades(m, k, nw, od) ==
    \A e \in ETag :
        (IF Owes(m, e) THEN 1 ELSE 0) - (IF Holds(m, e) THEN 1 ELSE 0) - (IF nw = e THEN 1 ELSE 0)
          >= (IF Owes(k, e) THEN 1 ELSE 0) - (IF Holds(k, e) THEN 1 ELSE 0) - (IF od = e THEN 1 ELSE 0)

LEMMA Traded ==
    ASSUME Books, Blobs!BlobAssumption, NEW c \in Caller, NEW m \in BlobCallType, NEW g, NEW e \in ETag, NEW sl, NEW pu,
           g = [blobCall EXCEPT ![c] = m], contested = FALSE, NEW nw, NEW od, Trades(m, blobCall[c], nw, od),
           \/ pu = published /\ Exchange(Cardinality(SlotsOf(sl, e)), Cardinality(SlotsOf(slots, e)), nw, od, e)
           \/ sl = slots /\ Exchange(Cardinality(VersionsOf(pu, e)), Cardinality(VersionsOf(published, e)), nw, od, e)
    PROVE  Covered(index, sl, pu, g, e)
<1>1. blobCall \in [Caller -> BlobCallType] /\ index \in [ETag -> IndexEntry]
  BY DEF Books, BlobTypeOK
<1>2. Recount(blobCall, g, blobCall[c], m, e)
  BY <1>1, Recounted
<1>3. Covered(index, slots, published, blobCall, e)
  BY DEF Books
<1>4. /\ Cardinality(Owing(g, e)) \in Nat /\ Cardinality(Owing(blobCall, e)) \in Nat
      /\ Cardinality(Holding(g, e)) \in Nat /\ Cardinality(Holding(blobCall, e)) \in Nat
  BY CallsFinite
<1>5. /\ Cardinality(SlotsOf(slots, e)) \in Nat /\ Cardinality(VersionsOf(published, e)) \in Nat
      /\ Cardinality(SlotsOf(sl, e)) \in Nat /\ Cardinality(VersionsOf(pu, e)) \in Nat
  BY NamesFinite
<1>6. index[e].ref \in Int
  BY <1>1 DEF IndexEntry
<1>7. (IF Owes(m, e) THEN 1 ELSE 0) - (IF Holds(m, e) THEN 1 ELSE 0) - (IF nw = e THEN 1 ELSE 0)
        >= (IF Owes(blobCall[c], e) THEN 1 ELSE 0) - (IF Holds(blobCall[c], e) THEN 1 ELSE 0) - (IF od = e THEN 1 ELSE 0)
  BY DEF Trades
<1> HIDE DEF Owes, Holds, SlotsOf, VersionsOf, Owing, Holding
<1>8. Cardinality(SlotsOf(sl, e)) + Cardinality(VersionsOf(pu, e)) - (IF nw = e THEN 1 ELSE 0)
        = Cardinality(SlotsOf(slots, e)) + Cardinality(VersionsOf(published, e)) - (IF od = e THEN 1 ELSE 0)
  BY <1>5 DEF Exchange
<1> QED BY <1>2, <1>3, <1>4, <1>5, <1>6, <1>7, <1>8 DEF Covered, Recount

LEMMA VersionStoreStep ==
    ASSUME Books, Blobs!BlobAssumption, BlobsApart, NEW c \in Caller, Blobs!VersionStore(c)
    PROVE  Books'
<1>1. PICK k : k = blobCall[c]
  OBVIOUS
<1>2. k \in BlobCallType /\ Fits(k, deferred[c], index, chunk, slots, published, contested) /\ k.pc = "verStore"
  BY <1>1, InCall DEF Blobs!VersionStore, Blobs!At
<1>3. PICK r \in Record, s \in Slot, l \in Label, t \in TagOrNone, o \in TagOrNone :
         /\ r = k.rec /\ s = k.slot /\ l = k.label /\ t = k.tag /\ o = k.old
         /\ Labelling(k) /\ published[r][s][l] = o /\ o # t
         /\ t \in Indexed(index) \cup {None} /\ o \in Indexed(index) \cup {None}
         /\ k.op = "publish" => t \in ETag
         /\ k.op = "deleteVersion" => t = None
  <2>1. k.rec \in Record /\ k.slot \in Slot /\ k.label \in Label /\ k.tag \in TagOrNone /\ k.old \in TagOrNone /\ Labelling(k)
    BY <1>2 DEF Fits, Shape, Labelling, BlobCallType
  <2>2. /\ published[k.rec][k.slot][k.label] = k.old /\ k.old # k.tag
        /\ k.tag \in Indexed(index) \cup {None} /\ k.old \in Indexed(index) \cup {None}
        /\ k.op = "publish" => k.tag \in ETag
        /\ k.op = "deleteVersion" => k.tag = None
    BY <1>2 DEF Fits, Shape, Carries, ReadLabel, Uploading
  <2> QED BY <2>1, <2>2
<1>4. UNCHANGED <<index, chunk, slots, deferred, contested>>
  BY DEF Blobs!VersionStore
<1>5. published \in [Record -> [Slot -> [Label -> TagOrNone]]] /\ blobCall \in [Caller -> BlobCallType]
  BY DEF Books, BlobTypeOK
<1>6. PICK pu : pu = published'
  OBVIOUS
<1>7. pu = [published EXCEPT ![r][s][l] = t]
  BY <1>1, <1>3, <1>6 DEF Blobs!VersionStore
<1>8. /\ pu \in [Record -> [Slot -> [Label -> TagOrNone]]] /\ pu[r][s][l] = t
      /\ \A p \in Record : \A u \in Slot : \A v \in Label :
            (p # r \/ u # s \/ v # l) => pu[p][u][v] = published[p][u][v]
  BY <1>5, <1>7
<1>9. Names(index, slots, pu, deferred)
  <2> SUFFICES ASSUME NEW p \in Record, NEW u \in Slot, NEW v \in Label PROVE pu[p][u][v] \in Indexed(index) \cup {None}
    BY DEF Books, Names
  <2>1. published[p][u][v] \in Indexed(index) \cup {None}
    BY DEF Books, Names
  <2> QED BY <1>3, <1>8, <2>1
<1>10. PICK m : m = IF k.op = "publish" THEN [k EXCEPT !.pc = "refLoad", !.delta = 1, !.tries = 1]
                    ELSE [k EXCEPT !.pc = "refLoad", !.tag = o, !.old = None, !.delta = 0, !.tries = 1]
  OBVIOUS
<1>11. blobCall' = [blobCall EXCEPT ![c] = m]
  BY <1>1, <1>3, <1>10 DEF Blobs!VersionStore, Blobs!Goto
<1>12. 1 \in 1..MaxTries /\ None \in TagOrNone
  BY DEF Blobs!BlobAssumption, TagOrNone
<1>13. /\ m \in BlobCallType /\ m.pc = "refLoad" /\ m.tries = 1
       /\ m.op = k.op /\ m.rec = k.rec /\ m.slot = k.slot /\ m.label = k.label /\ m.seen = k.seen
       /\ k.op = "publish" => m.tag = t /\ m.old = o /\ m.delta = 1
       /\ k.op # "publish" => m.tag = o /\ m.old = None /\ m.delta = 0
  <2>1. CASE k.op = "publish"
    BY <1>2, <1>3, <1>10, <2>1 DEF BlobCallType
  <2>2. CASE k.op # "publish"
    BY <1>2, <1>3, <1>10, <1>12, <2>2 DEF BlobCallType
  <2> QED BY <2>1, <2>2
<1>14. k.op \in {"publish", "deleteVersion"} /\ (k.op = "deleteVersion" => o \in ETag /\ o \in Indexed(index))
  BY <1>3 DEF Labelling, TagOrNone
<1>15. Fits(m, deferred[c], index, chunk, slots, pu, contested)
  BY <1>2, <1>3, <1>12, <1>13, <1>14 DEF Fits, Shape, Carries, Uploaded, ReadRef, ReadSlots, ReadLabel,
       Replaces, Labelling, Uploading, Counting
<1>16. Continues(m, k, index)
  BY <1>3, <1>13 DEF Continues
<1>17. ASSUME NEW b \in Caller, b # c
       PROVE  /\ Apart(m, blobCall[b], index, slots)
              /\ Fits(blobCall[b], deferred[b], index, chunk, slots, pu, contested)
  <2>1. PICK n : n = blobCall[b]
    OBVIOUS
  <2>2. /\ n \in BlobCallType /\ Fits(n, deferred[b], index, chunk, slots, published, contested)
        /\ Apart(k, n, index, slots)
    BY <1>1, <1>17, <2>1, InCall
  <2>3. Apart(m, n, index, slots)
    BY <1>16, <2>2, StillApart
  <2>4. ReadLabel(n, pu)
    <3>1. ReadLabel(n, published)
      BY <2>2 DEF Fits
    <3>2. n.pc = "verStore" => n.rec \in Record /\ n.slot \in Slot /\ n.label \in Label /\ Labelling(n)
      BY <2>2 DEF Fits, Shape, Labelling
    <3>3. ~(Labelling(n) /\ k.rec = n.rec /\ k.slot = n.slot /\ k.label = n.label)
      BY <1>3, <2>2 DEF Apart
    <3> QED BY <1>3, <1>8, <3>1, <3>2, <3>3 DEF ReadLabel
  <2> QED BY <2>1, <2>2, <2>3, <2>4 DEF Fits
<1>18. ASSUME contested = FALSE, NEW e \in ETag PROVE Covered(index, slots, pu, blobCall', e)
  <2>1. Exchange(Cardinality(VersionsOf(pu, e)), Cardinality(VersionsOf(published, e)), t, o, e)
    <3>1. PICK q : q = published
      OBVIOUS
    <3>2. q \in [Record -> [Slot -> [Label -> TagOrNone]]] /\ pu = [q EXCEPT ![r][s][l] = t] /\ q[r][s][l] = o
      BY <1>3, <1>5, <1>7, <3>1
    <3>3. Exchange(Cardinality(VersionsOf(pu, e)), Cardinality(VersionsOf(q, e)), t, q[r][s][l], e)
      BY <3>2, VersionRecounted
    <3> QED BY <3>1, <3>2, <3>3
  <2>2. \A f \in ETag : /\ ~Owes(k, f) /\ ~Holds(k, f)
                        /\ Owes(m, f) <=> (k.op = "publish" /\ f = t)
                        /\ Holds(m, f) <=> f = o
    BY <1>2, <1>13, <1>14 DEF Owes, Holds, Counting
  <2>3. k.op # "publish" => t \notin ETag
    BY <1>3, <1>14 DEF Blobs!BlobAssumption
  <2>4. Trades(m, k, t, o)
    <3> SUFFICES ASSUME NEW f \in ETag
                 PROVE  (IF Owes(m, f) THEN 1 ELSE 0) - (IF Holds(m, f) THEN 1 ELSE 0) - (IF t = f THEN 1 ELSE 0)
                          >= (IF Owes(k, f) THEN 1 ELSE 0) - (IF Holds(k, f) THEN 1 ELSE 0) - (IF o = f THEN 1 ELSE 0)
      BY DEF Trades
    <3>1. ~Owes(k, f) /\ ~Holds(k, f) /\ (Owes(m, f) <=> (k.op = "publish" /\ f = t)) /\ (Holds(m, f) <=> f = o)
      BY <2>2
    <3>2. t = f => k.op = "publish"
      BY <2>3
    <3> HIDE DEF Owes, Holds
    <3> QED BY <3>1, <3>2
  <2>5. PICK g : g = blobCall'
    OBVIOUS
  <2>6. g = [blobCall EXCEPT ![c] = m] /\ Trades(m, blobCall[c], t, o) /\ m \in BlobCallType /\ contested = FALSE
    BY <1>1, <1>11, <1>13, <1>18, <2>4, <2>5
  <2>7. Covered(index, slots, pu, g, e)
    BY <2>1, <2>6, Traded
  <2> QED BY <2>5, <2>7
<1>19. /\ index' = index /\ chunk' = chunk /\ slots' = slots /\ published' = pu /\ deferred' = deferred
       /\ contested' = contested
  BY <1>4, <1>6
<1>20. /\ index' \in [ETag -> IndexEntry] /\ slots' \in [Record -> [ver : Nat, map : [Slot -> TagOrNone]]]
       /\ published' \in [Record -> [Slot -> [Label -> TagOrNone]]] /\ contested' \in BOOLEAN
       /\ chunk' \in [ETag -> [1..2 -> Nat]]
  BY <1>8, <1>19 DEF Books, BlobTypeOK
<1>21. /\ Blank(index') /\ Names(index', slots', published', deferred') /\ Whole(index', chunk')
       /\ Indexed(index) \subseteq Indexed(index') /\ \A p \in Record : slots[p].ver # 0 => slots'[p].ver # 0
       /\ contested' = FALSE => contested = FALSE
       /\ Fits(m, deferred[c], index', chunk', slots', published', contested')
  BY <1>9, <1>15, <1>19 DEF Books
<1>22. \A b \in Caller : b # c =>
          /\ Apart(m, blobCall[b], index', slots')
          /\ Fits(blobCall[b], deferred[b], index', chunk', slots', published', contested')
  BY <1>17, <1>19
<1>23. contested' = FALSE => \A e \in ETag : Covered(index', slots', published', blobCall', e)
  BY <1>18, <1>19
<1>24. deferred' = [deferred EXCEPT ![c] = deferred[c]] /\ deferred[c] \in TagOrNone
  BY <1>19, InCall
<1> QED BY <1>11, <1>13, <1>20, <1>21, <1>22, <1>23, <1>24, Becomes

\* A write of the slots that is refused.
LEMMA SlotsRefused ==
    ASSUME Books, Blobs!BlobAssumption, BlobsApart, NEW c \in Caller, Blobs!SlotStore(c),
           ~(blobCall[c].ver = 0 \/ slots[blobCall[c].rec].ver = blobCall[c].ver)
    PROVE  Books'
<1>1. PICK k : k = blobCall[c]
  OBVIOUS
<1>2. k \in BlobCallType /\ Fits(k, deferred[c], index, chunk, slots, published, contested) /\ k.pc = "slotStore"
  BY <1>1, InCall DEF Blobs!SlotStore, Blobs!At
<1>3. UNCHANGED <<Blobs!store, deferred>> /\ contested' = TRUE
  BY DEF Blobs!SlotStore, Blobs!store
<1>4. CASE k.tries < MaxTries
  <2>1. PICK m : m = [k EXCEPT !.pc = "slotLoad", !.tries = @ + 1]
    OBVIOUS
  <2>2. /\ m \in BlobCallType /\ m.pc = "slotLoad"
        /\ m.op = k.op /\ m.rec = k.rec /\ m.slot = k.slot /\ m.label = k.label /\ m.tag = k.tag
        /\ m.delta = k.delta /\ m.seen = k.seen /\ m.old = k.old
    <3>1. k.tries + 1 \in Nat
      BY <1>2 DEF BlobCallType
    <3> QED BY <1>2, <2>1, <3>1 DEF BlobCallType
  <2>3. blobCall' = [blobCall EXCEPT ![c] = m]
    BY <1>1, <1>4, <2>1 DEF Blobs!SlotStore, Blobs!Goto
  <2>4. Continues(m, k, index)
    BY <2>2 DEF Continues
  <2>5. Fits(m, deferred[c], index, chunk, slots, published, contested')
    BY <1>2, <1>3, <2>2 DEF Fits, Shape, Carries, Uploaded, ReadRef, ReadSlots,
         ReadLabel, Labelling, Uploading, Counting
  <2> QED BY <1>1, <1>3, <2>2, <2>3, <2>4, <2>5, GoesOn
<1>5. CASE ~(k.tries < MaxTries)
  <2>1. blobCall' = [blobCall EXCEPT ![c] = Blobs!Idle]
    BY <1>1, <1>5 DEF Blobs!SlotStore, Blobs!Goto
  <2> QED BY <1>3, <2>1, JustEnds
<1> QED BY <1>4, <1>5

\* A write of the slots that succeeds.
LEMMA SlotsWritten ==
    ASSUME Books, Blobs!BlobAssumption, BlobsApart, NEW c \in Caller, Blobs!SlotStore(c),
           blobCall[c].ver = 0 \/ slots[blobCall[c].rec].ver = blobCall[c].ver
    PROVE  Books'
<1>1. PICK k : k = blobCall[c]
  OBVIOUS
<1>2. k \in BlobCallType /\ Fits(k, deferred[c], index, chunk, slots, published, contested) /\ k.pc = "slotStore"
  BY <1>1, InCall DEF Blobs!SlotStore, Blobs!At
<1>3. PICK r \in Record, s \in Slot, v \in Nat :
         /\ r = k.rec /\ s = k.slot /\ v = k.ver /\ v = slots[r].ver /\ k.op \in {"put", "delete"}
         /\ k.op = "put" => k.tag \in ETag /\ k.tag \in Indexed(index)
  <2>1. k.rec \in Record /\ k.slot \in Slot /\ k.op \in {"put", "delete"} /\ (k.op = "put" => k.tag \in ETag)
    BY <1>2 DEF Fits, Shape
  <2>2. k.ver \in Nat /\ k.ver = slots[k.rec].ver
    BY <1>1, <1>2 DEF Fits, ReadSlots, BlobCallType
  <2>3. k.op = "put" => k.tag \in Indexed(index)
    BY <1>2, <2>1 DEF Fits, Carries, Uploading, Blobs!BlobAssumption
  <2> QED BY <2>1, <2>2, <2>3
<1>4. UNCHANGED <<index, chunk, published, contested>> /\ Blobs!HandleOf(c) = c /\ Blobs!AfterSlot(c)
  BY <1>1, <1>3 DEF Blobs!SlotStore, Blobs!HandleOf, BlobsApart
<1>5. /\ slots \in [Record -> [ver : Nat, map : [Slot -> TagOrNone]]] /\ blobCall \in [Caller -> BlobCallType]
      /\ deferred \in [Caller -> TagOrNone]
  BY DEF Books, BlobTypeOK
<1>6. PICK nw \in TagOrNone : nw = (IF k.op = "put" THEN k.tag ELSE None) /\ nw \in Indexed(index) \cup {None}
  BY <1>3 DEF TagOrNone
<1>7. PICK od \in TagOrNone : od = slots[r].map[s]
  BY <1>5
<1>8. k.seen = [slots[r].map EXCEPT ![s] = nw] /\ \A u \in Slot : k.seen[u] \in Indexed(index) \cup {None}
  BY <1>2, <1>3, <1>6 DEF Fits, ReadSlots, Carries
<1>9. PICK sl : sl = slots'
  OBVIOUS
<1>10. sl = [slots EXCEPT ![r] = [ver |-> v + 1, map |-> k.seen]]
  BY <1>1, <1>3, <1>9 DEF Blobs!SlotStore
<1>11. /\ sl \in [Record -> [ver : Nat, map : [Slot -> TagOrNone]]] /\ sl[r].ver = v + 1 /\ sl[r].map = k.seen
       /\ \A p \in Record : p # r => sl[p] = slots[p]
  <2>1. k.seen \in [Slot -> TagOrNone] /\ v + 1 \in Nat
    BY <1>2 DEF BlobCallType
  <2> QED BY <1>5, <1>10, <2>1
<1>12. \A p \in Record : slots[p].ver # 0 => sl[p].ver # 0
  BY <1>11
<1>13. Names(index, sl, published, deferred)
  BY <1>8, <1>11 DEF Books, Names
<1>14. PICK old : old = IF k.op = "put" THEN deferred[c] ELSE k.old
  OBVIOUS
<1>15. PICK d : d = IF k.op = "put" THEN None ELSE deferred[c]
  OBVIOUS
<1>16. /\ old \in Indexed(index) \cup {None} /\ old \in TagOrNone /\ None \in TagOrNone /\ d \in TagOrNone
       /\ d \in Indexed(index) \cup {None} /\ (old # None => old \in ETag)
  BY <1>2, <1>14, <1>15, InCall DEF Fits, Carries, Indexed, TagOrNone
<1>17. deferred' = [deferred EXCEPT ![c] = d]
  <2>1. deferred = [deferred EXCEPT ![c] = deferred[c]]
    BY InCall
  <2> QED BY <1>1, <1>4, <1>15, <2>1 DEF Blobs!AfterSlot
<1>18. PICK nothing : nothing = [u \in Slot |-> None]
  OBVIOUS
<1>19. nothing \in [Slot -> TagOrNone] /\ \A u \in Slot : nothing[u] = None
  BY <1>16, <1>18
<1>20. PICK m : m = IF old = None THEN Blobs!Idle
                    ELSE [k EXCEPT !.pc = "refLoad", !.tag = old, !.old = None, !.delta = 0, !.tries = 1,
                                   !.seen = nothing]
  OBVIOUS
<1>21. blobCall' = [blobCall EXCEPT ![c] = m]
  BY <1>1, <1>4, <1>14, <1>18, <1>20 DEF Blobs!AfterSlot, Blobs!Goto
<1>22. old # None =>
          /\ m \in BlobCallType /\ m.pc = "refLoad" /\ m.tag = old /\ m.old = None /\ m.delta = 0 /\ m.tries = 1
          /\ m.op = k.op /\ m.rec = k.rec /\ m.slot = k.slot /\ m.label = k.label /\ m.seen = nothing
  BY <1>2, <1>16, <1>19, <1>20 DEF BlobCallType
<1>23. m \in BlobCallType /\ Continues(m, k, index)
  <2>1. CASE old = None
    BY <1>20, <2>1, IdleFits DEF Continues
  <2>2. CASE old # None
    BY <1>16, <1>22, <2>2 DEF Continues
  <2> QED BY <2>1, <2>2
<1>24. contested = FALSE => /\ d = None
                            /\ k.op = "put" => old = (IF od = nw THEN None ELSE od)
                            /\ k.op # "put" => old = od /\ od # None
  BY <1>2, <1>3, <1>6, <1>7, <1>14, <1>15 DEF Fits, Replaces
<1>25. Fits(m, d, index, chunk, sl, published, contested)
  <2>1. CASE old = None
    BY <1>20, <1>24, <2>1, IdleFits
  <2>2. CASE old # None
    <3>1. 1 \in 1..MaxTries
      BY DEF Blobs!BlobAssumption
    <3> QED BY <1>2, <1>3, <1>16, <1>19, <1>22, <1>24, <2>2, <3>1 DEF Fits, Shape, Carries, Uploaded, ReadRef,
           ReadSlots, ReadLabel, Labelling, Uploading, Counting, Replaces
  <2> QED BY <2>1, <2>2
<1>26. ASSUME NEW b \in Caller, b # c
       PROVE  /\ Apart(m, blobCall[b], index, sl)
              /\ Fits(blobCall[b], deferred[b], index, chunk, sl, published, contested)
  <2>1. PICK n : n = blobCall[b]
    OBVIOUS
  <2>2. /\ n \in BlobCallType /\ Fits(n, deferred[b], index, chunk, slots, published, contested)
        /\ Apart(k, n, index, slots)
    BY <1>1, <1>26, <2>1, InCall
  <2>3. Apart(m, n, index, slots)
    BY <1>23, <2>2, StillApart
  <2>4. Apart(m, n, index, sl)
    BY <1>12, <2>3 DEF Apart
  <2>5. n.rec = r => v # 0
    BY <1>3, <2>2 DEF Apart
  <2>6. n.pc = "slotStore" => n.rec \in Record /\ n.ver \in Nat /\ (n.rec = r => n.ver \in 1..v /\ n.ver # v + 1)
    <3>1. n.pc = "slotStore" => n.rec \in Record /\ n.ver \in Nat
      BY <2>2 DEF Fits, Shape, BlobCallType
    <3>2. n.pc = "slotStore" => n.ver \in 0..slots[n.rec].ver /\ (n.ver = 0 => slots[n.rec].ver = 0)
      BY <2>2 DEF Fits, ReadSlots
    <3> QED BY <1>3, <2>5, <3>1, <3>2
  <2>7. ReadSlots(n, sl)
    <3>1. ReadSlots(n, slots)
      BY <2>2 DEF Fits
    <3>2. CASE n.rec = r
      BY <1>11, <2>6, <3>2 DEF ReadSlots
    <3>3. CASE n.rec # r
      BY <1>11, <2>6, <3>1, <3>3 DEF ReadSlots
    <3> QED BY <3>2, <3>3
  <2>8. contested = FALSE => Replaces(n, deferred[b], sl)
    <3>1. contested = FALSE => Replaces(n, deferred[b], slots)
      BY <2>2 DEF Fits
    <3>2. CASE n.rec = r
      BY <1>11, <2>6, <3>1, <3>2 DEF Replaces
    <3>3. CASE n.rec # r
      BY <1>11, <2>6, <3>1, <3>3 DEF Replaces
    <3> QED BY <3>2, <3>3
  <2> QED BY <2>1, <2>2, <2>4, <2>7, <2>8 DEF Fits
<1>27. ASSUME contested = FALSE, NEW e \in ETag PROVE Covered(index, sl, published, blobCall', e)
  <2>1. Exchange(Cardinality(SlotsOf(sl, e)), Cardinality(SlotsOf(slots, e)), nw, od, e)
    <3>1. PICK q : q = slots
      OBVIOUS
    <3>2. /\ q \in [Record -> [ver : Nat, map : [Slot -> TagOrNone]]] /\ q[r].map[s] = od
          /\ sl = [q EXCEPT ![r] = [ver |-> v + 1, map |-> [q[r].map EXCEPT ![s] = nw]]]
      BY <1>5, <1>7, <1>8, <1>10, <3>1
    <3>3. Exchange(Cardinality(SlotsOf(sl, e)), Cardinality(SlotsOf(q, e)), nw, q[r].map[s], e)
      BY <3>2, SlotRecounted
    <3> QED BY <3>1, <3>2, <3>3
  <2>2. \A f \in ETag : /\ ~Owes(k, f) /\ ~Owes(m, f)
                        /\ Holds(k, f) <=> (k.op = "put" /\ f = k.tag)
                        /\ Holds(m, f) <=> f = old
    <3>1. \A f \in ETag : ~Owes(k, f) /\ (Holds(k, f) <=> (k.op = "put" /\ f = k.tag))
      BY <1>2, <1>3 DEF Owes, Holds, Counting
    <3>2. CASE old = None
      BY <1>20, <3>1, <3>2 DEF Blobs!Idle, Owes, Holds, Counting, Blobs!BlobAssumption
    <3>3. CASE old # None
      BY <1>3, <1>22, <3>1, <3>3 DEF Owes, Holds, Counting
    <3> QED BY <3>2, <3>3
  <2>3. Trades(m, k, nw, od)
    <3> SUFFICES ASSUME NEW f \in ETag
                 PROVE  (IF Owes(m, f) THEN 1 ELSE 0) - (IF Holds(m, f) THEN 1 ELSE 0) - (IF nw = f THEN 1 ELSE 0)
                          >= (IF Owes(k, f) THEN 1 ELSE 0) - (IF Holds(k, f) THEN 1 ELSE 0) - (IF od = f THEN 1 ELSE 0)
      BY DEF Trades
    <3>1. ~Owes(k, f) /\ ~Owes(m, f) /\ (Holds(k, f) <=> (k.op = "put" /\ f = k.tag)) /\ (Holds(m, f) <=> f = old)
      BY <2>2
    <3>2. f # None
      BY DEF Blobs!BlobAssumption
    <3> HIDE DEF Owes, Holds
    <3>3. CASE k.op = "put"
      BY <1>6, <1>24, <1>27, <3>1, <3>2, <3>3
    <3>4. CASE k.op # "put"
      BY <1>6, <1>24, <1>27, <3>1, <3>2, <3>4
    <3> QED BY <3>3, <3>4
  <2>4. PICK g : g = blobCall'
    OBVIOUS
  <2>5. g = [blobCall EXCEPT ![c] = m] /\ Trades(m, blobCall[c], nw, od) /\ m \in BlobCallType /\ contested = FALSE
    BY <1>1, <1>21, <1>23, <1>27, <2>3, <2>4
  <2>6. Covered(index, sl, published, g, e)
    BY <2>1, <2>5, Traded
  <2> QED BY <2>4, <2>6
<1>28. /\ index' = index /\ chunk' = chunk /\ slots' = sl /\ published' = published
       /\ contested' = contested
  BY <1>4, <1>9
<1>29. /\ index' \in [ETag -> IndexEntry] /\ slots' \in [Record -> [ver : Nat, map : [Slot -> TagOrNone]]]
       /\ published' \in [Record -> [Slot -> [Label -> TagOrNone]]] /\ contested' \in BOOLEAN
       /\ chunk' \in [ETag -> [1..2 -> Nat]]
  BY <1>11, <1>28 DEF Books, BlobTypeOK
<1>30. Names(index, sl, published, deferred')
  BY <1>5, <1>13, <1>16, <1>17 DEF Names
<1>31. /\ Blank(index') /\ Names(index', slots', published', deferred') /\ Whole(index', chunk')
       /\ Indexed(index) \subseteq Indexed(index') /\ \A p \in Record : slots[p].ver # 0 => slots'[p].ver # 0
       /\ contested' = FALSE => contested = FALSE
       /\ Fits(m, d, index', chunk', slots', published', contested')
  BY <1>12, <1>25, <1>28, <1>30 DEF Books
<1>32. \A b \in Caller : b # c =>
          /\ Apart(m, blobCall[b], index', slots')
          /\ Fits(blobCall[b], deferred[b], index', chunk', slots', published', contested')
  BY <1>26, <1>28
<1>33. contested' = FALSE => \A e \in ETag : Covered(index', slots', published', blobCall', e)
  BY <1>27, <1>28
<1> QED BY <1>16, <1>17, <1>21, <1>23, <1>29, <1>31, <1>32, <1>33, Becomes

LEMMA SlotStoreStep ==
    ASSUME Books, Blobs!BlobAssumption, BlobsApart, NEW c \in Caller, Blobs!SlotStore(c)
    PROVE  Books'
  BY SlotsRefused, SlotsWritten

-----------------------------------------------------------------------------
(***************************************************************************)
(* The calls begin.                                                        *)
(***************************************************************************)
Starts(m) ==
    /\ m.old = None /\ (\A u \in Slot : m.seen[u] = None) /\ m.rec \in Record /\ m.slot \in Slot
    /\ Labelling(m) => m.label \in Label
    /\ \/ m.op = "put" /\ m.pc = "lookup" /\ m.tag \in ETag /\ m.delta = 1 /\ m.count \in Counts
       \/ m.op \in {"delete", "publish", "get"} /\ m.pc = "slotLoad" /\ m.tag = None
       \/ m.op \in {"deleteVersion", "get"} /\ m.pc = "verLoad" /\ m.tag = None /\ m.label \in Label

\* No other call of the content without an entry, of the label, is under way.
Unshared(m) ==
    /\ m.tag \in Indexed(index) \cup {None} \/ \A b \in Caller : blobCall[b].tag # m.tag
    /\ Labelling(m) => \A b \in Caller : ~(blobCall[b].rec = m.rec /\ blobCall[b].slot = m.slot /\ blobCall[b].label = m.label)

LEMMA BeginStep ==
    ASSUME Books, Blobs!BlobAssumption, BlobsApart, NEW c \in Caller, NEW m \in BlobCallType, Blobs!Begin(c, m), Starts(m), Unshared(m)
    PROVE  Books'
<1>1. blobCall' = [blobCall EXCEPT ![c] = m] /\ UNCHANGED <<Blobs!store, deferred, contested>> /\ blobCall[c] = Blobs!Idle
  BY DEF Blobs!Begin, Blobs!Goto
<1>2. slots[m.rec].ver # 0 \/ \A b \in Caller : blobCall[b].rec # m.rec
  BY DEF Blobs!Begin, BlobsApart
<1>3. Blobs!Idle.op = "none" /\ Blobs!Idle.pc = "idle"
  BY DEF Blobs!Idle
<1>4. contested = FALSE => deferred[c] = None
  BY <1>1, <1>3, InCall DEF Fits, Replaces
<1>5. Fits(m, deferred[c], index, chunk, slots, published, contested)
  BY <1>4 DEF Starts, Fits, Shape, Carries, Uploaded, ReadRef, ReadSlots, ReadLabel,
       Labelling, Uploading, Counting, Replaces
<1>6. None \notin ETag
  BY DEF Blobs!BlobAssumption
<1>7. \A b \in Caller : b # c => Apart(m, blobCall[b], index, slots)
  BY <1>2, <1>6 DEF Unshared, Apart
<1>8. \A e \in ETag : ~Owes(blobCall[c], e) /\ ~Holds(m, e)
  BY <1>1, <1>3, <1>6 DEF Starts, Owes, Holds, Counting
<1>9. /\ UNCHANGED Blobs!store /\ contested' \in BOOLEAN /\ (contested' = FALSE => contested = FALSE)
      /\ deferred' = [deferred EXCEPT ![c] = deferred[c]] /\ deferred[c] \in TagOrNone
      /\ deferred[c] \in Indexed(index) \cup {None}
      /\ Fits(m, deferred[c], index, chunk, slots, published, contested')
  <2>1. contested' = contested /\ deferred' = deferred /\ UNCHANGED Blobs!store
    BY <1>1
  <2> QED BY <1>5, <2>1, InCall
<1>10. contested' = FALSE => \A e \in ETag : (Owes(blobCall[c], e) => Owes(m, e)) /\ (Holds(m, e) => Holds(blobCall[c], e))
  BY <1>8
<1> HIDE DEF Owes, Holds, Fits, Apart
<1> QED BY <1>1, <1>7, <1>9, <1>10, Alone

LEMMA BeginPutStep ==
    ASSUME Books, Blobs!BlobAssumption, BlobsApart, NEW c \in Caller, NEW r \in Record, NEW s \in Slot,
           NEW e \in ETag, NEW n \in Counts, Blobs!BeginPut(c, r, s, e, n)
    PROVE  Books'
<1>1. PICK i : i = Blobs!Idle
  OBVIOUS
<1>2. /\ i \in BlobCallType /\ i.old = None /\ (\A u \in Slot : i.seen[u] = None) /\ i.tag = None
      /\ i.op = "none" /\ i.pc = "idle"
  BY <1>1, IdleFits DEF Blobs!Idle
<1>3. PICK m : m = [i EXCEPT !.op = "put", !.pc = "lookup", !.rec = r, !.slot = s, !.tag = e, !.count = n, !.delta = 1]
  OBVIOUS
<1>4. /\ m \in BlobCallType /\ m.old = i.old /\ m.seen = i.seen /\ m.rec = r /\ m.slot = s
      /\ m.op = "put" /\ m.pc = "lookup" /\ m.tag = e /\ m.count = n /\ m.delta = 1
  <2>1. PICK x : x = [i EXCEPT !.op = "put", !.pc = "lookup", !.rec = r, !.slot = s]
    OBVIOUS
  <2>2. /\ x \in BlobCallType /\ x.old = i.old /\ x.seen = i.seen /\ x.rec = r /\ x.slot = s
        /\ x.op = "put" /\ x.pc = "lookup"
    BY <1>2, <2>1 DEF BlobCallType
  <2>3. m = [x EXCEPT !.tag = e, !.count = n, !.delta = 1]
    BY <1>3, <2>1
  <2>4. n \in Nat /\ e \in TagOrNone
    BY DEF TagOrNone, Blobs!BlobAssumption
  <2> QED BY <2>2, <2>3, <2>4 DEF BlobCallType
<1>5. Blobs!Begin(c, m)
  BY <1>1, <1>3 DEF Blobs!BeginPut
<1>6. Starts(m)
  BY <1>2, <1>4 DEF Starts, Labelling
<1>7. Unshared(m)
  BY <1>2, <1>4 DEF Unshared, Labelling, Blobs!BeginPut, Blobs!Free, BlobsApart, Indexed
<1> QED BY <1>4, <1>5, <1>6, <1>7, BeginStep

LEMMA BeginDeleteStep ==
    ASSUME Books, Blobs!BlobAssumption, BlobsApart, NEW c \in Caller, NEW r \in Record, NEW s \in Slot,
           Blobs!BeginDelete(c, r, s)
    PROVE  Books'
<1>1. PICK i : i = Blobs!Idle
  OBVIOUS
<1>2. /\ i \in BlobCallType /\ i.old = None /\ (\A u \in Slot : i.seen[u] = None) /\ i.tag = None
      /\ i.op = "none" /\ i.pc = "idle"
  BY <1>1, IdleFits DEF Blobs!Idle
<1>3. PICK m : m = [i EXCEPT !.op = "delete", !.pc = "slotLoad", !.rec = r, !.slot = s, !.tries = 1]
  OBVIOUS
<1>4. /\ m \in BlobCallType /\ m.old = i.old /\ m.seen = i.seen /\ m.rec = r /\ m.slot = s
      /\ m.op = "delete" /\ m.pc = "slotLoad" /\ m.tag = i.tag
  BY <1>2, <1>3 DEF BlobCallType
<1>5. Blobs!Begin(c, m)
  BY <1>1, <1>3 DEF Blobs!BeginDelete
<1>6. Starts(m)
  BY <1>2, <1>4 DEF Starts, Labelling
<1>7. Unshared(m)
  BY <1>2, <1>4 DEF Unshared, Labelling, Blobs!BeginDelete, Blobs!Free, BlobsApart, Indexed
<1> QED BY <1>4, <1>5, <1>6, <1>7, BeginStep

LEMMA BeginPublishStep ==
    ASSUME Books, Blobs!BlobAssumption, BlobsApart, NEW c \in Caller, NEW r \in Record, NEW s \in Slot,
           NEW l \in Label, Blobs!BeginPublish(c, r, s, l)
    PROVE  Books'
<1>1. PICK i : i = Blobs!Idle
  OBVIOUS
<1>2. /\ i \in BlobCallType /\ i.old = None /\ (\A u \in Slot : i.seen[u] = None) /\ i.tag = None
      /\ i.op = "none" /\ i.pc = "idle"
  BY <1>1, IdleFits DEF Blobs!Idle
<1>3. PICK m : m = [i EXCEPT !.op = "publish", !.pc = "slotLoad", !.rec = r, !.slot = s, !.label = l]
  OBVIOUS
<1>4. /\ m \in BlobCallType /\ m.old = i.old /\ m.seen = i.seen /\ m.rec = r /\ m.slot = s
      /\ m.op = "publish" /\ m.pc = "slotLoad" /\ m.tag = i.tag /\ m.label = l
  BY <1>2, <1>3 DEF BlobCallType
<1>5. Blobs!Begin(c, m)
  BY <1>1, <1>3 DEF Blobs!BeginPublish
<1>6. Starts(m)
  BY <1>2, <1>4 DEF Starts, Labelling
<1>7. Unshared(m)
  BY <1>2, <1>4 DEF Unshared, Labelling, Blobs!BeginPublish, Blobs!Free, BlobsApart, Indexed
<1> QED BY <1>4, <1>5, <1>6, <1>7, BeginStep

LEMMA BeginDeleteVersionStep ==
    ASSUME Books, Blobs!BlobAssumption, BlobsApart, NEW c \in Caller, NEW r \in Record, NEW s \in Slot,
           NEW l \in Label, Blobs!BeginDeleteVersion(c, r, s, l)
    PROVE  Books'
<1>1. PICK i : i = Blobs!Idle
  OBVIOUS
<1>2. /\ i \in BlobCallType /\ i.old = None /\ (\A u \in Slot : i.seen[u] = None) /\ i.tag = None
      /\ i.op = "none" /\ i.pc = "idle"
  BY <1>1, IdleFits DEF Blobs!Idle
<1>3. PICK m : m = [i EXCEPT !.op = "deleteVersion", !.pc = "verLoad", !.rec = r, !.slot = s, !.label = l]
  OBVIOUS
<1>4. /\ m \in BlobCallType /\ m.old = i.old /\ m.seen = i.seen /\ m.rec = r /\ m.slot = s
      /\ m.op = "deleteVersion" /\ m.pc = "verLoad" /\ m.tag = i.tag /\ m.label = l
  BY <1>2, <1>3 DEF BlobCallType
<1>5. Blobs!Begin(c, m)
  BY <1>1, <1>3 DEF Blobs!BeginDeleteVersion
<1>6. Starts(m)
  BY <1>2, <1>4 DEF Starts, Labelling
<1>7. Unshared(m)
  BY <1>2, <1>4 DEF Unshared, Labelling, Blobs!BeginDeleteVersion, Blobs!Free, BlobsApart, Indexed
<1> QED BY <1>4, <1>5, <1>6, <1>7, BeginStep

LEMMA BeginGetStep ==
    ASSUME Books, Blobs!BlobAssumption, BlobsApart, NEW c \in Caller, NEW r \in Record, NEW s \in Slot,
           Blobs!BeginGet(c, r, s)
    PROVE  Books'
<1>1. PICK i : i = Blobs!Idle
  OBVIOUS
<1>2. /\ i \in BlobCallType /\ i.old = None /\ (\A u \in Slot : i.seen[u] = None) /\ i.tag = None
      /\ i.op = "none" /\ i.pc = "idle"
  BY <1>1, IdleFits DEF Blobs!Idle
<1>3. PICK m : m = [i EXCEPT !.op = "get", !.pc = "slotLoad", !.rec = r, !.slot = s]
  OBVIOUS
<1>4. /\ m \in BlobCallType /\ m.old = i.old /\ m.seen = i.seen /\ m.rec = r /\ m.slot = s
      /\ m.op = "get" /\ m.pc = "slotLoad" /\ m.tag = i.tag
  BY <1>2, <1>3 DEF BlobCallType
<1>5. Blobs!Begin(c, m)
  BY <1>1, <1>3 DEF Blobs!BeginGet
<1>6. Starts(m)
  BY <1>2, <1>4 DEF Starts, Labelling
<1>7. Unshared(m)
  BY <1>2, <1>4 DEF Unshared, Labelling, Blobs!BeginGet, Blobs!Free, BlobsApart, Indexed
<1> QED BY <1>4, <1>5, <1>6, <1>7, BeginStep

LEMMA BeginGetVersionStep ==
    ASSUME Books, Blobs!BlobAssumption, BlobsApart, NEW c \in Caller, NEW r \in Record, NEW s \in Slot,
           NEW l \in Label, Blobs!BeginGetVersion(c, r, s, l)
    PROVE  Books'
<1>1. PICK i : i = Blobs!Idle
  OBVIOUS
<1>2. /\ i \in BlobCallType /\ i.old = None /\ (\A u \in Slot : i.seen[u] = None) /\ i.tag = None
      /\ i.op = "none" /\ i.pc = "idle"
  BY <1>1, IdleFits DEF Blobs!Idle
<1>3. PICK m : m = [i EXCEPT !.op = "get", !.pc = "verLoad", !.rec = r, !.slot = s, !.label = l]
  OBVIOUS
<1>4. /\ m \in BlobCallType /\ m.old = i.old /\ m.seen = i.seen /\ m.rec = r /\ m.slot = s
      /\ m.op = "get" /\ m.pc = "verLoad" /\ m.tag = i.tag /\ m.label = l
  BY <1>2, <1>3 DEF BlobCallType
<1>5. Blobs!Begin(c, m)
  BY <1>1, <1>3 DEF Blobs!BeginGetVersion
<1>6. Starts(m)
  BY <1>2, <1>4 DEF Starts, Labelling
<1>7. Unshared(m)
  BY <1>2, <1>4 DEF Unshared, Labelling, Blobs!BeginGetVersion, Blobs!Free, BlobsApart, Indexed
<1> QED BY <1>4, <1>5, <1>6, <1>7, BeginStep

-----------------------------------------------------------------------------
LEMMA BooksInit ==
    ASSUME Blobs!BlobAssumption, BlobsApart, Blobs!Init
    PROVE  Books
<1>1. Blobs!Handle = Caller
  BY DEF Blobs!Handle, BlobsApart
<1>3. contested = FALSE /\ \A c \in Caller : blobCall[c] = Blobs!Idle /\ deferred[c] = None
  BY <1>1 DEF Blobs!Init
<1>4. BlobTypeOK
  <2>1. Blobs!Idle \in BlobCallType
    BY <1>3, IdleFits
  <2>2. None \in TagOrNone
    BY DEF TagOrNone
  <2>3. index \in [ETag -> IndexEntry]
    BY DEF Blobs!Init, IndexEntry
  <2>4. chunk \in [ETag -> [1..2 -> Nat]]
    BY DEF Blobs!Init
  <2>5. slots \in [Record -> [ver : Nat, map : [Slot -> TagOrNone]]]
    BY <2>2 DEF Blobs!Init
  <2>6. published \in [Record -> [Slot -> [Label -> TagOrNone]]]
    BY <2>2 DEF Blobs!Init
  <2>7. deferred \in [Caller -> TagOrNone] /\ blobCall \in [Caller -> BlobCallType] /\ contested \in BOOLEAN
    BY <1>1, <2>1, <2>2 DEF Blobs!Init
  <2> QED BY <2>3, <2>4, <2>5, <2>6, <2>7 DEF BlobTypeOK
<1>5. \A e \in ETag : index[e].ver = 0 /\ index[e].ref = 0
  BY DEF Blobs!Init
<1>6. Indexed(index) = {}
  BY <1>5 DEF Indexed
<1>7. Blank(index) /\ Whole(index, chunk)
  BY <1>5, <1>6 DEF Blank, Whole
<1>8. Names(index, slots, published, deferred)
  BY <1>3 DEF Blobs!Init, Names
<1>9. \A b, c \in Caller : b # c => Apart(blobCall[b], blobCall[c], index, slots)
  BY <1>3 DEF Blobs!Idle, Apart, Labelling, Blobs!BlobAssumption
<1>10. \A c \in Caller : Fits(blobCall[c], deferred[c], index, chunk, slots, published, contested)
  BY <1>3, IdleFits
<1>11. ASSUME NEW e \in ETag PROVE Covered(index, slots, published, blobCall, e)
  <2>1. Owing(blobCall, e) = {} /\ Holding(blobCall, e) = {}
    BY <1>3 DEF Blobs!Idle, Owing, Holding, Owes, Holds, Counting
  <2>2. e # None
    BY DEF Blobs!BlobAssumption
  <2>3. SlotsOf(slots, e) = {} /\ VersionsOf(published, e) = {}
    BY <2>2 DEF Blobs!Init, SlotsOf, VersionsOf
  <2> QED BY <1>5, <2>1, <2>3, FS_EmptySet DEF Covered
<1> QED BY <1>4, <1>7, <1>8, <1>9, <1>10, <1>11 DEF Books

LEMMA BooksStutter ==
    ASSUME Books, UNCHANGED Blobs!vars
    PROVE  Books'
<1>1. /\ index' = index /\ chunk' = chunk /\ slots' = slots /\ published' = published
      /\ deferred' = deferred /\ blobCall' = blobCall /\ contested' = contested
  BY DEF Blobs!vars, Blobs!store
<1> QED BY <1>1 DEF Books, BlobTypeOK

LEMMA BooksStep ==
    ASSUME Books, Blobs!BlobAssumption, BlobsApart, [Blobs!Next]_Blobs!vars
    PROVE  Books'
<1>1. CASE UNCHANGED Blobs!vars
  BY <1>1, BooksStutter
<1>2. CASE Blobs!Next
  <2>1. ASSUME NEW c \in Caller, Blobs!Progress(c) PROVE Books'
    BY <2>1, RefLoadStep, RefStoreStep, SlotLoadStep, SlotStoreStep, LookupStep, WriteChunkStep, WriteIndexStep,
       PublishSlotStep, VersionLoadStep, VersionStoreStep, GetNameStep, GetIndexStep, GetChunkStep DEF Blobs!Progress
  <2>2. ASSUME NEW c \in Caller, Blobs!Cut(c) PROVE Books'
    BY <2>2, CutStep
  <2>3. ASSUME NEW c \in Caller, NEW r \in Record, NEW s \in Slot, NEW e \in ETag, NEW n \in Counts, Blobs!BeginPut(c, r, s, e, n)
        PROVE Books'
    BY <2>3, BeginPutStep
  <2>4. ASSUME NEW c \in Caller, NEW r \in Record, NEW s \in Slot, Blobs!BeginDelete(c, r, s) \/ Blobs!BeginGet(c, r, s)
        PROVE Books'
    BY <2>4, BeginDeleteStep, BeginGetStep
  <2>5. ASSUME NEW c \in Caller, NEW r \in Record, NEW s \in Slot, NEW l \in Label,
               Blobs!BeginPublish(c, r, s, l) \/ Blobs!BeginDeleteVersion(c, r, s, l) \/ Blobs!BeginGetVersion(c, r, s, l)
        PROVE Books'
    BY <2>5, BeginPublishStep, BeginDeleteVersionStep, BeginGetVersionStep
  <2>6. CASE \E c \in Caller, r \in Record, s \in Slot, e \in ETag, n \in Counts : Blobs!BeginPut(c, r, s, e, n)
    BY <2>3, <2>6
  <2>7. CASE \E c \in Caller, r \in Record, s \in Slot : Blobs!BeginDelete(c, r, s) \/ Blobs!BeginGet(c, r, s)
    BY <2>4, <2>7
  <2>8. CASE \E c \in Caller, r \in Record, s \in Slot, l \in Label :
                Blobs!BeginPublish(c, r, s, l) \/ Blobs!BeginDeleteVersion(c, r, s, l) \/ Blobs!BeginGetVersion(c, r, s, l)
    BY <2>5, <2>8
  <2>9. CASE \E c \in Caller : Blobs!Progress(c) \/ Blobs!Cut(c)
    BY <2>1, <2>2, <2>9
  <2> QED BY <1>2, <2>6, <2>7, <2>8, <2>9 DEF Blobs!Next
<1> QED BY <1>1, <1>2

LEMMA BooksCover ==
    ASSUME Books, Blobs!BlobAssumption
    PROVE  Blobs!RefCountCovers /\ Blobs!Readable
<1>1. ASSUME NEW e \in ETag
      PROVE  Blobs!References(e) = Cardinality(SlotsOf(slots, e)) + Cardinality(VersionsOf(published, e))
  BY SameCount DEF Blobs!References, SlotsOf, VersionsOf
<1>2. ASSUME NEW e \in ETag PROVE Blobs!Uncounted(e) = Owing(blobCall, e)
  BY DEF Blobs!Uncounted, Owing, Owes, Counting
<1>3. ASSUME NEW e \in ETag
      PROVE  /\ index[e].ref \in Int /\ Cardinality(Owing(blobCall, e)) \in Nat /\ Cardinality(Holding(blobCall, e)) \in Nat
             /\ Cardinality(SlotsOf(slots, e)) \in Nat /\ Cardinality(VersionsOf(published, e)) \in Nat
  BY CallsFinite, NamesFinite DEF Books, BlobTypeOK, IndexEntry
<1>4. Blobs!RefCountCovers
  <2> SUFFICES ASSUME ~contested, NEW e \in ETag
               PROVE  index[e].ref + Cardinality(Blobs!Uncounted(e)) >= Blobs!References(e)
    BY SameCount DEF Blobs!RefCountCovers
  <2>1. Covered(index, slots, published, blobCall, e)
    BY DEF Books, BlobTypeOK
  <2> QED BY <1>1, <1>2, <1>3, <2>1 DEF Covered
<1>5. ASSUME NEW e \in ETag, Blobs!References(e) > 0 PROVE e \in Indexed(index)
  <2>1. CASE SlotsOf(slots, e) # {}
    <3>1. PICK p \in Record, u \in Slot : slots[p].map[u] = e
      BY <2>1 DEF SlotsOf
    <3> QED BY <3>1 DEF Books, Names, Blobs!BlobAssumption
  <2>2. CASE VersionsOf(published, e) # {}
    <3>1. PICK p \in Record, u \in Slot, v \in Label : published[p][u][v] = e
      BY <2>2 DEF VersionsOf
    <3> QED BY <3>1 DEF Books, Names, Blobs!BlobAssumption
  <2>3. CASE SlotsOf(slots, e) = {} /\ VersionsOf(published, e) = {}
    BY <1>1, <1>5, <2>3, FS_EmptySet
  <2> QED BY <2>1, <2>2, <2>3
<1>6. \A c \in Caller : ~Blobs!At(c, "missing")
  BY DEF Books, Fits, Shape, Blobs!At
<1>7. Blobs!Readable
  BY <1>5, <1>6 DEF Blobs!Readable, Books, Whole, Indexed
<1> QED BY <1>4, <1>7

LEMMA OwnSlot ==
    ASSUME Books, Blobs!BlobAssumption, BlobsApart, Blobs!Next
    PROVE  \A r \in Record, s \in Slot : slots'[r].map[s] # slots[r].map[s] =>
              \E c \in Caller : Blobs!At(c, "slotStore") /\ blobCall[c].rec = r /\ blobCall[c].slot = s /\ blobCall'[c] # blobCall[c]
<1> SUFFICES ASSUME NEW r \in Record, NEW s \in Slot, slots'[r].map[s] # slots[r].map[s]
             PROVE  \E c \in Caller : Blobs!At(c, "slotStore") /\ blobCall[c].rec = r /\ blobCall[c].slot = s /\ blobCall'[c] # blobCall[c]
  OBVIOUS
<1>1. PICK c \in Caller : Blobs!SlotStore(c)
  <2> SUFFICES ASSUME \A c \in Caller : ~Blobs!SlotStore(c) PROVE slots' = slots
    OBVIOUS
  <2>1. ASSUME NEW c \in Caller, Blobs!Progress(c) PROVE slots' = slots
    <3>1. CASE Blobs!RefLoad(c) \/ Blobs!RefStore(c) \/ Blobs!SlotLoad(c)
      BY <3>1 DEF Blobs!RefLoad, Blobs!RefStore, Blobs!SlotLoad, Blobs!store
    <3>2. CASE Blobs!Lookup(c) \/ Blobs!WriteChunk(c) \/ Blobs!WriteIndex(c)
      BY <3>2 DEF Blobs!Lookup, Blobs!WriteChunk, Blobs!WriteIndex, Blobs!store
    <3>3. CASE Blobs!PublishSlot(c) \/ Blobs!VersionLoad(c) \/ Blobs!VersionStore(c)
      BY <3>3 DEF Blobs!PublishSlot, Blobs!VersionLoad, Blobs!VersionStore, Blobs!store
    <3>4. CASE Blobs!GetName(c) \/ Blobs!GetIndex(c) \/ Blobs!GetChunk(c)
      BY <3>4 DEF Blobs!GetName, Blobs!GetIndex, Blobs!GetChunk, Blobs!store
    <3> QED BY <2>1, <3>1, <3>2, <3>3, <3>4 DEF Blobs!Progress
  <2>2. ASSUME NEW c \in Caller, Blobs!Cut(c) PROVE slots' = slots
    BY <2>2 DEF Blobs!Cut, Blobs!store
  <2>3. ASSUME NEW c \in Caller, NEW q, Blobs!Begin(c, q) PROVE slots' = slots
    BY <2>3 DEF Blobs!Begin, Blobs!store
  <2>4. ASSUME NEW c \in Caller, NEW p \in Record, NEW u \in Slot, NEW e \in ETag, NEW n \in Counts,
               Blobs!BeginPut(c, p, u, e, n)
        PROVE slots' = slots
    BY <2>3, <2>4 DEF Blobs!BeginPut
  <2>5. ASSUME NEW c \in Caller, NEW p \in Record, NEW u \in Slot, Blobs!BeginDelete(c, p, u) \/ Blobs!BeginGet(c, p, u)
        PROVE slots' = slots
    BY <2>3, <2>5 DEF Blobs!BeginDelete, Blobs!BeginGet
  <2>6. ASSUME NEW c \in Caller, NEW p \in Record, NEW u \in Slot, NEW l \in Label,
               Blobs!BeginPublish(c, p, u, l) \/ Blobs!BeginDeleteVersion(c, p, u, l) \/ Blobs!BeginGetVersion(c, p, u, l)
        PROVE slots' = slots
    BY <2>3, <2>6 DEF Blobs!BeginPublish, Blobs!BeginDeleteVersion, Blobs!BeginGetVersion
  <2> QED BY <2>1, <2>2, <2>4, <2>5, <2>6 DEF Blobs!Next
<1>2. PICK k : k = blobCall[c]
  OBVIOUS
<1>3. /\ k \in BlobCallType /\ Fits(k, deferred[c], index, chunk, slots, published, contested) /\ k.pc = "slotStore"
      /\ slots \in [Record -> [ver : Nat, map : [Slot -> TagOrNone]]]
  BY <1>1, <1>2, InCall DEF Blobs!SlotStore, Blobs!At, Books, BlobTypeOK
<1>4. k.rec \in Record /\ k.slot \in Slot
  BY <1>3 DEF Fits, Shape
<1>5. k.ver = 0 \/ slots[k.rec].ver = k.ver
  BY <1>1, <1>2 DEF Blobs!SlotStore
<1>6. k.ver = slots[k.rec].ver
  BY <1>3, <1>5 DEF Fits, ReadSlots
<1>7. PICK nw : k.seen = [slots[k.rec].map EXCEPT ![k.slot] = nw]
  BY <1>3, <1>6 DEF Fits, ReadSlots
<1>8. slots' = [slots EXCEPT ![k.rec] = [ver |-> k.ver + 1, map |-> k.seen]] /\ Blobs!AfterSlot(c)
  BY <1>1, <1>2, <1>5 DEF Blobs!SlotStore
<1>9. k.rec = r
  BY <1>3, <1>4, <1>8
<1>10. slots'[r].map = k.seen
  BY <1>3, <1>4, <1>8, <1>9
<1>11. k.slot = s
  BY <1>3, <1>4, <1>7, <1>9, <1>10
<1>12. blobCall'[c] # k
  <2>1. PICK m : m = blobCall'[c]
    OBVIOUS
  <2>2. m.pc = "idle" \/ m.pc = "refLoad"
    <3>1. PICK old : old = IF k.op = "put" THEN deferred[Blobs!HandleOf(c)] ELSE k.old
      OBVIOUS
    <3>2. m = IF old = None THEN Blobs!Idle
              ELSE [k EXCEPT !.pc = "refLoad", !.tag = old, !.old = None, !.delta = 0, !.tries = 1,
                             !.seen = [u \in Slot |-> None]]
      BY <1>2, <1>8, <2>1, <3>1, InCall DEF Blobs!AfterSlot, Blobs!Goto
    <3>3. CASE old = None
      BY <3>2, <3>3 DEF Blobs!Idle
    <3>4. CASE old # None
      BY <1>3, <3>2, <3>4 DEF BlobCallType
    <3> QED BY <3>3, <3>4
  <2> QED BY <1>3, <2>1, <2>2
<1> QED BY <1>2, <1>3, <1>9, <1>11, <1>12 DEF Blobs!At

LEMMA BlobsFollow ==
    ASSUME [StoresNext]_<<part, vars, routeVars, blobVars, bundleVars>>
    PROVE  [Blobs!Next]_Blobs!vars
<1>1. CASE UNCHANGED blobVars
  BY <1>1 DEF blobVars, Blobs!vars, Blobs!store
<1>2. CASE StoresNext
  BY <1>1, <1>2 DEF StoresNext
<1> QED BY <1>1, <1>2

(* Whatever the instance is: the reference count of a content, with the    *)
(* publishes that have still to count theirs, is never below the slots and *)
(* versions that name it, unless a write of slots was refused; and what is *)
(* named has its entry and all its chunks.                                 *)
THEOREM CountsCover == BlobsApart => (StoresSpec => []RefCountCovers)
<1> SUFFICES ASSUME BlobsApart PROVE StoresSpec => []RefCountCovers
  OBVIOUS
<1>1. StoresInit => Books
  <2> SUFFICES ASSUME StoresInit PROVE Books
    OBVIOUS
  <2>1. Blobs!Init /\ Blobs!BlobAssumption
    BY BlobAssumption DEF StoresInit
  <2> QED BY <2>1, BooksInit
<1>2. Books /\ [StoresNext]_<<part, vars, routeVars, blobVars, bundleVars>> => Books'
  <2> SUFFICES ASSUME Books, [StoresNext]_<<part, vars, routeVars, blobVars, bundleVars>> PROVE Books'
    OBVIOUS
  <2>1. [Blobs!Next]_Blobs!vars /\ Blobs!BlobAssumption
    BY BlobAssumption, BlobsFollow
  <2> QED BY <2>1, BooksStep
<1>3. Books => RefCountCovers
  BY BlobAssumption, BooksCover DEF RefCountCovers
<1> QED BY <1>1, <1>2, <1>3, PTL DEF StoresSpec

(* A step changes a slot only when it is the write of a call on that slot. *)
THEOREM SlotsChangeByTheirCalls == BlobsApart => (StoresSpec => SlotsKept)
<1> SUFFICES ASSUME BlobsApart PROVE StoresSpec => SlotsKept
  OBVIOUS
<1> DEFINE Own == \A r \in Record, s \in Slot : slots'[r].map[s] # slots[r].map[s] =>
                     \E c \in Caller : Blobs!At(c, "slotStore") /\ blobCall[c].rec = r
                                         /\ blobCall[c].slot = s /\ blobCall'[c] # blobCall[c]
<1>1. StoresInit => Books
  <2> SUFFICES ASSUME StoresInit PROVE Books
    OBVIOUS
  <2>1. Blobs!Init /\ Blobs!BlobAssumption
    BY BlobAssumption DEF StoresInit
  <2> QED BY <2>1, BooksInit
<1>2. Books /\ [StoresNext]_<<part, vars, routeVars, blobVars, bundleVars>> => Books'
  <2> SUFFICES ASSUME Books, [StoresNext]_<<part, vars, routeVars, blobVars, bundleVars>> PROVE Books'
    OBVIOUS
  <2>1. [Blobs!Next]_Blobs!vars /\ Blobs!BlobAssumption
    BY BlobAssumption, BlobsFollow
  <2> QED BY <2>1, BooksStep
<1>3. Books /\ [StoresNext]_<<part, vars, routeVars, blobVars, bundleVars>> => [Own]_Blobs!vars
  <2> SUFFICES ASSUME Books, [StoresNext]_<<part, vars, routeVars, blobVars, bundleVars>>, ~UNCHANGED Blobs!vars
               PROVE  Own
    OBVIOUS
  <2>1. Blobs!Next
    BY BlobsFollow
  <2> QED BY <2>1, BlobAssumption, OwnSlot
<1> QED BY <1>1, <1>2, <1>3, PTL DEF StoresSpec, SlotsKept, Blobs!SlotsKept

-----------------------------------------------------------------------------
(***************************************************************************)
(* BundleStore: whatever the clients and keys are, and however the calls   *)
(* of different clients overlap, fail and start anew, what has been put    *)
(* and written stays in the bundle.                                        *)
(***************************************************************************)
(* The calls of one client follow one another: BundleStore's "overlap" is  *)
(* the counterexample otherwise.                                           *)
CallsInTurn == "overlap" \notin BundleAllowed

Envelopes == [BundleKey -> Nat]
BundleCallType ==
    [op : {"none", "put", "delete", "saveAll", "flush", "read"}, key : SUBSET BundleKey,
     pc : {"idle", "load", "loaded", "write", "answer", "reread"},
     bytes : Envelopes, exp : Nat, attempt : Nat, read : Nat, got : Envelopes, ts : Nat,
     drops : SUBSET BundleKey]

\* Nothing is newer than n.
Until(r, n) == \A k \in BundleKey : r[k] <= n
\* Records that may replace those of the bundle: what they lack was deleted.
Covers(r, gone, st) == \A k \in BundleKey \ gone : st[k] <= r[k]

ClientFits(v, s, kn, gone, st) ==
    /\ kn <= v
    /\ kn = v => Covers(s, gone, st)
    /\ \A k \in gone : s[k] = 0
CallFits(q, v, s, gone, st) ==
    /\ q.pc = "loaded" => q.read <= v /\ (q.read = v => Covers(q.got, {}, st))
    /\ q.pc = "write" =>
         q.exp <= v /\ (q.exp = v => q.bytes = s /\ q.drops = gone /\ Covers(s, gone, st))
    /\ q.pc = "answer" => q.read <= v /\ (q.read = v => Covers(s, gone, st))
    /\ q.pc = "reread" => q.exp < v
InTurn(f) ==
    \A p, q \in Bundles!CallSlot : p[1] = q[1] /\ f[p].pc # "idle" /\ f[q].pc # "idle" => p = q

ShelfType(b, s, kn, dr, st, f, n) ==
    /\ b \in [version : Nat, data : Envelopes]
    /\ s \in [Client -> Envelopes] /\ kn \in [Client -> Nat] /\ dr \in [Client -> SUBSET BundleKey]
    /\ st \in Envelopes /\ f \in [Bundles!CallSlot -> BundleCallType] /\ n \in Nat
ShelfDates(b, s, st, f, n) ==
    /\ Until(b.data, n) /\ Until(st, n) /\ \A c \in Client : Until(s[c], n)
    /\ \A p \in Bundles!CallSlot : Until(f[p].got, n) /\ Until(f[p].bytes, n)
Shelf(b, s, kn, dr, st, f, n) ==
    /\ ShelfType(b, s, kn, dr, st, f, n) /\ ShelfDates(b, s, st, f, n)
    /\ b.version = 0 => st = Bundles!Empty
    /\ Covers(b.data, {}, st)
    /\ \A c \in Client : ClientFits(b.version, s[c], kn[c], dr[c], st)
    /\ \A p \in Bundles!CallSlot : CallFits(f[p], b.version, s[p[1]], dr[p[1]], st)
    /\ InTurn(f)

\* The invariant.
Shelved == Shelf(bundle, snap, known, dropped, stored, bundleCall, puts)

(* A client's turn: nothing of the others is in the way.                   *)
LEMMA TurnMoves ==
    ASSUME NEW b, NEW s, NEW kn, NEW dr, NEW st, NEW f, NEW n, Shelf(b, s, kn, dr, st, f, n),
           NEW p \in Bundles!CallSlot, NEW x \in Envelopes, NEW v \in Nat, NEW d \in SUBSET BundleKey,
           NEW q \in BundleCallType, NEW m \in Nat, n <= m,
           Until(x, m), Until(q.got, m), Until(q.bytes, m),
           ClientFits(b.version, x, v, d, st), CallFits(q, b.version, x, d, st),
           \A o \in Bundles!CallSlot : o[1] = p[1] /\ o # p => f[o].pc = "idle"
    PROVE  Shelf(b, [s EXCEPT ![p[1]] = x], [kn EXCEPT ![p[1]] = v], [dr EXCEPT ![p[1]] = d], st,
                 [f EXCEPT ![p] = q], m)
<1> DEFINE c == p[1]
           sx == [s EXCEPT ![c] = x]  knx == [kn EXCEPT ![c] = v]  drx == [dr EXCEPT ![c] = d]
           fx == [f EXCEPT ![p] = q]
<1>0. c \in Client BY DEF Bundles!CallSlot
<1>1. ShelfType(b, sx, knx, drx, st, fx, m) BY <1>0 DEF Shelf, ShelfType
<1>2. ShelfDates(b, sx, st, fx, m)
  <2>1. ShelfDates(b, s, st, f, n) /\ ShelfType(b, s, kn, dr, st, f, n) BY DEF Shelf
  <2>2. ASSUME NEW r \in Envelopes, Until(r, n) PROVE Until(r, m) BY <2>2, <2>1 DEF Until, Envelopes, ShelfType
  <2>3. Until(b.data, m) /\ Until(st, m) BY <2>1, <2>2 DEF ShelfDates, ShelfType
  <2>4. \A e \in Client : Until(sx[e], m) BY <1>0, <2>1, <2>2 DEF ShelfDates, ShelfType
  <2>5. ASSUME NEW o \in Bundles!CallSlot PROVE Until(fx[o].got, m) /\ Until(fx[o].bytes, m)
    <3>1. CASE o = p BY <2>1, <3>1 DEF ShelfType
    <3>2. CASE o # p
      <4>1. fx[o] = f[o] /\ f[o].got \in Envelopes /\ f[o].bytes \in Envelopes
        BY <2>1, <3>2 DEF ShelfType, BundleCallType
      <4> QED BY <4>1, <2>1, <2>2 DEF ShelfDates
    <3> QED BY <3>1, <3>2
  <2> QED BY <2>3, <2>4, <2>5 DEF ShelfDates
<1>3. \A e \in Client : ClientFits(b.version, sx[e], knx[e], drx[e], st)
  BY <1>0 DEF Shelf, ShelfType
<1>4. ASSUME NEW o \in Bundles!CallSlot PROVE CallFits(fx[o], b.version, sx[o[1]], drx[o[1]], st)
  <2>0. o[1] \in Client BY DEF Bundles!CallSlot
  <2>1. CASE o = p BY <1>0, <2>1 DEF Shelf, ShelfType
  <2>2. CASE o # p /\ o[1] = c
    <3>1. fx[o] = f[o] /\ f[o].pc = "idle" BY <2>2 DEF Shelf, ShelfType
    <3> QED BY <3>1 DEF CallFits
  <2>3. CASE o[1] # c
    <3>1. fx[o] = f[o] /\ sx[o[1]] = s[o[1]] /\ drx[o[1]] = dr[o[1]] BY <2>0, <2>3 DEF Shelf, ShelfType
    <3> QED BY <3>1 DEF Shelf
  <2> QED BY <2>1, <2>2, <2>3
<1>5. InTurn(fx)
  <2>1. fx = [o \in Bundles!CallSlot |-> IF o = p THEN q ELSE f[o]] BY DEF Shelf, ShelfType
  <2> SUFFICES ASSUME NEW a \in Bundles!CallSlot, NEW o \in Bundles!CallSlot, a[1] = o[1],
                      fx[a].pc # "idle", fx[o].pc # "idle", a # o
               PROVE  FALSE
    BY DEF InTurn
  <2>2. InTurn(f) BY DEF Shelf
  <2> QED BY <2>1, <2>2 DEF InTurn
<1> QED BY <1>1, <1>2, <1>3, <1>4, <1>5 DEF Shelf

(* What a call does in memory, after which the client's records may replace *)
(* those of the bundle if those it began with could.                       *)
WorkFits(q, s, d, n, m, v, w, st) ==
    LET new == Bundles!Worked(q, s)
        gone == (d \cup Bundles!Drops(q)) \ {k \in BundleKey : new[k] # 0} IN
    /\ new \in Envelopes /\ Until(new, m) /\ gone \in SUBSET BundleKey
    /\ ClientFits(w, new, v, gone, st)
LEMMA WorkKeeps ==
    ASSUME NEW q \in BundleCallType, NEW s \in Envelopes, NEW d \in SUBSET BundleKey, NEW n \in Nat,
           NEW m \in Nat, NEW v \in Nat, NEW w \in Nat, NEW st \in Envelopes,
           q.op \in {"put", "saveAll"} => q.ts = n + 1, n <= m, q.ts <= m,
           Until(s, n), Until(st, n), ClientFits(w, s, v, d, st)
    PROVE  WorkFits(q, s, d, n, m, v, w, st)
<1> DEFINE new == Bundles!Worked(q, s)
           gone == (d \cup Bundles!Drops(q)) \ {k \in BundleKey : new[k] # 0}
<1>0. q.ts \in Nat /\ q.key \in SUBSET BundleKey BY DEF BundleCallType
<1>1. new \in Envelopes
  <2>1. CASE q.op = "put" BY <1>0, <2>1 DEF Bundles!Worked, Envelopes
  <2>2. CASE q.op = "delete" BY <1>0, <2>2 DEF Bundles!Worked, Envelopes
  <2>3. CASE q.op = "saveAll" BY <1>0, <2>3 DEF Bundles!Worked, Envelopes
  <2>4. CASE q.op \notin {"put", "delete", "saveAll"} BY <2>4 DEF Bundles!Worked
  <2> QED BY <2>1, <2>2, <2>3, <2>4
<1>2. ASSUME NEW k \in BundleKey
      PROVE  /\ new[k] <= m
             /\ k \notin gone /\ v = w => st[k] <= new[k]
  <2>0. s[k] \in Nat /\ st[k] \in Nat /\ s[k] <= n /\ st[k] <= n BY DEF Envelopes, Until
  <2>1. k \in d => s[k] = 0 BY DEF ClientFits
  <2>2. v = w /\ k \notin d => st[k] <= s[k] BY DEF ClientFits, Covers
  <2>3. k \notin gone => new[k] # 0 \/ (k \notin d /\ k \notin Bundles!Drops(q)) OBVIOUS
  <2>4. CASE q.op = "put"
    <3>1. new[k] = IF k \in q.key THEN q.ts ELSE s[k] BY <2>4 DEF Bundles!Worked
    <3> HIDE DEF new, gone
    <3> QED BY <1>0, <2>0, <2>1, <2>2, <2>3, <2>4, <3>1
  <2>5. CASE q.op = "delete"
    <3>1. new[k] = IF k \in q.key THEN 0 ELSE s[k] BY <2>5 DEF Bundles!Worked
    <3>2. Bundles!Drops(q) = q.key BY <2>5 DEF Bundles!Drops
    <3> HIDE DEF new, gone
    <3> QED BY <1>0, <2>0, <2>1, <2>2, <2>3, <3>1, <3>2
  <2>6. CASE q.op = "saveAll"
    <3>1. new[k] = IF k \in q.key THEN q.ts ELSE 0 BY <2>6 DEF Bundles!Worked
    <3>2. Bundles!Drops(q) = BundleKey \ q.key BY <2>6 DEF Bundles!Drops
    <3> HIDE DEF new, gone
    <3> QED BY <1>0, <2>0, <2>3, <2>6, <3>1, <3>2
  <2>7. CASE q.op \notin {"put", "delete", "saveAll"}
    <3>1. new[k] = s[k] BY <2>7 DEF Bundles!Worked
    <3> HIDE DEF new, gone
    <3> QED BY <2>0, <2>1, <2>2, <2>3, <3>1
  <2> QED BY <2>4, <2>5, <2>6, <2>7
<1>3. gone \in SUBSET BundleKey BY <1>0 DEF Bundles!Drops
<1>4. \A k \in gone : new[k] = 0 BY <1>3
<1>5. v <= w BY DEF ClientFits
<1> HIDE DEF new, gone
<1>6. Until(new, m) BY <1>2 DEF Until
<1>7. ClientFits(w, new, v, gone, st) BY <1>2, <1>4, <1>5 DEF ClientFits, Covers
<1> QED BY <1>1, <1>3, <1>6, <1>7 DEF WorkFits, new, gone

LEMMA BlankCall ==
    /\ Bundles!Empty \in Envelopes /\ Bundles!Idle \in BundleCallType
    /\ \A n \in Nat : Until(Bundles!Empty, n)
    /\ Bundles!Idle.pc = "idle" /\ Bundles!Idle.ts = 0
    /\ Bundles!Idle.got = Bundles!Empty /\ Bundles!Idle.bytes = Bundles!Empty
<1>1. Bundles!Empty \in Envelopes BY DEF Bundles!Empty, Envelopes
<1>2. Bundles!Idle \in BundleCallType BY <1>1 DEF Bundles!Idle, BundleCallType
<1>3. \A n \in Nat : Until(Bundles!Empty, n) BY DEF Bundles!Empty, Until
<1> QED BY <1>1, <1>2, <1>3 DEF Bundles!Idle

LEMMA RestFits == ASSUME NEW q, q.pc \in {"idle", "load"}, NEW v, NEW s, NEW gone, NEW st
                  PROVE  CallFits(q, v, s, gone, st)
BY DEF CallFits

(* The part of a call that runs in memory.                                 *)
LEMMA WorkStep ==
    ASSUME Shelved, NEW p \in Bundles!CallSlot, NEW call0 \in BundleCallType, NEW s \in Envelopes, NEW v \in Nat,
           NEW d \in SUBSET BundleKey, Until(s, puts), ClientFits(bundle.version, s, v, d, stored),
           Until(call0.got, puts), Until(call0.bytes, puts),
           \A o \in Bundles!CallSlot : o[1] = p[1] /\ o # p => bundleCall[o].pc = "idle",
           Bundles!Work(p, call0, s, v, d), bundle' = bundle, stored' = stored
    PROVE  Shelved'
<1>1. PICK q \in BundleCallType :
        /\ q = IF call0.op \in {"put", "saveAll"} THEN [call0 EXCEPT !.ts = puts + 1] ELSE call0
        /\ q.op \in {"put", "saveAll"} => q.ts = puts + 1
        /\ q.got = call0.got /\ q.bytes = call0.bytes
  <2>1. puts + 1 \in Nat BY DEF Shelved, Shelf, ShelfType
  <2>2. CASE call0.op \in {"put", "saveAll"}
    <3>1. PICK t \in Nat : t = puts + 1 BY <2>1
    <3>2. [call0 EXCEPT !.ts = t] \in BundleCallType BY DEF BundleCallType
    <3> QED BY <2>2, <3>1, <3>2 DEF BundleCallType
  <2> QED BY <2>2
<1>2. PICK m \in Nat : m = IF q.ts > puts THEN q.ts ELSE puts
  BY DEF Shelved, Shelf, ShelfType, BundleCallType
<1>3. puts \in Nat /\ q.ts \in Nat /\ bundle.version \in Nat /\ stored \in Envelopes /\ Until(stored, puts)
  BY DEF Shelved, Shelf, ShelfType, ShelfDates, BundleCallType
<1>4. puts <= m /\ q.ts <= m BY <1>2, <1>3
<1>5. WorkFits(q, s, d, puts, m, v, bundle.version, stored)
  BY <1>1, <1>3, <1>4, WorkKeeps
<1>6. PICK new \in Envelopes, gone \in SUBSET BundleKey :
        /\ new = Bundles!Worked(q, s)
        /\ gone = (d \cup Bundles!Drops(q)) \ {k \in BundleKey : new[k] # 0}
        /\ Until(new, m) /\ ClientFits(bundle.version, new, v, gone, stored)
  BY <1>5 DEF WorkFits
<1>7. PICK z : z = IF Bundles!Flushes(q, p[1], s)
                   THEN [q EXCEPT !.pc = "write", !.bytes = new, !.exp = v, !.attempt = 1, !.drops = gone]
                   ELSE Bundles!Idle
  OBVIOUS
<1>8. /\ snap' = [snap EXCEPT ![p[1]] = new] /\ known' = [known EXCEPT ![p[1]] = v]
      /\ dropped' = [dropped EXCEPT ![p[1]] = gone] /\ puts' = m
      /\ bundleCall' = [bundleCall EXCEPT ![p] = z]
  BY <1>1, <1>2, <1>6, <1>7 DEF Bundles!Work, Bundles!Goto
<1>9. /\ z \in BundleCallType /\ Until(z.got, m) /\ Until(z.bytes, m)
      /\ CallFits(z, bundle.version, new, gone, stored)
  <2>1. CASE z = Bundles!Idle BY <2>1, BlankCall, RestFits
  <2>2. CASE z = [q EXCEPT !.pc = "write", !.bytes = new, !.exp = v, !.attempt = 1, !.drops = gone]
    <3>1. z \in BundleCallType BY <2>2 DEF BundleCallType
    <3>2. z.pc = "write" /\ z.bytes = new /\ z.exp = v /\ z.drops = gone /\ z.got = q.got
      BY <2>2 DEF BundleCallType
    <3>3. Until(q.got, m)
      <4>1. q.got \in Envelopes BY DEF BundleCallType
      <4> QED BY <1>1, <1>3, <1>4, <4>1 DEF Until, Envelopes
    <3>4. CallFits(z, bundle.version, new, gone, stored) BY <1>6, <3>2 DEF CallFits, ClientFits
    <3> QED BY <1>6, <3>1, <3>2, <3>3, <3>4
  <2> QED BY <1>7, <2>1, <2>2
<1>10. Shelf(bundle, snap, known, dropped, stored, bundleCall, puts) BY DEF Shelved
<1>11. Shelf(bundle, snap', known', dropped', stored, bundleCall', puts')
  BY <1>4, <1>6, <1>8, <1>9, <1>10, TurnMoves
<1> QED BY <1>11 DEF Shelved

(* The first step of a call: the client is not busy.                       *)
LEMMA OpenStep ==
    ASSUME Shelved, CallsInTurn, NEW p \in Bundles!CallSlot, NEW q \in BundleCallType, q.got = Bundles!Empty,
           q.bytes = Bundles!Empty, Bundles!Begin(p, q), bundle' = bundle, stored' = stored
    PROVE  Shelved'
<1>1. /\ p[1] \in Client
      /\ \A o \in Bundles!CallSlot : o[1] = p[1] /\ o # p => bundleCall[o].pc = "idle"
  <2>1. ~Bundles!Busy(p[1]) BY DEF Bundles!Begin, CallsInTurn
  <2>2. ASSUME NEW o \in Bundles!CallSlot, o[1] = p[1] PROVE bundleCall[o].pc = "idle"
    <3>1. o[2] \in 1..MaxCalls /\ o = <<p[1], o[2]>> BY <2>2 DEF Bundles!CallSlot
    <3>2. bundleCall[<<p[1], o[2]>>] = Bundles!Idle BY <2>1, <3>1 DEF Bundles!Busy
    <3> QED BY <3>1, <3>2, BlankCall
  <2> QED BY <2>2 DEF Bundles!CallSlot
<1>2. /\ puts \in Nat /\ snap[p[1]] \in Envelopes /\ known[p[1]] \in Nat /\ dropped[p[1]] \in SUBSET BundleKey
      /\ Until(snap[p[1]], puts)
      /\ ClientFits(bundle.version, snap[p[1]], known[p[1]], dropped[p[1]], stored)
  BY <1>1 DEF Shelved, Shelf, ShelfType, ShelfDates
<1>3. Until(q.got, puts) /\ Until(q.bytes, puts) BY <1>2, BlankCall
<1>4. CASE Bundles!Work(p, q, snap[p[1]], known[p[1]], dropped[p[1]])
  BY <1>1, <1>2, <1>3, <1>4, WorkStep
<1>5. CASE /\ Bundles!Goto(p, [q EXCEPT !.pc = "load"])
           /\ snap' = snap /\ known' = known /\ dropped' = dropped /\ puts' = puts
  <2>1. PICK z \in BundleCallType : z = [q EXCEPT !.pc = "load"] BY DEF BundleCallType
  <2>2. z.pc = "load" /\ z.got = q.got /\ z.bytes = q.bytes BY <2>1 DEF BundleCallType
  <2>3. CallFits(z, bundle.version, snap[p[1]], dropped[p[1]], stored) BY <2>2, RestFits
  <2>4. Shelf(bundle, snap, known, dropped, stored, bundleCall, puts) BY DEF Shelved
  <2>5. Shelf(bundle, [snap EXCEPT ![p[1]] = snap[p[1]]], [known EXCEPT ![p[1]] = known[p[1]]],
              [dropped EXCEPT ![p[1]] = dropped[p[1]]], stored, [bundleCall EXCEPT ![p] = z], puts)
    <3>1. puts <= puts BY <1>2
    <3> QED BY <1>1, <1>2, <1>3, <2>2, <2>3, <2>4, <3>1, TurnMoves
  <2>6. [snap EXCEPT ![p[1]] = snap[p[1]]] = snap /\ [known EXCEPT ![p[1]] = known[p[1]]] = known
        /\ [dropped EXCEPT ![p[1]] = dropped[p[1]]] = dropped
    BY <1>1, <2>4 DEF Shelf, ShelfType
  <2>7. bundleCall' = [bundleCall EXCEPT ![p] = z] BY <1>5, <2>1 DEF Bundles!Goto
  <2> QED BY <1>5, <2>5, <2>6, <2>7 DEF Shelved
<1> QED BY <1>4, <1>5 DEF Bundles!Begin

(* One call goes on where the client's memory stays as it is.              *)
LEMMA CallMoves ==
    ASSUME Shelved, NEW p \in Bundles!CallSlot, NEW z \in BundleCallType, NEW v \in Nat,
           bundleCall[p].pc # "idle",
           Until(z.got, puts), Until(z.bytes, puts),
           ClientFits(bundle.version, snap[p[1]], v, dropped[p[1]], stored),
           CallFits(z, bundle.version, snap[p[1]], dropped[p[1]], stored),
           bundleCall' = [bundleCall EXCEPT ![p] = z], known' = [known EXCEPT ![p[1]] = v],
           bundle' = bundle, snap' = snap, dropped' = dropped, stored' = stored, puts' = puts
    PROVE  Shelved'
<1>1. Shelf(bundle, snap, known, dropped, stored, bundleCall, puts) BY DEF Shelved
<1>2. /\ p[1] \in Client /\ puts \in Nat /\ snap[p[1]] \in Envelopes /\ dropped[p[1]] \in SUBSET BundleKey
      /\ Until(snap[p[1]], puts) /\ puts <= puts
  BY <1>1 DEF Bundles!CallSlot, Shelf, ShelfType, ShelfDates
<1>3. \A o \in Bundles!CallSlot : o[1] = p[1] /\ o # p => bundleCall[o].pc = "idle"
  BY <1>1 DEF Shelf, InTurn
<1>4. Shelf(bundle, [snap EXCEPT ![p[1]] = snap[p[1]]], known', [dropped EXCEPT ![p[1]] = dropped[p[1]]],
            stored, bundleCall', puts)
  BY <1>1, <1>2, <1>3, TurnMoves
<1>5. [snap EXCEPT ![p[1]] = snap[p[1]]] = snap /\ [dropped EXCEPT ![p[1]] = dropped[p[1]]] = dropped
  BY <1>1, <1>2 DEF Shelf, ShelfType
<1> QED BY <1>4, <1>5 DEF Shelved

(* What is known of one call and its client.                               *)
Turn(p) ==
    /\ p[1] \in Client /\ puts \in Nat /\ bundle.version \in Nat /\ stored \in Envelopes
    /\ bundle.data \in Envelopes /\ Until(bundle.data, puts) /\ Covers(bundle.data, {}, stored)
    /\ snap[p[1]] \in Envelopes /\ known[p[1]] \in Nat /\ dropped[p[1]] \in SUBSET BundleKey
    /\ Until(snap[p[1]], puts) /\ Until(stored, puts)
    /\ bundleCall[p] \in BundleCallType
    /\ Until(bundleCall[p].got, puts) /\ Until(bundleCall[p].bytes, puts)
    /\ ClientFits(bundle.version, snap[p[1]], known[p[1]], dropped[p[1]], stored)
    /\ CallFits(bundleCall[p], bundle.version, snap[p[1]], dropped[p[1]], stored)
    /\ \A o \in Bundles!CallSlot : o[1] = p[1] /\ o # p /\ bundleCall[p].pc # "idle" => bundleCall[o].pc = "idle"
    /\ known = [known EXCEPT ![p[1]] = known[p[1]]]
LEMMA EveryTurn == ASSUME Shelved, NEW p \in Bundles!CallSlot PROVE Turn(p)
<1>1. p[1] \in Client BY DEF Bundles!CallSlot
<1>2. Shelf(bundle, snap, known, dropped, stored, bundleCall, puts) BY DEF Shelved
<1>3. /\ puts \in Nat /\ bundle.version \in Nat /\ stored \in Envelopes
      /\ bundle.data \in Envelopes /\ Until(bundle.data, puts) /\ Covers(bundle.data, {}, stored)
      /\ snap[p[1]] \in Envelopes /\ known[p[1]] \in Nat /\ dropped[p[1]] \in SUBSET BundleKey
      /\ Until(snap[p[1]], puts) /\ Until(stored, puts)
      /\ bundleCall[p] \in BundleCallType
      /\ Until(bundleCall[p].got, puts) /\ Until(bundleCall[p].bytes, puts)
      /\ known = [known EXCEPT ![p[1]] = known[p[1]]]
  BY <1>1, <1>2 DEF Shelf, ShelfType, ShelfDates
<1>4. /\ ClientFits(bundle.version, snap[p[1]], known[p[1]], dropped[p[1]], stored)
      /\ CallFits(bundleCall[p], bundle.version, snap[p[1]], dropped[p[1]], stored)
  BY <1>1, <1>2 DEF Shelf
<1>5. \A o \in Bundles!CallSlot : o[1] = p[1] /\ o # p /\ bundleCall[p].pc # "idle" => bundleCall[o].pc = "idle"
  BY <1>2 DEF Shelf, InTurn
<1> QED BY <1>1, <1>3, <1>4, <1>5 DEF Turn

LEMMA LoadReadStep == ASSUME Shelved, NEW p \in Bundles!CallSlot, Bundles!LoadRead(p) PROVE Shelved'
<1>1. Turn(p) BY EveryTurn
<1>2. PICK q \in BundleCallType : q = bundleCall[p] BY <1>1 DEF Turn
<1>3. PICK v \in Nat, d \in Envelopes : v = bundle.version /\ d = bundle.data BY <1>1 DEF Turn
<1>4. PICK z \in BundleCallType : z = [q EXCEPT !.pc = "loaded", !.read = v, !.got = d] BY DEF BundleCallType
<1>5. z.pc = "loaded" /\ z.read = v /\ z.got = d /\ z.bytes = q.bytes BY <1>4 DEF BundleCallType
<1>6. bundleCall' = [bundleCall EXCEPT ![p] = z] BY <1>2, <1>3, <1>4 DEF Bundles!LoadRead, Bundles!Goto
<1>7. CallFits(z, bundle.version, snap[p[1]], dropped[p[1]], stored) BY <1>1, <1>3, <1>5 DEF CallFits, Turn
<1>8. Until(z.got, puts) /\ Until(z.bytes, puts) BY <1>1, <1>2, <1>3, <1>5 DEF Turn
<1>9. bundle' = bundle /\ snap' = snap /\ dropped' = dropped /\ stored' = stored /\ puts' = puts
      /\ known' = known /\ bundleCall[p].pc # "idle"
  BY DEF Bundles!LoadRead, Bundles!memory, Bundles!bounds
<1>10. known[p[1]] \in Nat /\ known' = [known EXCEPT ![p[1]] = known[p[1]]]
       /\ ClientFits(bundle.version, snap[p[1]], known[p[1]], dropped[p[1]], stored)
  BY <1>1, <1>9 DEF Turn
<1> QED BY <1>6, <1>7, <1>8, <1>9, <1>10, CallMoves

LEMMA LoadStep == ASSUME Shelved, NEW p \in Bundles!CallSlot, Bundles!Load(p) PROVE Shelved'
<1>1. Turn(p) BY EveryTurn
<1>2. PICK q \in BundleCallType : q = bundleCall[p] BY <1>1 DEF Turn
<1>3. q.pc = "loaded" BY <1>2 DEF Bundles!Load
<1>4. PICK z \in BundleCallType : z = [q EXCEPT !.read = 0, !.got = Bundles!Empty] BY BlankCall DEF BundleCallType
<1>5. z.got = Bundles!Empty /\ z.bytes = q.bytes BY <1>4 DEF BundleCallType
<1>6. Until(z.got, puts) /\ Until(z.bytes, puts) BY <1>1, <1>2, <1>5, BlankCall DEF Turn
<1>7. q.got \in Envelopes /\ q.read \in Nat /\ Until(q.got, puts) BY <1>1, <1>2 DEF Turn, BundleCallType
<1>8. ClientFits(bundle.version, q.got, q.read, {}, stored)
  <2>1. CallFits(q, bundle.version, snap[p[1]], dropped[p[1]], stored) BY <1>1, <1>2 DEF Turn
  <2> QED BY <1>3, <2>1 DEF CallFits, ClientFits
<1>9. Bundles!Work(p, z, q.got, q.read, {}) BY <1>2, <1>4 DEF Bundles!Load
<1>10. \A o \in Bundles!CallSlot : o[1] = p[1] /\ o # p => bundleCall[o].pc = "idle" BY <1>1, <1>2, <1>3 DEF Turn
<1>11. {} \in SUBSET BundleKey /\ bundle' = bundle /\ stored' = stored BY DEF Bundles!Load
<1> QED BY <1>6, <1>7, <1>8, <1>9, <1>10, <1>11, WorkStep

LEMMA AnsweredStep == ASSUME Shelved, NEW p \in Bundles!CallSlot, Bundles!WriteAnswered(p) PROVE Shelved'
<1>1. Turn(p) BY EveryTurn
<1>2. PICK q \in BundleCallType : q = bundleCall[p] BY <1>1 DEF Turn
<1>3. PICK v \in Nat : v = q.read BY DEF BundleCallType
<1>4. q.pc = "answer" /\ bundle' = bundle /\ snap' = snap /\ dropped' = dropped /\ stored' = stored /\ puts' = puts
      /\ known' = [known EXCEPT ![p[1]] = v] /\ bundleCall' = [bundleCall EXCEPT ![p] = Bundles!Idle]
  BY <1>2, <1>3 DEF Bundles!WriteAnswered, Bundles!bounds, Bundles!Goto
<1>5. ClientFits(bundle.version, snap[p[1]], v, dropped[p[1]], stored)
  BY <1>1, <1>2, <1>3, <1>4 DEF Turn, ClientFits, CallFits
<1>6. CallFits(Bundles!Idle, bundle.version, snap[p[1]], dropped[p[1]], stored) BY BlankCall, RestFits
<1>7. Until(Bundles!Idle.got, puts) /\ Until(Bundles!Idle.bytes, puts) /\ Bundles!Idle \in BundleCallType
  BY <1>1, BlankCall DEF Turn
<1>8. bundleCall[p].pc # "idle" BY <1>2, <1>4
<1> QED BY <1>4, <1>5, <1>6, <1>7, <1>8, CallMoves

LEMMA FailsStep == ASSUME Shelved, NEW p \in Bundles!CallSlot, Bundles!WriteFails(p) PROVE Shelved'
<1>1. Turn(p) BY EveryTurn
<1>2. bundle' = bundle /\ snap' = snap /\ dropped' = dropped /\ stored' = stored /\ puts' = puts
      /\ known' = known /\ bundleCall' = [bundleCall EXCEPT ![p] = Bundles!Idle] /\ bundleCall[p].pc # "idle"
  BY DEF Bundles!WriteFails, Bundles!memory, Bundles!Goto
<1>3. known[p[1]] \in Nat /\ known' = [known EXCEPT ![p[1]] = known[p[1]]]
      /\ ClientFits(bundle.version, snap[p[1]], known[p[1]], dropped[p[1]], stored)
  BY <1>1, <1>2 DEF Turn
<1>4. CallFits(Bundles!Idle, bundle.version, snap[p[1]], dropped[p[1]], stored) BY BlankCall, RestFits
<1>5. Until(Bundles!Idle.got, puts) /\ Until(Bundles!Idle.bytes, puts) /\ Bundles!Idle \in BundleCallType
  BY <1>1, BlankCall DEF Turn
<1> QED BY <1>2, <1>3, <1>4, <1>5, CallMoves

(* A refused write has lost for good: its version was overtaken.           *)
LEMMA ConflictStep == ASSUME Shelved, NEW p \in Bundles!CallSlot, Bundles!Conflict(p) PROVE Shelved'
<1>1. Turn(p) BY EveryTurn
<1>2. PICK q \in BundleCallType : q = bundleCall[p] BY <1>1 DEF Turn
<1>3. q.pc = "write" /\ q.exp # bundle.version
      /\ bundle' = bundle /\ snap' = snap /\ dropped' = dropped /\ stored' = stored /\ puts' = puts
      /\ known' = known /\ bundleCall[p].pc # "idle"
  BY <1>2 DEF Bundles!Conflict, Bundles!memory, Bundles!bounds
<1>4. PICK z : z = IF q.attempt < Bundles!MaxRetries THEN [q EXCEPT !.pc = "reread"] ELSE Bundles!Idle OBVIOUS
<1>5. bundleCall' = [bundleCall EXCEPT ![p] = z] BY <1>2, <1>4 DEF Bundles!Conflict, Bundles!Goto
<1>6. /\ z \in BundleCallType /\ Until(z.got, puts) /\ Until(z.bytes, puts)
      /\ CallFits(z, bundle.version, snap[p[1]], dropped[p[1]], stored)
  <2>1. CASE z = Bundles!Idle BY <1>1, <2>1, BlankCall, RestFits DEF Turn
  <2>2. CASE z = [q EXCEPT !.pc = "reread"]
    <3>1. z \in BundleCallType /\ z.pc = "reread" /\ z.exp = q.exp /\ z.got = q.got /\ z.bytes = q.bytes
      BY <2>2 DEF BundleCallType
    <3>2. q.exp < bundle.version BY <1>1, <1>2, <1>3 DEF Turn, CallFits, BundleCallType
    <3> QED BY <1>1, <1>2, <3>1, <3>2 DEF Turn, CallFits
  <2> QED BY <1>4, <2>1, <2>2
<1>7. known[p[1]] \in Nat /\ known' = [known EXCEPT ![p[1]] = known[p[1]]]
      /\ ClientFits(bundle.version, snap[p[1]], known[p[1]], dropped[p[1]], stored)
  BY <1>1, <1>3 DEF Turn
<1> QED BY <1>3, <1>5, <1>6, <1>7, CallMoves

LEMMA RereadStep == ASSUME Shelved, NEW p \in Bundles!CallSlot, Bundles!Reread(p) PROVE Shelved'
<1>1. Turn(p) BY EveryTurn
<1>2. PICK q \in BundleCallType : q = bundleCall[p] BY <1>1 DEF Turn
<1>3. q.pc = "reread" BY <1>2 DEF Bundles!Reread
<1>4. PICK d \in Envelopes, s \in Envelopes, v \in Nat : d = bundle.data /\ s = snap[p[1]] /\ v = bundle.version
  BY <1>1 DEF Turn
<1>5. PICK x : x = Bundles!Merge(d, s) OBVIOUS
<1>6. /\ x \in Envelopes /\ Until(x, puts)
      /\ \A k \in BundleKey : d[k] <= x[k]
  <2>1. \A k \in BundleKey : x[k] = IF s[k] >= d[k] THEN s[k] ELSE d[k] BY <1>5 DEF Bundles!Merge
  <2>2. \A k \in BundleKey : d[k] \in Nat /\ s[k] \in Nat /\ d[k] <= puts /\ s[k] <= puts
    BY <1>1, <1>4 DEF Turn, Envelopes, Until
  <2>3. x \in Envelopes BY <1>5, <2>2 DEF Bundles!Merge, Envelopes
  <2> QED BY <2>1, <2>2, <2>3 DEF Until
<1>7. PICK gone \in SUBSET BundleKey : gone = dropped[p[1]] \ {k \in BundleKey : x[k] # 0} BY <1>1 DEF Turn
<1>8. snap' = [snap EXCEPT ![p[1]] = x] /\ known' = [known EXCEPT ![p[1]] = v]
      /\ bundle' = bundle /\ stored' = stored /\ puts' = puts
  BY <1>4, <1>5 DEF Bundles!Reread, Bundles!bounds
<1>9. Shelf(bundle, snap, known, dropped, stored, bundleCall, puts) BY DEF Shelved
<1>10. dropped' = [dropped EXCEPT ![p[1]] = gone]
  <2>1. snap'[p[1]] = x BY <1>1, <1>8, <1>9 DEF Shelf, ShelfType, Turn
  <2> QED BY <1>7, <2>1 DEF Bundles!Reread
<1>11. PICK t \in Nat : t = q.attempt + 1 BY DEF BundleCallType
<1>12. PICK z \in BundleCallType : z = [q EXCEPT !.pc = "write", !.attempt = t] BY DEF BundleCallType
<1>13. z.pc = "write" /\ z.exp = q.exp /\ z.got = q.got /\ z.bytes = q.bytes BY <1>12 DEF BundleCallType
<1>14. bundleCall' = [bundleCall EXCEPT ![p] = z]
  <2>1. [q EXCEPT !.pc = "write", !.attempt = @ + 1] = z BY <1>11, <1>12 DEF BundleCallType
  <2> QED BY <1>2, <2>1 DEF Bundles!Reread, Bundles!Goto
<1>15. CallFits(z, v, x, gone, stored)
  BY <1>1, <1>2, <1>3, <1>4, <1>13 DEF Turn, CallFits, BundleCallType
<1>16. ClientFits(v, x, v, gone, stored)
  <2>1. \A k \in BundleKey : stored[k] <= d[k] /\ stored[k] \in Nat /\ d[k] \in Nat /\ x[k] \in Nat
    BY <1>1, <1>4, <1>6 DEF Turn, Covers, Envelopes
  <2>2. Covers(x, gone, stored) BY <1>6, <2>1 DEF Covers
  <2> QED BY <1>7, <2>2 DEF ClientFits
<1>17. Until(z.got, puts) /\ Until(z.bytes, puts) /\ puts \in Nat /\ puts <= puts BY <1>1, <1>2, <1>13 DEF Turn
<1>18. \A o \in Bundles!CallSlot : o[1] = p[1] /\ o # p => bundleCall[o].pc = "idle" BY <1>1, <1>2, <1>3 DEF Turn
<1>19. Shelf(bundle, snap', known', dropped', stored, bundleCall', puts)
  BY <1>4, <1>6, <1>8, <1>9, <1>10, <1>14, <1>15, <1>16, <1>17, <1>18, TurnMoves
<1> QED BY <1>8, <1>19 DEF Shelved

(* The write is taken: the records that were serialised are those the      *)
(* client has, and they go by the version that is replaced.                *)
LEMMA WriteStep == ASSUME Shelved, NEW p \in Bundles!CallSlot, Bundles!WriteBundle(p) PROVE Shelved'
<1>1. Turn(p) BY EveryTurn
<1>2. PICK q \in BundleCallType : q = bundleCall[p] BY <1>1 DEF Turn
<1>3. PICK s \in Envelopes, v \in Nat, w \in Nat, gone \in SUBSET BundleKey, st \in Envelopes :
        s = snap[p[1]] /\ v = bundle.version /\ w = v + 1 /\ gone = dropped[p[1]] /\ st = stored
  BY <1>1 DEF Turn
<1>4. q.pc = "write" /\ q.exp = v /\ known' = known /\ snap' = snap /\ dropped' = dropped /\ puts' = puts
  BY <1>2, <1>3 DEF Bundles!WriteBundle, Bundles!memory, Bundles!bounds
<1>5. q.bytes = s /\ q.drops = gone /\ Covers(s, gone, st) BY <1>1, <1>2, <1>3, <1>4 DEF Turn, CallFits
<1>6. PICK b \in [version : Nat, data : Envelopes] : b = [version |-> w, data |-> s] BY <1>3
<1>7. bundle' = b BY <1>2, <1>3, <1>5, <1>6 DEF Bundles!WriteBundle, Bundles!Written
<1>8. PICK z \in BundleCallType : z = [q EXCEPT !.pc = "answer", !.read = w] BY <1>3 DEF BundleCallType
<1>9. bundleCall' = [bundleCall EXCEPT ![p] = z] BY <1>2, <1>3, <1>8 DEF Bundles!WriteBundle, Bundles!Goto
<1>10. z.pc = "answer" /\ z.read = w /\ z.got = q.got /\ z.bytes = q.bytes BY <1>8 DEF BundleCallType
<1>11. PICK sd : sd = [k \in BundleKey |-> IF k \in gone THEN 0 ELSE IF s[k] > st[k] THEN s[k] ELSE st[k]]
  OBVIOUS
<1>12. stored' = sd BY <1>2, <1>3, <1>5, <1>11 DEF Bundles!WriteBundle
<1>13. /\ sd \in Envelopes /\ Until(sd, puts)
       /\ \A k \in BundleKey : sd[k] <= s[k]
  <2>1. \A k \in BundleKey : s[k] \in Nat /\ st[k] \in Nat /\ s[k] <= puts /\ st[k] <= puts
    BY <1>1, <1>3 DEF Turn, Envelopes, Until
  <2>2. sd \in Envelopes BY <1>11, <2>1 DEF Envelopes
  <2>3. ASSUME NEW k \in BundleKey PROVE sd[k] <= puts /\ sd[k] <= s[k]
    <3>1. sd[k] = IF k \in gone THEN 0 ELSE IF s[k] > st[k] THEN s[k] ELSE st[k] BY <1>11
    <3>2. k \notin gone => st[k] <= s[k] BY <1>5 DEF Covers
    <3>3. puts \in Nat BY <1>1 DEF Turn
    <3> QED BY <2>1, <3>1, <3>2, <3>3
  <2> QED BY <2>2, <2>3 DEF Until
<1>14. Covers(s, {}, sd) /\ Covers(s, gone, sd) BY <1>13 DEF Covers
<1>15. Shelf(bundle, snap, known, dropped, stored, bundleCall, puts) BY DEF Shelved
<1>16. ShelfType(b, snap, known, dropped, sd, bundleCall', puts)
  BY <1>9, <1>13, <1>15 DEF Shelf, ShelfType
<1>17. ShelfDates(b, snap, sd, bundleCall', puts)
  <2>1. Until(b.data, puts) BY <1>1, <1>3, <1>6 DEF Turn
  <2>2. ASSUME NEW o \in Bundles!CallSlot PROVE Until(bundleCall'[o].got, puts) /\ Until(bundleCall'[o].bytes, puts)
    <3>1. CASE o = p
      <4>1. bundleCall'[o] = z BY <1>9, <1>15, <3>1 DEF Shelf, ShelfType
      <4> QED BY <1>1, <1>2, <1>10, <4>1 DEF Turn
    <3>2. CASE o # p
      <4>1. bundleCall'[o] = bundleCall[o] BY <1>9, <1>15, <3>2 DEF Shelf, ShelfType
      <4> QED BY <1>15, <4>1 DEF Shelf, ShelfDates
    <3> QED BY <3>1, <3>2
  <2> QED BY <1>13, <1>15, <2>1, <2>2 DEF Shelf, ShelfDates
<1>18. b.version = w /\ b.data = s /\ w > v /\ w # 0 BY <1>3, <1>6
<1>19. ASSUME NEW c \in Client PROVE ClientFits(w, snap[c], known[c], dropped[c], sd)
  <2>1. ClientFits(v, snap[c], known[c], dropped[c], stored) /\ known[c] \in Nat
    BY <1>3, <1>15 DEF Shelf, ShelfType
  <2> QED BY <1>3, <2>1 DEF ClientFits
<1>20. ASSUME NEW o \in Bundles!CallSlot PROVE CallFits(bundleCall'[o], w, snap[o[1]], dropped[o[1]], sd)
  <2>1. CASE o = p
    <3>1. bundleCall'[o] = z BY <1>9, <1>15, <2>1 DEF Shelf, ShelfType
    <3> QED BY <1>3, <1>10, <1>14, <2>1, <3>1 DEF CallFits
  <2>2. CASE o # p
    <3>1. bundleCall'[o] = bundleCall[o] BY <1>9, <1>15, <2>2 DEF Shelf, ShelfType
    <3>2. CallFits(bundleCall[o], v, snap[o[1]], dropped[o[1]], stored) /\ bundleCall[o] \in BundleCallType
      BY <1>3, <1>15 DEF Shelf, ShelfType
    <3>3. bundleCall[o].read \in Nat /\ bundleCall[o].exp \in Nat BY <3>2 DEF BundleCallType
    <3> QED BY <1>3, <3>1, <3>2, <3>3 DEF CallFits
  <2> QED BY <2>1, <2>2
<1>21. InTurn(bundleCall')
  <2>1. \A o \in Bundles!CallSlot : bundleCall'[o].pc # "idle" => bundleCall[o].pc # "idle"
    BY <1>2, <1>4, <1>9, <1>15 DEF Shelf, ShelfType
  <2> QED BY <1>15, <2>1 DEF Shelf, InTurn
<1>22. Shelf(b, snap, known, dropped, sd, bundleCall', puts)
  BY <1>14, <1>16, <1>17, <1>18, <1>19, <1>20, <1>21 DEF Shelf
<1> QED BY <1>4, <1>7, <1>12, <1>22 DEF Shelved

(* A client that starts anew goes by no version, at which nothing is stored. *)
LEMMA RestartStep == ASSUME Shelved, NEW c \in Client, Bundles!Crash(c) PROVE Shelved'
<1>1. Shelf(bundle, snap, known, dropped, stored, bundleCall, puts) BY DEF Shelved
<1>2. /\ snap' = [snap EXCEPT ![c] = Bundles!Empty] /\ known' = [known EXCEPT ![c] = 0]
      /\ dropped' = [dropped EXCEPT ![c] = {}]
      /\ bundleCall' = [s \in Bundles!CallSlot |-> IF s[1] = c THEN Bundles!Idle ELSE bundleCall[s]]
      /\ bundle' = bundle /\ stored' = stored /\ puts' = puts
  BY DEF Bundles!Crash
<1>3. puts \in Nat /\ bundle.version \in Nat BY <1>1 DEF Shelf, ShelfType
<1>4. ShelfType(bundle, snap', known', dropped', stored, bundleCall', puts)
  BY <1>1, <1>2, BlankCall DEF Shelf, ShelfType
<1>5. ShelfDates(bundle, snap', stored, bundleCall', puts)
  <2>1. \A e \in Client : Until(snap'[e], puts) BY <1>1, <1>2, <1>3, BlankCall DEF Shelf, ShelfType, ShelfDates
  <2>2. \A o \in Bundles!CallSlot : Until(bundleCall'[o].got, puts) /\ Until(bundleCall'[o].bytes, puts)
    BY <1>1, <1>2, <1>3, BlankCall DEF Shelf, ShelfDates
  <2> QED BY <1>1, <2>1, <2>2 DEF Shelf, ShelfDates
<1>6. ASSUME NEW e \in Client PROVE ClientFits(bundle.version, snap'[e], known'[e], dropped'[e], stored)
  <2>1. CASE e = c
    <3>1. snap'[e] = Bundles!Empty /\ known'[e] = 0 /\ dropped'[e] = {} BY <1>1, <1>2, <2>1 DEF Shelf, ShelfType
    <3>2. bundle.version = 0 => Covers(Bundles!Empty, {}, stored)
      BY <1>1 DEF Shelf, Covers, Bundles!Empty
    <3> QED BY <1>3, <3>1, <3>2 DEF ClientFits
  <2>2. CASE e # c
    <3>1. snap'[e] = snap[e] /\ known'[e] = known[e] /\ dropped'[e] = dropped[e]
      BY <1>1, <1>2, <2>2 DEF Shelf, ShelfType
    <3> QED BY <1>1, <3>1 DEF Shelf
  <2> QED BY <2>1, <2>2
<1>7. ASSUME NEW o \in Bundles!CallSlot PROVE CallFits(bundleCall'[o], bundle.version, snap'[o[1]], dropped'[o[1]], stored)
  <2>0. o[1] \in Client BY DEF Bundles!CallSlot
  <2>1. CASE o[1] = c
    <3>1. bundleCall'[o] = Bundles!Idle BY <1>2, <2>1
    <3> QED BY <3>1, BlankCall, RestFits
  <2>2. CASE o[1] # c
    <3>1. bundleCall'[o] = bundleCall[o] /\ snap'[o[1]] = snap[o[1]] /\ dropped'[o[1]] = dropped[o[1]]
      BY <1>1, <1>2, <2>0, <2>2 DEF Shelf, ShelfType
    <3> QED BY <1>1, <3>1 DEF Shelf
  <2> QED BY <2>1, <2>2
<1>8. InTurn(bundleCall')
  <2>1. \A o \in Bundles!CallSlot : bundleCall'[o].pc # "idle" => bundleCall[o].pc # "idle" BY <1>2, BlankCall
  <2> QED BY <1>1, <2>1 DEF Shelf, InTurn
<1>9. Shelf(bundle, snap', known', dropped', stored, bundleCall', puts)
  BY <1>1, <1>4, <1>5, <1>6, <1>7, <1>8 DEF Shelf
<1> QED BY <1>2, <1>9 DEF Shelved

Begins(p) ==
    \/ \E k \in BundleKey : Bundles!BeginPut(p, k) \/ Bundles!BeginDelete(p, k)
    \/ \E ks \in SUBSET BundleKey : Bundles!BeginSaveAll(p, ks)
    \/ Bundles!BeginFlush(p) \/ Bundles!BeginRead(p) \/ Bundles!BatchEnd(p)
LEMMA BeginsStep == ASSUME Shelved, CallsInTurn, NEW p \in Bundles!CallSlot, Begins(p) PROVE Shelved'
<1> DEFINE Opens(q) == /\ q \in BundleCallType /\ q.got = Bundles!Empty /\ q.bytes = Bundles!Empty
                       /\ Bundles!Begin(p, q) /\ bundle' = bundle /\ stored' = stored
<1>0. ASSUME NEW q, Opens(q) PROVE Shelved' BY <1>0, OpenStep
<1>1. ASSUME NEW op \in {"put", "delete", "saveAll", "flush", "read"}, NEW key \in SUBSET BundleKey
      PROVE  /\ [Bundles!Idle EXCEPT !.op = op, !.key = key] \in BundleCallType
             /\ [Bundles!Idle EXCEPT !.op = op, !.key = key].got = Bundles!Empty
             /\ [Bundles!Idle EXCEPT !.op = op, !.key = key].bytes = Bundles!Empty
             /\ [Bundles!Idle EXCEPT !.op = op] \in BundleCallType
             /\ [Bundles!Idle EXCEPT !.op = op].got = Bundles!Empty
             /\ [Bundles!Idle EXCEPT !.op = op].bytes = Bundles!Empty
  BY BlankCall DEF BundleCallType
<1>2. ASSUME NEW k \in BundleKey, Bundles!BeginPut(p, k) PROVE Shelved'
  <2>1. Opens([Bundles!Idle EXCEPT !.op = "put", !.key = {k}]) BY <1>1, <1>2 DEF Bundles!BeginPut
  <2> QED BY <1>0, <2>1
<1>3. ASSUME NEW k \in BundleKey, Bundles!BeginDelete(p, k) PROVE Shelved'
  <2>1. Opens([Bundles!Idle EXCEPT !.op = "delete", !.key = {k}]) BY <1>1, <1>3 DEF Bundles!BeginDelete
  <2> QED BY <1>0, <2>1
<1>4. ASSUME NEW ks \in SUBSET BundleKey, Bundles!BeginSaveAll(p, ks) PROVE Shelved'
  <2>1. Opens([Bundles!Idle EXCEPT !.op = "saveAll", !.key = ks]) BY <1>1, <1>4 DEF Bundles!BeginSaveAll
  <2> QED BY <1>0, <2>1
<1>5. CASE Bundles!BeginFlush(p)
  <2>1. Opens([Bundles!Idle EXCEPT !.op = "flush"]) BY <1>1, <1>5 DEF Bundles!BeginFlush
  <2> QED BY <1>0, <2>1
<1>6. CASE Bundles!BeginRead(p)
  <2>1. Opens([Bundles!Idle EXCEPT !.op = "read"]) BY <1>1, <1>6 DEF Bundles!BeginRead
  <2> QED BY <1>0, <2>1
<1>7. CASE Bundles!BatchEnd(p)
  <2>1. Opens([Bundles!Idle EXCEPT !.op = "flush"]) BY <1>1, <1>7 DEF Bundles!BatchEnd
  <2> QED BY <1>0, <2>1
<1> QED BY <1>2, <1>3, <1>4, <1>5, <1>6, <1>7 DEF Begins

LEMMA ShelvedInit == ASSUME Bundles!Init PROVE Shelved
<1>1. /\ bundle = [version |-> 0, data |-> Bundles!Empty] /\ snap = [c \in Client |-> Bundles!Empty]
      /\ known = [c \in Client |-> 0] /\ dropped = [c \in Client |-> {}] /\ stored = Bundles!Empty
      /\ bundleCall = [s \in Bundles!CallSlot |-> Bundles!Idle] /\ puts = 0
  BY DEF Bundles!Init
<1>2. ShelfType(bundle, snap, known, dropped, stored, bundleCall, puts) BY <1>1, BlankCall DEF ShelfType
<1>3. ShelfDates(bundle, snap, stored, bundleCall, puts) BY <1>1, BlankCall DEF ShelfDates
<1>4. \A s \in Bundles!CallSlot : s[1] \in Client /\ bundleCall[s] = Bundles!Idle BY <1>1 DEF Bundles!CallSlot
<1>5. Covers(Bundles!Empty, {}, Bundles!Empty) BY DEF Covers, Bundles!Empty
<1>6. \A c \in Client : ClientFits(0, snap[c], known[c], dropped[c], stored) BY <1>1, <1>5 DEF ClientFits
<1>7. \A s \in Bundles!CallSlot : CallFits(bundleCall[s], 0, snap[s[1]], dropped[s[1]], stored)
  BY <1>4, BlankCall, RestFits
<1>8. InTurn(bundleCall) BY <1>4, BlankCall DEF InTurn
<1>9. bundle.version = 0 /\ bundle.data = Bundles!Empty BY <1>1
<1> QED BY <1>1, <1>2, <1>3, <1>5, <1>6, <1>7, <1>8, <1>9 DEF Shelved, Shelf

LEMMA ShelvedStep == ASSUME Shelved, CallsInTurn, [Bundles!Next]_bundleVars PROVE Shelved'
<1>1. CASE UNCHANGED bundleVars BY <1>1 DEF bundleVars, Shelved
<1>2. CASE \E p \in Bundles!CallSlot : Begins(p) BY <1>2, BeginsStep
<1>3. CASE \E p \in Bundles!CallSlot : Bundles!LoadRead(p) \/ Bundles!Load(p) BY <1>3, LoadReadStep, LoadStep
<1>4. CASE \E p \in Bundles!CallSlot : \/ Bundles!WriteBundle(p) \/ Bundles!WriteAnswered(p) \/ Bundles!WriteFails(p)
                                   \/ Bundles!Conflict(p) \/ Bundles!Reread(p)
  BY <1>4, WriteStep, AnsweredStep, FailsStep, ConflictStep, RereadStep
<1>5. CASE \E c \in Client : Bundles!BatchBegin(c) \/ Bundles!Crash(c)
  <2>1. PICK c \in Client : Bundles!BatchBegin(c) \/ Bundles!Crash(c) BY <1>5
  <2>2. CASE Bundles!BatchBegin(c) BY <2>2 DEF Bundles!BatchBegin, Shelved
  <2>3. CASE Bundles!Crash(c) BY <2>3, RestartStep
  <2> QED BY <2>1, <2>2, <2>3
<1> QED BY <1>1, <1>2, <1>3, <1>4, <1>5 DEF Bundles!Next, Begins

(***************************************************************************)
(* However many clients share a bundle, write it, meet conflicts, merge,   *)
(* fail and start anew: a put that was written stays in it, or a newer one *)
(* of the record, until a client that has it deletes the record and writes *)
(* that, as long as the calls of one client follow one another.            *)
(***************************************************************************)
THEOREM PutsStayStored == CallsInTurn => (StoresSpec => []StoredKept)
<1> SUFFICES ASSUME CallsInTurn PROVE StoresSpec => []StoredKept
  OBVIOUS
<1>1. StoresInit => Shelved BY ShelvedInit DEF StoresInit
<1>2. Shelved /\ [StoresNext]_<<part, vars, routeVars, blobVars, bundleVars>> => Shelved'
  <2> SUFFICES ASSUME Shelved, [StoresNext]_<<part, vars, routeVars, blobVars, bundleVars>> PROVE Shelved'
    OBVIOUS
  <2>1. [Bundles!Next]_bundleVars BY DEF StoresNext
  <2> QED BY <2>1, ShelvedStep
<1>3. Shelved => StoredKept
  <2> SUFFICES ASSUME Shelved PROVE \A k \in BundleKey : bundle.data[k] >= stored[k]
    BY DEF StoredKept, Bundles!StoredKept
  <2>1. Covers(bundle.data, {}, stored) /\ bundle.data \in Envelopes /\ stored \in Envelopes
    BY DEF Shelved, Shelf, ShelfType
  <2> QED BY <2>1 DEF Covers, Envelopes
<1> QED BY <1>1, <1>2, <1>3, PTL DEF StoresSpec
-----------------------------------------------------------------------------
(***************************************************************************)
(* RouteStore: whatever the records, their kinds, the number of writes and *)
(* failures are, what is read through the routes is what was acknowledged  *)
(* last.  A compaction, the cold deletes nobody waits for, a suspension,   *)
(* a replay and a crash each leave it somewhere; the invariant says where. *)
(***************************************************************************)
(* Nothing that the runs keep apart overlaps, no store is tiered by size,   *)
(* and no timestamp is null.                                                *)
RoutesApart == RouteAllowed = {} /\ (\A t \in Topologies : t.blobs # "tiered") /\ None \notin Nat

Stamp == Nat \cup {None}
QueuedWrite == [key : RouteKey, ver : Stamp]
RouteCallType ==
    [op : {"none", "put", "delete", "get"}, key : RouteKey \cup {None}, ver : Stamp,
     pc : {"idle", "store", "cold", "done"}, target : Route!Store \cup {"null"}, res : Stamp]
RouteTypeOK ==
    /\ topology \in Topologies
    /\ data \in [Route!Store -> [RouteKey -> Stamp]]
    /\ overridden \subseteq Route!Route /\ suspended \subseteq Route!Route
    /\ queue \in [Route!Route -> [on : BOOLEAN, writes : Seq(QueuedWrite)]]
    /\ replay \in [on : BOOLEAN, route : Route!Route, target : Route!Store, writes : Seq(QueuedWrite)]
    /\ routeCall \in RouteCallType
    /\ stray \in [RouteKey -> Nat]
    /\ compacting \in [pc : {"idle", "copy", "drop"}, key : RouteKey \cup {None}, ver : Stamp]
    /\ clock \in Nat /\ cutoff \in Nat
    /\ intended \in [RouteKey -> Stamp] /\ unsure \subseteq RouteKey
    /\ routeCall.op # "none" => routeCall.key \in RouteKey
    /\ compacting.pc # "idle" => compacting.key \in RouteKey

(* The route of a record, its store, and whether the cold store may have it. *)
NameOf(t, k) ==
    CASE Kind[k] = "named"                     -> "named"
      [] Route!Chunk(k) /\ t.blobs # "none"    -> "blobs"
      [] OTHER                                 -> "default"
HomeFor(o, r) == IF r \in o THEN "other" ELSE Route!Original(r)
HomeOf(t, o, k) == HomeFor(o, NameOf(t, k))
OldOf(t, k) == t.age /\ ~Route!Chunk(k)

(* The writes of a route that wait, or are left to replay. *)
Replays(p, r) == p.on /\ p.route = r
Waiting(q, p, r) == IF Replays(p, r) THEN p.writes ELSE q[r].writes

(* What a record is, once the writes that wait are carried out. *)
Latest(ws, k, v, base) ==
    \/ \E i \in DOMAIN ws : ws[i].key = k /\ ws[i].ver = v /\ \A j \in DOMAIN ws : j > i => ws[j].key # k
    \/ base = v /\ \A i \in DOMAIN ws : ws[i].key # k

(* A record is in its store, or, older, in the cold one. *)
Placed(t, o, d, n, k) ==
    /\ \A x \in Route!Store :
          d[x][k] # None => (x = HomeOf(t, o, k) \/ (x = "cold" /\ OldOf(t, k))) /\ d[x][k] <= n
    /\ d["cold"][k] # None =>
          /\ NameOf(t, k) \notin o
          /\ d[HomeOf(t, o, k)][k] = None \/ d["cold"][k] <= d[HomeOf(t, o, k)][k]

(* What is stored and what waits make what was acknowledged last; a copy in *)
(* the cold store is not deleted when it is the only one.                   *)
Recalled(t, o, d, q, p, g, i, u, k) ==
    LET h == d[HomeOf(t, o, k)][k] c == d["cold"][k] IN
    IF ~OldOf(t, k) THEN Latest(Waiting(q, p, NameOf(t, k)), k, i[k], h)
    ELSE k \notin u => (IF h = None THEN c ELSE h) = i[k] /\ (h = None /\ c # None => g[k] = 0)

(* A write under way goes to the store of its record, or nowhere. *)
Underway(t, o, d, s, p, n, u, f, k) ==
    f.op \in {"put", "delete"} /\ f.key = k =>
        /\ \/ f.target = "null" /\ ~OldOf(t, k)
           \/ /\ f.target = HomeOf(t, o, k)
              /\ NameOf(t, k) \notin s /\ ~Replays(p, NameOf(t, k))
        /\ OldOf(t, k) => k \in u
        /\ f.op = "put" => f.ver \in Nat /\ f.ver <= n /\ (d["cold"][k] # None => d["cold"][k] <= f.ver)
        /\ f.op = "delete" /\ f.pc # "store" => OldOf(t, k) /\ d[HomeOf(t, o, k)][k] = None

(* A record that is moved is in the primary store, and no write of it is under way. *)
Moved(t, o, d, g, f, m, k) ==
    m.pc # "idle" /\ m.key = k =>
        /\ OldOf(t, k) /\ HomeOf(t, o, k) = "primary" /\ m.ver # None /\ d["primary"][k] = m.ver
        /\ g[k] = 0 /\ (f.key = k => f.op \notin {"put", "delete"})
        /\ m.pc = "drop" => d["cold"][k] = m.ver

(* A route has a queue while it is suspended or replayed; it has no records *)
(* that may be in the cold store then.                                      *)
Line(t, o, n, s, q, p, r) ==
    /\ q[r] = Route!NoQueue \/ r \in s \/ Replays(p, r)
    /\ \A i \in DOMAIN q[r].writes : NameOf(t, q[r].writes[i].key) = r /\ (q[r].writes[i].ver # None => q[r].writes[i].ver <= n)
    /\ r \in s \/ Replays(p, r) => \A k \in RouteKey : NameOf(t, k) = r => ~OldOf(t, k)
    /\ Replays(p, r) => 
          /\ p.target = HomeFor(o, r)
          /\ \A i \in DOMAIN p.writes : \E j \in DOMAIN q[r].writes : p.writes[i] = q[r].writes[j]

Lines == \A r \in Route!Route : Line(topology, overridden, clock, suspended, queue, replay, r)
Keyed(k) ==
    /\ Placed(topology, overridden, data, clock, k)
    /\ Recalled(topology, overridden, data, queue, replay, stray, intended, unsure, k)
    /\ Underway(topology, overridden, data, suspended, replay, clock, unsure, routeCall, k)
    /\ Moved(topology, overridden, data, stray, routeCall, compacting, k)
Routed == RouteTypeOK /\ Lines /\ \A k \in RouteKey : Keyed(k)

(* What the operators of the instance are. *)
LEMMA SameRouting ==
    ASSUME NEW k \in RouteKey
    PROVE  /\ Route!RouteName(k) = NameOf(topology, k) /\ Route!Aged(k) = OldOf(topology, k)
           /\ Route!StoreFor(k) = IF NameOf(topology, k) \in suspended THEN "null" ELSE HomeOf(topology, overridden, k)
           /\ topology.blobs # "tiered" => Route!PutStore(k) = Route!StoreFor(k)
BY DEF Route!RouteName, Route!Aged, Route!StoreFor, Route!PutStore, NameOf, OldOf, HomeOf, HomeFor

(* A record has a route, and a route a store that is not the cold one. *)
LEMMA Homes ==
    ASSUME NEW t, NEW o, NEW k
    PROVE  /\ NameOf(t, k) \in Route!Route /\ HomeOf(t, o, k) \in Route!Store \ {"cold", "null"}
           /\ \A r \in Route!Route : HomeFor(o, r) \in Route!Store \ {"cold", "null"}
BY DEF NameOf, HomeOf, HomeFor, Route!Original, Route!Route, Route!Store

(* A write puts one version under one key. *)
LEMMA PutFacts ==
    ASSUME NEW d \in [Route!Store -> [RouteKey -> Stamp]], NEW x \in Route!Store, NEW k \in RouteKey, NEW v \in Stamp
    PROVE  LET e == [d EXCEPT ![x][k] = v] IN
           /\ e \in [Route!Store -> [RouteKey -> Stamp]] /\ e[x][k] = v
           /\ \A y \in Route!Store : \A j \in RouteKey : y # x \/ j # k => e[y][j] = d[y][j]
OBVIOUS

(* What a queue holds are writes. *)
LEMMA WritesMember ==
    ASSUME NEW ws \in Seq(QueuedWrite), NEW i \in DOMAIN ws
    PROVE  ws[i] \in QueuedWrite /\ ws[i].key \in RouteKey /\ ws[i].ver \in Stamp
<1>1. ws[i] \in QueuedWrite OBVIOUS
<1> QED BY <1>1 DEF QueuedWrite

(* Queueing a write. *)
LEMMA AppendLatest ==
    ASSUME NEW ws \in Seq(QueuedWrite), NEW w \in QueuedWrite
    PROVE  LET us == Append(ws, w) IN
           /\ us \in Seq(QueuedWrite)
           /\ \A base : Latest(us, w.key, w.ver, base)
           /\ \A k, v, base : k # w.key /\ Latest(ws, k, v, base) => Latest(us, k, v, base)
           /\ \A i \in DOMAIN us : us[i] = w \/ (i \in DOMAIN ws /\ us[i] = ws[i])
           /\ \A i \in DOMAIN ws : i \in DOMAIN us /\ us[i] = ws[i]
<1> DEFINE us == Append(ws, w)
<1>1. us \in Seq(QueuedWrite) /\ DOMAIN us = 1..(Len(ws) + 1) /\ DOMAIN ws = 1..Len(ws) /\ Len(ws) \in Nat
  OBVIOUS
<1>2. us[Len(ws) + 1] = w /\ \A i \in 1..Len(ws) : us[i] = ws[i]
  OBVIOUS
<1> HIDE DEF us
<1>3. ASSUME NEW base PROVE Latest(us, w.key, w.ver, base)
  <2>1. Len(ws) + 1 \in DOMAIN us /\ \A j \in DOMAIN us : ~(j > Len(ws) + 1) BY <1>1
  <2> QED BY <2>1, <1>2 DEF Latest
<1>4. ASSUME NEW k, NEW v, NEW base, k # w.key, Latest(ws, k, v, base) PROVE Latest(us, k, v, base)
  <2>1. CASE \E i \in DOMAIN ws : ws[i].key = k /\ ws[i].ver = v /\ \A j \in DOMAIN ws : j > i => ws[j].key # k
    <3>1. PICK i \in DOMAIN ws : ws[i].key = k /\ ws[i].ver = v /\ \A j \in DOMAIN ws : j > i => ws[j].key # k
      BY <2>1
    <3>2. i \in DOMAIN us /\ us[i].key = k /\ us[i].ver = v BY <3>1, <1>1, <1>2
    <3>3. ASSUME NEW j \in DOMAIN us, j > i PROVE us[j].key # k
      <4>1. CASE j = Len(ws) + 1 BY <4>1, <1>2, <1>4
      <4>2. CASE j \in DOMAIN ws BY <4>2, <1>1, <1>2, <3>1, <3>3
      <4> QED BY <4>1, <4>2, <1>1
    <3> QED BY <3>2, <3>3 DEF Latest
  <2>2. CASE base = v /\ \A i \in DOMAIN ws : ws[i].key # k
    <3>1. ASSUME NEW i \in DOMAIN us PROVE us[i].key # k
      <4>1. CASE i = Len(ws) + 1 BY <4>1, <1>2, <1>4
      <4>2. CASE i \in DOMAIN ws BY <4>2, <1>1, <1>2, <2>2
      <4> QED BY <4>1, <4>2, <1>1
    <3> QED BY <3>1, <2>2 DEF Latest
  <2> QED BY <1>4, <2>1, <2>2 DEF Latest
<1>5. \A i \in DOMAIN us : us[i] = w \/ (i \in DOMAIN ws /\ us[i] = ws[i]) BY <1>1, <1>2
<1>6. \A i \in DOMAIN ws : i \in DOMAIN us /\ us[i] = ws[i] BY <1>1, <1>2
<1> QED BY <1>1, <1>3, <1>4, <1>5, <1>6 DEF us

(* Replaying a write. *)
LEMMA TailLatest ==
    ASSUME NEW ws \in Seq(QueuedWrite), ws # <<>>
    PROVE  LET us == Tail(ws) w == ws[1] IN
           /\ w \in QueuedWrite /\ us \in Seq(QueuedWrite)
           /\ \A v, base : Latest(ws, w.key, v, base) => Latest(us, w.key, v, w.ver)
           /\ \A k, v, base : k # w.key /\ Latest(ws, k, v, base) => Latest(us, k, v, base)
           /\ \A i \in DOMAIN us : i + 1 \in DOMAIN ws /\ us[i] = ws[i + 1]
<1> DEFINE us == Tail(ws) w == ws[1]
<1>1. us \in Seq(QueuedWrite) /\ DOMAIN us = 1..(Len(ws) - 1) /\ DOMAIN ws = 1..Len(ws) /\ Len(ws) \in Nat \ {0}
  OBVIOUS
<1>2. \A i \in 1..(Len(ws) - 1) : us[i] = ws[i + 1]
  OBVIOUS
<1>3. w \in QueuedWrite BY <1>1
<1> HIDE DEF us
<1>4. ASSUME NEW k, NEW v, NEW base, Latest(ws, k, v, base)
      PROVE  (k # w.key => Latest(us, k, v, base)) /\ (k = w.key => Latest(us, k, v, w.ver))
  <2>1. CASE \E i \in DOMAIN ws : ws[i].key = k /\ ws[i].ver = v /\ \A j \in DOMAIN ws : j > i => ws[j].key # k
    <3>1. PICK i \in DOMAIN ws : ws[i].key = k /\ ws[i].ver = v /\ \A j \in DOMAIN ws : j > i => ws[j].key # k
      BY <2>1
    <3>2. CASE i = 1
      <4>1. k = w.key /\ v = w.ver BY <3>1, <3>2
      <4>2. ASSUME NEW j \in DOMAIN us PROVE us[j].key # k
        <5>1. j + 1 \in DOMAIN ws /\ j + 1 > 1 /\ us[j] = ws[j + 1] BY <1>1, <1>2
        <5> QED BY <5>1, <3>1, <3>2
      <4> QED BY <4>1, <4>2 DEF Latest
    <3>3. CASE i # 1
      <4>1. i - 1 \in DOMAIN us /\ us[i - 1] = ws[i] BY <3>3, <1>1, <1>2
      <4>2. ASSUME NEW j \in DOMAIN us, j > i - 1 PROVE us[j].key # k
        <5>1. j + 1 \in DOMAIN ws /\ j + 1 > i /\ us[j] = ws[j + 1] BY <4>2, <1>1, <1>2, <3>1
        <5> QED BY <5>1, <3>1
      <4>3. \A b : Latest(us, k, v, b) BY <4>1, <4>2, <3>1 DEF Latest
      <4> QED BY <4>3
    <3> QED BY <3>2, <3>3
  <2>2. CASE base = v /\ \A i \in DOMAIN ws : ws[i].key # k
    <3>1. k # w.key BY <2>2, <1>1
    <3>2. \A i \in DOMAIN us : us[i].key # k BY <2>2, <1>1, <1>2
    <3> QED BY <3>1, <3>2, <2>2 DEF Latest
  <2> QED BY <1>4, <2>1, <2>2 DEF Latest
<1>5. \A i \in DOMAIN us : i + 1 \in DOMAIN ws /\ us[i] = ws[i + 1] BY <1>1, <1>2
<1> QED BY <1>1, <1>3, <1>4, <1>5 DEF us

(* Nothing waits. *)
LEMMA NoneLatest == \A k, v, base : Latest(<<>>, k, v, base) <=> base = v
<1>1. \A i \in DOMAIN <<>> : FALSE OBVIOUS
<1> QED BY <1>1 DEF Latest

(* The places a step may leave as they are. *)
SameRow(k) == \A x \in Route!Store : data'[x][k] = data[x][k]
SameHome == topology' = topology /\ overridden' = overridden /\ clock' >= clock
SameWaiting(k) ==
    Waiting(queue', replay', NameOf(topology, k)) = Waiting(queue, replay, NameOf(topology, k))
Free(s, p, k) == NameOf(topology, k) \notin s /\ ~Replays(p, NameOf(topology, k))
NoWrite(f, k) == f.op \in {"put", "delete"} => f.key # k

(* A step that leaves the stores as they are, for a record, leaves each part of what holds of it. *)
LEMMA PlaceStays ==
    ASSUME NEW k \in RouteKey, RouteTypeOK, RouteTypeOK', Keyed(k), SameHome, SameRow(k)
    PROVE  Placed(topology, overridden, data, clock, k)'
<1>1. HomeOf(topology, overridden, k) \in Route!Store /\ "cold" \in Route!Store BY Homes DEF Route!Store
<1>2. clock \in Nat /\ clock' \in Nat /\ clock' >= clock /\ topology' = topology /\ overridden' = overridden
  BY DEF RouteTypeOK, SameHome
<1>3. \A x \in Route!Store : data[x][k] \in Nat \cup {None} BY DEF RouteTypeOK, Stamp
<1>4. \A x \in Route!Store : data[x][k] # None => data[x][k] <= clock BY DEF Keyed, Placed
<1>5. \A x \in Route!Store : data[x][k] # None => data[x][k] <= clock'
  BY <1>2, <1>3, <1>4
<1> QED BY <1>1, <1>2, <1>5 DEF Keyed, Placed, SameRow

LEMMA RecallStays ==
    ASSUME NEW k \in RouteKey, RouteTypeOK, RouteTypeOK', Keyed(k), SameHome, SameRow(k), SameWaiting(k),
           intended'[k] = intended[k], OldOf(topology, k) /\ k \in unsure => k \in unsure',
           stray[k] = 0 => stray'[k] = 0
    PROVE  Recalled(topology, overridden, data, queue, replay, stray, intended, unsure, k)'
<1>1. HomeOf(topology, overridden, k) \in Route!Store /\ "cold" \in Route!Store BY Homes DEF Route!Store
<1> QED BY <1>1 DEF Keyed, Recalled, SameRow, SameHome, SameWaiting

LEMMA CallStays ==
    ASSUME NEW k \in RouteKey, RouteTypeOK, RouteTypeOK', Keyed(k), SameHome, SameRow(k),
           OldOf(topology, k) /\ k \in unsure => k \in unsure',
           \/ NoWrite(routeCall', k)
           \/ routeCall' = routeCall /\ (Free(suspended, replay, k) => Free(suspended', replay', k))
    PROVE  Underway(topology, overridden, data, suspended, replay, clock, unsure, routeCall, k)'
<1>1. HomeOf(topology, overridden, k) \in Route!Store /\ "cold" \in Route!Store BY Homes DEF Route!Store
<1>2. CASE NoWrite(routeCall', k) BY <1>2 DEF NoWrite, Underway
<1>3. CASE routeCall' = routeCall /\ (Free(suspended, replay, k) => Free(suspended', replay', k))
  <2>1. clock \in Nat /\ clock' \in Nat /\ clock' >= clock BY DEF RouteTypeOK, SameHome
  <2> QED BY <1>1, <1>3, <2>1 DEF Keyed, Underway, SameRow, SameHome, Free
<1> QED BY <1>2, <1>3

LEMMA MoveStays ==
    ASSUME NEW k \in RouteKey, RouteTypeOK, RouteTypeOK', Keyed(k), SameHome, SameRow(k),
           stray[k] = 0 => stray'[k] = 0, NoWrite(routeCall', k) \/ routeCall' = routeCall,
           compacting' = compacting \/ compacting'.pc = "idle" \/ compacting'.key # k
    PROVE  Moved(topology, overridden, data, stray, routeCall, compacting, k)'
<1>1. "primary" \in Route!Store /\ "cold" \in Route!Store BY DEF Route!Store
<1> QED BY <1>1 DEF Keyed, Moved, SameRow, SameHome, NoWrite

LEMMA KeyStays ==
    ASSUME NEW k \in RouteKey, RouteTypeOK, RouteTypeOK', Keyed(k), SameHome, SameRow(k), SameWaiting(k),
           intended'[k] = intended[k], OldOf(topology, k) /\ k \in unsure => k \in unsure',
           stray[k] = 0 => stray'[k] = 0,
           \/ NoWrite(routeCall', k)
           \/ routeCall' = routeCall /\ (Free(suspended, replay, k) => Free(suspended', replay', k)),
           compacting' = compacting \/ compacting'.pc = "idle" \/ compacting'.key # k
    PROVE  Keyed(k)'
BY PlaceStays, RecallStays, CallStays, MoveStays DEF Keyed

LEMMA LinesStay ==
    ASSUME Lines, RouteTypeOK, RouteTypeOK', SameHome, UNCHANGED <<suspended, queue, replay>>
    PROVE  Lines'
<1> SUFFICES ASSUME NEW r \in Route!Route
             PROVE  Line(topology', overridden', clock', suspended', queue', replay', r)
  BY DEF Lines, Route!Route
<1>2. \A i \in DOMAIN queue[r].writes : queue[r].writes[i].ver \in Nat \cup {None}
  BY WritesMember DEF RouteTypeOK, Stamp
<1>3. clock \in Nat /\ clock' \in Nat /\ clock' >= clock BY DEF RouteTypeOK, SameHome
<1>4. Line(topology, overridden, clock, suspended, queue, replay, r) BY DEF Lines
<1>5. \A i \in DOMAIN queue[r].writes : queue[r].writes[i].ver # None => queue[r].writes[i].ver <= clock'
  BY <1>2, <1>3, <1>4 DEF Line
<1> QED BY <1>4, <1>5 DEF Line, SameHome

(* A route that can be used has nothing that waits. *)
LEMMA NothingWaits ==
    ASSUME NEW k \in RouteKey, Lines, Free(suspended, replay, k)
    PROVE  Waiting(queue, replay, NameOf(topology, k)) = <<>>
<1>1. NameOf(topology, k) \in Route!Route BY Homes
<1>2. queue[NameOf(topology, k)] = Route!NoQueue BY <1>1 DEF Lines, Line, Free
<1> QED BY <1>2 DEF Waiting, Free, Route!NoQueue

(* A suspended or replayed route has no record that may be in the cold store. *)
LEMMA BusyIsYoung ==
    ASSUME NEW k \in RouteKey, Lines, ~Free(suspended, replay, k)
    PROVE  ~OldOf(topology, k)
<1>1. NameOf(topology, k) \in Route!Route BY Homes
<1> QED BY <1>1 DEF Lines, Line, Free

(* A write is queued. *)
LEMMA EnqueueStep ==
    ASSUME Routed, RoutesApart, NEW k \in RouteKey, NEW v \in Stamp, v # None => v <= clock',
           Route!Queues(k), Route!Quiet(k), Route!Enqueue(Route!RouteName(k), [key |-> k, ver |-> v]),
           Route!Acknowledge(k, v), clock' = clock + 1,
           UNCHANGED <<topology, overridden, suspended, data, replay, routeCall, stray, compacting, cutoff>>,
           routeCall = Route!NoCall
    PROVE  Routed'
<1> DEFINE r == NameOf(topology, k)
           w == [key |-> k, ver |-> v]
           ws == queue[r].writes
<1>1. RouteTypeOK /\ Lines /\ \A j \in RouteKey : Keyed(j) BY DEF Routed
<1>2. r \in Route!Route /\ r \in suspended /\ ~Replays(replay, r)
  BY SameRouting, Homes DEF Route!Queues, Route!Quiet, RoutesApart, Replays
<1>3. w \in QueuedWrite /\ ws \in Seq(QueuedWrite) BY <1>1, <1>2 DEF RouteTypeOK, QueuedWrite
<1>4. queue' = [queue EXCEPT ![r].writes = Append(@, w)]
  BY SameRouting DEF Route!Enqueue, Route!Quiet, Route!Queues, RoutesApart
<1>5. queue'[r] = [on |-> queue[r].on, writes |-> Append(ws, w)] /\ \A x \in Route!Route \ {r} : queue'[x] = queue[x]
  BY <1>1, <1>2, <1>4 DEF RouteTypeOK
<1>6. intended'[k] = v /\ \A j \in RouteKey \ {k} : intended'[j] = intended[j]
  BY <1>1 DEF RouteTypeOK, Route!Acknowledge
<1>7. unsure' = unsure \ {k} BY DEF Route!Acknowledge
<1>8. RouteTypeOK'
  <2>1. Append(ws, w) \in Seq(QueuedWrite) BY <1>3, AppendLatest
  <2>2. queue' \in [Route!Route -> [on : BOOLEAN, writes : Seq(QueuedWrite)]]
    BY <1>1, <1>2, <1>4, <2>1 DEF RouteTypeOK
  <2>3. intended' \in [RouteKey -> Stamp] /\ unsure' \subseteq RouteKey /\ clock' \in Nat
    BY <1>1 DEF RouteTypeOK, Route!Acknowledge
  <2> QED BY <1>1, <2>2, <2>3 DEF RouteTypeOK, Route!Route, Route!Store
<1>9. SameHome BY <1>1 DEF SameHome, RouteTypeOK
<1>10. Lines'
  <2> SUFFICES ASSUME NEW x \in Route!Route
               PROVE  Line(topology, overridden, clock', suspended, queue', replay, x)
    BY DEF Lines, Route!Route
  <2>1. Line(topology, overridden, clock, suspended, queue, replay, x) BY <1>1 DEF Lines
  <2>2. \A y \in Route!Route : \A i \in DOMAIN queue[y].writes : queue[y].writes[i].ver \in Nat \cup {None}
    BY WritesMember, <1>1 DEF RouteTypeOK, Stamp
  <2>3. \A i \in DOMAIN queue[x].writes : queue[x].writes[i].ver # None => queue[x].writes[i].ver <= clock'
    BY <1>1, <2>1, <2>2 DEF Line, RouteTypeOK
  <2>4. CASE x # r BY <2>1, <2>3, <2>4, <1>5 DEF Line
  <2>5. CASE x = r
    <3>1. \A i \in DOMAIN queue'[r].writes : NameOf(topology, queue'[r].writes[i].key) = r
                  /\ (queue'[r].writes[i].ver # None => queue'[r].writes[i].ver <= clock')
      <4>1. \A i \in DOMAIN Append(ws, w) : Append(ws, w)[i] = w \/ (i \in DOMAIN ws /\ Append(ws, w)[i] = ws[i])
        BY <1>3, AppendLatest
      <4>2. \A i \in DOMAIN ws : NameOf(topology, ws[i].key) = r /\ (ws[i].ver # None => ws[i].ver <= clock')
        BY <2>1, <2>3, <2>5 DEF Line
      <4> QED BY <4>1, <4>2, <1>5
    <3> QED BY <3>1, <2>1, <2>5, <1>2 DEF Line
  <2> QED BY <2>4, <2>5
<1>11. ASSUME NEW j \in RouteKey PROVE Keyed(j)'
  <2>1. NoWrite(routeCall', j) /\ SameRow(j) BY DEF NoWrite, Route!NoCall, SameRow
  <2>2. CASE NameOf(topology, j) # r
    <3>1. j # k BY <2>2
    <3>2. SameWaiting(j) BY <2>2, <1>5, Homes DEF SameWaiting, Waiting
    <3> QED BY <1>1, <1>8, <1>9, <2>1, <3>1, <3>2, <1>6, <1>7, KeyStays
  <2>3. CASE NameOf(topology, j) = r
    <3>1. ~OldOf(topology, j) BY <2>3, <1>1, <1>2, BusyIsYoung DEF Free
    <3>2. Placed(topology, overridden, data, clock, j)' BY <1>1, <1>8, <1>9, <2>1, PlaceStays
    <3>3. Underway(topology, overridden, data, suspended, replay, clock, unsure, routeCall, j)'
      BY <1>1, <1>8, <1>9, <2>1, <3>1, CallStays
    <3>4. Moved(topology, overridden, data, stray, routeCall, compacting, j)'
      BY <1>1, <1>8, <1>9, <2>1, MoveStays
    <3>5. Latest(ws, j, intended[j], data[HomeOf(topology, overridden, j)][j])
      BY <1>1, <3>1, <2>3, <1>2 DEF Keyed, Recalled, Waiting
    <3>6. Latest(Append(ws, w), j, intended'[j], data[HomeOf(topology, overridden, j)][j])
      <4>1. CASE j = k BY <4>1, <1>3, <1>6, AppendLatest
      <4>2. CASE j # k BY <4>2, <3>5, <1>3, <1>6, AppendLatest
      <4> QED BY <4>1, <4>2
    <3>7. Recalled(topology, overridden, data, queue, replay, stray, intended, unsure, j)'
      BY <3>6, <3>1, <2>3, <1>2, <1>5 DEF Recalled, Waiting
    <3> QED BY <3>2, <3>3, <3>4, <3>7 DEF Keyed
  <2> QED BY <2>2, <2>3
<1> QED BY <1>8, <1>10, <1>11 DEF Routed

(* A write begins. *)
LEMMA StartStep ==
    ASSUME Routed, RoutesApart, NEW k \in RouteKey, Route!Quiet(k), routeCall = Route!NoCall,
           routeCall' \in RouteCallType, routeCall'.op \in {"put", "delete"}, routeCall'.key = k,
           routeCall'.pc = "store", routeCall'.target = Route!StoreFor(k),
           routeCall'.op = "put" => routeCall'.ver = clock + 1,
           stray' \in [RouteKey -> Nat], \A j \in RouteKey \ {k} : stray'[j] = stray[j],
           ~OldOf(topology, k) => stray'[k] = stray[k],
           unsure' = unsure \cup {k}, clock' = clock + 1,
           UNCHANGED <<topology, overridden, suspended, data, queue, replay, compacting, cutoff, intended>>
    PROVE  Routed'
<1>1. RouteTypeOK /\ Lines /\ \A j \in RouteKey : Keyed(j) BY DEF Routed
<1>2. RouteTypeOK' BY <1>1 DEF RouteTypeOK, Route!Route, Route!Store
<1>3. SameHome BY <1>1 DEF SameHome, RouteTypeOK
<1>4. Lines' BY <1>1, <1>2, <1>3, LinesStay
<1>5. \A j \in RouteKey : SameRow(j) /\ SameWaiting(j) BY DEF SameRow, SameWaiting
<1>6. ASSUME NEW j \in RouteKey, j # k PROVE Keyed(j)'
  <2>1. NoWrite(routeCall', j) BY <1>6 DEF NoWrite
  <2> QED BY <2>1, <1>1, <1>2, <1>3, <1>5, <1>6, KeyStays
<1>7. Keyed(k)'
  <2>1. compacting.key # k /\ ~Replays(replay, NameOf(topology, k))
    BY SameRouting DEF Route!Quiet, RoutesApart, Replays
  <2>2. Placed(topology, overridden, data, clock, k)' BY <1>1, <1>2, <1>3, <1>5, PlaceStays
  <2>3. Moved(topology, overridden, data, stray, routeCall, compacting, k)' BY <2>1 DEF Moved
  <2>4. Recalled(topology, overridden, data, queue, replay, stray, intended, unsure, k)'
    BY <1>1 DEF Keyed, Recalled
  <2>5. data["cold"][k] # None => data["cold"][k] <= clock
    BY <1>1 DEF Keyed, Placed, Route!Store
  <2>6. data["cold"][k] \in Nat \cup {None} /\ clock \in Nat BY <1>1 DEF RouteTypeOK, Stamp, Route!Store
  <2>7. NameOf(topology, k) \in suspended => ~OldOf(topology, k) BY <1>1, BusyIsYoung DEF Free
  <2>8. Underway(topology, overridden, data, suspended, replay, clock, unsure, routeCall, k)'
    <3>1. \/ routeCall'.target = "null" /\ ~OldOf(topology, k)
          \/ routeCall'.target = HomeOf(topology, overridden, k) /\ NameOf(topology, k) \notin suspended
      BY <2>7, SameRouting
    <3>2. routeCall'.op = "put" => routeCall'.ver \in Nat /\ routeCall'.ver <= clock'
             /\ (data["cold"][k] # None => data["cold"][k] <= routeCall'.ver)
      BY <2>5, <2>6
    <3> QED BY <2>1, <3>1, <3>2 DEF Underway
  <2> QED BY <2>2, <2>3, <2>4, <2>8 DEF Keyed
<1> QED BY <1>2, <1>4, <1>6, <1>7 DEF Routed

(* A put that begins is queued or goes to the store of its record. *)
LEMMA RoutePutBegins ==
    ASSUME Routed, RoutesApart, NEW k \in RouteKey, Route!BeginPut(k) PROVE Routed'
<1>1. RouteTypeOK BY DEF Routed
<1>2. clock' = clock + 1 /\ routeCall = Route!NoCall /\ Route!Quiet(k)
      /\ UNCHANGED <<topology, overridden, suspended, data, replay, compacting, cutoff>>
  BY DEF Route!BeginPut, Route!sources
<1>3. clock + 1 \in Nat /\ clock + 1 \in Stamp BY <1>1 DEF RouteTypeOK, Stamp
<1>4. CASE Route!Queues(k)
  <2>1. Route!Enqueue(Route!RouteName(k), [key |-> k, ver |-> clock + 1]) /\ Route!Acknowledge(k, clock + 1)
        /\ UNCHANGED <<routeCall, stray>>
    BY <1>4 DEF Route!BeginPut
  <2>2. clock + 1 <= clock' BY <1>2, <1>3
  <2> QED BY <1>2, <1>3, <1>4, <2>1, <2>2, EnqueueStep
<1>5. CASE ~Route!Queues(k)
  <2>1. /\ routeCall' = [Route!NoCall EXCEPT !.op = "put", !.key = k, !.ver = clock + 1, !.pc = "store",
                                            !.target = Route!PutStore(k)]
        /\ stray' = IF Route!Aged(k) THEN [stray EXCEPT ![k] = @ + 1] ELSE stray
        /\ unsure' = unsure \cup {k} /\ UNCHANGED <<queue, intended>>
    BY <1>5 DEF Route!BeginPut
  <2>2. Route!PutStore(k) = Route!StoreFor(k) BY <1>1, SameRouting DEF RoutesApart, RouteTypeOK
  <2>3. Route!StoreFor(k) \in Route!Store \cup {"null"} BY SameRouting, Homes
  <2>4. routeCall' \in RouteCallType /\ routeCall'.op = "put" /\ routeCall'.key = k /\ routeCall'.pc = "store"
        /\ routeCall'.target = Route!StoreFor(k) /\ routeCall'.ver = clock + 1
    BY <1>3, <2>1, <2>2, <2>3 DEF RouteCallType, Route!NoCall, Stamp
  <2>5. stray' \in [RouteKey -> Nat] /\ (\A j \in RouteKey \ {k} : stray'[j] = stray[j])
        /\ (~OldOf(topology, k) => stray'[k] = stray[k])
    BY <1>1, <2>1, SameRouting DEF RouteTypeOK
  <2> QED BY <1>2, <2>1, <2>4, <2>5, StartStep
<1> QED BY <1>4, <1>5

(* So is a delete. *)
LEMMA RouteDeleteBegins ==
    ASSUME Routed, RoutesApart, NEW k \in RouteKey, Route!BeginDelete(k) PROVE Routed'
<1>1. RouteTypeOK BY DEF Routed
<1>2. clock' = clock + 1 /\ routeCall = Route!NoCall /\ Route!Quiet(k)
      /\ UNCHANGED <<topology, overridden, suspended, data, replay, stray, compacting, cutoff>>
  BY DEF Route!BeginDelete, Route!sources
<1>3. None \in Stamp BY DEF Stamp
<1>4. CASE Route!Queues(k)
  <2>1. Route!Enqueue(Route!RouteName(k), [key |-> k, ver |-> None]) /\ Route!Acknowledge(k, None)
        /\ UNCHANGED routeCall
    BY <1>4 DEF Route!BeginDelete
  <2> QED BY <1>2, <1>3, <1>4, <2>1, EnqueueStep
<1>5. CASE ~Route!Queues(k)
  <2>1. /\ routeCall' = [Route!NoCall EXCEPT !.op = "delete", !.key = k, !.pc = "store",
                                            !.target = Route!StoreFor(k)]
        /\ unsure' = unsure \cup {k} /\ UNCHANGED <<queue, intended>>
    BY <1>5 DEF Route!BeginDelete
  <2>3. Route!StoreFor(k) \in Route!Store \cup {"null"} BY SameRouting, Homes
  <2>4. routeCall' \in RouteCallType /\ routeCall'.op = "delete" /\ routeCall'.key = k /\ routeCall'.pc = "store"
        /\ routeCall'.target = Route!StoreFor(k)
    BY <2>1, <2>3 DEF RouteCallType, Route!NoCall, Stamp
  <2>5. stray' \in [RouteKey -> Nat] BY <1>1, <1>2 DEF RouteTypeOK
  <2> QED BY <1>2, <2>1, <2>4, <2>5, StartStep
<1> QED BY <1>4, <1>5

(* A step that changes neither the stores nor what waits. *)
LEMMA QuietStep ==
    ASSUME Routed, UNCHANGED <<topology, overridden, suspended, data, queue, replay, stray, compacting, clock, intended>>,
           cutoff' \in Nat, routeCall' \in RouteCallType, routeCall'.op # "none" => routeCall'.key \in RouteKey,
           routeCall' = routeCall \/ routeCall'.op \notin {"put", "delete"},
           unsure' \subseteq unsure, \A k \in unsure \ unsure' : ~OldOf(topology, k)
    PROVE  Routed'
<1>1. RouteTypeOK /\ Lines /\ \A j \in RouteKey : Keyed(j) BY DEF Routed
<1>2. RouteTypeOK' BY <1>1 DEF RouteTypeOK, Route!Route, Route!Store
<1>3. SameHome BY <1>1 DEF SameHome, RouteTypeOK
<1>4. Lines' BY <1>1, <1>2, <1>3, LinesStay
<1>5. \A j \in RouteKey : SameRow(j) /\ SameWaiting(j) BY DEF SameRow, SameWaiting
<1>6. ASSUME NEW j \in RouteKey PROVE Keyed(j)'
  <2>1. NoWrite(routeCall', j) \/ routeCall' = routeCall BY DEF NoWrite
  <2>2. Free(suspended, replay, j) => Free(suspended', replay', j) OBVIOUS
  <2> QED BY <2>1, <2>2, <1>1, <1>2, <1>3, <1>5, KeyStays
<1> QED BY <1>2, <1>4, <1>6 DEF Routed

(* A put or delete has carried out its write to the store of its record. *)
LEMMA InRouteCall ==
    ASSUME Routed, routeCall.op \in {"put", "delete"}, NEW k, k = routeCall.key
    PROVE  LET h == HomeOf(topology, overridden, k) IN
           /\ k \in RouteKey /\ h \in Route!Store \ {"cold", "null"} /\ Keyed(k) /\ RouteTypeOK
           /\ \/ routeCall.target = "null" /\ ~OldOf(topology, k)
              \/ routeCall.target = h /\ Free(suspended, replay, k) /\ Waiting(queue, replay, NameOf(topology, k)) = <<>>
           /\ compacting.pc # "idle" => compacting.key # k
           /\ OldOf(topology, k) => k \in unsure
           /\ routeCall.op = "put" => routeCall.ver \in Nat /\ routeCall.ver <= clock
                                      /\ (data["cold"][k] # None => data["cold"][k] <= routeCall.ver)
           /\ routeCall.op = "delete" /\ routeCall.pc # "store" => OldOf(topology, k) /\ data[h][k] = None
<1>1. k \in RouteKey /\ RouteTypeOK BY DEF Routed, RouteTypeOK
<1>2. Keyed(k) /\ Lines BY <1>1 DEF Routed
<1>3. HomeOf(topology, overridden, k) \in Route!Store \ {"cold", "null"} BY Homes
<1>4. Free(suspended, replay, k) => Waiting(queue, replay, NameOf(topology, k)) = <<>>
  BY <1>1, <1>2, NothingWaits
<1>5. Underway(topology, overridden, data, suspended, replay, clock, unsure, routeCall, k)
      /\ Moved(topology, overridden, data, stray, routeCall, compacting, k)
  BY <1>2 DEF Keyed
<1> QED BY <1>1, <1>2, <1>3, <1>4, <1>5 DEF Underway, Moved, Free

(* The same when other records are left alone. *)
LEMMA OneKeyStep ==
    ASSUME Routed, RouteTypeOK', NEW k \in RouteKey, Keyed(k)',
           UNCHANGED <<topology, overridden, suspended, queue, replay, clock>>,
           \A x \in Route!Store : \A j \in RouteKey \ {k} : data'[x][j] = data[x][j],
           \A j \in RouteKey \ {k} : intended'[j] = intended[j] /\ stray'[j] = stray[j] /\ (j \in unsure <=> j \in unsure'),
           routeCall' = routeCall \/ routeCall'.op = "none" \/ routeCall'.key = k,
           compacting' = compacting \/ compacting'.pc = "idle" \/ compacting'.key = k
    PROVE  Routed'
<1>1. RouteTypeOK /\ Lines /\ \A j \in RouteKey : Keyed(j) BY DEF Routed
<1>3. SameHome BY <1>1 DEF SameHome, RouteTypeOK
<1>4. Lines' BY <1>1, <1>3, LinesStay
<1>6. ASSUME NEW j \in RouteKey, j # k PROVE Keyed(j)'
  <2>1. NoWrite(routeCall', j) \/ routeCall' = routeCall BY <1>6 DEF NoWrite
  <2>2. Free(suspended, replay, j) => Free(suspended', replay', j) OBVIOUS
  <2>3. SameRow(j) /\ SameWaiting(j) BY <1>6 DEF SameRow, SameWaiting
  <2> QED BY <2>1, <2>2, <2>3, <1>1, <1>3, <1>6, KeyStays
<1> QED BY <1>4, <1>6 DEF Routed

(* A put that has been carried out. *)
LEMMA PutStoredStep == ASSUME Routed, RoutesApart, Route!PutStored PROVE Routed'
<1> PICK k : k = routeCall.key OBVIOUS
<1> DEFINE h == HomeOf(topology, overridden, k) v == routeCall.ver
<1>1. routeCall.op = "put" /\ routeCall' = Route!NoCall
      /\ UNCHANGED <<topology, overridden, suspended, queue, replay, stray, compacting, clock, cutoff>>
  BY DEF Route!PutStored, Route!sources
<1>2. k \in RouteKey /\ h \in Route!Store \ {"cold", "null"} /\ Keyed(k) /\ RouteTypeOK BY <1>1, InRouteCall
<1>3. routeCall' \in RouteCallType /\ routeCall'.op = "none" BY <1>1 DEF RouteCallType, Route!NoCall, Stamp
<1>4. CASE routeCall.target = "null"
  <2>1. data' = data /\ unsure' = unsure \ {k} /\ intended' = intended
    BY <1>4 DEF Route!PutStored, Route!Put
  <2>2. ~OldOf(topology, k) BY <1>1, <1>2, <1>4, InRouteCall
  <2>3. cutoff' \in Nat BY <1>1, <1>2 DEF RouteTypeOK
  <2> QED BY <2>1, <2>2, <2>3, <1>1, <1>3, QuietStep
<1>5. CASE routeCall.target # "null"
  <2>1. routeCall.target = h /\ Waiting(queue, replay, NameOf(topology, k)) = <<>>
        /\ (compacting.pc # "idle" => compacting.key # k) /\ v \in Nat /\ v <= clock
        /\ (data["cold"][k] # None => data["cold"][k] <= v)
    BY <1>1, <1>5, InRouteCall
  <2>2. data' = [data EXCEPT ![h][k] = v] /\ intended' = [intended EXCEPT ![k] = v] /\ unsure' = unsure \ {k}
    BY <1>5, <2>1, <1>2 DEF Route!PutStored, Route!Put, Route!Acknowledge
  <2>3. v \in Stamp BY <2>1 DEF Stamp
  <2>4. data' \in [Route!Store -> [RouteKey -> Stamp]] /\ data'[h][k] = v
        /\ \A x \in Route!Store : \A j \in RouteKey : x # h \/ j # k => data'[x][j] = data[x][j]
    BY <1>2, <2>2, <2>3, PutFacts DEF RouteTypeOK
  <2>5. intended' \in [RouteKey -> Stamp] /\ intended'[k] = v
        /\ \A j \in RouteKey \ {k} : intended'[j] = intended[j]
    BY <1>2, <2>2, <2>3 DEF RouteTypeOK
  <2>6. RouteTypeOK' BY <1>1, <1>2, <1>3, <2>2, <2>4, <2>5 DEF RouteTypeOK, Route!Route, Route!Store
  <2>7. Keyed(k)'
    <3>1. "cold" \in Route!Store /\ h # "cold" BY <1>2 DEF Route!Store
    <3>2. Placed(topology, overridden, data', clock, k)
      BY <1>2, <2>1, <2>4, <3>1 DEF Keyed, Placed
    <3>7. v # None BY <2>1, RoutesApart DEF RoutesApart
    <3>3. Recalled(topology, overridden, data', queue, replay, stray, intended', unsure', k)
      BY <2>1, <2>4, <2>5, <3>1, <3>7, NoneLatest DEF Recalled
    <3>4. NoWrite(routeCall', k) BY <1>3 DEF NoWrite
    <3>5. Underway(topology, overridden, data', suspended, replay, clock, unsure', routeCall', k)
      BY <3>4 DEF NoWrite, Underway
    <3>6. Moved(topology, overridden, data', stray, routeCall', compacting, k) BY <2>1 DEF Moved
    <3> QED BY <3>2, <3>3, <3>5, <3>6, <1>1 DEF Keyed
  <2> QED BY <1>1, <1>2, <1>3, <2>2, <2>4, <2>5, <2>6, <2>7, OneKeyStep
<1> QED BY <1>4, <1>5

(* A put that fails: of a chunk, which has no other copy. *)
LEMMA PutFailsStep == ASSUME Routed, RoutesApart, Route!PutFails PROVE Routed'
<1> PICK k : k = routeCall.key OBVIOUS
<1>1. routeCall.op = "put" /\ routeCall' = Route!NoCall /\ ~Route!Aged(k) /\ unsure' = unsure \ {k}
      /\ UNCHANGED <<topology, overridden, suspended, data, queue, replay, stray, compacting, clock, cutoff, intended>>
  BY DEF Route!PutFails, Route!sources, RoutesApart
<1>2. k \in RouteKey /\ RouteTypeOK BY <1>1, InRouteCall
<1>3. routeCall' \in RouteCallType /\ routeCall'.op = "none" BY <1>1 DEF RouteCallType, Route!NoCall, Stamp
<1>4. ~OldOf(topology, k) BY <1>1, <1>2, SameRouting
<1>5. cutoff' \in Nat BY <1>1, <1>2 DEF RouteTypeOK
<1> QED BY <1>1, <1>3, <1>4, <1>5, QuietStep

(* Reads change nothing that is stored. *)
LEMMA ReadsStep ==
    ASSUME Routed, (\E k \in RouteKey : Route!BeginGet(k)) \/ Route!GetStored \/ Route!GetCold \/ Route!GetReturns
                   \/ Route!GrowOld
    PROVE  Routed'
<1>1. RouteTypeOK BY DEF Routed
<1>2. UNCHANGED <<topology, overridden, suspended, data, queue, replay, stray, compacting, clock, intended, unsure>>
  BY DEF Route!BeginGet, Route!GetStored, Route!GetCold, Route!GetReturns, Route!GrowOld, Route!sources, Route!history
<1>3. cutoff' \in Nat
  <2>1. CASE Route!GrowOld
    <3>1. cutoff \in Nat /\ clock \in Nat /\ cutoff' \in (cutoff + 1)..clock BY <1>1, <2>1 DEF Route!GrowOld, RouteTypeOK
    <3> QED BY <3>1
  <2>2. CASE ~Route!GrowOld
    <3>1. cutoff' = cutoff BY <2>2 DEF Route!BeginGet, Route!GetStored, Route!GetCold, Route!GetReturns
    <3> QED BY <1>1, <3>1 DEF RouteTypeOK
  <2> QED BY <2>1, <2>2
<1>4. CASE \E k \in RouteKey : Route!BeginGet(k)
  <2>1. PICK k \in RouteKey : Route!BeginGet(k) BY <1>4
  <2>2. Route!StoreFor(k) \in Route!Store \cup {"null"} BY SameRouting, Homes
  <2>3. routeCall' \in RouteCallType /\ routeCall'.op = "get" /\ routeCall'.key \in RouteKey
    BY <2>1, <2>2 DEF Route!BeginGet, RouteCallType, Route!NoCall, Stamp
  <2> QED BY <1>2, <1>3, <2>3, QuietStep
<1>5. CASE Route!GetStored
  <2>1. Route!Held(routeCall.target, routeCall.key) \in Stamp
    BY <1>1, <1>5 DEF Route!Held, RouteTypeOK, RouteCallType, Stamp, Route!GetStored
  <2>2. routeCall' \in RouteCallType /\ routeCall'.op = "get" /\ routeCall'.key \in RouteKey
    BY <1>1, <1>5, <2>1 DEF Route!GetStored, RouteTypeOK, RouteCallType
  <2> QED BY <1>2, <1>3, <2>2, QuietStep
<1>6. CASE Route!GetCold
  <2>1. data["cold"][routeCall.key] \in Stamp
    BY <1>1, <1>6 DEF Route!GetCold, RouteTypeOK, Route!Store
  <2>2. routeCall' \in RouteCallType /\ routeCall'.op = "get" /\ routeCall'.key \in RouteKey
    BY <1>1, <1>6, <2>1 DEF Route!GetCold, RouteTypeOK, RouteCallType
  <2> QED BY <1>2, <1>3, <2>2, QuietStep
<1>7. CASE Route!GetReturns
  <2>1. routeCall' \in RouteCallType /\ routeCall'.op = "none"
    BY <1>7 DEF Route!GetReturns, RouteCallType, Route!NoCall, Stamp
  <2> QED BY <1>2, <1>3, <2>1, QuietStep
<1>8. CASE Route!GrowOld
  <2>1. routeCall' = routeCall BY <1>8 DEF Route!GrowOld
  <2> QED BY <1>1, <1>2, <1>3, <2>1, QuietStep DEF RouteTypeOK
<1> QED BY <1>4, <1>5, <1>6, <1>7, <1>8
(* The cold copy of a record that has been written again is deleted. *)
LEMMA ColdDeleteStep ==
    ASSUME Routed, RoutesApart, NEW k \in RouteKey, Route!ColdDelete(k) PROVE Routed'
<1>1. RouteTypeOK /\ Keyed(k) BY DEF Routed
<1>2. stray[k] > 0 /\ stray' = [stray EXCEPT ![k] = @ - 1] /\ data' = [data EXCEPT !["cold"][k] = None]
      /\ UNCHANGED <<topology, overridden, suspended, queue, replay, routeCall, compacting, clock, cutoff, intended, unsure>>
  BY DEF Route!ColdDelete, Route!Put, Route!sources, Route!history, RoutesApart
<1>3. "cold" \in Route!Store /\ None \in Stamp BY DEF Route!Store, Stamp
<1>4. data' \in [Route!Store -> [RouteKey -> Stamp]] /\ data'["cold"][k] = None
      /\ \A x \in Route!Store : \A j \in RouteKey : x # "cold" \/ j # k => data'[x][j] = data[x][j]
  BY <1>1, <1>2, <1>3, PutFacts DEF RouteTypeOK
<1>5. stray' \in [RouteKey -> Nat] /\ \A j \in RouteKey \ {k} : stray'[j] = stray[j]
  BY <1>1, <1>2 DEF RouteTypeOK
<1>6. RouteTypeOK' BY <1>1, <1>2, <1>4, <1>5 DEF RouteTypeOK, Route!Route, Route!Store
<1>7. HomeOf(topology, overridden, k) \in Route!Store \ {"cold", "null"} BY Homes
<1>8. Placed(topology, overridden, data', clock, k) BY <1>1, <1>4, <1>7 DEF Keyed, Placed
<1>9. Recalled(topology, overridden, data', queue, replay, stray', intended, unsure, k)
  BY <1>1, <1>2, <1>4, <1>7 DEF Keyed, Recalled
<1>10. Underway(topology, overridden, data', suspended, replay, clock, unsure, routeCall, k)
  BY <1>1, <1>4, <1>7 DEF Keyed, Underway
<1>11. Moved(topology, overridden, data', stray', routeCall, compacting, k)
  BY <1>1, <1>2 DEF Keyed, Moved
<1>12. Keyed(k)' BY <1>2, <1>8, <1>9, <1>10, <1>11 DEF Keyed
<1> QED BY <1>2, <1>4, <1>5, <1>6, <1>12, OneKeyStep

(* A delete that has reached the store of its record. *)
LEMMA DeleteStoredStep == ASSUME Routed, RoutesApart, Route!DeleteStored PROVE Routed'
<1> PICK k : k = routeCall.key OBVIOUS
<1> DEFINE h == HomeOf(topology, overridden, k)
<1>1. routeCall.op = "delete" /\ routeCall.pc = "store" /\ data' = Route!Put(routeCall.target, k, None)
      /\ UNCHANGED <<topology, overridden, suspended, queue, replay, stray, compacting, clock, cutoff>>
      /\ IF Route!Aged(k) THEN routeCall' = [routeCall EXCEPT !.pc = "cold"] /\ UNCHANGED Route!history
         ELSE Route!Deleted(k)
  BY DEF Route!DeleteStored, Route!sources
<1>2. k \in RouteKey /\ h \in Route!Store \ {"cold", "null"} /\ Keyed(k) /\ RouteTypeOK BY <1>1, InRouteCall
<1>3. None \in Stamp BY DEF Stamp
<1>4. CASE routeCall.target = "null"
  <2>1. ~OldOf(topology, k) BY <1>1, <1>2, <1>4, InRouteCall
  <2>2. data' = data /\ routeCall' = Route!NoCall /\ unsure' = unsure \ {k} /\ intended' = intended
    BY <1>1, <1>2, <1>4, <2>1, SameRouting DEF Route!Put, Route!Deleted
  <2>3. routeCall' \in RouteCallType /\ routeCall'.op = "none" BY <2>2 DEF RouteCallType, Route!NoCall, Stamp
  <2>4. cutoff' \in Nat BY <1>1, <1>2 DEF RouteTypeOK
  <2> QED BY <1>1, <2>1, <2>2, <2>3, <2>4, QuietStep
<1>5. CASE routeCall.target # "null"
  <2>1. routeCall.target = h /\ Free(suspended, replay, k) /\ Waiting(queue, replay, NameOf(topology, k)) = <<>>
        /\ (compacting.pc # "idle" => compacting.key # k) /\ (OldOf(topology, k) => k \in unsure)
    BY <1>1, <1>5, InRouteCall
  <2>2. data' = [data EXCEPT ![h][k] = None] BY <1>1, <1>2, <2>1 DEF Route!Put
  <2>3. data' \in [Route!Store -> [RouteKey -> Stamp]] /\ data'[h][k] = None
        /\ \A x \in Route!Store : \A j \in RouteKey : x # h \/ j # k => data'[x][j] = data[x][j]
    BY <1>2, <1>3, <2>2, PutFacts DEF RouteTypeOK
  <2>4. "cold" \in Route!Store /\ h # "cold" BY <1>2 DEF Route!Store
  <2>5. Placed(topology, overridden, data', clock, k) BY <1>2, <2>3, <2>4 DEF Keyed, Placed
  <2>6. Moved(topology, overridden, data', stray, routeCall', compacting, k) BY <2>1 DEF Moved
  <2>7. CASE OldOf(topology, k)
    <3>1. routeCall' = [routeCall EXCEPT !.pc = "cold"] /\ UNCHANGED <<intended, unsure>>
      BY <1>1, <1>2, <2>7, SameRouting DEF Route!history
    <3>2. routeCall' \in RouteCallType /\ routeCall'.op = "delete" /\ routeCall'.key = k /\ routeCall'.target = h
          /\ routeCall'.pc = "cold"
      BY <1>1, <1>2, <2>1, <3>1 DEF RouteTypeOK, RouteCallType
    <3>3. RouteTypeOK' BY <1>1, <1>2, <2>3, <3>1, <3>2 DEF RouteTypeOK, Route!Route, Route!Store
    <3>4. Recalled(topology, overridden, data', queue, replay, stray, intended, unsure, k)
      BY <2>1, <2>7 DEF Recalled
    <3>5. Underway(topology, overridden, data', suspended, replay, clock, unsure, routeCall', k)
      BY <2>1, <2>3, <2>7, <3>2, <1>2 DEF Underway, Free
    <3>6. Keyed(k)' BY <1>1, <2>5, <2>6, <3>1, <3>4, <3>5 DEF Keyed
    <3> QED BY <1>1, <1>2, <2>3, <3>1, <3>2, <3>3, <3>6, OneKeyStep
  <2>8. CASE ~OldOf(topology, k)
    <3>1. routeCall' = Route!NoCall /\ intended' = [intended EXCEPT ![k] = None] /\ unsure' = unsure \ {k}
      BY <1>1, <1>2, <1>5, <2>8, SameRouting DEF Route!Deleted, Route!Acknowledge
    <3>2. routeCall' \in RouteCallType /\ routeCall'.op = "none" BY <3>1 DEF RouteCallType, Route!NoCall, Stamp
    <3>3. intended' \in [RouteKey -> Stamp] /\ intended'[k] = None
          /\ \A j \in RouteKey \ {k} : intended'[j] = intended[j]
      BY <1>2, <1>3, <3>1 DEF RouteTypeOK
    <3>4. RouteTypeOK' BY <1>1, <1>2, <2>3, <3>1, <3>2, <3>3 DEF RouteTypeOK, Route!Route, Route!Store
    <3>5. Recalled(topology, overridden, data', queue, replay, stray, intended', unsure', k)
      BY <2>1, <2>3, <2>8, <3>3, <1>2, NoneLatest DEF Recalled
    <3>6. Underway(topology, overridden, data', suspended, replay, clock, unsure', routeCall', k)
      BY <3>2 DEF Underway
    <3>7. Keyed(k)' BY <1>1, <2>5, <2>6, <3>5, <3>6 DEF Keyed
    <3> QED BY <1>1, <1>2, <2>3, <3>1, <3>2, <3>3, <3>4, <3>7, OneKeyStep
  <2> QED BY <2>7, <2>8
<1> QED BY <1>4, <1>5

(* A delete that has reached the cold store too. *)
LEMMA DeleteColdStep == ASSUME Routed, RoutesApart, Route!DeleteCold PROVE Routed'
<1> PICK k : k = routeCall.key OBVIOUS
<1> DEFINE h == HomeOf(topology, overridden, k)
<1>1. routeCall.op = "delete" /\ routeCall.pc = "cold" /\ Route!Deleted(k) /\ data' = [data EXCEPT !["cold"][k] = None]
      /\ UNCHANGED <<topology, overridden, suspended, queue, replay, stray, compacting, clock, cutoff>>
  BY DEF Route!DeleteCold, Route!Put, Route!sources, RoutesApart
<1>2. k \in RouteKey /\ h \in Route!Store \ {"cold", "null"} /\ Keyed(k) /\ RouteTypeOK /\ OldOf(topology, k)
      /\ data[h][k] = None /\ routeCall.target = h /\ (compacting.pc # "idle" => compacting.key # k)
  BY <1>1, InRouteCall
<1>3. None \in Stamp /\ "cold" \in Route!Store BY DEF Stamp, Route!Store
<1>4. data' \in [Route!Store -> [RouteKey -> Stamp]] /\ data'["cold"][k] = None
      /\ \A x \in Route!Store : \A j \in RouteKey : x # "cold" \/ j # k => data'[x][j] = data[x][j]
  BY <1>1, <1>2, <1>3, PutFacts DEF RouteTypeOK
<1>5. routeCall' = Route!NoCall /\ intended' = [intended EXCEPT ![k] = None] /\ unsure' = unsure \ {k}
  BY <1>1, <1>2 DEF Route!Deleted, Route!Acknowledge
<1>6. routeCall' \in RouteCallType /\ routeCall'.op = "none" BY <1>5 DEF RouteCallType, Route!NoCall, Stamp
<1>7. intended' \in [RouteKey -> Stamp] /\ intended'[k] = None /\ \A j \in RouteKey \ {k} : intended'[j] = intended[j]
  BY <1>2, <1>3, <1>5 DEF RouteTypeOK
<1>8. RouteTypeOK' BY <1>1, <1>2, <1>4, <1>5, <1>6, <1>7 DEF RouteTypeOK, Route!Route, Route!Store
<1>9. Placed(topology, overridden, data', clock, k) BY <1>2, <1>4 DEF Keyed, Placed
<1>10. data'[h][k] = None BY <1>2, <1>4
<1>11. Recalled(topology, overridden, data', queue, replay, stray, intended', unsure', k)
  BY <1>2, <1>4, <1>7, <1>10 DEF Recalled
<1>12. Underway(topology, overridden, data', suspended, replay, clock, unsure', routeCall', k)
  BY <1>6 DEF Underway
<1>13. Moved(topology, overridden, data', stray, routeCall', compacting, k) BY <1>2 DEF Moved
<1>14. Keyed(k)' BY <1>1, <1>9, <1>11, <1>12, <1>13 DEF Keyed
<1> QED BY <1>1, <1>2, <1>4, <1>5, <1>6, <1>7, <1>8, <1>14, OneKeyStep

(* A snapshot of the user's records is written. *)
LEMMA SaveAllStep == ASSUME Routed, RoutesApart, Route!SaveAll PROVE Routed'
<1> DEFINE user == {k \in RouteKey : ~Route!Chunk(k)}
           v == clock + 1
<1>1. RouteTypeOK /\ Lines /\ \A j \in RouteKey : Keyed(j) BY DEF Routed
<1>2. routeCall = Route!NoCall /\ clock' = v /\ (\A k \in user : Route!Quiet(k) /\ Route!RouteName(k) \notin suspended)
      /\ data' = [x \in Route!Store |-> [k \in RouteKey |-> IF k \in user /\ x = Route!StoreFor(k) THEN v ELSE data[x][k]]]
      /\ intended' = [k \in RouteKey |-> IF k \in user THEN v ELSE intended[k]] /\ unsure' = unsure \ user
      /\ UNCHANGED <<topology, overridden, suspended, queue, replay, routeCall, stray, compacting, cutoff>>
  BY DEF Route!SaveAll, Route!sources, Route!Store
<1>3. v \in Nat /\ v \in Stamp /\ clock \in Nat /\ clock <= v /\ v <= v /\ v # None BY <1>1, RoutesApart DEF RouteTypeOK, Stamp, RoutesApart
<1>4. data' \in [Route!Store -> [RouteKey -> Stamp]] BY <1>1, <1>2, <1>3 DEF RouteTypeOK
<1>5. intended' \in [RouteKey -> Stamp] BY <1>1, <1>2, <1>3 DEF RouteTypeOK
<1>6. RouteTypeOK' BY <1>1, <1>2, <1>3, <1>4, <1>5 DEF RouteTypeOK, Route!Route, Route!Store
<1>7. SameHome BY <1>2, <1>3 DEF SameHome
<1>8. Lines' BY <1>1, <1>2, <1>6, <1>7, LinesStay
<1> HIDE DEF v
<1>9. ASSUME NEW j \in RouteKey PROVE Keyed(j)'
  <2>1. NoWrite(routeCall', j) BY <1>2 DEF NoWrite, Route!NoCall
  <2>2. CASE j \notin user
    <3>1. SameRow(j) /\ SameWaiting(j) /\ intended'[j] = intended[j] /\ (j \in unsure => j \in unsure')
      BY <1>2, <2>2 DEF SameRow, SameWaiting
    <3> QED BY <1>1, <1>2, <1>6, <1>7, <2>1, <3>1, KeyStays
  <2>3. CASE j \in user
    <3> DEFINE h == HomeOf(topology, overridden, j)
    <3>1. Free(suspended, replay, j) /\ compacting.key # j /\ Route!StoreFor(j) = h
      BY <1>2, <2>3, SameRouting DEF Route!Quiet, RoutesApart, Free, Replays
    <3>2. h \in Route!Store \ {"cold", "null"} /\ "cold" \in Route!Store BY Homes DEF Route!Store
    <3>3. data'[h][j] = v /\ (\A x \in Route!Store : x # h => data'[x][j] = data[x][j]) /\ intended'[j] = v
      BY <1>2, <2>3, <3>1, <3>2
    <3>4. \A x \in Route!Store : data[x][j] \in Nat \cup {None} /\ (data[x][j] # None => data[x][j] <= clock)
      BY <1>1 DEF Keyed, Placed, RouteTypeOK, Stamp
    <3>5. \A x \in Route!Store : data[x][j] # None => data[x][j] <= v BY <1>3, <3>4
    <3>6. \A x \in Route!Store : data[x][j] # None => x = h \/ (x = "cold" /\ OldOf(topology, j))
      BY <1>1 DEF Keyed, Placed
    <3>7. data["cold"][j] # None => NameOf(topology, j) \notin overridden BY <1>1 DEF Keyed, Placed
    <3>8. Placed(topology, overridden, data', v, j)
      <4>1. \A x \in Route!Store : data'[x][j] # None => (x = h \/ (x = "cold" /\ OldOf(topology, j))) /\ data'[x][j] <= v
        <5> SUFFICES ASSUME NEW x \in Route!Store, data'[x][j] # None
                     PROVE  (x = h \/ (x = "cold" /\ OldOf(topology, j))) /\ data'[x][j] <= v OBVIOUS
        <5>1. CASE x = h BY <5>1, <3>3, <1>3
        <5>2. CASE x # h BY <5>2, <3>3, <3>5, <3>6
        <5> QED BY <5>1, <5>2
      <4>2. data'["cold"][j] = data["cold"][j] BY <3>2, <3>3
      <4>3. data["cold"][j] # None => data["cold"][j] <= data'[h][j] BY <3>2, <3>3, <3>5
      <4> QED BY <4>1, <4>2, <4>3, <3>7 DEF Placed
    <3>9. Waiting(queue, replay, NameOf(topology, j)) = <<>> BY <1>1, <3>1, NothingWaits
    <3>10. Recalled(topology, overridden, data', queue, replay, stray, intended', unsure', j)
      BY <3>3, <3>9, <1>3, NoneLatest DEF Recalled
    <3>11. Underway(topology, overridden, data', suspended, replay, v, unsure', routeCall', j)
      BY <2>1 DEF Underway, NoWrite
    <3>12. Moved(topology, overridden, data', stray, routeCall', compacting, j) BY <3>1 DEF Moved
    <3> QED BY <3>8, <3>10, <3>11, <3>12, <1>2 DEF Keyed
  <2> QED BY <2>2, <2>3
<1> QED BY <1>6, <1>8, <1>9 DEF Routed

(* compact. *)
LEMMA CompactReadStep ==
    ASSUME Routed, RoutesApart, NEW k \in RouteKey, Route!CompactRead(k) PROVE Routed'
<1>1. RouteTypeOK /\ Keyed(k) BY DEF Routed
<1>2. topology.age /\ Kind[k] = "record" /\ data["primary"][k] \in 1..cutoff /\ stray[k] = 0
      /\ (routeCall.key = k => routeCall.op = "get")
      /\ compacting' = [pc |-> "copy", key |-> k, ver |-> data["primary"][k]]
      /\ UNCHANGED <<topology, overridden, suspended, data, queue, replay, routeCall, stray, clock, cutoff, intended, unsure>>
  BY DEF Route!CompactRead, Route!sources, Route!history, RoutesApart
<1>3. data["primary"][k] \in Stamp /\ data["primary"][k] # None
  <2>1. cutoff \in Nat BY <1>1 DEF RouteTypeOK
  <2>2. data["primary"][k] \in Nat BY <1>2, <2>1
  <2> QED BY <2>2, RoutesApart DEF Stamp, RoutesApart
<1>4. RouteTypeOK' BY <1>1, <1>2, <1>3 DEF RouteTypeOK, Route!Route, Route!Store
<1>5. "primary" \in Route!Store /\ OldOf(topology, k) BY <1>2 DEF Route!Store, OldOf, Route!Chunk
<1>6. HomeOf(topology, overridden, k) = "primary" BY <1>1, <1>3, <1>5 DEF Keyed, Placed
<1>7. Moved(topology, overridden, data, stray, routeCall, compacting', k) BY <1>2, <1>3, <1>5, <1>6 DEF Moved
<1>8. Keyed(k)' BY <1>1, <1>2, <1>7 DEF Keyed
<1> QED BY <1>2, <1>4, <1>8, OneKeyStep

(* What holds of the record that is being moved. *)
LEMMA InMove ==
    ASSUME Routed, compacting.pc # "idle", NEW k, k = compacting.key
    PROVE  /\ k \in RouteKey /\ Keyed(k) /\ RouteTypeOK
           /\ OldOf(topology, k) /\ HomeOf(topology, overridden, k) = "primary" /\ compacting.ver # None
           /\ data["primary"][k] = compacting.ver /\ stray[k] = 0 /\ (routeCall.key = k => routeCall.op \notin {"put", "delete"})
           /\ compacting.pc = "drop" => data["cold"][k] = compacting.ver
           /\ NameOf(topology, k) \notin overridden
<1>1. k \in RouteKey /\ RouteTypeOK BY DEF Routed, RouteTypeOK
<1>2. Keyed(k) BY <1>1 DEF Routed
<1>3. Moved(topology, overridden, data, stray, routeCall, compacting, k) BY <1>2 DEF Keyed
<1>4. NameOf(topology, k) \notin overridden BY <1>3 DEF Moved, HomeOf, HomeFor
<1> QED BY <1>1, <1>2, <1>3, <1>4 DEF Moved

(* The copy. *)
LEMMA CompactCopyStep == ASSUME Routed, RoutesApart, Route!CompactCopy PROVE Routed'
<1> PICK k : k = compacting.key OBVIOUS
<1>1. compacting.pc = "copy" /\ data' = [data EXCEPT !["cold"][k] = compacting.ver]
      /\ compacting' = [compacting EXCEPT !.pc = "drop"]
      /\ UNCHANGED <<topology, overridden, suspended, queue, replay, routeCall, stray, clock, cutoff, intended, unsure>>
  BY DEF Route!CompactCopy, Route!Put, Route!sources, Route!history
<1>2. /\ k \in RouteKey /\ Keyed(k) /\ RouteTypeOK
      /\ OldOf(topology, k) /\ HomeOf(topology, overridden, k) = "primary" /\ compacting.ver # None
      /\ data["primary"][k] = compacting.ver /\ stray[k] = 0 /\ (routeCall.key = k => routeCall.op \notin {"put", "delete"})
      /\ NameOf(topology, k) \notin overridden
  BY <1>1, InMove
<1>3. "cold" \in Route!Store /\ "primary" \in Route!Store BY DEF Route!Store
<1>4. compacting.ver \in Nat /\ compacting.ver <= clock
  <2>1. data["primary"][k] \in Nat \cup {None} BY <1>2, <1>3 DEF RouteTypeOK, Stamp
  <2> QED BY <2>1, <1>2, <1>3 DEF Keyed, Placed
<1>5. compacting.ver \in Stamp BY <1>4 DEF Stamp
<1>6. data' \in [Route!Store -> [RouteKey -> Stamp]] /\ data'["cold"][k] = compacting.ver
      /\ \A x \in Route!Store : \A j \in RouteKey : x # "cold" \/ j # k => data'[x][j] = data[x][j]
  BY <1>1, <1>2, <1>3, <1>5, PutFacts DEF RouteTypeOK
<1>7. compacting' \in [pc : {"idle", "copy", "drop"}, key : RouteKey \cup {None}, ver : Stamp] /\ compacting'.key = k
      /\ compacting'.pc = "drop" /\ compacting'.ver = compacting.ver
  BY <1>1, <1>2 DEF RouteTypeOK
<1>8. RouteTypeOK' BY <1>1, <1>2, <1>6, <1>7 DEF RouteTypeOK, Route!Route, Route!Store
<1>9. data'["primary"][k] = compacting.ver BY <1>2, <1>3, <1>6
<1>10. compacting.ver <= compacting.ver BY <1>4
<1>11. Placed(topology, overridden, data', clock, k)
  BY <1>2, <1>4, <1>6, <1>9, <1>10 DEF Keyed, Placed
<1>12. Recalled(topology, overridden, data', queue, replay, stray, intended, unsure, k)
  BY <1>2, <1>6, <1>9 DEF Keyed, Recalled
<1>13. Underway(topology, overridden, data', suspended, replay, clock, unsure, routeCall, k) BY <1>2 DEF Underway
<1>14. Moved(topology, overridden, data', stray, routeCall, compacting', k) BY <1>2, <1>6, <1>7, <1>9 DEF Moved
<1>15. Keyed(k)' BY <1>1, <1>11, <1>12, <1>13, <1>14 DEF Keyed
<1> QED BY <1>1, <1>2, <1>6, <1>7, <1>8, <1>15, OneKeyStep

(* The deletion after it. *)
LEMMA CompactDropStep == ASSUME Routed, RoutesApart, Route!CompactDrop PROVE Routed'
<1> PICK k : k = compacting.key OBVIOUS
<1>1. compacting.pc = "drop" /\ data' = [data EXCEPT !["primary"][k] = None] /\ compacting' = Route!NoMove
      /\ UNCHANGED <<topology, overridden, suspended, queue, replay, routeCall, stray, clock, cutoff, intended, unsure>>
  BY DEF Route!CompactDrop, Route!Put, Route!sources, Route!history
<1>2. /\ k \in RouteKey /\ Keyed(k) /\ RouteTypeOK
      /\ OldOf(topology, k) /\ HomeOf(topology, overridden, k) = "primary" /\ compacting.ver # None
      /\ data["primary"][k] = compacting.ver /\ stray[k] = 0 /\ (routeCall.key = k => routeCall.op \notin {"put", "delete"})
      /\ NameOf(topology, k) \notin overridden /\ data["cold"][k] = compacting.ver
  BY <1>1, InMove
<1>3. "cold" \in Route!Store /\ "primary" \in Route!Store /\ None \in Stamp BY DEF Route!Store, Stamp
<1>4. data' \in [Route!Store -> [RouteKey -> Stamp]] /\ data'["primary"][k] = None
      /\ \A x \in Route!Store : \A j \in RouteKey : x # "primary" \/ j # k => data'[x][j] = data[x][j]
  BY <1>1, <1>2, <1>3, PutFacts DEF RouteTypeOK
<1>5. compacting'.pc = "idle" /\ compacting' \in [pc : {"idle", "copy", "drop"}, key : RouteKey \cup {None}, ver : Stamp]
  BY <1>1 DEF Route!NoMove, Stamp
<1>6. RouteTypeOK' BY <1>1, <1>2, <1>4, <1>5 DEF RouteTypeOK, Route!Route, Route!Store
<1>7. data'["cold"][k] = compacting.ver BY <1>2, <1>3, <1>4
<1>8. Placed(topology, overridden, data', clock, k)
  BY <1>2, <1>4 DEF Keyed, Placed
<1>9. Recalled(topology, overridden, data', queue, replay, stray, intended, unsure, k)
  BY <1>2, <1>4, <1>7 DEF Keyed, Recalled
<1>10. Underway(topology, overridden, data', suspended, replay, clock, unsure, routeCall, k) BY <1>2 DEF Underway
<1>11. Moved(topology, overridden, data', stray, routeCall, compacting', k) BY <1>5 DEF Moved
<1>12. Keyed(k)' BY <1>1, <1>8, <1>9, <1>10, <1>11 DEF Keyed
<1> QED BY <1>1, <1>2, <1>4, <1>5, <1>6, <1>12, OneKeyStep

(* suspend and resume. *)
LEMMA SuspendStep ==
    ASSUME Routed, RoutesApart, NEW r \in Route!Route, NEW b \in BOOLEAN, Route!Suspend(r, b) PROVE Routed'
<1>1. RouteTypeOK /\ Lines /\ \A j \in RouteKey : Keyed(j) BY DEF Routed
<1>2. (\A k \in RouteKey : NameOf(topology, k) = r => ~OldOf(topology, k)) /\ r \notin suspended /\ ~Replays(replay, r)
      /\ routeCall = Route!NoCall /\ suspended' = suspended \cup {r}
      /\ queue' = (IF b THEN [queue EXCEPT ![r] = [on |-> TRUE, writes |-> <<>>]] ELSE queue)
      /\ UNCHANGED <<topology, overridden, data, replay, routeCall, stray, compacting, clock, cutoff, intended, unsure>>
  BY SameRouting DEF Route!Suspend, Route!Other, Route!history, RoutesApart, Replays
<1>3. <<>> \in Seq(QueuedWrite) OBVIOUS
<1>4. queue' \in [Route!Route -> [on : BOOLEAN, writes : Seq(QueuedWrite)]]
      /\ (queue'[r] = queue[r] \/ queue'[r].writes = <<>>) /\ \A x \in Route!Route \ {r} : queue'[x] = queue[x]
  BY <1>1, <1>2, <1>3 DEF RouteTypeOK
<1>5. queue[r].writes = <<>> /\ queue'[r].writes = <<>>
  <2>1. queue[r] = Route!NoQueue BY <1>1, <1>2 DEF Lines, Line
  <2> QED BY <2>1, <1>4 DEF Route!NoQueue
<1>6. RouteTypeOK'
  <2>1. suspended' \subseteq Route!Route BY <1>1, <1>2 DEF RouteTypeOK
  <2> QED BY <1>1, <1>2, <1>4, <2>1 DEF RouteTypeOK, Route!Route, Route!Store
<1>7. SameHome BY <1>1, <1>2 DEF SameHome, RouteTypeOK
<1>8. Lines'
  <2> SUFFICES ASSUME NEW x \in Route!Route
               PROVE  Line(topology, overridden, clock, suspended', queue', replay, x)
    BY <1>2 DEF Lines, Route!Route
  <2>1. Line(topology, overridden, clock, suspended, queue, replay, x) BY <1>1 DEF Lines
  <2>2. CASE x # r
    <3>1. x \in suspended' <=> x \in suspended BY <1>2, <2>2
    <3> QED BY <2>1, <2>2, <3>1, <1>4 DEF Line
  <2>3. CASE x = r
    <3>1. DOMAIN queue'[r].writes = {} BY <1>5
    <3> QED BY <2>3, <3>1, <1>2 DEF Line
  <2> QED BY <2>2, <2>3
<1>9. ASSUME NEW j \in RouteKey PROVE Keyed(j)'
  <2>1. NoWrite(routeCall', j) /\ SameRow(j) BY <1>2 DEF NoWrite, Route!NoCall, SameRow
  <2>2. SameWaiting(j)
    <3>1. NameOf(topology, j) \in Route!Route BY Homes
    <3> QED BY <3>1, <1>2, <1>4, <1>5 DEF SameWaiting, Waiting
  <2> QED BY <1>1, <1>2, <1>6, <1>7, <2>1, <2>2, KeyStays
<1> QED BY <1>6, <1>8, <1>9 DEF Routed

(* A route is resumed: its queue is empty, or is left to replay. *)
LEMMA BeginResumeStep ==
    ASSUME Routed, NEW r \in Route!Route, Route!BeginResume(r) PROVE Routed'
<1> DEFINE ws == queue[r].writes
<1>1. RouteTypeOK /\ Lines /\ \A j \in RouteKey : Keyed(j) BY DEF Routed
<1>2. r \in suspended /\ ~replay.on /\ suspended' = suspended \ {r}
      /\ UNCHANGED <<topology, overridden, data, routeCall, stray, compacting, clock, cutoff, intended, unsure>>
  BY DEF Route!BeginResume, Route!history
<1>3. \/ ws = <<>> /\ queue' = [queue EXCEPT ![r] = Route!NoQueue] /\ replay' = replay
      \/ queue' = queue /\ replay' = [on |-> TRUE, route |-> r, writes |-> ws, target |-> HomeFor(overridden, r)]
  BY DEF Route!BeginResume, HomeFor
<1>4. /\ queue' \in [Route!Route -> [on : BOOLEAN, writes : Seq(QueuedWrite)]]
      /\ replay' \in [on : BOOLEAN, route : Route!Route, target : Route!Store, writes : Seq(QueuedWrite)]
  <2>1. Route!NoQueue \in [on : BOOLEAN, writes : Seq(QueuedWrite)] BY DEF Route!NoQueue
  <2>2. ws \in Seq(QueuedWrite) /\ HomeFor(overridden, r) \in Route!Store BY <1>1, Homes DEF RouteTypeOK
  <2>3. queue \in [Route!Route -> [on : BOOLEAN, writes : Seq(QueuedWrite)]]
        /\ replay \in [on : BOOLEAN, route : Route!Route, target : Route!Store, writes : Seq(QueuedWrite)]
    BY <1>1 DEF RouteTypeOK
  <2> HIDE DEF ws
  <2>4. CASE queue' = [queue EXCEPT ![r] = Route!NoQueue] /\ replay' = replay BY <2>1, <2>3, <2>4
  <2>5. CASE queue' = queue /\ replay' = [on |-> TRUE, route |-> r, writes |-> ws, target |-> HomeFor(overridden, r)]
    BY <2>2, <2>3, <2>5
  <2> QED BY <1>3, <2>4, <2>5
<1>5. suspended' \subseteq Route!Route BY <1>1, <1>2 DEF RouteTypeOK
<1>6. RouteTypeOK' BY <1>1, <1>2, <1>4, <1>5 DEF RouteTypeOK, Route!Route, Route!Store
<1>7. SameHome BY <1>1, <1>2 DEF SameHome, RouteTypeOK
<1>8. \A x \in Route!Route \ {r} : queue'[x] = queue[x] /\ ~Replays(replay', x) /\ ~Replays(replay, x)
                                   /\ (x \in suspended' <=> x \in suspended)
  BY <1>1, <1>2, <1>3 DEF RouteTypeOK, Replays
<1>9. /\ \/ queue'[r] = Route!NoQueue /\ ~Replays(replay', r) /\ ws = <<>>
         \/ queue'[r] = queue[r] /\ Replays(replay', r) /\ replay'.writes = ws /\ replay'.target = HomeFor(overridden, r)
      /\ ~Replays(replay, r) /\ r \notin suspended'
  BY <1>1, <1>2, <1>3 DEF RouteTypeOK, Replays
<1>10. Lines'
  <2> SUFFICES ASSUME NEW x \in Route!Route
               PROVE  Line(topology, overridden, clock, suspended', queue', replay', x)
    BY <1>2 DEF Lines, Route!Route
  <2>1. Line(topology, overridden, clock, suspended, queue, replay, x) BY <1>1 DEF Lines
  <2>2. CASE x # r BY <2>1, <2>2, <1>8 DEF Line
  <2>3. CASE x = r
    <3>1. CASE queue'[r] = Route!NoQueue /\ ~Replays(replay', r)
      <4>1. DOMAIN queue'[r].writes = {} BY <3>1 DEF Route!NoQueue
      <4> QED BY <2>3, <3>1, <4>1, <1>9 DEF Line
    <3>2. CASE queue'[r] = queue[r] /\ Replays(replay', r) /\ replay'.writes = ws /\ replay'.target = HomeFor(overridden, r)
      BY <2>1, <2>3, <3>2, <1>2 DEF Line
    <3> QED BY <3>1, <3>2, <1>9
  <2> QED BY <2>2, <2>3
<1>11. ASSUME NEW j \in RouteKey PROVE Keyed(j)'
  <2> DEFINE x == NameOf(topology, j)
  <2>1. x \in Route!Route BY Homes
  <2>2. SameRow(j) BY <1>2 DEF SameRow
  <2>3. SameWaiting(j)
    <3>1. CASE x # r BY <3>1, <2>1, <1>8 DEF SameWaiting, Waiting
    <3>2. CASE x = r
      <4>1. Waiting(queue, replay, r) = ws BY <1>9 DEF Waiting
      <4>2. Waiting(queue', replay', r) = ws BY <1>9 DEF Waiting, Route!NoQueue
      <4> QED BY <3>2, <4>1, <4>2 DEF SameWaiting
    <3> QED BY <3>1, <3>2
  <2>4. Free(suspended, replay, j) => Free(suspended', replay', j) BY <2>1, <1>2, <1>8 DEF Free
  <2> QED BY <1>1, <1>2, <1>6, <1>7, <2>2, <2>3, <2>4, KeyStays
<1> QED BY <1>6, <1>10, <1>11 DEF Routed

(* The oldest write of the queue is carried out. *)
LEMMA ReplayNextStep == ASSUME Routed, RoutesApart, Route!ReplayNext PROVE Routed'
<1> PICK r, ws, w : r = replay.route /\ ws = replay.writes /\ w = ws[1] OBVIOUS
<1> DEFINE h == HomeFor(overridden, r)
<1>1. RouteTypeOK /\ Lines /\ \A j \in RouteKey : Keyed(j) BY DEF Routed
<1>2. replay.on /\ ws # <<>> /\ replay' = [replay EXCEPT !.writes = Tail(ws)]
      /\ data' = Route!Put(replay.target, Head(ws).key, Head(ws).ver)
      /\ UNCHANGED <<topology, overridden, suspended, queue, routeCall, stray, compacting, clock, cutoff, intended, unsure>>
  BY DEF Route!ReplayNext, Route!sources, Route!history, RoutesApart
<1>3. r \in Route!Route /\ ws \in Seq(QueuedWrite) BY <1>1 DEF RouteTypeOK
<1>4. w \in QueuedWrite /\ Tail(ws) \in Seq(QueuedWrite) /\ w.key \in RouteKey /\ w.ver \in Stamp /\ 1 \in DOMAIN ws
      /\ Head(ws) = w
  <2>1. w \in QueuedWrite /\ Tail(ws) \in Seq(QueuedWrite) BY <1>2, <1>3, TailLatest
  <2>2. 1 \in DOMAIN ws /\ Head(ws) = w BY <1>2, <1>3
  <2> QED BY <2>1, <2>2 DEF QueuedWrite
<1>5. Line(topology, overridden, clock, suspended, queue, replay, r) /\ Replays(replay, r)
  BY <1>1, <1>2, <1>3 DEF Lines, Replays
<1>6. replay.target = h /\ h \in Route!Store \ {"cold", "null"} BY <1>5, Homes, <1>3 DEF Line
<1>7. PICK j \in DOMAIN queue[r].writes : w = queue[r].writes[j] BY <1>4, <1>5 DEF Line
<1> PICK k : k = w.key OBVIOUS
<1>8. k \in RouteKey /\ NameOf(topology, k) = r /\ (w.ver # None => w.ver <= clock) /\ ~OldOf(topology, k)
  <2>1. NameOf(topology, k) = r /\ (w.ver # None => w.ver <= clock) BY <1>5, <1>7 DEF Line
  <2> QED BY <2>1, <1>4, <1>5 DEF Line
<1>9. HomeOf(topology, overridden, k) = h BY <1>8 DEF HomeOf
<1>10. data' = [data EXCEPT ![h][k] = w.ver] BY <1>2, <1>4, <1>6 DEF Route!Put
<1>11. data' \in [Route!Store -> [RouteKey -> Stamp]] /\ data'[h][k] = w.ver
       /\ \A x \in Route!Store : \A i \in RouteKey : x # h \/ i # k => data'[x][i] = data[x][i]
  BY <1>1, <1>4, <1>6, <1>8, <1>10, PutFacts DEF RouteTypeOK
<1>12. replay' \in [on : BOOLEAN, route : Route!Route, target : Route!Store, writes : Seq(QueuedWrite)]
       /\ replay'.on = replay.on /\ replay'.route = r /\ replay'.target = h /\ replay'.writes = Tail(ws)
  BY <1>1, <1>2, <1>4, <1>6 DEF RouteTypeOK
<1>13. RouteTypeOK' BY <1>1, <1>2, <1>11, <1>12 DEF RouteTypeOK, Route!Route, Route!Store
<1>14. SameHome BY <1>1, <1>2 DEF SameHome, RouteTypeOK
<1>15. \A x : Replays(replay', x) <=> Replays(replay, x) BY <1>12 DEF Replays
<1>16. Lines'
  <2> SUFFICES ASSUME NEW x \in Route!Route
               PROVE  Line(topology, overridden, clock, suspended, queue, replay', x)
    BY <1>2 DEF Lines, Route!Route
  <2>1. Line(topology, overridden, clock, suspended, queue, replay, x) BY <1>1 DEF Lines
  <2>2. CASE ~Replays(replay, x) BY <2>1, <2>2, <1>15 DEF Line
  <2>3. CASE Replays(replay, x)
    <3>1. x = r BY <2>3 DEF Replays
    <3>2. \A i \in DOMAIN Tail(ws) : i + 1 \in DOMAIN ws /\ Tail(ws)[i] = ws[i + 1] BY <1>2, <1>3, TailLatest
    <3>3. \A i \in DOMAIN Tail(ws) : \E l \in DOMAIN queue[r].writes : Tail(ws)[i] = queue[r].writes[l]
      BY <3>2, <1>5 DEF Line
    <3> QED BY <2>1, <2>3, <3>1, <3>3, <1>12, <1>15 DEF Line
  <2> QED BY <2>2, <2>3
<1>17. ASSUME NEW i \in RouteKey, i # k PROVE Keyed(i)'
  <2>1. SameRow(i) BY <1>11, <1>17 DEF SameRow
  <2>2. Free(suspended, replay, i) => Free(suspended', replay', i) BY <1>2, <1>15 DEF Free
  <2>3. CASE NameOf(topology, i) # r
    <3>1. SameWaiting(i) BY <2>3, <1>2, <1>12 DEF SameWaiting, Waiting, Replays
    <3> QED BY <1>1, <1>2, <1>13, <1>14, <2>1, <2>2, <3>1, KeyStays
  <2>4. CASE NameOf(topology, i) = r
    <3>1. ~OldOf(topology, i) BY <1>5, <2>4 DEF Line
    <3>2. Latest(ws, i, intended[i], data[HomeOf(topology, overridden, i)][i])
      BY <1>1, <1>5, <2>4, <3>1 DEF Keyed, Recalled, Waiting
    <3>3. Latest(Tail(ws), i, intended[i], data[HomeOf(topology, overridden, i)][i])
      BY <3>2, <1>2, <1>3, <1>17, TailLatest
    <3>4. Waiting(queue, replay', r) = Tail(ws) BY <1>5, <1>12, <1>15 DEF Waiting
    <3>5. data'[HomeOf(topology, overridden, i)][i] = data[HomeOf(topology, overridden, i)][i]
      BY <2>1, Homes DEF SameRow
    <3>6. Recalled(topology, overridden, data', queue, replay', stray, intended, unsure, i)
      BY <3>1, <3>3, <3>4, <3>5, <2>4 DEF Recalled
    <3>7. Placed(topology, overridden, data, clock, i)' BY <1>1, <1>13, <1>14, <2>1, PlaceStays
    <3>8. Underway(topology, overridden, data, suspended, replay, clock, unsure, routeCall, i)'
      BY <1>1, <1>2, <1>13, <1>14, <2>1, <2>2, CallStays
    <3>9. Moved(topology, overridden, data, stray, routeCall, compacting, i)'
      BY <1>1, <1>2, <1>13, <1>14, <2>1, MoveStays
    <3> QED BY <1>2, <3>6, <3>7, <3>8, <3>9 DEF Keyed
  <2> QED BY <2>3, <2>4
<1>18. Keyed(k)'
  <2>1. Placed(topology, overridden, data, clock, k) /\ Recalled(topology, overridden, data, queue, replay, stray, intended, unsure, k)
        /\ Underway(topology, overridden, data, suspended, replay, clock, unsure, routeCall, k)
    BY <1>1, <1>8 DEF Keyed
  <2>2. "cold" \in Route!Store /\ h # "cold" BY <1>6 DEF Route!Store
  <2>3. data'["cold"][k] = None BY <2>1, <2>2, <1>8, <1>9, <1>11 DEF Placed
  <2>4. Placed(topology, overridden, data', clock, k) BY <2>1, <2>3, <1>8, <1>9, <1>11 DEF Placed
  <2>5. Latest(ws, k, intended[k], data[h][k]) BY <2>1, <1>5, <1>8, <1>9 DEF Recalled, Waiting
  <2>6. Latest(Tail(ws), k, intended[k], w.ver) BY <2>5, <1>2, <1>3, TailLatest
  <2>7. Waiting(queue, replay', r) = Tail(ws) BY <1>5, <1>12, <1>15 DEF Waiting
  <2>8. Recalled(topology, overridden, data', queue, replay', stray, intended, unsure, k)
    BY <2>6, <2>7, <1>8, <1>9, <1>11 DEF Recalled
  <2>9. Underway(topology, overridden, data', suspended, replay', clock, unsure, routeCall, k)
    BY <2>1, <2>3, <1>5, <1>8 DEF Underway
  <2>10. Moved(topology, overridden, data', stray, routeCall, compacting, k)
    BY <1>1, <1>8 DEF Keyed, Moved
  <2> QED BY <1>2, <2>4, <2>8, <2>9, <2>10 DEF Keyed
<1> QED BY <1>13, <1>16, <1>17, <1>18 DEF Routed

(* The queue has been replayed. *)
LEMMA ReplayEndStep == ASSUME Routed, Route!ReplayEnd PROVE Routed'
<1> PICK r : r = replay.route OBVIOUS
<1>1. RouteTypeOK /\ Lines /\ \A j \in RouteKey : Keyed(j) BY DEF Routed
<1>2. replay.on /\ replay.writes = <<>> /\ replay' = Route!NoReplay /\ queue' = [queue EXCEPT ![r] = Route!NoQueue]
      /\ UNCHANGED <<topology, overridden, suspended, data, routeCall, stray, compacting, clock, cutoff, intended, unsure>>
  BY DEF Route!ReplayEnd, Route!sources, Route!history
<1>3. r \in Route!Route /\ \A x : (Replays(replay, x) <=> x = r) /\ ~Replays(replay', x)
  BY <1>1, <1>2 DEF RouteTypeOK, Replays, Route!NoReplay
<1>4. queue' \in [Route!Route -> [on : BOOLEAN, writes : Seq(QueuedWrite)]]
      /\ replay' \in [on : BOOLEAN, route : Route!Route, target : Route!Store, writes : Seq(QueuedWrite)]
      /\ queue'[r] = Route!NoQueue /\ \A x \in Route!Route \ {r} : queue'[x] = queue[x]
  BY <1>1, <1>2, <1>3 DEF RouteTypeOK, Route!NoQueue, Route!NoReplay, Route!Route, Route!Store
<1>5. RouteTypeOK' BY <1>1, <1>2, <1>4 DEF RouteTypeOK, Route!Route, Route!Store
<1>6. SameHome BY <1>1, <1>2 DEF SameHome, RouteTypeOK
<1>7. Lines'
  <2> SUFFICES ASSUME NEW x \in Route!Route
               PROVE  Line(topology, overridden, clock, suspended, queue', replay', x)
    BY <1>2 DEF Lines, Route!Route
  <2>1. Line(topology, overridden, clock, suspended, queue, replay, x) BY <1>1 DEF Lines
  <2>2. CASE x # r BY <2>1, <2>2, <1>3, <1>4 DEF Line
  <2>3. CASE x = r
    <3>1. DOMAIN queue'[r].writes = {} BY <1>4 DEF Route!NoQueue
    <3> QED BY <2>1, <2>3, <3>1, <1>3, <1>4 DEF Line
  <2> QED BY <2>2, <2>3
<1>8. ASSUME NEW j \in RouteKey PROVE Keyed(j)'
  <2>1. NameOf(topology, j) \in Route!Route BY Homes
  <2>2. SameRow(j) BY <1>2 DEF SameRow
  <2>3. SameWaiting(j) BY <2>1, <1>2, <1>3, <1>4 DEF SameWaiting, Waiting, Route!NoQueue
  <2>4. Free(suspended, replay, j) => Free(suspended', replay', j) BY <1>2, <1>3 DEF Free
  <2> QED BY <1>1, <1>2, <1>5, <1>6, <2>2, <2>3, <2>4, KeyStays
<1> QED BY <1>5, <1>7, <1>8 DEF Routed

(* A route without records goes to another store. *)
LEMMA RehomeStep ==
    ASSUME Routed, NEW r \in Route!Route, routeCall = Route!NoCall, ~replay.on, overridden' \subseteq Route!Route,
           \A x \in Route!Route \ {r} : x \in overridden' <=> x \in overridden,
           \A k \in RouteKey : NameOf(topology, k) = r =>
               data[HomeFor(overridden, r)][k] = None /\ (OldOf(topology, k) => data["cold"][k] = None),
           UNCHANGED <<topology, suspended, data, queue, replay, routeCall, stray, compacting, clock, cutoff, intended, unsure>>
    PROVE  Routed'
<1>1. RouteTypeOK /\ Lines /\ \A j \in RouteKey : Keyed(j) BY DEF Routed
<1>2. RouteTypeOK' BY <1>1 DEF RouteTypeOK, Route!Route, Route!Store
<1>3. \A x : ~Replays(replay, x) BY DEF Replays
<1>4. Lines' BY <1>1, <1>3 DEF Lines, Line, Route!Route
<1>5. ASSUME NEW j \in RouteKey PROVE Keyed(j)'
  <2> DEFINE h == HomeOf(topology, overridden, j) g == HomeOf(topology, overridden', j)
  <2>1. h \in Route!Store \ {"cold", "null"} /\ g \in Route!Store \ {"cold", "null"} /\ NameOf(topology, j) \in Route!Route
        /\ "cold" \in Route!Store
    BY Homes DEF Route!Store
  <2>2. Placed(topology, overridden, data, clock, j) /\ Recalled(topology, overridden, data, queue, replay, stray, intended, unsure, j)
        /\ Moved(topology, overridden, data, stray, routeCall, compacting, j)
    BY <1>1 DEF Keyed
  <2>3. Underway(topology, overridden', data, suspended, replay, clock, unsure, routeCall, j)
    BY DEF Underway, Route!NoCall
  <2>4. CASE NameOf(topology, j) # r
    <3>1. g = h /\ (NameOf(topology, j) \in overridden' <=> NameOf(topology, j) \in overridden)
      BY <2>1, <2>4 DEF HomeOf, HomeFor
    <3>2. Placed(topology, overridden', data, clock, j) /\ Recalled(topology, overridden', data, queue, replay, stray, intended, unsure, j)
          /\ Moved(topology, overridden', data, stray, routeCall, compacting, j)
      BY <2>2, <3>1 DEF Placed, Recalled, Moved
    <3> QED BY <2>3, <3>2 DEF Keyed
  <2>5. CASE NameOf(topology, j) = r
    <3>1. \A x \in Route!Store : data[x][j] = None
      BY <2>1, <2>2, <2>5 DEF Placed, HomeOf
    <3>2. Placed(topology, overridden', data, clock, j) BY <2>1, <3>1 DEF Placed
    <3>3. Recalled(topology, overridden', data, queue, replay, stray, intended, unsure, j)
      BY <2>1, <2>2, <3>1 DEF Recalled
    <3>4. Moved(topology, overridden', data, stray, routeCall, compacting, j)
      <4>1. ~(compacting.pc # "idle" /\ compacting.key = j) BY <2>1, <2>2, <3>1 DEF Moved
      <4> QED BY <4>1 DEF Moved
    <3> QED BY <2>3, <3>2, <3>3, <3>4 DEF Keyed
  <2> QED BY <2>4, <2>5
<1> QED BY <1>2, <1>4, <1>5 DEF Routed

(* An override, or the end of one, of a route without records. *)
LEMMA OverrideStep ==
    ASSUME Routed, RoutesApart, NEW r \in Route!Route, Route!Override(r) \/ Route!ClearOverride(r) PROVE Routed'
<1>1. UNCHANGED <<topology, suspended, data, queue, replay, routeCall, stray, compacting, clock, cutoff, intended, unsure>>
  BY DEF Route!Override, Route!ClearOverride, Route!history
<1>2. (overridden' = overridden \cup {r} /\ r \notin overridden) \/ (overridden' = overridden \ {r} /\ r \in overridden)
  BY DEF Route!Override, Route!ClearOverride
<1>3. Route!Fresh(r, HomeFor(overridden, r)) BY DEF Route!Override, Route!ClearOverride, HomeFor
<1>4. routeCall = Route!NoCall /\ ~replay.on
      /\ \A k \in RouteKey : NameOf(topology, k) = r =>
            data[HomeFor(overridden, r)][k] = None /\ (OldOf(topology, k) => data["cold"][k] = None)
  BY <1>3, SameRouting DEF Route!Fresh, Route!Other, RoutesApart
<1>5. overridden' \subseteq Route!Route BY <1>2 DEF Routed, RouteTypeOK
<1> QED BY <1>1, <1>2, <1>4, <1>5, RehomeStep

(* The process ends without queues: only what was under way is lost. *)
LEMMA RouteCrashStep == ASSUME Routed, Route!Crash PROVE Routed'
<1>1. RouteTypeOK /\ Lines /\ \A j \in RouteKey : Keyed(j) BY DEF Routed
<1>2. overridden = {} /\ (\A r \in Route!Route : queue[r] = Route!NoQueue) /\ suspended' = {} /\ routeCall' = Route!NoCall
      /\ compacting' = Route!NoMove /\ replay' = Route!NoReplay /\ stray' = [k \in RouteKey |-> 0]
      /\ UNCHANGED <<topology, overridden, data, queue, clock, cutoff, intended, unsure>>
  BY DEF Route!Crash, Route!history
<1>3. RouteTypeOK'
  <2>1. /\ routeCall' \in RouteCallType /\ routeCall'.op = "none"
        /\ compacting' \in [pc : {"idle", "copy", "drop"}, key : RouteKey \cup {None}, ver : Stamp] /\ compacting'.pc = "idle"
        /\ replay' \in [on : BOOLEAN, route : Route!Route, target : Route!Store, writes : Seq(QueuedWrite)]
        /\ stray' \in [RouteKey -> Nat]
    BY <1>2 DEF RouteCallType, Route!NoCall, Route!NoMove, Route!NoReplay, Route!Route, Route!Store, Stamp
  <2> QED BY <1>1, <1>2, <2>1 DEF RouteTypeOK, Route!Route, Route!Store
<1>4. SameHome BY <1>1, <1>2 DEF SameHome, RouteTypeOK
<1>5. \A x : ~Replays(replay', x) BY <1>2 DEF Replays, Route!NoReplay
<1>6. Lines'
  <2> SUFFICES ASSUME NEW x \in Route!Route
               PROVE  Line(topology, overridden, clock, suspended', queue, replay', x)
    BY <1>2 DEF Lines, Route!Route
  <2>1. DOMAIN queue[x].writes = {} BY <1>2 DEF Route!NoQueue
  <2> QED BY <2>1, <1>2, <1>5 DEF Line
<1>7. ASSUME NEW j \in RouteKey PROVE Keyed(j)'
  <2> DEFINE r == NameOf(topology, j)
  <2>1. NoWrite(routeCall', j) /\ SameRow(j) BY <1>2 DEF NoWrite, Route!NoCall, SameRow
  <2>2. r \in Route!Route BY Homes
  <2>3. Waiting(queue, replay, r) = <<>>
    <3>1. CASE ~Replays(replay, r) BY <3>1, <2>2, <1>2 DEF Waiting, Route!NoQueue
    <3>2. CASE Replays(replay, r)
      <4>1. Line(topology, overridden, clock, suspended, queue, replay, r) BY <1>1, <2>2 DEF Lines
      <4>2. \A i \in DOMAIN replay.writes : FALSE BY <4>1, <3>2, <2>2, <1>2 DEF Line, Route!NoQueue
      <4>3. replay.writes \in Seq(QueuedWrite) BY <1>1 DEF RouteTypeOK
      <4>4. replay.writes = <<>>
        <5>1. PICK ws : ws = replay.writes OBVIOUS
        <5>2. ws \in Seq(QueuedWrite) /\ (ws # <<>> => 1 \in DOMAIN ws) BY <4>3, <5>1
        <5> QED BY <4>2, <5>1, <5>2
      <4> QED BY <3>2, <4>4 DEF Waiting
    <3> QED BY <3>1, <3>2
  <2>4. Waiting(queue', replay', r) = <<>> BY <1>2, <1>5, <2>2 DEF Waiting, Route!NoQueue
  <2>5. SameWaiting(j) BY <2>3, <2>4 DEF SameWaiting
  <2>6. stray'[j] = 0 /\ compacting'.pc = "idle" BY <1>2 DEF Route!NoMove
  <2> QED BY <1>1, <1>2, <1>3, <1>4, <2>1, <2>5, <2>6, KeyStays
<1> QED BY <1>3, <1>6, <1>7 DEF Routed

(* At first nothing is stored. *)
LEMMA RoutedInit == ASSUME Route!Init PROVE Routed
<1>1. None \in Stamp /\ 0 \in Nat BY DEF Stamp
<1>2. RouteTypeOK
  BY <1>1 DEF Route!Init, RouteTypeOK, RouteCallType, Route!NoCall, Route!NoMove, Route!NoReplay, Route!NoQueue,
              Route!Route, Route!Store, QueuedWrite
<1>3. \A x : ~Replays(replay, x) BY DEF Route!Init, Replays, Route!NoReplay
<1>4. Lines
  <2> SUFFICES ASSUME NEW x \in Route!Route
               PROVE  Line(topology, overridden, clock, suspended, queue, replay, x)
    BY DEF Lines
  <2>1. queue[x] = Route!NoQueue /\ suspended = {} BY DEF Route!Init
  <2>2. DOMAIN queue[x].writes = {} BY <2>1 DEF Route!NoQueue
  <2> QED BY <1>3, <2>1, <2>2 DEF Line
<1>5. ASSUME NEW k \in RouteKey PROVE Keyed(k)
  <2>1. HomeOf(topology, overridden, k) \in Route!Store /\ NameOf(topology, k) \in Route!Route /\ "cold" \in Route!Store
    BY Homes DEF Route!Store
  <2>2. \A x \in Route!Store : data[x][k] = None BY DEF Route!Init
  <2>3. intended[k] = None BY DEF Route!Init
  <2>4. Waiting(queue, replay, NameOf(topology, k)) = <<>> BY <1>3, <2>1 DEF Waiting, Route!Init, Route!NoQueue
  <2>5. Placed(topology, overridden, data, clock, k) BY <2>1, <2>2 DEF Placed
  <2>6. Recalled(topology, overridden, data, queue, replay, stray, intended, unsure, k)
    BY <2>1, <2>2, <2>3, <2>4, NoneLatest DEF Recalled
  <2>7. Underway(topology, overridden, data, suspended, replay, clock, unsure, routeCall, k)
    BY DEF Underway, Route!Init, Route!NoCall
  <2>8. Moved(topology, overridden, data, stray, routeCall, compacting, k) BY DEF Moved, Route!Init, Route!NoMove
  <2> QED BY <2>5, <2>6, <2>7, <2>8 DEF Keyed
<1> QED BY <1>2, <1>4, <1>5 DEF Routed

(* Every step keeps records where they can be found. *)
LEMMA RoutedStep == ASSUME Routed, RoutesApart, Route!Next PROVE Routed'
<1>1. ASSUME NEW k \in RouteKey, Route!BeginPut(k) \/ Route!BeginDelete(k) \/ Route!BeginGet(k) \/ Route!ColdDelete(k)
                                 \/ Route!CompactRead(k)
      PROVE  Routed'
  BY <1>1, RoutePutBegins, RouteDeleteBegins, ReadsStep, ColdDeleteStep, CompactReadStep
<1>2. CASE Route!PutStored \/ Route!PutFails \/ Route!DeleteStored \/ Route!DeleteCold \/ Route!GetStored \/ Route!GetCold
           \/ Route!GetReturns \/ Route!SaveAll \/ Route!GrowOld \/ Route!CompactCopy \/ Route!CompactDrop
  BY <1>2, PutStoredStep, PutFailsStep, DeleteStoredStep, DeleteColdStep, ReadsStep, SaveAllStep, CompactCopyStep,
     CompactDropStep
<1>3. ASSUME NEW r \in {Route!RouteName(k) : k \in RouteKey},
             Route!Suspend(r, TRUE) \/ Route!Suspend(r, FALSE) \/ Route!BeginResume(r) \/ Route!Override(r)
             \/ Route!ClearOverride(r)
      PROVE  Routed'
  <2>1. r \in Route!Route BY SameRouting, Homes
  <2> QED BY <1>3, <2>1, SuspendStep, BeginResumeStep, OverrideStep
<1>4. CASE Route!ReplayNext \/ Route!ReplayEnd \/ Route!Crash BY <1>4, ReplayNextStep, ReplayEndStep, RouteCrashStep
<1> QED BY <1>1, <1>2, <1>3, <1>4 DEF Route!Next

(* The steps of the other stores do. *)
LEMMA RoutedRests == ASSUME Routed, UNCHANGED routeVars PROVE Routed'
<1>1. RouteTypeOK' BY DEF Routed, RouteTypeOK, routeVars, Route!Route, Route!Store
<1>2. Lines' BY DEF Routed, Lines, routeVars, Route!Route
<1>3. \A k \in RouteKey : Keyed(k)' BY DEF Routed, Keyed, routeVars
<1> QED BY <1>1, <1>2, <1>3 DEF Routed

(* What the reads then find. *)
LEMMA KeyServed ==
    ASSUME Routed, NEW k \in RouteKey \ unsure, Route!Reachable(k)
    PROVE  LET h == HomeOf(topology, overridden, k) IN
           /\ Route!Served(k) = intended[k]
           /\ Route!Served(k) = IF data[h][k] = None /\ OldOf(topology, k) THEN data["cold"][k] ELSE data[h][k]
<1> DEFINE h == HomeOf(topology, overridden, k)
<1>1. Free(suspended, replay, k) BY SameRouting DEF Route!Reachable, Free, Replays
<1>2. Waiting(queue, replay, NameOf(topology, k)) = <<>> BY <1>1, NothingWaits DEF Routed
<1>3. h \in Route!Store \ {"cold", "null"} BY Homes
<1>4. Route!Served(k) = IF data[h][k] = None /\ OldOf(topology, k) THEN data["cold"][k] ELSE data[h][k]
  BY <1>1, <1>3, SameRouting DEF Route!Served, Route!Held, Free
<1>5. Recalled(topology, overridden, data, queue, replay, stray, intended, unsure, k) BY DEF Routed, Keyed
<1>6. CASE OldOf(topology, k) BY <1>4, <1>5, <1>6 DEF Recalled
<1>7. CASE ~OldOf(topology, k)
  <2>1. Latest(<<>>, k, intended[k], data[h][k]) BY <1>2, <1>5, <1>7 DEF Recalled
  <2> QED BY <2>1, <1>4, <1>7, NoneLatest
<1> QED BY <1>4, <1>6, <1>7

(* So does a load of the whole vault: the newest copy is the one that is read. *)
LEMMA KeyMerged ==
    ASSUME Routed, RoutesApart, NEW k \in RouteKey \ unsure, ~Route!Chunk(k), Route!Reachable(k),
           Route!RouteName(k) \notin overridden
    PROVE  Route!Merged(k) = Route!Served(k)
<1> DEFINE h == HomeOf(topology, overridden, k)
           c == data["cold"][k]
           d == data[h][k]
<1>1. h \in {"primary", "named"} BY SameRouting DEF HomeOf, HomeFor, NameOf, Route!Original
<1>2. Route!Served(k) = IF d = None /\ OldOf(topology, k) THEN c ELSE d BY KeyServed
<1>3. Placed(topology, overridden, data, clock, k) BY DEF Routed, Keyed
<1>4. "cold" \in Route!Store /\ h \in Route!Store /\ {"primary", "cold", "blobs", "smalls", "named"} \subseteq Route!Store
  BY <1>1 DEF Route!Store
<1>5. c \in Nat \cup {None} /\ d \in Nat \cup {None} BY <1>4 DEF Routed, RouteTypeOK, Stamp
<1>6. (c # None => OldOf(topology, k) /\ (d = None \/ c <= d))
      /\ \A x \in Route!Store : x # h /\ x # "cold" => data[x][k] = None
  BY <1>1, <1>3, <1>4 DEF Placed
<1>7. Route!Found(k) = {c, d} \ {None} BY <1>1, <1>4, <1>6 DEF Route!Found
<1> HIDE DEF c, d, h
<1>8. CASE Route!Found(k) = {}
  BY <1>2, <1>7, <1>8 DEF Route!Merged
<1>9. CASE d # None
  <2>1. d \in Route!Found(k) /\ d \in Nat /\ d <= d /\ (c # None => c <= d /\ c \in Nat) BY <1>5, <1>6, <1>7, <1>9
  <2>2. \A w \in Route!Found(k) : w <= d /\ w \in Nat BY <2>1, <1>7
  <2>3. \A v \in Route!Found(k) : (\A w \in Route!Found(k) : w <= v) => v = d BY <2>1, <2>2
  <2>4. (CHOOSE v \in Route!Found(k) : \A w \in Route!Found(k) : w <= v) = d BY <2>1, <2>2, <2>3
  <2> QED BY <2>1, <2>4, <1>2, <1>9 DEF Route!Merged
<1>10. CASE d = None /\ c # None
  <2>1. Route!Found(k) = {c} /\ c \in Nat /\ c <= c BY <1>5, <1>7, <1>10
  <2>2. (CHOOSE v \in Route!Found(k) : \A w \in Route!Found(k) : w <= v) = c BY <2>1
  <2> QED BY <2>1, <2>2, <1>2, <1>6, <1>10 DEF Route!Merged
<1> QED BY <1>7, <1>8, <1>9, <1>10

(* And what was acknowledged is stored, or waits. *)
LEMMA KeySomewhere ==
    ASSUME Routed, NEW k \in RouteKey \ unsure, intended[k] # None
    PROVE  \/ \E x \in Route!Store : data[x][k] = intended[k]
           \/ \E r \in Route!Route : \E i \in DOMAIN queue[r].writes : queue[r].writes[i].ver = intended[k]
<1> DEFINE h == HomeOf(topology, overridden, k)
           r == NameOf(topology, k)
<1>1. h \in Route!Store /\ "cold" \in Route!Store /\ r \in Route!Route BY Homes DEF Route!Store
<1>2. Recalled(topology, overridden, data, queue, replay, stray, intended, unsure, k) BY DEF Routed, Keyed
<1>3. CASE OldOf(topology, k) BY <1>1, <1>2, <1>3 DEF Recalled
<1>4. CASE ~OldOf(topology, k)
  <2>1. Latest(Waiting(queue, replay, r), k, intended[k], data[h][k]) BY <1>2, <1>4 DEF Recalled
  <2>2. CASE data[h][k] = intended[k] BY <1>1, <2>2
  <2>3. CASE \E i \in DOMAIN Waiting(queue, replay, r) : Waiting(queue, replay, r)[i].ver = intended[k]
    <3>1. CASE ~Replays(replay, r) BY <1>1, <2>3, <3>1 DEF Waiting
    <3>2. CASE Replays(replay, r)
      <4>1. Line(topology, overridden, clock, suspended, queue, replay, r) BY <1>1 DEF Routed, Lines
      <4>2. PICK i \in DOMAIN replay.writes : replay.writes[i].ver = intended[k] BY <2>3, <3>2 DEF Waiting
      <4>3. \E j \in DOMAIN queue[r].writes : replay.writes[i] = queue[r].writes[j] BY <4>1, <4>2, <3>2 DEF Line
      <4> QED BY <1>1, <4>2, <4>3
    <3> QED BY <3>1, <3>2
  <2> QED BY <2>1, <2>2, <2>3 DEF Latest
<1> QED BY <1>3, <1>4

(* The invariant implies what the run checks. *)
LEMMA RoutedReads ==
    ASSUME Routed, RoutesApart PROVE Route!ReadsBack /\ Route!LoadAllAgrees /\ Route!NeverNowhere
<1>1. Route!ReadsBack BY KeyServed DEF Route!ReadsBack
<1>2. Route!LoadAllAgrees BY KeyMerged DEF Route!LoadAllAgrees
<1>3. Route!NeverNowhere BY KeySomewhere DEF Route!NeverNowhere
<1> QED BY <1>1, <1>2, <1>3

-----------------------------------------------------------------------------
(***************************************************************************)
(* The pages of a scan: what has been returned is all that lasted of the   *)
(* ids up to the cursor, or, counted by an offset, of the first ids.       *)
(***************************************************************************)
ScanType == [on : BOOLEAN, cursor : Nat, got : SUBSET Key, lasting : SUBSET Key, calm : BOOLEAN]
Paged ==
    /\ scan \in ScanType
    /\ scan.lasting \subseteq Stored
    /\ adapter.cursor # "offset" => \A k \in scan.lasting : k <= scan.cursor => k \in scan.got
    /\ adapter.cursor = "offset" /\ scan.calm => scan.lasting \cap Leading(Stored, scan.cursor) \subseteq scan.got

(* Ids are numbers. *)
LEMMA IdsAreNat == Key \subseteq Nat
BY AdapterAssumption DEF Key

(* Ids are counted. *)
LEMMA FewIds ==
    ASSUME NEW S \in SUBSET Key
    PROVE  IsFiniteSet(S) /\ Cardinality(S) \in Nat
<1>1. IsFiniteSet(Key) BY FS_Interval, AdapterAssumption DEF Key
<1>2. IsFiniteSet(S) BY <1>1, FS_Subset
<1> QED BY <1>2, FS_CardinalityType

(* The first n + 1 ids are the first n and the first of the rest. *)
LEMMA LeadingOneMore ==
    ASSUME NEW S \in SUBSET Key, NEW n \in Nat, NEW k \in Leading(S, n + 1) \ Leading(S, n)
    PROVE  k = First(S \ Leading(S, n))
<1> DEFINE Below(i) == {j \in S : j < i}
<1>1. \A i \in S : Below(i) \in SUBSET Key /\ IsFiniteSet(Below(i)) /\ Cardinality(Below(i)) \in Nat
  <2> SUFFICES ASSUME NEW i \in S PROVE Below(i) \in SUBSET Key /\ IsFiniteSet(Below(i)) /\ Cardinality(Below(i)) \in Nat
    OBVIOUS
  <2>1. Below(i) \in SUBSET Key OBVIOUS
  <2> HIDE DEF Below
  <2> QED BY <2>1, FewIds
<1>2. k \in S /\ Cardinality(Below(k)) < n + 1 BY DEF Leading
<1>3. \A i \in S \ Leading(S, n) : ~(Cardinality(Below(i)) < n) BY DEF Leading
<1>4. ASSUME NEW j \in S \ Leading(S, n) PROVE k <= j
  <2>0. j \in Nat /\ k \in Nat BY <1>2, IdsAreNat
  <2> SUFFICES ASSUME j < k PROVE FALSE BY <2>0
  <2>1. j \in Below(k) /\ j \notin Below(j) /\ Below(j) \cup {j} \subseteq Below(k)
    <3>1. j \in S /\ k \in S BY <1>2
    <3>2. \A i \in S : i \in Nat BY IdsAreNat
    <3>3. \A i \in S : i < j => i < k BY <2>0, <3>2
    <3>4. j \in Below(k) BY <3>1
    <3>5. j \notin Below(j)
      <4>1. ~(j < j) BY <2>0
      <4> QED BY <4>1
    <3>6. Below(j) \subseteq Below(k) BY <3>3
    <3> QED BY <3>4, <3>5, <3>6
  <2> HIDE DEF Below
  <2>2. Cardinality(Below(j) \cup {j}) = Cardinality(Below(j)) + 1 BY <1>1, <2>1, FS_AddElement
  <2>3. Cardinality(Below(j) \cup {j}) <= Cardinality(Below(k)) BY <1>1, <1>2, <2>1, FS_Subset
  <2> QED BY <1>1, <1>2, <1>3, <2>2, <2>3
<1>5. k \in S \ Leading(S, n) BY <1>2
<1>6. First(S \ Leading(S, n)) \in S \ Leading(S, n) /\ First(S \ Leading(S, n)) <= k
  <2> DEFINE T == S \ Leading(S, n)
  <2>1. T \in SUBSET Key /\ T # {} BY <1>5
  <2> HIDE DEF T
  <2>2. First(T) \in T /\ \A j \in T : First(T) <= j BY <2>1, FirstIsMember
  <2> QED BY <1>5, <2>2 DEF T
<1> HIDE DEF Below
<1>7. First(S \ Leading(S, n)) \in Nat /\ k \in Nat BY <1>5, <1>6, IdsAreNat
<1> QED BY <1>4, <1>5, <1>6, <1>7

(* No ids come first. *)
LEMMA LeadingNone == ASSUME NEW S \in SUBSET Key PROVE Leading(S, 0) = {}
<1> SUFFICES ASSUME NEW k \in S, Cardinality({j \in S : j < k}) < 0 PROVE FALSE BY DEF Leading
<1> DEFINE T == {j \in S : j < k}
<1>1. T \in SUBSET Key OBVIOUS
<1>2. Cardinality(T) < 0 OBVIOUS
<1> HIDE DEF T
<1>3. Cardinality(T) \in Nat BY <1>1, FewIds
<1> QED BY <1>2, <1>3

(* The records change. *)
LEMMA PagedWrite == ASSUME Paged, NEW r, Write(r), UNCHANGED adapter PROVE Paged'
<1>1. record' = r /\ scan' = [scan EXCEPT !.lasting = {k \in @ : r[k] # None},
                            !.calm = @ /\ \A k \in Key : (r[k] = None) = (record[k] = None)]
  BY DEF Write
<1>2. scan \in ScanType /\ scan.lasting \subseteq Stored BY DEF Paged
<1>3. scan'.lasting = {k \in scan.lasting : r[k] # None} /\ scan'.cursor = scan.cursor /\ scan'.got = scan.got
      /\ scan'.calm = (scan.calm /\ \A k \in Key : (r[k] = None) = (record[k] = None)) /\ scan'.on = scan.on
  BY <1>1, <1>2 DEF ScanType
<1>4. scan' \in ScanType
  <2>1. (scan.calm /\ \A k \in Key : (r[k] = None) = (record[k] = None)) \in BOOLEAN BY <1>2 DEF ScanType
  <2> QED BY <1>1, <1>2, <2>1 DEF ScanType
<1>5. scan'.lasting \subseteq Stored' BY <1>1, <1>2, <1>3 DEF Stored
<1>6. scan'.calm => Stored' = Stored /\ scan.calm BY <1>1, <1>3 DEF Stored
<1> QED BY <1>3, <1>4, <1>5, <1>6 DEF Paged

(* A step that changes neither the records nor the scan. *)
LEMMA PagedRests == ASSUME Paged, UNCHANGED <<adapter, record, scan>> PROVE Paged'
BY DEF Paged, Stored

(* A scan begins, takes a page, ends. *)
LEMMA ScanSteps == ASSUME Paged, ScanStart \/ ScanPage \/ ScanEnd PROVE Paged'
<1>1. Stored \in SUBSET Key BY DEF Stored
<1>2. CASE ScanStart
  <2>1. scan' = [on |-> TRUE, cursor |-> 0, got |-> {}, lasting |-> Stored, calm |-> TRUE] /\ UNCHANGED <<adapter, record>>
    BY <1>2 DEF ScanStart
  <2>2. \A k \in Stored : ~(k <= 0) BY <1>1, AdapterAssumption DEF Key
  <2>3. Leading(Stored, 0) = {} BY <1>1, LeadingNone
  <2>4. Stored' = Stored BY <2>1 DEF Stored
  <2> QED BY <1>1, <2>1, <2>2, <2>3, <2>4 DEF Paged, ScanType
<1>3. CASE ScanPage
  <2> DEFINE f == First(Rest)
  <2>1. Rest # {} /\ UNCHANGED <<adapter, record>>
        /\ scan' = [scan EXCEPT !.got = @ \cup {f}, !.cursor = IF adapter.cursor = "offset" THEN @ + 1 ELSE f]
    BY <1>3 DEF ScanPage
  <2>2. Rest \in SUBSET Key BY <1>1 DEF Rest
  <2>3. f \in Rest /\ \A j \in Rest : f <= j BY <2>1, <2>2, FirstIsMember
  <2>4. f \in Key /\ f \in Nat BY <2>2, <2>3, IdsAreNat
  <2>5. Stored' = Stored BY <2>1 DEF Stored
  <2>6. scan \in ScanType BY DEF Paged
  <2> HIDE DEF f
  <2>7. scan' \in ScanType /\ scan'.lasting = scan.lasting /\ scan'.calm = scan.calm /\ scan'.got = scan.got \cup {f}
        /\ scan'.cursor = (IF adapter.cursor = "offset" THEN scan.cursor + 1 ELSE f)
    <3>1. (scan.cursor + 1) \in Nat /\ (scan.got \cup {f}) \in SUBSET Key BY <2>4, <2>6 DEF ScanType
    <3>2. (IF adapter.cursor = "offset" THEN scan.cursor + 1 ELSE f) \in Nat BY <2>4, <3>1
    <3> QED BY <2>1, <2>6, <3>1, <3>2 DEF ScanType
  <2>8. ASSUME adapter.cursor # "offset", NEW k \in scan.lasting, k <= f PROVE k \in scan'.got
    <3>1. CASE k <= scan.cursor BY <2>7, <2>8, <3>1 DEF Paged
    <3>2. CASE ~(k <= scan.cursor)
      <4>1. k \in Stored /\ k \in Nat /\ scan.cursor \in Nat BY <1>1, <2>6 DEF Paged, Key, ScanType
      <4>2. k \in Rest BY <2>8, <3>2, <4>1 DEF Rest
      <4>3. k = f BY <2>3, <2>4, <2>8, <4>1, <4>2
      <4> QED BY <2>7, <4>3
    <3> QED BY <3>1, <3>2
  <2>9. ASSUME adapter.cursor = "offset", scan.calm, NEW k \in scan.lasting \cap Leading(Stored, scan.cursor + 1)
        PROVE  k \in scan'.got
    <3>1. CASE k \in Leading(Stored, scan.cursor) BY <2>7, <2>9, <3>1 DEF Paged
    <3>2. CASE k \notin Leading(Stored, scan.cursor)
      <4>1. scan.cursor \in Nat BY <2>6 DEF ScanType
      <4>2. k = First(Stored \ Leading(Stored, scan.cursor)) BY <1>1, <2>9, <3>2, <4>1, LeadingOneMore
      <4>3. k = f BY <2>9, <4>2 DEF f, Rest
      <4> QED BY <2>7, <4>3
    <3> QED BY <3>1, <3>2
  <2>10. adapter' = adapter BY <2>1
  <2>11. scan'.lasting \subseteq Stored' BY <2>5, <2>7 DEF Paged
  <2>12. adapter'.cursor # "offset" => \A k \in scan'.lasting : k <= scan'.cursor => k \in scan'.got
    BY <2>7, <2>8, <2>10
  <2>13. adapter'.cursor = "offset" /\ scan'.calm => scan'.lasting \cap Leading(Stored', scan'.cursor) \subseteq scan'.got
    BY <2>5, <2>7, <2>9, <2>10
  <2> QED BY <2>7, <2>11, <2>12, <2>13 DEF Paged
<1>4. CASE ScanEnd
  <2>1. scan' = NoScan BY <1>4 DEF ScanEnd
  <2> QED BY <2>1 DEF Paged, NoScan, ScanType
<1> QED BY <1>2, <1>3, <1>4

(* Every step of an adapter keeps the pages right. *)
LEMMA PagedStep == ASSUME Paged, [Next]_vars PROVE Paged'
<1>1. ASSUME NEW c \in Caller, Handle(c) PROVE Paged'
  <2>1. UNCHANGED adapter BY <1>1 DEF Handle, Get, Delete, PutCheck, PutWrite, PutContent, LoadAll, LoadNext, LoadEnd,
                                     SaveAll, SaveNext, SaveEnd
  <2>2. UNCHANGED <<record, scan>> \/ \E r : Write(r)
    BY <1>1 DEF Handle, Get, Delete, PutCheck, PutWrite, PutContent, LoadAll, LoadNext, LoadEnd, SaveAll, SaveNext, SaveEnd
  <2> QED BY <2>1, <2>2, PagedWrite, PagedRests
<1>2. ASSUME NEW c \in Caller, Invoke(c) \/ Return(c) PROVE Paged'
  BY <1>2, PagedRests DEF Invoke, Return
<1>3. CASE Crash \/ UNCHANGED vars BY <1>3, PagedRests DEF Crash, vars
<1> QED BY <1>1, <1>2, <1>3, ScanSteps DEF Next

(* At first there is no scan. *)
LEMMA PagedInit == ASSUME Init PROVE Paged
BY DEF Init, NoScan, Paged, ScanType

(* A scan that is at its end has returned all of them. *)
LEMMA PagedScans == ASSUME Paged PROVE ScanComplete
<1> SUFFICES ASSUME scan.on, Rest = {}, adapter.cursor = "token" \/ scan.calm, NEW k \in scan.lasting
             PROVE  k \in scan.got
  BY DEF ScanComplete
<1>1. k \in Stored /\ k \in Nat /\ scan.cursor \in Nat BY DEF Paged, Stored, Key, ScanType
<1>2. CASE adapter.cursor = "offset" BY <1>1, <1>2 DEF Paged, Rest
<1>3. CASE adapter.cursor # "offset"
  <2>1. k <= scan.cursor BY <1>1, <1>3 DEF Rest
  <2> QED BY <2>1, <1>3 DEF Paged
<1> QED BY <1>2, <1>3

(***************************************************************************)
(* However user records are put, deleted, moved to the cold store, queued, *)
(* replayed and routed elsewhere, and wherever the process ends: a read,   *)
(* or a load of the whole vault, finds the write acknowledged last, and no *)
(* moment leaves it nowhere, as long as no two of the behaviours named in  *)
(* RouteStore overlap and chunks are not tiered by size.  A scan of an     *)
(* adapter that has come to its end has returned every record that was     *)
(* there all along.                                                        *)
(***************************************************************************)
THEOREM ReadsFindWrites == RoutesApart => (StoresSpec => []ReadsBack)
<1> SUFFICES ASSUME RoutesApart PROVE StoresSpec => []ReadsBack
  OBVIOUS
<1>1. StoresInit => Routed /\ Paged BY RoutedInit, PagedInit DEF StoresInit
<1>2. Routed /\ Paged /\ [StoresNext]_<<part, vars, routeVars, blobVars, bundleVars>> => Routed' /\ Paged'
  <2> SUFFICES ASSUME Routed, Paged, [StoresNext]_<<part, vars, routeVars, blobVars, bundleVars>>
               PROVE  Routed' /\ Paged'
    OBVIOUS
  <2>1. (Route!Next \/ UNCHANGED routeVars) /\ [Next]_vars BY DEF StoresNext
  <2> QED BY <2>1, RoutedStep, RoutedRests, PagedStep
<1>3. Routed /\ Paged => ReadsBack BY RoutedReads, PagedScans DEF ReadsBack
<1> QED BY <1>1, <1>2, <1>3, PTL DEF StoresSpec
=============================================================================
