-------------------------- MODULE VaultRefs_proofs --------------------------
(***************************************************************************)
(* Proofs about VaultRefs: for calls that follow one another, in a session *)
(* that has opened every collection, and for schemas whose cascading       *)
(* references do not form a cycle, no strict reference dangles and a       *)
(* delete that ends leaves nothing behind that refers to what it deleted,  *)
(* but for records whose last put or delete has not come to its end.       *)
(* And about VaultBackup, as MCVault instantiates it: every key has labels *)
(* and a load that reports success has restored what the dump has read,    *)
(* but for such records and for keys the application has deleted.          *)
(***************************************************************************)
EXTENDS MCVault, SequenceTheorems, TLAPS

(* The operators below take the declared references O and the data D as    *)
(* arguments, so that they say the same before and after a step.          *)
Asks(O, c, mode) == O[c] # None /\ O[c].mode = mode
Inbound(O, c)    == {d \in Coll : O[d] # None /\ O[d].to = c}

(* A measure of the collections that grows along the cascading references. *)
Climbs(O, h) == \A c \in Coll : Asks(O, c, "cascade") => h[c] < h[O[c].to]
Height(O)    == CHOOSE h \in [Coll -> Nat] : Climbs(O, h)

(* Calls follow one another, in a session that has opened every collection. *)
Sequential  == "overlap" \notin RefsAllowed /\ "unopened" \notin RefsAllowed
(* No schema has a cycle of cascading references. *)
CascadesEnd == \A O \in Schemas : \E h \in [Coll -> Nat] : Climbs(O, h)

Records   == {Absent} \cup {Record(r) : r \in Id \cup {None}}
FrameType == [c : Coll, i : Id, mine : BOOLEAN, rules : SUBSET Coll, from : Coll \cup {None},
              todo : SUBSET Id]
CallType  == [pc : {"idle", "check", "write", "cache", "delete", "gone"}, c : Coll \cup {None}, i : Id \cup {None},
              ref : Id \cup {None}, stack : Seq(FrameType)]

TypeOK ==
    /\ out \in Schemas /\ opened = Coll
    /\ data \in [Coll -> [Id -> Records]] /\ stored \in [Coll -> [Id -> Records]]
    /\ unfinished \subseteq Coll \X Id
    /\ inProgress \subseteq Coll \X Id
    /\ call \in [Caller -> CallType]
    /\ fails \in Nat /\ crashes \in Nat

(* The records of d that refer to i. *)
Refers(D, d, i) == {j \in Id : D[d][j] = Record(i)}

(* The stack of a cascade: every frame but the last is the rule of a       *)
(* cascading reference at work on the record of the next frame.            *)
Nested(O, s) ==
    /\ \A n \in 1..Len(s) : \A m \in 1..Len(s) : m < n => Height(O)[s[n].c] < Height(O)[s[m].c]
    /\ \A n \in 1..Len(s) : n < Len(s) => s[n].mine /\ s[n].from = s[n + 1].c

FrameOK(O, f) ==
    /\ ~f.mine => f.rules = {} /\ f.todo = {}
    /\ f.todo # {} => f.from \in Coll /\ Asks(O, f.from, "cascade") /\ O[f.from].to = f.c
    /\ f.rules \subseteq Inbound(O, f.c)

(* A rule that has been applied has left no strict reference, and no       *)
(* cascading one but those still to be deleted or just being deleted.      *)
Swept(O, s, n, D) ==
    \A d \in Inbound(O, s[n].c) \ s[n].rules :
        /\ O[d].mode = "strict" => Refers(D, d, s[n].i) = {}
        /\ O[d].mode = "cascade" =>
              \A j \in Refers(D, d, s[n].i) :
                  d = s[n].from /\ (j \in s[n].todo \/ (n < Len(s) /\ j = s[n + 1].i))

Sound(O, s, D) == Nested(O, s) /\ \A n \in 1..Len(s) : FrameOK(O, s[n]) /\ Swept(O, s, n, D)

(* What a call has found out: the target of a strict reference is in the   *)
(* cache; what it has written is in the store; and no rule is left for a   *)
(* record it has deleted.                                                  *)
Reached(k, S) ==
    /\ k.pc = "cache" => S[k.c][k.i] = Written(k)
    /\ k.pc = "gone" =>
          LET f == k.stack[Len(k.stack)]
          IN  S[f.c][f.i] = Absent /\ f.rules = {} /\ f.todo = {} /\ ~f.mine
CallOK(O, k, S, D) ==
    /\ k.stack = <<>> <=> k.pc \notin {"delete", "gone"}
    /\ k.pc \in {"check", "write", "cache"} => k.c \in Coll /\ k.i \in Id
    /\ k.pc \in {"write", "cache"} /\ Asks(O, k.c, "strict") /\ k.ref # None => D[O[k.c].to][k.ref] # Absent
    /\ Reached(k, S)
    /\ Sound(O, k.stack, D)

Alone(calls) == \A v, w \in Caller : calls[v].pc # "idle" /\ calls[w].pc # "idle" => v = w
(* What a stack holds marked in cascadeInProgress. *)
Marks(s) == {<<s[m].c, s[m].i>> : m \in {n \in 1..Len(s) : s[n].mine}}
Marked   == \A x \in inProgress : \E w \in Caller : x \in Marks(call[w].stack)

(* No strict reference dangles in the caches, but of a record or to one of U. *)
Strict(O, D, U) == \A c \in Coll, i \in Id, r \in Id \ {None} :
    Asks(O, c, "strict") /\ D[c][i] = Record(r) =>
        D[O[c].to][r] # Absent \/ <<c, i>> \in U \/ <<O[c].to, r>> \in U

(* Caches are behind the store for the records of U only. *)
Behind(S, D, U) == \A c \in Coll, i \in Id : D[c][i] = S[c][i] \/ <<c, i>> \in U

IInv ==
    /\ TypeOK
    /\ Alone(call)
    /\ Marked
    /\ \A w \in Caller : CallOK(out, call[w], stored, data)
    /\ Strict(out, data, unfinished)
    /\ Behind(stored, data, unfinished)

-----------------------------------------------------------------------------
LEMMA RecordFacts ==
    /\ \A r : Record(r) # Absent /\ Record(r)[1] = r
    /\ \A r, q : Record(r) = Record(q) => r = q
<1>1. \A r : Record(r) # Absent /\ Record(r)[1] = r
  BY DEF Record, Absent
<1> QED
  BY <1>1

LEMMA HeightFacts ==
    ASSUME CascadesEnd, NEW O \in Schemas
    PROVE  /\ Height(O) \in [Coll -> Nat]
           /\ \A c \in Coll : Asks(O, c, "cascade") => Height(O)[c] < Height(O)[O[c].to]
<1>1. \E h \in [Coll -> Nat] : Climbs(O, h)
  BY DEF CascadesEnd
<1>2. Height(O) \in [Coll -> Nat] /\ Climbs(O, Height(O))
  BY <1>1 DEF Height
<1> QED
  BY <1>2 DEF Climbs

LEMMA OutType ==
    ASSUME NEW O \in Schemas, NEW c \in Coll, O[c] # None
    PROVE  O[c].to \in Coll /\ O[c].mode \in Mode
  BY RefsAssumption

(* A stack without frames is sound. *)
LEMMA SoundEmpty == ASSUME NEW O, NEW D PROVE Sound(O, <<>>, D)
<1>1. Len(<<>>) = 0
  BY EmptySeq
<1>2. 1..0 = {}
  OBVIOUS
<1> QED
  BY <1>1, <1>2 DEF Sound, Nested

(* Frames and marks of a caller that is idle. *)
LEMMA NoMarks == Marks(<<>>) = {}
  BY EmptySeq DEF Marks

-----------------------------------------------------------------------------
(***************************************************************************)
(* What the steps of a cascade do to a stack.                             *)
(***************************************************************************)
(* The first frame of a delete. *)
LEMMA FirstFrame ==
    ASSUME NEW O, NEW D, NEW f \in FrameType, f.mine, f.rules = Inbound(O, f.c), f.todo = {}
    PROVE  LET t == Append(<<>>, f) IN
           t \in Seq(FrameType) /\ t # <<>> /\ Len(t) = 1 /\ t[1] = f /\ Sound(O, t, D)
<1> DEFINE t == Append(<<>>, f)
<1>1. t \in Seq(FrameType) /\ Len(t) = 1 /\ t[1] = f /\ t # <<>>
  OBVIOUS
<1> HIDE DEF t
<1>2. Nested(O, t)
  BY <1>1 DEF Nested
<1>3. \A n \in 1..Len(t) : FrameOK(O, t[n]) /\ Swept(O, t, n, D)
  BY <1>1 DEF FrameOK, Swept
<1> QED
  BY <1>1, <1>2, <1>3 DEF t, Sound

(* The last frame takes another rule, or loses its mark. *)
LEMMA TopChanged ==
    ASSUME NEW O, NEW D, NEW s \in Seq(FrameType), s # <<>>, Sound(O, s, D),
           NEW f \in FrameType, f.c = s[Len(s)].c, f.i = s[Len(s)].i, FrameOK(O, f),
           Swept(O, [s EXCEPT ![Len(s)] = f], Len(s), D)
    PROVE  LET t == [s EXCEPT ![Len(s)] = f] IN
           /\ t \in Seq(FrameType) /\ Len(t) = Len(s) /\ t # <<>> /\ Sound(O, t, D)
           /\ \A n \in 1..Len(s) : t[n] = IF n = Len(s) THEN f ELSE s[n]
<1> DEFINE t == [s EXCEPT ![Len(s)] = f]
<1>1. Len(s) \in Nat /\ Len(s) \in 1..Len(s)
  BY EmptySeq, LenProperties
<1>2. /\ t \in Seq(FrameType) /\ Len(t) = Len(s) /\ t # <<>>
      /\ \A n \in 1..Len(s) : t[n] = IF n = Len(s) THEN f ELSE s[n]
  BY <1>1, ExceptSeq
<1>3. Swept(O, t, Len(s), D)
  OBVIOUS
<1> HIDE DEF t
<1>4. \A n \in 1..Len(s) : t[n].c = s[n].c /\ t[n].i = s[n].i
  BY <1>2
<1>5. Nested(O, t)
  <2>1. \A n \in 1..Len(t) : \A m \in 1..Len(t) : m < n => Height(O)[t[n].c] < Height(O)[t[m].c]
    BY <1>2, <1>4 DEF Sound, Nested
  <2>2. ASSUME NEW n \in 1..Len(t), n < Len(t) PROVE t[n].mine /\ t[n].from = t[n + 1].c
    <3>1. t[n] = s[n] /\ n + 1 \in 1..Len(s)
      BY <1>1, <1>2, <2>2
    <3>2. s[n].mine /\ s[n].from = s[n + 1].c
      BY <1>2, <2>2 DEF Sound, Nested
    <3> QED
      BY <3>1, <3>2, <1>4
  <2> QED
    BY <2>1, <2>2 DEF Nested
<1>6. ASSUME NEW n \in 1..Len(t) PROVE FrameOK(O, t[n]) /\ Swept(O, t, n, D)
  <2>1. CASE n = Len(s)
    BY <2>1, <1>1, <1>2, <1>3
  <2>2. CASE n # Len(s)
    <3>1. t[n] = s[n] /\ n + 1 \in 1..Len(s) /\ t[n + 1].i = s[n + 1].i
      BY <1>1, <1>2, <1>4, <2>2
    <3>2. FrameOK(O, s[n]) /\ Swept(O, s, n, D)
      BY <1>2 DEF Sound
    <3> QED
      BY <3>1, <3>2, <1>2 DEF Swept
  <2> QED
    BY <2>1, <2>2
<1> QED
  BY <1>2, <1>5, <1>6 DEF Sound, t

(* A frame with a record less to delete, and with a rule less to apply. *)
Less(f, j) == [f EXCEPT !.todo = @ \ {j}]
AfterRule(f, d, T) == [f EXCEPT !.rules = @ \ {d}, !.from = d, !.todo = T]

LEMMA LessFacts ==
    ASSUME NEW f \in FrameType, NEW j
    PROVE  /\ Less(f, j) \in FrameType /\ Less(f, j).todo = f.todo \ {j}
           /\ Less(f, j).c = f.c /\ Less(f, j).i = f.i /\ Less(f, j).mine = f.mine
           /\ Less(f, j).rules = f.rules /\ Less(f, j).from = f.from
  BY DEF FrameType, Less

LEMMA AfterRuleFacts ==
    ASSUME NEW f \in FrameType, NEW d \in Coll, NEW T \in SUBSET Id
    PROVE  LET g == AfterRule(f, d, T) IN
           /\ g \in FrameType /\ g.c = f.c /\ g.i = f.i /\ g.mine = f.mine
           /\ g.rules = f.rules \ {d} /\ g.from = d /\ g.todo = T
<1> DEFINE g1 == [f EXCEPT !.rules = @ \ {d}]
           g2 == [g1 EXCEPT !.from = d]
<1>1. /\ g1 \in FrameType /\ g1.c = f.c /\ g1.i = f.i /\ g1.mine = f.mine
      /\ g1.rules = f.rules \ {d} /\ g1.from = f.from /\ g1.todo = f.todo
  BY DEF FrameType
<1>2. AfterRule(f, d, T) = [g2 EXCEPT !.todo = T]
  BY DEF AfterRule
<1> HIDE DEF g1
<1>3. /\ g2 \in FrameType /\ g2.c = f.c /\ g2.i = f.i /\ g2.mine = f.mine
      /\ g2.rules = f.rules \ {d} /\ g2.from = d /\ g2.todo = f.todo
  BY <1>1 DEF FrameType
<1> HIDE DEF g2
<1> QED
  BY <1>2, <1>3 DEF FrameType

PushOn(s, g, f) == Append([s EXCEPT ![Len(s)] = g], f)

(* A record that refers to the one of the last frame gets a frame. *)
LEMMA Pushed ==
    ASSUME CascadesEnd, NEW O \in Schemas, NEW D,
           NEW s \in Seq(FrameType), s # <<>>, Sound(O, s, D), NEW j \in s[Len(s)].todo,
           NEW f \in FrameType, f.c = s[Len(s)].from, f.i = j, f.mine,
           f.rules = Inbound(O, f.c), f.todo = {}
    PROVE  LET t == PushOn(s, Less(s[Len(s)], j), f) IN
           /\ t \in Seq(FrameType) /\ Len(t) = Len(s) + 1 /\ t # <<>> /\ Sound(O, t, D)
           /\ \A n \in 1..Len(s) : t[n].c = s[n].c /\ t[n].i = s[n].i /\ t[n].mine = s[n].mine
           /\ t[Len(t)] = f
<1> DEFINE top == s[Len(s)]
           less == Less(top, j)
           r == [s EXCEPT ![Len(s)] = less]
           t == Append(r, f)
<1>1. Len(s) \in Nat /\ Len(s) \in 1..Len(s)
  BY EmptySeq, LenProperties
<1>2. top \in FrameType
  BY <1>1, ElementOfSeq
<1>3. /\ less \in FrameType /\ less.c = top.c /\ less.i = top.i /\ less.mine = top.mine
      /\ less.rules = top.rules /\ less.from = top.from /\ less.todo = top.todo \ {j}
  BY <1>2, LessFacts
<1> HIDE DEF less
<1>4. /\ r \in Seq(FrameType) /\ Len(r) = Len(s)
      /\ \A n \in 1..Len(s) : r[n] = IF n = Len(s) THEN less ELSE s[n]
  BY <1>1, <1>3, ExceptSeq
<1> HIDE DEF r
<1>6. /\ t \in Seq(FrameType) /\ Len(t) = Len(s) + 1 /\ t # <<>> /\ t[Len(s) + 1] = f
      /\ \A n \in 1..Len(s) : t[n] = r[n]
  BY <1>1, <1>4
<1> HIDE DEF t
<1>7. \A n \in 1..Len(s) : t[n].c = s[n].c /\ t[n].i = s[n].i /\ t[n].mine = s[n].mine
  BY <1>3, <1>4, <1>6
<1>8. top.mine /\ top.from \in Coll /\ Asks(O, top.from, "cascade") /\ O[top.from].to = top.c
  BY <1>1, <1>2 DEF Sound, FrameOK, FrameType
<1>9. Height(O)[f.c] < Height(O)[top.c] /\ Height(O) \in [Coll -> Nat]
  BY <1>8, HeightFacts
<1>10. Nested(O, t)
  <2>1. ASSUME NEW n \in 1..Len(t), NEW m \in 1..Len(t), m < n
        PROVE  Height(O)[t[n].c] < Height(O)[t[m].c]
    <3>1. CASE n = Len(s) + 1
      <4>1. m \in 1..Len(s) /\ t[m].c = s[m].c /\ t[n].c = f.c
        BY <1>1, <1>6, <1>7, <2>1, <3>1
      <4>2. CASE m = Len(s)
        BY <4>1, <4>2, <1>9
      <4>3. CASE m # Len(s)
        <5>0. m \in 1..Len(s) /\ Len(s) \in 1..Len(s) /\ m < Len(s)
          BY <1>1, <4>1, <4>3
        <5>1. Height(O)[top.c] < Height(O)[s[m].c]
          BY <5>0 DEF Sound, Nested
        <5>2. s[m].c \in Coll /\ top.c \in Coll /\ f.c \in Coll
          <6>1. s[m] \in FrameType
            BY <4>1, ElementOfSeq
          <6> QED
            BY <6>1, <1>2 DEF FrameType
        <5> QED
          BY <4>1, <5>1, <5>2, <1>9
      <4> QED
        BY <4>2, <4>3
    <3>2. CASE n # Len(s) + 1
      <4>1. n \in 1..Len(s) /\ m \in 1..Len(s)
        BY <1>1, <1>6, <2>1, <3>2
      <4> QED
        BY <4>1, <1>7, <2>1 DEF Sound, Nested
    <3> QED
      BY <3>1, <3>2
  <2>2. ASSUME NEW n \in 1..Len(t), n < Len(t) PROVE t[n].mine /\ t[n].from = t[n + 1].c
    <3>1. CASE n = Len(s)
      BY <1>1, <1>3, <1>4, <1>6, <1>8, <3>1
    <3>2. CASE n # Len(s)
      <4>1. n \in 1..Len(s) /\ n + 1 \in 1..Len(s) /\ n < Len(s)
        BY <1>1, <1>6, <2>2, <3>2
      <4> QED
        BY <4>1, <1>4, <1>6, <1>7, <3>2 DEF Sound, Nested
    <3> QED
      BY <3>1, <3>2
  <2> QED
    BY <2>1, <2>2 DEF Nested
<1>11. ASSUME NEW n \in 1..Len(t) PROVE FrameOK(O, t[n]) /\ Swept(O, t, n, D)
  <2>1. CASE n = Len(s) + 1
    BY <2>1, <1>6 DEF FrameOK, Swept
  <2>2. CASE n = Len(s)
    <3>1. t[n] = less /\ n < Len(t) /\ t[n + 1].i = j
      BY <2>2, <1>1, <1>4, <1>6
    <3>2. FrameOK(O, top) /\ Swept(O, s, n, D)
      BY <2>2, <1>1 DEF Sound
    <3>3. FrameOK(O, less)
      BY <3>2, <1>3, <1>8 DEF FrameOK
    <3>4. Swept(O, t, n, D)
      BY <3>1, <3>2, <1>3, <2>2 DEF Swept
    <3> QED
      BY <3>1, <3>3, <3>4
  <2>3. CASE n \in 1..Len(s) /\ n # Len(s)
    <3>1. t[n] = s[n] /\ n + 1 \in 1..Len(s) /\ t[n + 1].i = s[n + 1].i /\ n < Len(s) /\ n < Len(t)
      BY <1>1, <1>4, <1>6, <1>7, <2>3
    <3>2. FrameOK(O, s[n]) /\ Swept(O, s, n, D)
      BY <2>3 DEF Sound
    <3> QED
      BY <3>1, <3>2 DEF Swept
  <2> QED
    BY <2>1, <2>2, <2>3, <1>1, <1>6
<1> QED
  BY <1>6, <1>7, <1>10, <1>11 DEF Sound, t, r, less, PushOn

(* The same of a stack with one more frame, as one fact. *)
Grown(O, s, D, t, f) ==
    /\ t \in Seq(FrameType) /\ Len(t) = Len(s) + 1 /\ t # <<>> /\ Sound(O, t, D)
    /\ \A n \in 1..Len(s) : t[n].c = s[n].c /\ t[n].i = s[n].i /\ t[n].mine = s[n].mine
    /\ t[Len(t)] = f
LEMMA PushedFrame ==
    ASSUME CascadesEnd, NEW O \in Schemas, NEW D,
           NEW s \in Seq(FrameType), s # <<>>, Sound(O, s, D), NEW j \in s[Len(s)].todo,
           NEW f \in FrameType, f.c = s[Len(s)].from, f.i = j, f.mine,
           f.rules = Inbound(O, f.c), f.todo = {}
    PROVE  Grown(O, s, D, PushOn(s, Less(s[Len(s)], j), f), f)
BY Pushed DEF Grown

(* The record of the last frame is deleted, and the frame goes. *)
LEMMA Popped ==
    ASSUME NEW O \in Schemas, NEW D \in [Coll -> [Id -> Records]],
           NEW s \in Seq(FrameType), Len(s) > 1, Sound(O, s, D)
    PROVE  LET top == s[Len(s)]
               t   == SubSeq(s, 1, Len(s) - 1) IN
           /\ t \in Seq(FrameType) /\ t # <<>> /\ Len(t) = Len(s) - 1
           /\ \A n \in 1..Len(t) : t[n] = s[n]
           /\ Sound(O, t, [D EXCEPT ![top.c][top.i] = Absent])
<1> DEFINE top == s[Len(s)]
           t   == SubSeq(s, 1, Len(s) - 1)
           E   == [D EXCEPT ![top.c][top.i] = Absent]
<1>1. Len(s) \in Nat /\ Len(s) \in 1..Len(s)
  BY LenProperties
<1>2. top \in FrameType
  BY <1>1, ElementOfSeq
<1>3. \A n \in 1..(Len(s) - 1) : s[n] \in FrameType
  BY <1>1, ElementOfSeq
<1>4. /\ t \in Seq(FrameType) /\ Len(t) = Len(s) - 1
      /\ \A n \in 1..Len(t) : t[n] = s[n]
  BY <1>1, <1>3, SubSeqProperties
<1> HIDE DEF t
<1>5. t # <<>>
  BY <1>1, <1>4, EmptySeq
<1>a. \A d \in Coll, j \in Id : E[d][j] = IF d = top.c /\ j = top.i THEN Absent ELSE D[d][j]
  BY <1>2 DEF FrameType
<1> HIDE DEF E
<1>6. \A d \in Coll, i \in Id : Refers(E, d, i) \subseteq Refers(D, d, i)
  BY <1>a, RecordFacts DEF Refers
<1>7. \A i \in Id : top.i \notin Refers(E, top.c, i)
  BY <1>2, <1>a, RecordFacts DEF Refers, FrameType
<1>8. Nested(O, t)
  <2>1. \A n \in 1..Len(t) : n \in 1..Len(s) /\ (n < Len(t) => n < Len(s) /\ n + 1 \in 1..Len(t))
    BY <1>1, <1>4
  <2>2. \A n \in 1..Len(t) : \A m \in 1..Len(t) : m < n => Height(O)[t[n].c] < Height(O)[t[m].c]
    BY <2>1, <1>4 DEF Sound, Nested
  <2>3. \A n \in 1..Len(t) : n < Len(t) => t[n].mine /\ t[n].from = t[n + 1].c
    BY <2>1, <1>4 DEF Sound, Nested
  <2> QED
    BY <2>2, <2>3 DEF Nested
<1>9. ASSUME NEW n \in 1..Len(t) PROVE FrameOK(O, t[n]) /\ Swept(O, t, n, E)
  <2>1. n \in 1..Len(s) /\ n < Len(s) /\ t[n] = s[n] /\ t[n] \in FrameType
    BY <1>1, <1>3, <1>4
  <2>2. FrameOK(O, s[n]) /\ Swept(O, s, n, D)
    BY <2>1 DEF Sound
  <2>3. ASSUME NEW d \in Inbound(O, t[n].c) \ t[n].rules, O[d].mode = "cascade",
               NEW k \in Refers(E, d, t[n].i)
        PROVE  d = t[n].from /\ (k \in t[n].todo \/ (n < Len(t) /\ k = t[n + 1].i))
    <3>0. d \in Coll
      BY <2>3 DEF Inbound
    <3>1. d = s[n].from /\ (k \in s[n].todo \/ k = s[n + 1].i)
      BY <2>1, <2>2, <2>3, <1>6, <3>0 DEF Swept, FrameType
    <3>2. CASE n = Len(t)
      <4>1. n + 1 = Len(s) /\ d = top.c
        BY <1>1, <1>4, <2>1, <3>1, <3>2 DEF Sound, Nested
      <4>2. k # top.i
        BY <4>1, <2>1, <2>3, <1>7 DEF FrameType
      <4> QED
        BY <3>1, <4>1, <4>2, <2>1
    <3>3. CASE n # Len(t)
      <4>1. n < Len(t) /\ n + 1 \in 1..Len(t)
        BY <1>1, <1>4, <3>3
      <4> QED
        BY <3>1, <4>1, <2>1, <1>4
    <3> QED
      BY <3>2, <3>3
  <2>4. ASSUME NEW d \in Inbound(O, t[n].c) \ t[n].rules, O[d].mode = "strict"
        PROVE  Refers(E, d, t[n].i) = {}
    <3>0. d \in Coll
      BY <2>4 DEF Inbound
    <3> QED
      BY <2>1, <2>2, <2>4, <1>6, <3>0 DEF Swept, FrameType
  <2>5. Swept(O, t, n, E)
    BY <2>3, <2>4 DEF Swept
  <2> QED
    BY <2>1, <2>2, <2>5
<1> QED
  BY <1>4, <1>5, <1>8, <1>9 DEF Sound, t, E

-----------------------------------------------------------------------------
(***************************************************************************)
(* The callers around a step.                                              *)
(***************************************************************************)
LEMMA Same ==
    ASSUME opened = Coll
    PROVE  /\ \A c, m : Declares(c, m) = Asks(out, c, m)
           /\ \A c : getInbound(c) = Inbound(out, c)
           /\ \A d, i : Referring(d, i) = Refers(data, d, i)
  BY DEF Declares, Asks, getInbound, Inbound, Referring, Refers

LEMMA HeldIsMarked == \A w : Held(w) = Marks(call[w].stack)
  BY DEF Held, Marks, Depth

(* While one caller is at work the others are idle, and what is marked is  *)
(* marked for its stack.                                                   *)
LEMMA Working ==
    ASSUME IInv, NEW w \in Caller, call[w].pc # "idle"
    PROVE  /\ \A v \in Caller \ {w} : call[v].pc = "idle" /\ call[v].stack = <<>>
           /\ inProgress \subseteq Marks(call[w].stack)
<1>1. \A v \in Caller \ {w} : call[v].pc = "idle"
  BY DEF IInv, Alone
<1>2. \A v \in Caller \ {w} : call[v].stack = <<>>
  BY <1>1 DEF IInv, CallOK
<1>3. \A v \in Caller \ {w} : Marks(call[v].stack) = {}
  BY <1>2, NoMarks
<1> QED
  BY <1>1, <1>2, <1>3 DEF IInv, Marked

LEMMA AllIdle ==
    ASSUME IInv, \A w \in Caller : call[w].pc = "idle"
    PROVE  inProgress = {} /\ \A w \in Caller : call[w].stack = <<>>
<1>1. \A w \in Caller : call[w].stack = <<>>
  BY DEF IInv, CallOK
<1>2. \A w \in Caller : Marks(call[w].stack) = {}
  BY <1>1, NoMarks
<1> QED
  BY <1>1, <1>2 DEF IInv, Marked

LEMMA Starting ==
    ASSUME Sequential, IInv, NEW w \in Caller, Starts(w)
    PROVE  inProgress = {} /\ \A v \in Caller : call[v].pc = "idle" /\ call[v].stack = <<>>
  BY AllIdle DEF Starts, Quiet, Sequential

LEMMA IdleOK ==
    /\ Idle \in CallType /\ Idle.pc = "idle" /\ Idle.stack = <<>>
    /\ \A O, S, D : CallOK(O, Idle, S, D)
<1>1. Idle \in CallType /\ Idle.pc = "idle" /\ Idle.stack = <<>>
  BY EmptySeq DEF Idle, CallType
<1> QED
  BY <1>1, SoundEmpty DEF CallOK, Reached

(* What is stored, cached and unfinished, and what is to be shown of it. *)
Held3(S, D, U) ==
    /\ S \in [Coll -> [Id -> Records]] /\ D \in [Coll -> [Id -> Records]] /\ U \subseteq Coll \X Id
    /\ Strict(out, D, U) /\ Behind(S, D, U)

LEMMA ContentsHeld == ASSUME IInv PROVE Held3(stored, data, unfinished)
  BY DEF IInv, TypeOK, Held3

(* What is left to show of a step of one caller. *)
LEMMA OneCaller ==
    ASSUME IInv, NEW w \in Caller, NEW k \in CallType, call' = [call EXCEPT ![w] = k],
           \A v \in Caller \ {w} : call[v].pc = "idle" /\ call[v].stack = <<>>,
           out' = out, opened' = opened, fails' \in Nat, crashes' \in Nat,
           NEW S, NEW D, NEW U, S = stored', D = data', U = unfinished', Held3(S, D, U),
           inProgress' \subseteq Coll \X Id, inProgress' \subseteq Marks(k.stack),
           CallOK(out, k, S, D)
    PROVE  IInv'
<1>1. call' \in [Caller -> CallType] /\ call'[w] = k /\ \A v \in Caller \ {w} : call'[v] = call[v]
  BY DEF IInv, TypeOK
<1>2. TypeOK'
  BY <1>1 DEF IInv, TypeOK, Held3
<1>3. Alone(call')
  BY <1>1 DEF Alone
<1>4. Marked'
  BY <1>1 DEF Marked
<1>5. ASSUME NEW v \in Caller PROVE CallOK(out', call'[v], stored', data')
  <2>1. CASE v = w
    BY <2>1, <1>1
  <2>2. CASE v # w
    <3>1. call'[v].stack = <<>> /\ call'[v].pc = "idle"
      BY <1>1, <2>2
    <3> QED
      BY <3>1, SoundEmpty DEF CallOK, Reached
  <2> QED
    BY <2>1, <2>2
<1>6. Strict(out', data', unfinished') /\ Behind(stored', data', unfinished')
  BY DEF Held3
<1> QED
  BY <1>2, <1>3, <1>4, <1>5, <1>6 DEF IInv

(* The same of a step that leaves the contents alone. *)
LEMMA OneCallerKeeps ==
    ASSUME IInv, NEW w \in Caller, NEW k \in CallType, call' = [call EXCEPT ![w] = k],
           \A v \in Caller \ {w} : call[v].pc = "idle" /\ call[v].stack = <<>>,
           out' = out, opened' = opened, fails' \in Nat, crashes' \in Nat, UNCHANGED contents,
           inProgress' \subseteq Coll \X Id, inProgress' \subseteq Marks(k.stack),
           CallOK(out, k, stored, data)
    PROVE  IInv'
<1>1. stored = stored' /\ data = data' /\ unfinished = unfinished'
  BY DEF contents
<1> QED
  BY <1>1, ContentsHeld, OneCaller

(* A caller that goes back to idle, with no mark left. *)
LEMMA EndsIdle ==
    ASSUME IInv, NEW w \in Caller, call' = [call EXCEPT ![w] = Idle],
           \A v \in Caller \ {w} : call[v].pc = "idle" /\ call[v].stack = <<>>,
           out' = out, opened' = opened, fails' \in Nat, crashes' \in Nat,
           NEW S, NEW D, NEW U, S = stored', D = data', U = unfinished', Held3(S, D, U), inProgress' = {}
    PROVE  IInv'
  BY IdleOK, OneCaller

-----------------------------------------------------------------------------
(***************************************************************************)
(* put.                                                                    *)
(***************************************************************************)
LEMMA StepBeginPut ==
    ASSUME Sequential, IInv, NEW w \in Caller, NEW c \in Coll, NEW i \in Id,
           NEW ref \in Id \cup {None}, BeginPut(w, c, i, ref)
    PROVE  IInv'
<1> DEFINE k == [Idle EXCEPT !.pc = "check", !.c = c, !.i = i, !.ref = ref]
<1>1. inProgress = {} /\ \A v \in Caller : call[v].pc = "idle" /\ call[v].stack = <<>>
  BY Starting DEF BeginPut
<1>2. k \in CallType /\ k.pc = "check" /\ k.c = c /\ k.i = i /\ k.stack = <<>>
  BY EmptySeq DEF CallType, Idle
<1>3. call' = [call EXCEPT ![w] = k]
  BY DEF BeginPut
<1> HIDE DEF k
<1>4. CallOK(out, k, stored, data)
  BY <1>2, SoundEmpty DEF CallOK, Reached
<1>5. /\ out' = out /\ opened' = opened /\ fails' = fails /\ crashes' = crashes /\ UNCHANGED contents
      /\ inProgress' = {}
  BY <1>1 DEF BeginPut
<1> QED
  BY <1>1, <1>2, <1>3, <1>4, <1>5, OneCallerKeeps DEF IInv, TypeOK

LEMMA StepEnforce ==
    ASSUME IInv, NEW w \in Caller, enforceRefsOnPut(w)
    PROVE  IInv'
<1> PICK k \in CallType : k = call[w]
  BY DEF IInv, TypeOK
<1> DEFINE q == [k EXCEPT !.pc = "write"]
<1>1. k.pc = "check" /\ k.stack = <<>> /\ k.c \in Coll /\ k.i \in Id
  BY DEF enforceRefsOnPut, IInv, CallOK
<1>2. /\ inProgress = {}
      /\ \A v \in Caller \ {w} : call[v].pc = "idle" /\ call[v].stack = <<>>
  BY <1>1, Working, NoMarks
<1>3. /\ out' = out /\ opened' = opened /\ fails' = fails /\ crashes' = crashes /\ UNCHANGED contents
      /\ inProgress' = {}
  BY <1>2 DEF enforceRefsOnPut
<1>4. /\ q \in CallType /\ q.pc = "write" /\ q.c = k.c /\ q.i = k.i /\ q.ref = k.ref
      /\ q.stack = k.stack
  BY DEF CallType
<1>5. \/ call' = [call EXCEPT ![w] = Idle]
      \/ /\ call' = [call EXCEPT ![w] = q]
         /\ ~(NeedsCheck(k) /\ ~Exists(out[k.c].to, k.ref))
  BY DEF enforceRefsOnPut
<1> HIDE DEF q
<1>6. CASE call' = [call EXCEPT ![w] = Idle]
  <2>1. stored = stored' /\ data = data' /\ unfinished = unfinished'
    BY <1>3 DEF contents
  <2> QED
    BY <1>2, <1>3, <1>6, <2>1, ContentsHeld, EndsIdle DEF IInv, TypeOK
<1>7. CASE /\ call' = [call EXCEPT ![w] = q]
           /\ ~(NeedsCheck(k) /\ ~Exists(out[k.c].to, k.ref))
  <2>1. CallOK(out, q, stored, data)
    BY <1>1, <1>4, <1>7, SoundEmpty DEF CallOK, Reached, NeedsCheck, Exists, Declares, Asks
  <2> QED
    BY <1>2, <1>3, <1>4, <1>7, <2>1, OneCallerKeeps DEF IInv, TypeOK
<1> QED
  BY <1>5, <1>6, <1>7

(* A write of the store excuses the record until the cache follows. *)
LEMMA MoreUnfinished ==
    ASSUME IInv, NEW c \in Coll, NEW i \in Id, NEW r \in Records
    PROVE  Held3([stored EXCEPT ![c][i] = r], data, unfinished \cup {<<c, i>>})
<1> DEFINE S == [stored EXCEPT ![c][i] = r]
           U == unfinished \cup {<<c, i>>}
<1>1. stored \in [Coll -> [Id -> Records]] /\ data \in [Coll -> [Id -> Records]] /\ unfinished \subseteq Coll \X Id
  BY DEF IInv, TypeOK
<1>2. /\ S \in [Coll -> [Id -> Records]]
      /\ \A d \in Coll, j \in Id : S[d][j] = IF d = c /\ j = i THEN r ELSE stored[d][j]
  BY <1>1
<1>3. unfinished \subseteq U /\ <<c, i>> \in U /\ U \subseteq Coll \X Id
  BY <1>1
<1> HIDE DEF S, U
<1>4. Behind(S, data, U)
  BY <1>2, <1>3 DEF IInv, Behind
<1>5. Strict(out, data, U)
  BY <1>3 DEF IInv, Strict
<1>6. Held3(S, data, U)
  BY <1>1, <1>2, <1>3, <1>4, <1>5 DEF Held3
<1> QED
  BY <1>6 DEF S, U

LEMMA StepWrite ==
    ASSUME IInv, NEW w \in Caller, WriteRecord(w)
    PROVE  IInv'
<1> PICK k \in CallType : k = call[w]
  BY DEF IInv, TypeOK
<1> DEFINE S == [stored EXCEPT ![k.c][k.i] = Record(k.ref)]
           U == unfinished \cup {<<k.c, k.i>>}
           q == [k EXCEPT !.pc = "cache"]
<1>1. k.pc = "write" /\ k.stack = <<>> /\ k.c \in Coll /\ k.i \in Id
  BY DEF WriteRecord, IInv, CallOK
<1>2. /\ inProgress = {}
      /\ \A v \in Caller \ {w} : call[v].pc = "idle" /\ call[v].stack = <<>>
  BY <1>1, Working, NoMarks
<1>3. /\ out' = out /\ opened' = opened /\ fails' = fails /\ crashes' = crashes
      /\ stored' = S /\ data' = data /\ unfinished' = U /\ inProgress' = {}
      /\ call' = [call EXCEPT ![w] = q]
  BY <1>2 DEF WriteRecord, Written
<1>4. Record(k.ref) \in Records
  BY DEF Records, CallType
<1>5. Held3(S, data, U)
  BY <1>1, <1>4, MoreUnfinished
<1>6. q \in CallType /\ q.pc = "cache" /\ q.c = k.c /\ q.i = k.i /\ q.ref = k.ref /\ q.stack = k.stack
  BY DEF CallType
<1>7. S[k.c][k.i] = Record(k.ref)
  BY <1>1 DEF IInv, TypeOK
<1>8. /\ Asks(out, k.c, "strict") /\ k.ref # None => data[out[k.c].to][k.ref] # Absent
      /\ Sound(out, k.stack, data)
  BY <1>1 DEF IInv, CallOK
<1> HIDE DEF S, U, q
<1>9. CallOK(out, q, S, data)
  BY <1>1, <1>6, <1>7, <1>8 DEF CallOK, Reached, Written
<1> QED
  BY <1>2, <1>3, <1>5, <1>6, <1>9, OneCaller DEF IInv, TypeOK

LEMMA StepCache ==
    ASSUME IInv, NEW w \in Caller, CacheRecord(w)
    PROVE  IInv'
<1> PICK k \in CallType : k = call[w]
  BY DEF IInv, TypeOK
<1> DEFINE r == k.ref
           E == [data EXCEPT ![k.c][k.i] = Record(r)]
           U == unfinished \ {<<k.c, k.i>>}
<1>1. k.pc = "cache" /\ k.stack = <<>> /\ k.c \in Coll /\ k.i \in Id
  BY DEF CacheRecord, IInv, CallOK
<1>2. /\ inProgress = {}
      /\ \A v \in Caller \ {w} : call[v].pc = "idle" /\ call[v].stack = <<>>
  BY <1>1, Working, NoMarks
<1>3. /\ out' = out /\ opened' = opened /\ fails' = fails /\ crashes' = crashes
      /\ stored' = stored /\ data' = E /\ unfinished' = U
      /\ inProgress' = {} /\ call' = [call EXCEPT ![w] = Idle]
  BY <1>2 DEF CacheRecord, Written
<1>4. /\ Record(r) \in Records /\ data \in [Coll -> [Id -> Records]] /\ unfinished \subseteq Coll \X Id
      /\ stored \in [Coll -> [Id -> Records]]
  BY DEF Records, CallType, IInv, TypeOK
<1>5. /\ E \in [Coll -> [Id -> Records]]
      /\ \A d \in Coll, j \in Id :
            E[d][j] = IF d = k.c /\ j = k.i THEN Record(r) ELSE data[d][j]
  BY <1>1, <1>4
<1>u. \A d, j : <<d, j>> \in unfinished => <<d, j>> \in U \/ (d = k.c /\ j = k.i)
  OBVIOUS
<1> HIDE DEF E, U
<1>6. \A d \in Coll, j \in Id : data[d][j] # Absent => E[d][j] # Absent
  BY <1>5, RecordFacts
<1>7. Strict(out, E, U)
  <2> SUFFICES ASSUME NEW c \in Coll, NEW i \in Id, NEW t \in Id \ {None},
                      Asks(out, c, "strict"),
                      E[c][i] = Record(t), <<out[c].to, t>> \notin U, <<c, i>> \notin U
               PROVE  E[out[c].to][t] # Absent
    BY DEF Strict
  <2>1. out[c] # None /\ out[c].to \in Coll
    BY OutType DEF Asks, IInv, TypeOK
  <2>2. CASE c = k.c /\ i = k.i
    <3>1. r = t /\ r = k.ref
      BY <1>5, <2>1, <2>2, RecordFacts
    <3>2. data[out[c].to][t] # Absent
      BY <2>2, <3>1, <1>1 DEF IInv, CallOK
    <3> QED
      BY <3>2, <2>1, <1>6
  <2>3. CASE out[c].to = k.c /\ t = k.i
    BY <2>3, <2>1, <1>5, RecordFacts
  <2>4. CASE ~(c = k.c /\ i = k.i) /\ ~(out[c].to = k.c /\ t = k.i)
    <3>1. data[c][i] = Record(t) /\ <<c, i>> \notin unfinished /\ <<out[c].to, t>> \notin unfinished
      BY <1>5, <1>u, <2>4
    <3>2. data[out[c].to][t] # Absent
      BY <3>1 DEF IInv, Strict
    <3> QED
      BY <3>2, <2>1, <1>6
  <2> QED
    BY <2>2, <2>3, <2>4
<1>8. Behind(stored, E, U)
  <2>1. stored[k.c][k.i] = Record(r)
    BY <1>1 DEF IInv, CallOK, Reached, Written
  <2>2. ASSUME NEW d \in Coll, NEW j \in Id, <<d, j>> \notin U PROVE E[d][j] = stored[d][j]
    <3>1. CASE d = k.c /\ j = k.i
      BY <2>1, <3>1, <1>1, <1>5
    <3>2. CASE ~(d = k.c /\ j = k.i)
      BY <3>2, <2>2, <1>5, <1>u DEF IInv, Behind
    <3> QED
      BY <3>1, <3>2
  <2> QED
    BY <2>2 DEF Behind
<1>9. U \subseteq Coll \X Id
  BY <1>4 DEF U
<1>10. Held3(stored, E, U)
  BY <1>4, <1>5, <1>7, <1>8, <1>9 DEF Held3
<1> QED
  BY <1>2, <1>3, <1>10, EndsIdle DEF IInv, TypeOK

-----------------------------------------------------------------------------
(***************************************************************************)
(* delete.                                                                 *)
(***************************************************************************)
LEMMA EnteredType ==
    ASSUME NEW t \in Seq(FrameType), NEW k, k = [Idle EXCEPT !.pc = "delete", !.stack = t]
    PROVE  k \in CallType /\ k.pc = "delete" /\ k.stack = t
  BY DEF CallType, Idle

LEMMA StepBeginDelete ==
    ASSUME Sequential, IInv, NEW w \in Caller, NEW c \in Coll, NEW i \in Id, BeginDelete(w, c, i)
    PROVE  IInv'
<1> DEFINE f == Frame(c, i)
           t == Append(<<>>, f)
           k == [Idle EXCEPT !.pc = "delete", !.stack = t]
<1>1. inProgress = {} /\ \A v \in Caller : call[v].pc = "idle" /\ call[v].stack = <<>>
  BY Starting DEF BeginDelete
<1>2. opened = Coll
  BY DEF IInv, TypeOK
<1>3. /\ f \in FrameType /\ f.c = c /\ f.i = i /\ f.mine /\ f.rules = Inbound(out, c)
      /\ f.todo = {}
  BY <1>1, <1>2, Same DEF Frame, FrameType, Inbound
<1>4. call' = [call EXCEPT ![w] = k] /\ inProgress' = {<<c, i>>}
  BY <1>1 DEF BeginDelete, Enter
<1> HIDE DEF f
<1>5. t \in Seq(FrameType) /\ t # <<>> /\ Len(t) = 1 /\ t[1] = f /\ Sound(out, t, data)
  BY <1>3, FirstFrame
<1> HIDE DEF t
<1>6. k \in CallType /\ k.pc = "delete" /\ k.stack = t
  BY <1>5, EnteredType
<1> HIDE DEF k
<1>7. CallOK(out, k, stored, data)
  BY <1>5, <1>6 DEF CallOK, Reached
<1>8. inProgress' \subseteq Marks(k.stack) /\ inProgress' \subseteq Coll \X Id
  BY <1>3, <1>4, <1>5, <1>6 DEF Marks
<1>9. /\ out' = out /\ opened' = opened /\ fails' = fails /\ crashes' = crashes /\ UNCHANGED contents
  BY DEF BeginDelete
<1> QED
  BY <1>1, <1>4, <1>6, <1>7, <1>8, <1>9, OneCallerKeeps DEF IInv, TypeOK

(* The call of a delete: its stack and the frame on top. *)
LEMMA TopFacts ==
    ASSUME IInv, NEW w \in Caller, Deleting(w) \/ Gone(w)
    PROVE  /\ call[w].stack \in Seq(FrameType) /\ call[w].stack # <<>>
           /\ Depth(w) = Len(call[w].stack) /\ Depth(w) \in Nat /\ Depth(w) \in 1..Depth(w)
           /\ Top(w) = call[w].stack[Depth(w)] /\ Top(w) \in FrameType
           /\ Sound(out, call[w].stack, data)
           /\ FrameOK(out, Top(w)) /\ Swept(out, call[w].stack, Depth(w), data)
           /\ inProgress \subseteq Marks(call[w].stack)
           /\ \A v \in Caller \ {w} : call[v].pc = "idle" /\ call[v].stack = <<>>
           /\ call[w] \in CallType
<1>1. call[w].stack \in Seq(FrameType) /\ call[w].stack # <<>> /\ call[w] \in CallType
  BY DEF Deleting, Gone, IInv, CallOK, TypeOK, CallType
<1>2. /\ Depth(w) = Len(call[w].stack) /\ Depth(w) \in Nat /\ Depth(w) \in 1..Depth(w)
      /\ Top(w) = call[w].stack[Depth(w)]
  BY <1>1, EmptySeq, LenProperties DEF Depth, Top
<1>3. Top(w) \in FrameType
  BY <1>1, <1>2, ElementOfSeq
<1>4. Sound(out, call[w].stack, data)
  BY DEF IInv, CallOK
<1>5. FrameOK(out, Top(w)) /\ Swept(out, call[w].stack, Depth(w), data)
  BY <1>2, <1>4 DEF Sound
<1> QED
  BY <1>1, <1>2, <1>3, <1>4, <1>5, Working DEF Deleting, Gone

LEMMA UnwindIdle ==
    ASSUME IInv, NEW w \in Caller, call[w].pc # "idle", Unwind(w),
           NEW S, NEW D, NEW U, S = stored', D = data', U = unfinished', Held3(S, D, U),
           out' = out, opened' = opened, fails' \in Nat, crashes' \in Nat
    PROVE  IInv'
<1>1. inProgress' = {}
  BY Working, HeldIsMarked DEF Unwind
<1> QED
  BY <1>1, Working, EndsIdle DEF Unwind, IInv, TypeOK

(* A step that replaces the frame on top, and what it leaves to show. *)
LEMMA TopStep ==
    ASSUME IInv, NEW w \in Caller, Deleting(w), NEW f \in FrameType,
           f.c = Top(w).c, f.i = Top(w).i, FrameOK(out, f),
           Swept(out, [call[w].stack EXCEPT ![Depth(w)] = f], Depth(w), data),
           call' = WithTop(w, f),
           out' = out, opened' = opened, fails' = fails, crashes' = crashes, UNCHANGED contents,
           inProgress' \subseteq inProgress,
           f.mine \/ <<f.c, f.i>> \notin inProgress'
    PROVE  IInv'
<1> PICK q \in CallType : q = call[w]
  BY TopFacts
<1> PICK s \in Seq(FrameType) : s = q.stack
  BY TopFacts
<1> DEFINE t == [s EXCEPT ![Len(s)] = f]
           k == [q EXCEPT !.stack = t]
<1>1. /\ t \in Seq(FrameType) /\ Len(t) = Len(s) /\ t # <<>> /\ Sound(out, t, data)
      /\ \A n \in 1..Len(s) : t[n] = IF n = Len(s) THEN f ELSE s[n]
  BY SMTT(20), TopFacts, TopChanged
<1>2. call' = [call EXCEPT ![w] = k]
  BY DEF WithTop, Depth
<1> HIDE DEF t
<1>3. k \in CallType /\ k.pc = q.pc /\ k.stack = t
  BY <1>1 DEF CallType
<1> HIDE DEF k
<1>4. CallOK(out, k, stored, data)
  BY <1>1, <1>3 DEF CallOK, Reached, Deleting
<1>5. inProgress' \subseteq Marks(t)
  <2> SUFFICES ASSUME NEW x \in inProgress' PROVE x \in Marks(t)
    OBVIOUS
  <2>1. PICK m \in 1..Len(s) : s[m].mine /\ x = <<s[m].c, s[m].i>>
    BY TopFacts DEF Marks
  <2>2. CASE m = Len(s)
    <3>1. t[m] = f /\ x = <<f.c, f.i>>
      BY <2>1, <2>2, <1>1, TopFacts
    <3> QED
      BY <3>1, <1>1 DEF Marks
  <2>3. CASE m # Len(s)
    BY <2>1, <2>3, <1>1 DEF Marks
  <2> QED
    BY <2>2, <2>3
<1> QED
  BY <1>2, <1>3, <1>4, <1>5, TopFacts, OneCallerKeeps DEF IInv, TypeOK

LEMMA StepApplyRule ==
    ASSUME IInv, NEW w \in Caller, NEW d \in Coll, ApplyRule(w, d)
    PROVE  IInv'
<1> PICK f \in FrameType : f = Top(w)
  BY TopFacts DEF ApplyRule
<1> DEFINE hits == Refers(data, d, f.i)
           T == IF out[d].mode = "cascade" THEN hits ELSE {}
           g == AfterRule(f, d, T)
           t == [call[w].stack EXCEPT ![Depth(w)] = g]
<1>1. /\ Deleting(w) /\ f.todo = {} /\ d \in f.rules
      /\ out' = out /\ opened' = opened /\ fails' = fails /\ crashes' = crashes /\ UNCHANGED contents
  BY DEF ApplyRule
<1>2. \A c, i : Referring(c, i) = Refers(data, c, i)
  BY Same DEF IInv, TypeOK
<1>3. \/ hits # {} /\ out[d].mode = "strict" /\ Unwind(w)
      \/ /\ ~(hits # {} /\ out[d].mode = "strict")
         /\ call' = WithTop(w, g) /\ inProgress' = inProgress
  BY <1>2 DEF ApplyRule, Matches, AfterRule
<1>4. hits \subseteq Id
  BY DEF Refers
<1>5. CASE Unwind(w)
  <2>1. stored = stored' /\ data = data' /\ unfinished = unfinished'
    BY <1>1 DEF contents
  <2> QED
    BY <1>1, <1>5, <2>1, ContentsHeld, UnwindIdle DEF Deleting, IInv, TypeOK
<1>6. CASE /\ ~(hits # {} /\ out[d].mode = "strict")
           /\ call' = WithTop(w, g) /\ inProgress' = inProgress
  <2>1. /\ g \in FrameType /\ g.c = f.c /\ g.i = f.i /\ g.mine = f.mine
        /\ g.rules = f.rules \ {d} /\ g.from = d /\ g.todo = T
    <3>1. T \in SUBSET Id
      BY <1>4
    <3> HIDE DEF T
    <3> QED
      BY <3>1, AfterRuleFacts
  <2> HIDE DEF g
  <2>2. FrameOK(out, f) /\ Swept(out, call[w].stack, Depth(w), data)
    BY <1>1, TopFacts
  <2>3. f.mine /\ d \in Inbound(out, f.c)
    BY <1>1, <2>2 DEF FrameOK
  <2>4. FrameOK(out, g)
    BY <2>1, <2>2, <2>3 DEF FrameOK, Inbound, Asks
  <2>5. t[Depth(w)] = g
    BY <2>1, <1>1, TopFacts
  <2>6. Swept(out, t, Depth(w), data)
    <3> HIDE DEF t
    <3> SUFFICES ASSUME NEW e \in Inbound(out, g.c) \ g.rules
                 PROVE  /\ out[e].mode = "strict" => Refers(data, e, g.i) = {}
                        /\ out[e].mode = "cascade" =>
                              \A j \in Refers(data, e, g.i) : e = g.from /\ j \in g.todo
      BY <2>5 DEF Swept
    <3>1. CASE e = d
      BY <3>1, <1>6, <2>1
    <3>2. CASE e # d
      <4>1. e \in Inbound(out, f.c) \ f.rules
        BY <3>2, <2>1
      <4>2. call[w].stack[Depth(w)] = f /\ Len(call[w].stack) = Depth(w) /\ Depth(w) \in Nat
        BY <1>1, TopFacts
      <4> QED
        BY <4>1, <4>2, <2>1, <2>2, <1>1 DEF Swept
    <3> QED
      BY <3>1, <3>2
  <2> QED
    BY <1>1, <1>6, <2>1, <2>3, <2>4, <2>6, TopStep
<1> QED
  BY <1>3, <1>5, <1>6

LEMMA StepEndRules ==
    ASSUME IInv, NEW w \in Caller, EndRules(w)
    PROVE  IInv'
<1> PICK f \in FrameType : f = Top(w)
  BY TopFacts DEF EndRules
<1> DEFINE g == [f EXCEPT !.mine = FALSE]
           t == [call[w].stack EXCEPT ![Depth(w)] = g]
<1>1. /\ Deleting(w) /\ f.todo = {} /\ f.rules = {} /\ f.mine
      /\ out' = out /\ opened' = opened /\ fails' = fails /\ crashes' = crashes /\ UNCHANGED contents
      /\ inProgress' = inProgress \ {<<f.c, f.i>>} /\ call' = WithTop(w, g)
  BY DEF EndRules
<1>2. /\ g \in FrameType /\ g.c = f.c /\ g.i = f.i /\ g.mine = FALSE
      /\ g.rules = f.rules /\ g.from = f.from /\ g.todo = f.todo
  BY DEF FrameType
<1> HIDE DEF g
<1>3. FrameOK(out, f) /\ Swept(out, call[w].stack, Depth(w), data)
  BY <1>1, TopFacts
<1>4. FrameOK(out, g)
  BY <1>1, <1>2, <1>3 DEF FrameOK
<1>5. /\ call[w].stack[Depth(w)] = f /\ Len(call[w].stack) = Depth(w) /\ Depth(w) \in Nat
      /\ t[Depth(w)] = g
  BY <1>1, <1>2, TopFacts
<1>6. Swept(out, t, Depth(w), data)
  <2>1. \A e \in Inbound(out, f.c) :
           /\ out[e].mode = "strict" => Refers(data, e, f.i) = {}
           /\ out[e].mode = "cascade" => Refers(data, e, f.i) = {}
    BY <1>1, <1>3, <1>5 DEF Swept
  <2> HIDE DEF t
  <2> QED
    BY <2>1, <1>2, <1>5 DEF Swept
<1> QED
  BY <1>1, <1>2, <1>4, <1>6, TopStep

(* The frame of a record that is not in progress. *)
LEMMA FrameGives ==
    ASSUME NEW c \in Coll, NEW j \in Id, <<c, j>> \notin inProgress, opened = Coll
    PROVE  /\ Frame(c, j) \in FrameType /\ Frame(c, j).c = c /\ Frame(c, j).i = j /\ Frame(c, j).mine
           /\ Frame(c, j).rules = Inbound(out, c) /\ Frame(c, j).todo = {}
<1>1. getInbound(c) = Inbound(out, c) BY DEF getInbound, Inbound
<1>2. PICK rules : rules = Inbound(out, c) OBVIOUS
<1>3. rules \in SUBSET Coll BY <1>2 DEF Inbound
<1>4. Frame(c, j) = [c |-> c, i |-> j, mine |-> TRUE, rules |-> rules, from |-> None, todo |-> {}]
  BY <1>1, <1>2 DEF Frame
<1>5. Frame(c, j) \in FrameType BY <1>3, <1>4 DEF FrameType
<1> QED BY <1>2, <1>4, <1>5

LEMMA StepCascade ==
    ASSUME CascadesEnd, IInv, NEW w \in Caller, NEW j \in Id, Cascade(w, j)
    PROVE  IInv'
<1> PICK s \in Seq(FrameType) : s = call[w].stack
  BY TopFacts DEF Cascade
<1> PICK top \in FrameType : top = Top(w)
  BY TopFacts DEF Cascade
<1> DEFINE f == Frame(top.from, j)
           t == PushOn(s, Less(top, j), f)
           k == [Idle EXCEPT !.pc = "delete", !.stack = t]
<1>1. /\ Deleting(w) /\ j \in top.todo
      /\ out' = out /\ opened' = opened /\ fails' = fails /\ crashes' = crashes /\ UNCHANGED contents
      /\ inProgress' = inProgress \cup {<<top.from, j>>}
      /\ call' = [call EXCEPT ![w] = k]
  BY DEF Cascade, Enter, Depth, PushOn, Less
<1>2. /\ s # <<>> /\ Len(s) \in Nat /\ Len(s) \in 1..Len(s) /\ top = s[Len(s)]
      /\ Sound(out, s, data) /\ FrameOK(out, top) /\ inProgress \subseteq Marks(s)
      /\ out \in Schemas /\ opened = Coll
  BY <1>1, TopFacts DEF IInv, TypeOK
<1>3. top.from \in Coll /\ Asks(out, top.from, "cascade") /\ out[top.from].to = top.c
  BY <1>1, <1>2 DEF FrameOK
<1>4. Height(out)[top.from] < Height(out)[top.c] /\ Height(out) \in [Coll -> Nat]
  BY <1>2, <1>3, HeightFacts
<1>5. <<top.from, j>> \notin inProgress
  <2> SUFFICES ASSUME NEW m \in 1..Len(s), s[m].c = top.from PROVE FALSE
    BY <1>2 DEF Marks
  <2>1. Height(out)[s[m].c] < Height(out)[top.c]
    BY <1>4
  <2>2. CASE m = Len(s)
    <3>1. s[m].c = top.c
      BY <2>2, <1>2
    <3>2. top.c \in Coll
      BY DEF FrameType
    <3>3. Height(out)[top.c] < Height(out)[top.c] /\ Height(out)[top.c] \in Nat
      BY <2>1, <3>1, <3>2, <1>4
    <3> QED
      BY <3>3
  <2>3. CASE m # Len(s)
    <3>1. m < Len(s)
      BY <2>3, <1>2
    <3>2. Height(out)[top.c] < Height(out)[s[m].c]
      BY <3>1, <1>2 DEF Sound, Nested
    <3>3. top.c \in Coll
      BY DEF FrameType
    <3> QED
      BY <2>1, <3>2, <3>3, <1>3, <1>4
  <2> QED
    BY <2>2, <2>3
<1>6. /\ f \in FrameType /\ f.c = top.from /\ f.i = j /\ f.mine /\ f.rules = Inbound(out, f.c)
      /\ f.todo = {}
  <2>1. opened = Coll BY <1>2
  <2>2. PICK d \in Coll : d = top.from BY <1>3
  <2>3. <<d, j>> \notin inProgress BY <1>5, <2>2
  <2>4. /\ Frame(d, j) \in FrameType /\ Frame(d, j).c = d /\ Frame(d, j).i = j /\ Frame(d, j).mine
        /\ Frame(d, j).rules = Inbound(out, d) /\ Frame(d, j).todo = {}
    BY <2>1, <2>3, FrameGives
  <2>5. f = Frame(d, j) BY <2>2
  <2> HIDE DEF f
  <2> QED BY <2>2, <2>4, <2>5
<1> HIDE DEF f
<1>8. /\ t \in Seq(FrameType) /\ Len(t) = Len(s) + 1 /\ t # <<>> /\ Sound(out, t, data)
      /\ \A n \in 1..Len(s) : t[n].c = s[n].c /\ t[n].i = s[n].i /\ t[n].mine = s[n].mine
      /\ t[Len(t)] = f
  <2>1. f.c = s[Len(s)].from /\ j \in s[Len(s)].todo
    BY <1>1, <1>2, <1>6
  <2>2. t = PushOn(s, Less(s[Len(s)], j), f)
    BY <1>2
  <2> HIDE DEF t
  <2>3. /\ s # <<>> /\ Sound(out, s, data) /\ out \in Schemas
        /\ f \in FrameType /\ f.i = j /\ f.mine /\ f.rules = Inbound(out, f.c) /\ f.todo = {}
    BY <1>2, <1>6
  <2>4. Grown(out, s, data, PushOn(s, Less(s[Len(s)], j), f), f)
    BY <2>1, <2>3, PushedFrame
  <2> QED
    BY <2>2, <2>4 DEF Grown
<1> HIDE DEF t
<1>9. k \in CallType /\ k.pc = "delete" /\ k.stack = t
  BY <1>8, EnteredType
<1> HIDE DEF k
<1>10. CallOK(out, k, stored, data)
  BY <1>8, <1>9 DEF CallOK, Reached
<1>11. inProgress' \subseteq Marks(t)
  <2>1. Len(t) \in 1..Len(t) /\ \A n \in 1..Len(s) : n \in 1..Len(t)
    BY <1>2, <1>8
  <2>2. <<top.from, j>> \in Marks(t)
    BY <2>1, <1>6, <1>8 DEF Marks
  <2>3. \A x \in Marks(s) : x \in Marks(t)
    BY <2>1, <1>8 DEF Marks
  <2> QED
    BY <2>2, <2>3, <1>1, <1>2
<1>12. inProgress' \subseteq Coll \X Id
  BY <1>1, <1>3 DEF IInv, TypeOK
<1> QED
  BY <1>1, <1>8, <1>9, <1>10, <1>11, <1>12, TopFacts, OneCallerKeeps DEF IInv, TypeOK

LEMMA Longer == ASSUME NEW n \in Nat, n \in 1..n, n # 1 PROVE n > 1
  OBVIOUS

LEMMA StepDelete ==
    ASSUME IInv, NEW w \in Caller, DeleteRecord(w)
    PROVE  IInv'
<1> PICK q \in CallType : q = call[w]
  BY TopFacts DEF DeleteRecord, Finished
<1> PICK s \in Seq(FrameType) : s = q.stack
  BY TopFacts DEF DeleteRecord, Finished
<1> PICK top \in FrameType : top = Top(w)
  BY TopFacts DEF DeleteRecord, Finished
<1> DEFINE S == [stored EXCEPT ![top.c][top.i] = Absent]
           U == unfinished \cup {<<top.c, top.i>>}
           k == [q EXCEPT !.pc = "gone"]
<1>1. /\ Deleting(w) /\ top.todo = {} /\ top.rules = {} /\ ~top.mine
      /\ out' = out /\ opened' = opened /\ fails' = fails /\ crashes' = crashes
      /\ inProgress' = inProgress /\ stored' = S /\ data' = data /\ unfinished' = U
      /\ call' = [call EXCEPT ![w] = k]
  BY DEF DeleteRecord, Finished
<1>2. /\ s # <<>> /\ top = s[Len(s)] /\ Sound(out, s, data) /\ inProgress \subseteq Marks(s)
      /\ \A v \in Caller \ {w} : call[v].pc = "idle" /\ call[v].stack = <<>>
  BY <1>1, TopFacts
<1>3. top.c \in Coll /\ top.i \in Id /\ Absent \in Records
  BY DEF FrameType, Records
<1>4. Held3(S, data, U)
  BY <1>3, MoreUnfinished
<1>5. S[top.c][top.i] = Absent
  BY <1>3 DEF IInv, TypeOK
<1>6. k \in CallType /\ k.pc = "gone" /\ k.stack = s
  BY DEF CallType
<1> HIDE DEF S, U, k
<1>7. CallOK(out, k, S, data)
  BY <1>1, <1>2, <1>5, <1>6 DEF CallOK, Reached
<1>8. inProgress' \subseteq Marks(k.stack) /\ inProgress' \subseteq Coll \X Id
  BY <1>1, <1>2, <1>6 DEF IInv, TypeOK
<1> QED
  BY <1>1, <1>2, <1>4, <1>6, <1>7, <1>8, OneCaller DEF IInv, TypeOK

(* The frame of a record that is gone from the store. *)
LEMMA GoneFacts ==
    ASSUME IInv, NEW w \in Caller, Gone(w)
    PROVE  /\ stored[Top(w).c][Top(w).i] = Absent /\ Top(w).c \in Coll /\ Top(w).i \in Id
           /\ Top(w).rules = {} /\ Top(w).todo = {} /\ ~Top(w).mine
           /\ \A d \in Inbound(out, Top(w).c) :
                 out[d].mode \in {"strict", "cascade"} => Refers(data, d, Top(w).i) = {}
<1>1. /\ stored[Top(w).c][Top(w).i] = Absent /\ Top(w).rules = {} /\ Top(w).todo = {} /\ ~Top(w).mine
  BY TopFacts DEF Gone, IInv, CallOK, Reached
<1>2. Top(w).c \in Coll /\ Top(w).i \in Id
  BY TopFacts DEF FrameType
<1>3. /\ Swept(out, call[w].stack, Depth(w), data) /\ call[w].stack[Depth(w)] = Top(w)
      /\ Depth(w) = Len(call[w].stack) /\ Depth(w) \in Nat
  BY TopFacts
<1>4. \A d \in Inbound(out, Top(w).c) :
         out[d].mode \in {"strict", "cascade"} => Refers(data, d, Top(w).i) = {}
  BY <1>1, <1>3 DEF Swept
<1> QED
  BY <1>1, <1>2, <1>4

(* The cache drops a record that is gone from the store. *)
LEMMA Dropped ==
    ASSUME IInv, NEW c \in Coll, NEW i \in Id, stored[c][i] = Absent,
           \A d \in Inbound(out, c) : out[d].mode = "strict" => Refers(data, d, i) = {},
           NEW U, U \subseteq unfinished, unfinished \ {<<c, i>>} \subseteq U
    PROVE  Held3(stored, [data EXCEPT ![c][i] = Absent], U)
<1> DEFINE E == [data EXCEPT ![c][i] = Absent]
<1>1. /\ stored \in [Coll -> [Id -> Records]] /\ data \in [Coll -> [Id -> Records]] /\ out \in Schemas
      /\ U \subseteq Coll \X Id
  BY DEF IInv, TypeOK
<1>2. /\ E \in [Coll -> [Id -> Records]]
      /\ \A d \in Coll, j \in Id : E[d][j] = IF d = c /\ j = i THEN Absent ELSE data[d][j]
  BY <1>1 DEF Records
<1>u. \A d, j : <<d, j>> \in unfinished => <<d, j>> \in U \/ (d = c /\ j = i)
  OBVIOUS
<1> HIDE DEF E
<1>3. Strict(out, E, U)
  <2> SUFFICES ASSUME NEW d \in Coll, NEW j \in Id, NEW r \in Id \ {None},
                      Asks(out, d, "strict"), E[d][j] = Record(r),
                      <<d, j>> \notin U, <<out[d].to, r>> \notin U
               PROVE  E[out[d].to][r] # Absent
    BY DEF Strict
  <2>1. out[d] # None /\ out[d].to \in Coll
    BY <1>1, OutType DEF Asks
  <2>2. data[d][j] = Record(r) /\ ~(d = c /\ j = i)
    BY <1>2, RecordFacts
  <2>3. ~(out[d].to = c /\ r = i)
    BY <2>1, <2>2 DEF Asks, Refers, Inbound
  <2>4. data[out[d].to][r] # Absent
    BY <2>2, <2>3, <1>u DEF IInv, Strict
  <2> QED
    BY <2>1, <2>3, <2>4, <1>2
<1>4. Behind(stored, E, U)
  BY <1>2, <1>u DEF IInv, Behind
<1>5. Held3(stored, E, U)
  BY <1>1, <1>2, <1>3, <1>4 DEF Held3
<1> QED
  BY <1>5 DEF E

LEMMA StepUncache ==
    ASSUME IInv, NEW w \in Caller, UncacheRecord(w)
    PROVE  IInv'
<1> PICK s \in Seq(FrameType) : s = call[w].stack
  BY TopFacts DEF UncacheRecord
<1> PICK top \in FrameType : top = Top(w)
  BY TopFacts DEF UncacheRecord
<1> PICK q \in CallType : q = call[w]
  BY TopFacts DEF UncacheRecord
<1> DEFINE E == [data EXCEPT ![top.c][top.i] = Absent]
           U == unfinished \ {<<top.c, top.i>>}
           t == SubSeq(s, 1, Len(s) - 1)
           k == [q EXCEPT !.pc = "delete", !.stack = t]
<1>1. /\ Gone(w)
      /\ out' = out /\ opened' = opened /\ fails' = fails /\ crashes' = crashes
      /\ inProgress' = inProgress /\ stored' = stored /\ data' = E /\ unfinished' = U
      /\ call' = IF Len(s) = 1 THEN [call EXCEPT ![w] = Idle] ELSE [call EXCEPT ![w] = k]
  BY DEF UncacheRecord, Uncached, Depth
<1>2. /\ s # <<>> /\ Len(s) \in Nat /\ Len(s) \in 1..Len(s) /\ top = s[Len(s)]
      /\ Sound(out, s, data) /\ inProgress \subseteq Marks(s)
      /\ out \in Schemas /\ opened = Coll /\ data \in [Coll -> [Id -> Records]]
  BY <1>1, TopFacts DEF IInv, TypeOK
<1>3. /\ top.c \in Coll /\ top.i \in Id /\ ~top.mine /\ stored[top.c][top.i] = Absent
      /\ \A d \in Inbound(out, top.c) : out[d].mode = "strict" => Refers(data, d, top.i) = {}
  BY <1>1, GoneFacts
<1>4. Held3(stored, E, U)
  BY <1>3, Dropped
<1>r. Gone(w) /\ stored = stored' /\ E = data' /\ U = unfinished'
  BY <1>1
<1> HIDE DEF U
<1>7. CASE Len(s) = 1
  <2>1. Marks(s) = {}
    BY <1>2, <1>3, <1>7 DEF Marks
  <2> HIDE DEF E
  <2> QED
    BY <1>1, <1>2, <1>4, <1>r, <1>7, <2>1, TopFacts, EndsIdle DEF IInv, TypeOK
<1>8. CASE Len(s) # 1
  <2>1. Len(s) > 1
    <3>1. Len(s) \in Nat /\ Len(s) \in 1..Len(s)
      BY <1>2
    <3> QED
      BY <3>1, <1>8, Longer
  <2> DEFINE p == s[Len(s)]
  <2>2. /\ t \in Seq(FrameType) /\ t # <<>> /\ Len(t) = Len(s) - 1
        /\ \A n \in 1..Len(t) : t[n] = s[n]
        /\ Sound(out, t, E)
    <3>1. E = [data EXCEPT ![p.c][p.i] = Absent]
      BY <1>2
    <3>2. /\ t \in Seq(FrameType) /\ t # <<>> /\ Len(t) = Len(s) - 1
          /\ \A n \in 1..Len(t) : t[n] = s[n]
          /\ Sound(out, t, [data EXCEPT ![p.c][p.i] = Absent])
      BY <2>1, <1>2, Popped
    <3> QED
      BY <3>1, <3>2
  <2> HIDE DEF t, E
  <2>3. k \in CallType /\ k.pc = "delete" /\ k.stack = t
    BY <2>2 DEF CallType
  <2> HIDE DEF k
  <2>4. CallOK(out, k, stored, E)
    BY <2>2, <2>3 DEF CallOK, Reached
  <2>5. inProgress' \subseteq Marks(t)
    <3> SUFFICES ASSUME NEW x \in inProgress PROVE x \in Marks(t)
      BY <1>1
    <3>1. PICK m \in 1..Len(s) : s[m].mine /\ x = <<s[m].c, s[m].i>>
      BY <1>2 DEF Marks
    <3>2. m \in 1..Len(t)
      BY <3>1, <1>2, <1>3, <2>2
    <3> QED
      BY <3>1, <3>2, <2>2 DEF Marks
  <2> QED
    BY <1>1, <1>4, <1>r, <1>8, <2>2, <2>3, <2>4, <2>5, TopFacts, OneCaller DEF IInv, TypeOK
<1> QED
  BY <1>7, <1>8

-----------------------------------------------------------------------------
LEMMA StepFail ==
    ASSUME IInv, NEW w \in Caller, Fail(w)
    PROVE  IInv'
<1>1. /\ call[w].pc # "idle" /\ Unwind(w) /\ out' = out /\ opened' = opened /\ fails' \in Nat /\ crashes' \in Nat
      /\ stored = stored' /\ unfinished = unfinished'
  BY DEF Fail, IInv, TypeOK
<1>2. CASE data' = data
  <2>1. data = data'
    BY <1>2
  <2> QED
    BY <2>1, <1>1, ContentsHeld, UnwindIdle
<1>3. CASE Gone(w) /\ data' = Uncached(Top(w))
  <2> DEFINE E == [data EXCEPT ![Top(w).c][Top(w).i] = Absent]
  <2>1. E = data'
    BY <1>3 DEF Uncached
  <2>2. Held3(stored, E, unfinished)
    BY <1>3, GoneFacts, Dropped
  <2> HIDE DEF E
  <2> QED
    BY <2>1, <2>2, <1>1, UnwindIdle
<1> QED
  BY <1>2, <1>3 DEF Fail

LEMMA StepCrash ==
    ASSUME Sequential, IInv, Crash
    PROVE  IInv'
<1>1. /\ call' = [w \in Caller |-> Idle] /\ inProgress' = {} /\ opened' = Coll
      /\ out' = out /\ data' = stored /\ stored' = stored /\ unfinished' = unfinished
      /\ fails' = fails /\ crashes' = crashes + 1
  BY DEF Crash, Sessions, Sequential
<1>2. TypeOK'
  BY <1>1, IdleOK DEF IInv, TypeOK
<1>3. Alone(call') /\ Marked' /\ \A w \in Caller : CallOK(out', call'[w], stored', data')
  BY <1>1, IdleOK DEF Alone, Marked
<1>4. Strict(out, stored, unfinished)
  <2> SUFFICES ASSUME NEW c \in Coll, NEW i \in Id, NEW r \in Id \ {None},
                      Asks(out, c, "strict"), stored[c][i] = Record(r),
                      <<c, i>> \notin unfinished, <<out[c].to, r>> \notin unfinished
               PROVE  stored[out[c].to][r] # Absent
    BY DEF Strict
  <2>1. out[c].to \in Coll
    BY OutType DEF Asks, IInv, TypeOK
  <2>2. data[c][i] = Record(r) /\ data[out[c].to][r] = stored[out[c].to][r]
    BY <2>1 DEF IInv, Behind
  <2> QED
    BY <2>2 DEF IInv, Strict
<1>5. Strict(out', data', unfinished') /\ Behind(stored', data', unfinished')
  BY <1>1, <1>4 DEF Behind
<1> QED
  BY <1>2, <1>3, <1>5 DEF IInv

LEMMA StepStutters ==
    ASSUME IInv, UNCHANGED vars
    PROVE  IInv'
  BY DEF IInv, TypeOK, Marked, vars, contents

-----------------------------------------------------------------------------
LEMMA InitIInv ==
    ASSUME Sequential, Init
    PROVE  IInv
<1>1. TypeOK
  BY IdleOK DEF Init, Sessions, Sequential, TypeOK, Records
<1>2. Alone(call) /\ Marked /\ \A w \in Caller : CallOK(out, call[w], stored, data)
  BY IdleOK DEF Init, Alone, Marked
<1>3. Strict(out, data, unfinished) /\ Behind(stored, data, unfinished)
  BY RecordFacts DEF Init, Strict, Behind
<1> QED
  BY <1>1, <1>2, <1>3 DEF IInv

LEMMA NextIInv ==
    ASSUME Sequential, CascadesEnd, IInv, [Next]_vars
    PROVE  IInv'
<1>1. CASE Crash
  BY <1>1, StepCrash
<1>2. ASSUME NEW w \in Caller,
             \/ enforceRefsOnPut(w) \/ WriteRecord(w) \/ CacheRecord(w)
             \/ EndRules(w) \/ DeleteRecord(w) \/ UncacheRecord(w) \/ Fail(w)
      PROVE  IInv'
  BY <1>2, StepEnforce, StepWrite, StepCache, StepEndRules, StepDelete, StepUncache, StepFail
<1>3. ASSUME NEW w \in Caller, NEW d \in Coll, ApplyRule(w, d) PROVE IInv'
  BY <1>3, StepApplyRule
<1>4. ASSUME NEW w \in Caller, NEW j \in Id, Cascade(w, j) PROVE IInv'
  BY <1>4, StepCascade
<1>5. ASSUME NEW w \in Caller, NEW c \in Coll, NEW i \in Id, BeginDelete(w, c, i) PROVE IInv'
  BY <1>5, StepBeginDelete
<1>6. ASSUME NEW w \in Caller, NEW c \in Coll, NEW i \in Id, NEW ref \in Id \cup {None},
             BeginPut(w, c, i, ref)
      PROVE  IInv'
  BY <1>6, StepBeginPut
<1>7. CASE UNCHANGED vars
  BY <1>7, StepStutters
<1> QED
  BY <1>1, <1>2, <1>3, <1>4, <1>5, <1>6, <1>7 DEF Next

(* The inductive invariant of sequential calls: stacks are nested along the  *)
(* cascading references, what is marked is on a stack (Vault.enforceRefs-    *)
(* OnDelete enters a record once), rules that were applied have left nothing *)
(* behind, no strict reference of the caches dangles, and they are the store *)
(* but for what was written last by a call that has not come to its end.     *)
THEOREM Invariance ==
    ASSUME Sequential, CascadesEnd
    PROVE  Spec => []IInv
<1>1. Init => IInv
  BY InitIInv
<1>2. IInv /\ [Next]_vars => IInv'
  BY NextIInv
<1> QED
  BY <1>1, <1>2, PTL DEF Spec

LEMMA StrictIsHeld == ASSUME IInv PROVE StrictHolds
<1> SUFFICES ASSUME NEW x \in Coll \X Id, Declares(x[1], "strict"),
                    stored[x[1]][x[2]] \notin {Absent, Record(None)},
                    x \notin unfinished, <<out[x[1]].to, stored[x[1]][x[2]][1]>> \notin unfinished
             PROVE  stored[out[x[1]].to][stored[x[1]][x[2]][1]] # Absent
  BY DEF StrictHolds, violations
<1> PICK c \in Coll, i \in Id : x = <<c, i>>
  OBVIOUS
<1>1. stored \in [Coll -> [Id -> Records]] /\ out \in Schemas
  BY DEF IInv, TypeOK
<1>2. PICK r \in Id \ {None} : stored[c][i] = Record(r)
  BY <1>1 DEF Records
<1>3. out[c].to \in Coll /\ Asks(out, c, "strict") /\ <<out[c].to, r>> \notin unfinished
  BY <1>1, <1>2, OutType, RecordFacts DEF Declares, Asks
<1>4. data[c][i] = Record(r) /\ data[out[c].to][r] = stored[out[c].to][r]
  BY <1>2, <1>3 DEF IInv, Behind
<1>5. data[out[c].to][r] # Absent
  BY <1>3, <1>4 DEF IInv, Strict
<1> QED
  BY <1>2, <1>4, <1>5, RecordFacts

(* No strict reference dangles in the store (vault.ts, enforceRefsOnPut and  *)
(* enforceRefsOnDelete; refs.ts, strict mode): not while a cascade is under  *)
(* way, not after one that failed half way, not after a restart; but of a    *)
(* record, or to one, whose last put or delete has written the store and has *)
(* not come to its end (collection.ts, 841 to 892 and 948 to 985).           *)
THEOREM StrictAlways ==
    ASSUME Sequential, CascadesEnd
    PROVE  Spec => []StrictHolds
  BY Invariance, StrictIsHeld, PTL

LEMMA DeleteStep ==
    ASSUME IInv, [Next]_vars, NEW w \in Caller, Gone(w), Depth(w) = 1, call'[w] = Idle,
           crashes' = crashes, fails' = fails, NEW d \in getInbound(Top(w).c)
    PROVE  \/ out[d].mode = "warn"
           \/ \A j \in Id : stored'[d][j] = Record(Top(w).i) => <<d, j>> \in unfinished'
<1>1. /\ call[w].pc = "gone" /\ ~Deleting(w)
      /\ call \in [Caller -> CallType] /\ fails \in Nat /\ crashes \in Nat /\ out \in Schemas
  BY DEF Gone, Deleting, IInv, TypeOK
<1>2. \A v \in Caller \ {w} : call[v].pc = "idle"
  BY TopFacts
<1>3. ~Crash /\ (\A v \in Caller : ~Fail(v))
  BY <1>1 DEF Crash, Fail
<1>4. \A v \in Caller : ~enforceRefsOnPut(v) /\ ~WriteRecord(v) /\ ~CacheRecord(v) /\ ~EndRules(v) /\ ~DeleteRecord(v)
  BY <1>1, <1>2 DEF enforceRefsOnPut, WriteRecord, CacheRecord, EndRules, DeleteRecord, Finished, Deleting
<1>5. \A v \in Caller, e \in Coll : ~ApplyRule(v, e)
  BY <1>1, <1>2 DEF ApplyRule, Deleting
<1>6. \A v \in Caller, j \in Id : ~Cascade(v, j)
  BY <1>1, <1>2 DEF Cascade, Deleting
<1>7. UncacheRecord(w)
  <2>1. call[w] # Idle
    BY <1>1, IdleOK
  <2>2. ASSUME NEW v \in Caller, NEW c \in Coll, NEW i \in Id PROVE ~BeginDelete(v, c, i)
    <3>1. CASE v = w
      BY <3>1, <1>1 DEF BeginDelete, Starts
    <3>2. CASE v # w
      BY <3>2, <1>1, <2>1 DEF BeginDelete, Enter
    <3> QED
      BY <3>1, <3>2
  <2>3. ASSUME NEW v \in Caller, NEW c \in Coll, NEW i \in Id, NEW ref \in Id \cup {None}
        PROVE  ~BeginPut(v, c, i, ref)
    <3>1. CASE v = w
      BY <3>1, <1>1 DEF BeginPut, Starts
    <3>2. CASE v # w
      BY <3>2, <1>1, <2>1 DEF BeginPut
    <3> QED
      BY <3>1, <3>2
  <2>4. \A v \in Caller \ {w} : ~UncacheRecord(v)
    BY <1>2 DEF UncacheRecord, Gone
  <2>5. ~UNCHANGED vars
    BY <2>1 DEF vars
  <2> QED
    BY <1>3, <1>4, <1>5, <1>6, <2>2, <2>3, <2>4, <2>5 DEF Next
<1>8. d \in Inbound(out, Top(w).c) /\ d \in Coll /\ out[d] # None
  BY Same DEF IInv, TypeOK, Inbound
<1>9. out[d].mode \in Mode
  BY <1>1, <1>8, OutType
<1>10. CASE out[d].mode = "warn"
  BY <1>10
<1>11. CASE out[d].mode # "warn"
  <2>1. Refers(data, d, Top(w).i) = {} /\ stored[Top(w).c][Top(w).i] = Absent
    BY <1>8, <1>9, <1>11, GoneFacts DEF Mode
  <2>2. stored' = stored /\ unfinished' = unfinished \ {<<Top(w).c, Top(w).i>>}
    BY <1>7 DEF UncacheRecord
  <2>3. ASSUME NEW j \in Id, stored[d][j] = Record(Top(w).i) PROVE <<d, j>> \in unfinished'
    <3>1. data[d][j] # stored[d][j]
      BY <2>1, <2>3 DEF Refers
    <3>2. <<d, j>> \in unfinished
      BY <3>1, <1>8 DEF IInv, Behind
    <3>3. <<d, j>> # <<Top(w).c, Top(w).i>>
      BY <2>1, <2>3, RecordFacts
    <3> QED
      BY <3>2, <3>3, <2>2
  <2> QED
    BY <2>2, <2>3
<1> QED
  BY <1>10, <1>11

(* When a delete has run to its end, nothing refers to what it deleted any   *)
(* more, but for references that only warn and records whose own last put or *)
(* delete has not come to its end (vault.ts, enforceRefsOnDelete: a strict   *)
(* one blocks the delete, the records of a cascading one go first).          *)
THEOREM DeletesComplete ==
    ASSUME Sequential, CascadesEnd
    PROVE  Spec => DeleteComplete
<1>1. IInv /\ [Next]_vars =>
         [\A w \in Caller :
            Gone(w) /\ Depth(w) = 1 /\ call'[w] = Idle /\ crashes' = crashes /\ fails' = fails =>
               \A d \in getInbound(Top(w).c) :
                  \/ out[d].mode = "warn"
                  \/ \A j \in Id : stored'[d][j] = Record(Top(w).i) => <<d, j>> \in unfinished']_vars
  BY DeleteStep
<1> QED
  BY <1>1, Invariance, PTL DEF Spec, DeleteComplete

-----------------------------------------------------------------------------
(***************************************************************************)
(* The dictionary of a vault and its backups (VaultBackup, as MCVault      *)
(* instantiates it): no key of a record is without labels, but for what    *)
(* the application has deleted or a put cut short after the store has left,*)
(* and a load that reports success has restored what the dump has read.    *)
(* One invariant for both, of a part that types the state, one on the      *)
(* labels and one on the backups.                                          *)
(***************************************************************************)
(* Calls follow one another, rename to another key that is free, of a session *)
(* that has opened the collection, and no vault with a dictionary is dumped.  *)
PlainDictionary ==
    \A b \in {"overlap", "sameKey", "taken", "undeclared", "dictionaries"} : b \notin BackupAllowed
(* Calls follow one another; a backup is loaded into a new vault, whose       *)
(* dictionary is used through handles made since; and what a load that was    *)
(* cut short or refused has left is not dumped, nor a vault with a dictionary. *)
WholeBackups ==
    \A b \in {"overlap", "oldVault", "brokenVault", "dictionaries", "oldHandles"} : b \notin BackupAllowed

KeyOrNone == DictKey \cup {None}
Row    == KeyOrNone \X Nat
Labelling == Nat \X Nat
Table  == [Id -> {<<>>} \cup Row]
Book   == [DictKey -> {<<>>} \cup Labelling]
Mirror == [DictKey -> Seq(Nat)]
LedgerRow == [op : {"put", "delete"}, c : {"records", "_dict_"}, id : Id \cup DictKey, hash : Nat,
              prev : Nat \cup {None}, stamp : Nat]
Chain == Seq(LedgerRow)
HeadType == [n : Nat, stamp : Nat \cup {None}]
DictCallType ==
    [op : {None, "record", "put", "delete", "rename", "list", "dump", "load", "export"},
     pc : {"idle", "account", "get", "write", "list", "update", "remove", "append", "fetch", "ledger",
           "entries", "verify", "labels", "export"},
     key : KeyOrNone, to : KeyOrNone, was : {<<>>} \cup Labelling, todo : SUBSET (Id \cup DictKey),
     snapshot : {<<>>} \cup Table, rec : Id \cup {None}, wrote : {<<>>} \cup Row]
BackupType == [made : {TRUE}, collections : Table, internal : Chain, ledgerHead : HeadType,
               was : Table \X Chain \X SUBSET Id, damaged : BOOLEAN]
ExportType == [labels : SUBSET KeyOrNone, used : SUBSET (Id \X KeyOrNone)]

Here(r) == r # <<>>
Shown(di) == {k \in DictKey : Here(di[k])} \cup {None}
\* Nobody's labels are overwritten by those of a renamed key.
Takes(di, k, to) == Here(di[to]) => Here(di[k]) /\ di[to][2] = di[k][2]

\* What a call holds while it waits.
Renames(q) == q.pc \in {"list", "update"} \/ (q.pc \in {"account", "remove"} /\ q.op = "rename")
Shaped(q) ==
    /\ q.pc \in {"get", "write", "list", "update", "remove", "append"} =>
         q.op \in {"put", "delete", "rename"} /\ q.key \in DictKey /\ q.to \in DictKey
    /\ q.pc = "get" /\ q.op # "rename" => q.to = q.key
    /\ q.pc = "write" => q.op # "delete" /\ (q.op = "put" => q.to = q.key)
    /\ q.pc = "write" /\ q.op = "rename" => Here(q.was)
    /\ q.pc \in {"list", "update"} => q.op = "rename"
    /\ q.pc = "account" => q.op \in {"record", "rename"}
    /\ q.pc = "account" /\ q.op = "rename" =>
         q.key \in DictKey /\ q.to \in DictKey /\ q.todo \subseteq Id /\ Here(q.wrote) /\ q.wrote[1] = q.to
    /\ q.pc = "remove" => q.op \in {"delete", "rename"}
    /\ Renames(q) => Here(q.was)
    /\ q.pc = "fetch" => q.todo \subseteq DictKey
    /\ q.pc \in {"ledger", "labels", "export"} => q.snapshot \in Table /\ q.todo \subseteq Id
    /\ q.pc = "update" => q.todo \subseteq Id
\* What it has written is in the store, and not in the ledger yet.
Pending(q, d, be, m) ==
    q.pc = "account" =>
        /\ q.rec \in Id /\ d[q.rec] = q.wrote /\ q.rec \in be
        /\ Here(q.wrote) => q.wrote[2] \in 1..m

Lone(f) == \A a, b \in Caller : f[a].pc # "idle" /\ f[b].pc # "idle" => a = b
StateType(d, c, be, di, dr, l, sy, h, oh, m, b, ex) ==
    /\ d \in Table /\ c \in Table /\ be \subseteq Id /\ di \in Book /\ dr \subseteq DictKey
    /\ l \in Chain /\ sy \in Mirror /\ h \in HeadType /\ oh \in HeadType /\ m \in Nat
    /\ b = Backup!NoBackup \/ b \in BackupType
    /\ ex \in ExportType
CallsType(f, d, be, m, b) ==
    /\ f \in [Caller -> DictCallType] /\ Lone(f)
    /\ \A w \in Caller :
         /\ Shaped(f[w]) /\ Pending(f[w], d, be, m)
         /\ f[w].pc \in {"entries", "verify"} => b.made
StateOK ==
    StateType(records, held, behind, dict, dropped, ledger, syncCache, head, oldHead, writes, backup, exported)
BackupTypeOK == StateOK /\ CallsType(dictCall, records, behind, writes, backup)

(* The labels: every key in use has some, in the store and in the cache of    *)
(* the collection, which knows every key in use; and the mirror shows them.   *)
Resolved(d, di, be, dr) == \A i \in Id : Here(d[i]) => d[i][1] \in Shown(di) \/ i \in be \/ d[i][1] \in dr
Known(d, c, be) == \A i \in Id : Here(d[i]) /\ d[i][1] # None => c[i] = d[i] \/ i \in be
Mirrored(sy, di) == \A k \in DictKey : Here(sy[k]) => Here(di[k]) /\ sy[k] = <<di[k][2]>>
Keyless(d) == \A i \in Id : Here(d[i]) => d[i][1] = None
\* Who still uses a key is to be renamed, or its last put was cut short.
Left(d, k, todo, be) == \A i \in Id : Here(d[i]) /\ d[i][1] = k => i \in todo \/ i \in be
Labels(q, d, c, be, di, dr, b, ex) ==
    /\ q.pc = "get" /\ q.op = "rename" => q.key # q.to /\ (Here(di[q.key]) => Takes(di, q.key, q.to))
    /\ q.pc = "write" /\ q.op = "rename" =>
         q.was = di[q.key] /\ q.key # q.to /\ Takes(di, q.key, q.to)
    /\ Renames(q) => q.key # q.to /\ q.was = di[q.to]
    /\ q.pc = "update" \/ (q.pc = "account" /\ q.op = "rename") =>
         Left(d, q.key, q.todo, be) /\ Left(c, q.key, q.todo, be)
    /\ q.pc = "account" /\ Here(q.wrote) => q.wrote[1] \in Shown(di)
    /\ q.pc = "remove" /\ q.op = "rename" => Left(d, q.key, {}, be) /\ Left(c, q.key, {}, be)
    /\ q.pc = "ledger" => Keyless(q.snapshot)
    /\ q.pc = "entries" => \A i \in Backup!Saved(b.collections) : Here(d[i]) => d[i][1] = None
    /\ q.pc = "export" =>
         ex.labels = Shown(di) /\ \A x \in ex.used : x[2] \in ex.labels \/ x[1] \in be \/ x[2] \in dr

LabelsHold(dc, d, c, be, di, dr, sy, b) ==
    /\ dc = TRUE /\ Resolved(d, di, be, dr) /\ Resolved(c, di, be, dr) /\ Known(d, c, be) /\ Mirrored(sy, di)
    /\ b.made => Keyless(b.collections)
LabelsOK == LabelsHold(declared, records, held, behind, dict, dropped, syncCache, backup)
LabelsOf(q) == Labels(q, records, held, behind, dict, dropped, backup, exported)
Labelled == LabelsOK /\ \A w \in Caller : LabelsOf(dictCall[w])

(* The ledger and the backups: a chain of rising stamps whose latest entry of *)
(* every record tells what the record is, but for one whose last write of the *)
(* store has not come to the ledger.                                          *)
LastStamp(l) == IF l = <<>> THEN None ELSE l[Len(l)].stamp
Chained(l) == \A n \in 1..Len(l) : l[n].prev = IF n = 1 THEN None ELSE l[n - 1].stamp
Rising(l, m) == /\ \A n \in 1..Len(l) : l[n].stamp \in 1..m
                /\ \A n, k \in 1..Len(l) : n < k => l[n].stamp < l[k].stamp
Latest(l, n) == \A m \in 1..Len(l) : n < m => ~(l[m].c = l[n].c /\ l[m].id = l[n].id)
Tells(l, n, d, be) ==
    l[n].c = "records" /\ Latest(l, n) /\ l[n].id \notin be =>
        IF l[n].op = "put" THEN Here(d[l[n].id]) /\ d[l[n].id][2] = l[n].hash ELSE ~Here(d[l[n].id])
Plain(l) == \A n \in 1..Len(l) : l[n].c = "records"
Ided(l) == \A n \in 1..Len(l) : l[n].c = "records" => l[n].id \in Id
Accounts(d, l, be) ==
    /\ \A n \in 1..Len(l) : Tells(l, n, d, be)
    /\ \A i \in Id \ be : Here(d[i]) => \E n \in 1..Len(l) : l[n].c = "records" /\ l[n].id = i /\ Latest(l, n)
Dated(d, be, m) == \A i \in Id \ be : Here(d[i]) => d[i][2] \in 1..m
Kept(d, l, be, m) == Chained(l) /\ Rising(l, m) /\ Accounts(d, l, be) /\ Dated(d, be, m) /\ Ided(l)
Leads(h, l) == h = [n |-> 0, stamp |-> 0] \/ h = [n |-> Len(l), stamp |-> LastStamp(l)]

\* What may have become of a backup.
Worn(a, b) == b = a \/ (Here(a) /\ (b = <<>> \/ b = <<None, 0>>))
WornRow(e, g) == g = e \/ (g.stamp = 0 /\ g.prev = e.prev)
Backs(b, m) ==
    /\ Kept(b.was[1], b.was[2], b.was[3], m) /\ Plain(b.was[2])
    /\ b.ledgerHead = [n |-> Len(b.was[2]), stamp |-> LastStamp(b.was[2])]
    /\ \A i \in Id : Worn(b.was[1][i], b.collections[i])
    /\ Len(b.internal) <= Len(b.was[2])
    /\ \A n \in 1..Len(b.internal) : WornRow(b.was[2][n], b.internal[n])
    /\ b.damaged \/ (b.collections = b.was[1] /\ b.internal = b.was[2])

Loads(q, d, be, l, h, hd, wh, b) ==
    /\ q.pc = "ledger" => wh /\ q.snapshot = d /\ Plain(l)
    /\ q.pc \in {"entries", "verify"} => ~wh /\ d = b.collections /\ b.was[3] \subseteq be
    /\ q.pc = "entries" => l = <<>>
    /\ q.pc = "verify" => l = b.internal /\ h = [n |-> 0, stamp |-> 0]
    /\ q.pc \in {"get", "write", "list", "update", "remove", "append"} => hd # "old"
    /\ q.pc = "account" /\ q.op = "rename" => hd # "old"

BackupsHold(d, be, l, h, m, wh, b) ==
    /\ Leads(h, l)
    /\ wh => Kept(d, l, be, m)
    /\ b.made => Backs(b, m)
BackupsOK == BackupsHold(records, behind, ledger, head, writes, whole, backup)
LoadsOf(q) == Loads(q, records, behind, ledger, head, handle, whole, backup)
Restorable == BackupsOK /\ \A w \in Caller : LoadsOf(dictCall[w])

Keeps ==
    /\ BackupTypeOK'
    /\ PlainDictionary /\ Labelled => Labelled'
    /\ WholeBackups /\ Restorable => Restorable'
InTurn   == "overlap" \notin BackupAllowed
Solo(w)  == \A v \in Caller : v # w => dictCall[v].pc = "idle"
\* All but the calls and the handle.
contentVars ==
    <<records, held, behind, dict, dropped, ledger, syncCache, declared, head, oldHead, writes, backup, exported, whole>>

-----------------------------------------------------------------------------
(* A call that waits for nothing holds nothing. *)
LEMMA IdleHolds ==
    ASSUME NEW q, q.pc = "idle"
    PROVE  /\ Shaped(q)
           /\ \A d, be, m : Pending(q, d, be, m)
           /\ \A d, c, be, di, dr, b, ex : Labels(q, d, c, be, di, dr, b, ex)
           /\ \A d, be, l, h, hd, wh, b : Loads(q, d, be, l, h, hd, wh, b)
BY DEF Shaped, Pending, Renames, Labels, Loads

(* The call nobody has made. *)
LEMMA IdleCall == Backup!Idle \in DictCallType /\ Backup!Idle.pc = "idle"
BY DEF Backup!Idle, Backup!Absent, DictCallType, KeyOrNone

(* While a call works, no other does. *)
LEMMA AtWork ==
    ASSUME BackupTypeOK, NEW w \in Caller, dictCall[w].pc # "idle"
    PROVE  /\ Solo(w) /\ dictCall[w] \in DictCallType /\ Shaped(dictCall[w])
           /\ Pending(dictCall[w], records, behind, writes) /\ StateOK
BY DEF BackupTypeOK, CallsType, Lone, Solo

(* A call begins when none works. *)
LEMMA AtRest ==
    ASSUME BackupTypeOK, InTurn, NEW w \in Caller, Backup!Starts(w)
    PROVE  Solo(w) /\ StateOK /\ \A v \in Caller : dictCall[v].pc = "idle"
BY DEF Backup!Starts, Backup!Quiet, Backup!May, InTurn, Solo, BackupTypeOK

(* One call moves, the others wait. *)
LEMMA OneMoves ==
    ASSUME BackupTypeOK, NEW w \in Caller, Solo(w), NEW q \in DictCallType,
           dictCall' = [dictCall EXCEPT ![w] = q]
    PROVE  /\ dictCall' \in [Caller -> DictCallType]
           /\ \A v \in Caller : (v = w /\ dictCall'[v] = q) \/ (v # w /\ dictCall'[v].pc = "idle")
BY DEF BackupTypeOK, CallsType, Solo

LEMMA TurnTypes ==
    ASSUME BackupTypeOK, NEW w \in Caller, Solo(w), NEW q \in DictCallType,
           dictCall' = [dictCall EXCEPT ![w] = q], Shaped(q), StateOK',
           q.pc = "account" => Pending(q, records', behind', writes'),
           q.pc \in {"entries", "verify"} => backup'.made
    PROVE  BackupTypeOK'
<1>1. Pending(q, records', behind', writes') BY DEF Pending
<1>2. \A v \in Caller : (v = w /\ dictCall'[v] = q) \/ (v # w /\ dictCall'[v].pc = "idle") BY OneMoves
<1>3. \A v \in Caller : /\ Shaped(dictCall'[v]) /\ Pending(dictCall'[v], records', behind', writes')
                        /\ dictCall'[v].pc \in {"entries", "verify"} => backup'.made
  BY <1>1, <1>2, IdleHolds
<1>4. Lone(dictCall') BY <1>2 DEF Lone
<1> QED BY <1>3, <1>4, OneMoves DEF BackupTypeOK, CallsType

LEMMA TurnLabels ==
    ASSUME BackupTypeOK, NEW w \in Caller, Solo(w), NEW q \in DictCallType,
           dictCall' = [dictCall EXCEPT ![w] = q], LabelsOK',
           Labels(q, records', held', behind', dict', dropped', backup', exported')
    PROVE  Labelled'
<1>1. \A v \in Caller : (v = w /\ dictCall'[v] = q) \/ (v # w /\ dictCall'[v].pc = "idle") BY OneMoves
<1>2. \A v \in Caller : Labels(dictCall'[v], records', held', behind', dict', dropped', backup', exported')
  BY <1>1, IdleHolds
<1> QED BY <1>2 DEF Labelled, LabelsOf

LEMMA TurnBackups ==
    ASSUME BackupTypeOK, NEW w \in Caller, Solo(w), NEW q \in DictCallType,
           dictCall' = [dictCall EXCEPT ![w] = q], BackupsOK',
           Loads(q, records', behind', ledger', head', handle', whole', backup')
    PROVE  Restorable'
<1>1. \A v \in Caller : (v = w /\ dictCall'[v] = q) \/ (v # w /\ dictCall'[v].pc = "idle") BY OneMoves
<1>2. \A v \in Caller : Loads(dictCall'[v], records', behind', ledger', head', handle', whole', backup')
  BY <1>1, IdleHolds
<1> QED BY <1>2 DEF Restorable, LoadsOf

(* A step that changes nothing but its call. *)
LEMMA OnlyTheCall ==
    ASSUME BackupTypeOK, NEW w \in Caller, Solo(w), NEW q \in DictCallType, Shaped(q),
           dictCall' = [dictCall EXCEPT ![w] = q], UNCHANGED contentVars,
           q.pc # "account", q.pc \in {"entries", "verify"} => backup.made,
           PlainDictionary /\ Labelled => LabelsOf(q),
           WholeBackups /\ Restorable => Loads(q, records, behind, ledger, head, handle', whole, backup)
    PROVE  Keeps
<1>1. BackupTypeOK'
  <2>1. StateOK' /\ (q.pc \in {"entries", "verify"} => backup'.made) BY DEF BackupTypeOK, StateOK, contentVars
  <2> QED BY <2>1, TurnTypes
<1>2. ASSUME PlainDictionary, Labelled PROVE Labelled'
  <2>1. LabelsOK' /\ Labels(q, records', held', behind', dict', dropped', backup', exported')
    BY <1>2 DEF Labelled, LabelsOK, LabelsOf, contentVars
  <2> QED BY <2>1, TurnLabels
<1>3. ASSUME WholeBackups, Restorable PROVE Restorable'
  <2>1. BackupsOK' /\ Loads(q, records', behind', ledger', head', handle', whole', backup')
    BY <1>3 DEF Restorable, BackupsOK, contentVars
  <2> QED BY <2>1, TurnBackups
<1> QED BY <1>1, <1>2, <1>3 DEF Keeps

(* The call that has returned. *)
LEMMA IdleEnds ==
    /\ Backup!Idle \in DictCallType /\ Shaped(Backup!Idle)
    /\ Backup!Idle.pc \notin {"entries", "verify", "account"}
    /\ \A d, c, be, di, dr, b, ex : Labels(Backup!Idle, d, c, be, di, dr, b, ex)
    /\ \A d, be, l, h, hd, wh, b : Loads(Backup!Idle, d, be, l, h, hd, wh, b)
<1> PICK q : q = Backup!Idle OBVIOUS
<1>1. q \in DictCallType /\ q.pc = "idle" BY IdleCall
<1> QED BY <1>1, IdleHolds

(* The call returns, or ends. *)
LEMMA EndKeeps ==
    ASSUME BackupTypeOK, NEW w \in Caller, Solo(w), Backup!Returns(w), UNCHANGED contentVars
    PROVE  Keeps
<1>1. dictCall' = [dictCall EXCEPT ![w] = Backup!Idle] BY DEF Backup!Returns
<1> QED BY <1>1, IdleEnds, OnlyTheCall DEF LabelsOf

(* Two fields of a call at once. *)
LEMMA TwoFields ==
    ASSUME NEW f \in [Caller -> DictCallType], NEW w \in Caller, NEW was \in {<<>>} \cup Labelling,
           NEW pc \in {"write", "remove", "list", "append"}
    PROVE  [f EXCEPT ![w].was = was, ![w].pc = pc] = [f EXCEPT ![w] = [f[w] EXCEPT !.was = was, !.pc = pc]]
BY ZenonT(60) DEF DictCallType

LEMMA TwoFieldsBack ==
    ASSUME NEW f \in [Caller -> DictCallType], NEW w \in Caller, NEW was \in {<<>>} \cup Labelling,
           NEW pc \in {"write", "remove", "list", "append"}
    PROVE  [f EXCEPT ![w].pc = pc, ![w].was = was] = [f EXCEPT ![w] = [f[w] EXCEPT !.pc = pc, !.was = was]]
BY ZenonT(60) DEF DictCallType

-----------------------------------------------------------------------------
(* put, delete and rename begin. *)
LEMMA StartKeeps ==
    ASSUME BackupTypeOK, InTurn, NEW w \in Caller, NEW op \in {"put", "delete", "rename"}, NEW k \in DictKey,
           NEW to \in DictKey, op # "rename" => to = k,
           Backup!Starting(w, op, k, to), UNCHANGED Backup!backupVars,
           PlainDictionary => (op = "rename" => k # to /\ (Here(dict[k]) => Takes(dict, k, to)))
    PROVE  Keeps
<1>1. Solo(w) BY AtRest DEF Backup!Starting
<1>2. PICK q : q = [Backup!Idle EXCEPT !.op = op, !.pc = "get", !.key = k, !.to = to] OBVIOUS
<1>3. q \in DictCallType /\ q.pc = "get" /\ q.op = op /\ q.key = k /\ q.to = to
  BY <1>2 DEF Backup!Idle, Backup!Absent, DictCallType, KeyOrNone
<1>4. dictCall' = [dictCall EXCEPT ![w] = q] BY <1>2 DEF Backup!Starting
<1>5. UNCHANGED contentVars
  BY DEF Backup!Starting, Backup!contents, Backup!records, Backup!entries, Backup!counts, Backup!backupVars,
         contentVars
<1>6. Shaped(q) BY <1>3 DEF Shaped, Renames
<1>7. PlainDictionary => LabelsOf(q) BY <1>3 DEF LabelsOf, Labels, Renames
<1>8. WholeBackups => handle' # "old" BY DEF WholeBackups, Backup!Starting, Backup!UseHandle, Backup!May
<1>9. WholeBackups => Loads(q, records, behind, ledger, head, handle', whole, backup) BY <1>3, <1>8 DEF Loads
<1> QED BY <1>1, <1>3, <1>4, <1>5, <1>6, <1>7, <1>9, OnlyTheCall

LEMMA PutKeeps ==
    ASSUME BackupTypeOK, InTurn, NEW w \in Caller, NEW k \in DictKey, Backup!put(w, k), UNCHANGED Backup!backupVars
    PROVE  Keeps
<1>1. Backup!Starting(w, "put", k, k) BY DEF Backup!put
<1> QED BY <1>1, StartKeeps

LEMMA DeleteKeeps ==
    ASSUME BackupTypeOK, InTurn, NEW w \in Caller, NEW k \in DictKey, Backup!delete(w, k), UNCHANGED Backup!backupVars
    PROVE  Keeps
<1>1. Backup!Starting(w, "delete", k, k) BY DEF Backup!delete
<1> QED BY <1>1, StartKeeps

LEMMA RenameKeeps ==
    ASSUME BackupTypeOK, InTurn, NEW w \in Caller, NEW k \in DictKey, NEW to \in DictKey, Backup!rename(w, k, to),
           UNCHANGED Backup!backupVars
    PROVE  Keeps
<1>1. Backup!Starting(w, "rename", k, to) BY DEF Backup!rename
<1>2. ASSUME PlainDictionary PROVE k # to /\ (Here(dict[k]) => Takes(dict, k, to))
  <2>1. k # to /\ Backup!Free(k, to) BY <1>2 DEF Backup!rename, PlainDictionary, Backup!May
  <2>2. dict[k] \in {<<>>} \cup Labelling /\ dict[to] \in {<<>>} \cup Labelling
    BY DEF BackupTypeOK, StateOK, StateType, Book
  <2>3. Here(dict[to]) => dict[to][2] \in Nat BY <2>2 DEF Here, Labelling
  <2>4. None \notin Nat BY BackupAssumption DEF Backup!DictAssumption
  <2> QED
    BY <2>1, <2>3, <2>4 DEF Backup!Free, Backup!Labels, Backup!Exists, Backup!Absent, Takes, Here
<1> QED BY <1>1, <1>2, StartKeeps

(* The entry is read: delete and rename end when there is none. *)
LEMMA GetKeeps ==
    ASSUME BackupTypeOK, NEW w \in Caller, Backup!GetEntry(w), UNCHANGED Backup!backupVars
    PROVE  Keeps
<1> DEFINE k == dictCall[w]
<1>1. k.pc = "get" BY DEF Backup!GetEntry
<1>2. Solo(w) /\ k \in DictCallType /\ Shaped(k) BY <1>1, AtWork
<1>3. UNCHANGED contentVars /\ UNCHANGED handle
  BY DEF Backup!GetEntry, Backup!contents, Backup!records, Backup!entries, Backup!counts, Backup!backupVars,
         contentVars
<1>4. k.op \in {"put", "delete", "rename"} /\ k.key \in DictKey /\ k.to \in DictKey BY <1>1, <1>2 DEF Shaped
<1>5. CASE ~Backup!Exists(dict[k.key]) /\ k.op # "put"
  <2>1. Backup!Returns(w) BY <1>5 DEF Backup!GetEntry
  <2> QED BY <2>1, <1>2, <1>3, EndKeeps
<1>6. CASE ~(~Backup!Exists(dict[k.key]) /\ k.op # "put")
  <2>1. PICK pc \in {"write", "remove"} : pc = IF k.op = "delete" THEN "remove" ELSE "write" OBVIOUS
  <2>2. PICK q : q = [k EXCEPT !.was = dict[k.key], !.pc = pc] OBVIOUS
  <2>3. dict[k.key] \in {<<>>} \cup Labelling BY <1>4 DEF BackupTypeOK, StateOK, StateType, Book
  <2>4. dictCall' = [dictCall EXCEPT ![w].was = dict[k.key], ![w].pc = pc]
    BY <1>6, <2>1 DEF Backup!GetEntry
  <2>5. dictCall' = [dictCall EXCEPT ![w] = q]
    BY <2>2, <2>3, <2>4, TwoFields DEF BackupTypeOK, CallsType
  <2>6. /\ q \in DictCallType /\ q.pc = pc /\ q.was = dict[k.key]
        /\ q.op = k.op /\ q.key = k.key /\ q.to = k.to
    BY <1>2, <2>2, <2>3 DEF DictCallType
  <2>7. k.op # "put" => Here(dict[k.key]) BY <1>6 DEF Backup!Exists, Backup!Absent, Here
  <2>8. Shaped(q) BY <1>1, <1>2, <1>4, <2>1, <2>6, <2>7 DEF Shaped, Renames
  <2>9. ASSUME Labelled PROVE LabelsOf(q)
    <3>1. LabelsOf(k) BY <2>9 DEF Labelled
    <3> QED BY <3>1, <1>1, <1>4, <2>1, <2>6, <2>7 DEF LabelsOf, Labels, Renames
  <2>10. ASSUME Restorable PROVE Loads(q, records, behind, ledger, head, handle', whole, backup)
    <3>1. LoadsOf(k) BY <2>10 DEF Restorable
    <3> QED BY <3>1, <1>1, <1>3, <2>1, <2>6 DEF LoadsOf, Loads
  <2> HIDE DEF k
  <2> QED BY <1>2, <1>3, <2>1, <2>5, <2>6, <2>8, <2>9, <2>10, OnlyTheCall
<1> QED BY <1>5, <1>6

-----------------------------------------------------------------------------
(* The hash the next entry chains to. *)
LEMMA LastType ==
    ASSUME NEW l \in Seq(LedgerRow)
    PROVE  LastStamp(l) \in Nat \cup {None}
<1>1. CASE l = <<>> BY <1>1 DEF LastStamp
<1>2. CASE l # <<>>
  <2>1. Len(l) \in 1..Len(l) BY <1>2, EmptySeq
  <2>2. l[Len(l)] \in LedgerRow BY <2>1, ElementOfSeq
  <2> QED BY <1>2, <2>2 DEF LastStamp, LedgerRow
<1> QED BY <1>1, <1>2

(* What is appended to the ledger, through a handle on the ledger as it is    *)
(* or on that of before a load.                                              *)
LEMMA AppendTypes ==
    ASSUME BackupTypeOK, NEW old \in BOOLEAN, NEW op \in {"put", "delete"}, NEW c \in {"records", "_dict_"},
           NEW i \in Id \cup DictKey, NEW hash \in Nat, NEW stamp \in Nat,
           Backup!append(old, op, c, i, hash, stamp)
    PROVE  /\ ledger' \in Chain /\ head' \in HeadType /\ oldHead' \in HeadType
           /\ ~old /\ Leads(head, ledger) =>
                /\ ledger' = Append(ledger, [op |-> op, c |-> c, id |-> i, hash |-> hash,
                                             prev |-> LastStamp(ledger), stamp |-> stamp])
                /\ head' = [n |-> Len(ledger) + 1, stamp |-> stamp]
<1>0. ledger \in Seq(LedgerRow) /\ head \in HeadType /\ oldHead \in HeadType
  BY DEF BackupTypeOK, StateOK, StateType, Chain
<1>1. LastStamp(ledger) \in Nat \cup {None} BY <1>0, LastType
<1>2. PICK h0 : h0 = IF old THEN oldHead ELSE head OBVIOUS
<1>3. PICK h : h = Backup!getCachedHead(h0) OBVIOUS
<1>4. Len(ledger) \in Nat BY <1>0
<1>5. h = IF h0 = [n |-> 0, stamp |-> 0] THEN [n |-> Len(ledger), stamp |-> LastStamp(ledger)] ELSE h0
  BY <1>3 DEF Backup!getCachedHead, Backup!Unread, Backup!HeadAt, LastStamp
<1>6. h \in HeadType BY <1>0, <1>1, <1>2, <1>4, <1>5 DEF HeadType
<1>7. PICK e : e = [op |-> op, c |-> c, id |-> i, hash |-> hash, prev |-> h.stamp, stamp |-> stamp] OBVIOUS
<1>8. e \in LedgerRow BY <1>6, <1>7 DEF LedgerRow, HeadType
<1>9. ledger' = IF h.n = Len(ledger) THEN Append(ledger, e) ELSE [ledger EXCEPT ![h.n + 1] = e]
  BY <1>2, <1>3, <1>7 DEF Backup!append, Backup!Appended, Backup!LedgerEntry
<1>10. h.n + 1 \in Nat BY <1>6 DEF HeadType
<1>11. ledger' \in Seq(LedgerRow)
  <2>1. Append(ledger, e) \in Seq(LedgerRow) BY <1>0, <1>8
  <2>2. [ledger EXCEPT ![h.n + 1] = e] \in Seq(LedgerRow)
    <3>1. ledger \in [1..Len(ledger) -> LedgerRow] BY <1>0
    <3>2. [ledger EXCEPT ![h.n + 1] = e] \in [1..Len(ledger) -> LedgerRow] BY <3>1, <1>8, <1>10
    <3>3. PICK n \in Nat : n = Len(ledger) BY <1>4
    <3>4. [ledger EXCEPT ![h.n + 1] = e] \in [1..n -> LedgerRow] BY <3>2, <3>3
    <3>5. [1..n -> LedgerRow] \in {[1..k -> LedgerRow] : k \in Nat} OBVIOUS
    <3>6. Seq(LedgerRow) = UNION {[1..k -> LedgerRow] : k \in Nat} BY SeqDef
    <3> QED BY <3>4, <3>5, <3>6
  <2> QED BY <1>9, <2>1, <2>2
<1>12. IF old THEN oldHead' = [n |-> h.n + 1, stamp |-> stamp] /\ head' = head
              ELSE head' = [n |-> h.n + 1, stamp |-> stamp] /\ oldHead' = oldHead
  BY <1>2, <1>3 DEF Backup!append, Backup!HeadAt
<1>13. head' \in HeadType /\ oldHead' \in HeadType BY <1>0, <1>10, <1>12 DEF HeadType
<1>14. ASSUME ~old, Leads(head, ledger)
       PROVE  h = [n |-> Len(ledger), stamp |-> LastStamp(ledger)]
  BY <1>14, <1>2, <1>5 DEF Leads
<1>15. ASSUME ~old, Leads(head, ledger)
       PROVE  /\ ledger' = Append(ledger, [op |-> op, c |-> c, id |-> i, hash |-> hash,
                                           prev |-> LastStamp(ledger), stamp |-> stamp])
              /\ head' = [n |-> Len(ledger) + 1, stamp |-> stamp]
  BY <1>15, <1>14, <1>7, <1>9, <1>12
<1> QED BY <1>11, <1>13, <1>15 DEF Chain

(* The cached head follows what is appended. *)
LEMMA LeadsOn ==
    ASSUME NEW l \in Seq(LedgerRow), NEW e \in LedgerRow
    PROVE  Leads([n |-> Len(l) + 1, stamp |-> e.stamp], Append(l, e))
<1>1. Len(Append(l, e)) = Len(l) + 1 /\ Append(l, e)[Len(l) + 1] = e /\ Append(l, e) # <<>>
  OBVIOUS
<1> QED BY <1>1 DEF Leads, LastStamp

(* A later write, and records it leaves out of account. *)
LEMMA KeptOff ==
    ASSUME NEW m \in Nat, NEW later \in Nat, m <= later, NEW d, NEW x, NEW be, NEW off, NEW l \in Seq(LedgerRow),
           Kept(d, l, be, m), \A i \in Id \ off : i \notin be /\ x[i] = d[i]
    PROVE  Kept(x, l, off, later)
<1>1. \A n \in 1..Len(l) : l[n].stamp \in 1..later
  <2>1. ASSUME NEW n \in 1..Len(l) PROVE l[n].stamp \in 1..later
    <3>1. l[n].stamp \in 1..m BY <2>1 DEF Kept, Rising
    <3> QED BY <3>1
  <2> QED BY <2>1
<1>2. ASSUME NEW i \in Id \ off, Here(x[i])
      PROVE  x[i][2] \in 1..later /\ \E n \in 1..Len(l) : l[n].c = "records" /\ l[n].id = i /\ Latest(l, n)
  <2>1. i \in Id \ be /\ Here(d[i]) /\ x[i] = d[i] BY <1>2
  <2>2. d[i][2] \in 1..m BY <2>1 DEF Kept, Dated
  <2>3. \E n \in 1..Len(l) : l[n].c = "records" /\ l[n].id = i /\ Latest(l, n) BY <2>1 DEF Kept, Accounts
  <2> QED BY <2>1, <2>2, <2>3
<1>3. ASSUME NEW n \in 1..Len(l) PROVE Tells(l, n, x, off)
  <2>1. SUFFICES ASSUME l[n].c = "records", Latest(l, n), l[n].id \notin off
                 PROVE  IF l[n].op = "put" THEN Here(x[l[n].id]) /\ x[l[n].id][2] = l[n].hash ELSE ~Here(x[l[n].id])
    BY DEF Tells
  <2>2. l[n].id \in Id \ off BY <2>1 DEF Kept, Ided
  <2>3. l[n].id \notin be /\ x[l[n].id] = d[l[n].id] BY <2>2
  <2>4. Tells(l, n, d, be) BY DEF Kept, Accounts
  <2> QED BY <2>1, <2>3, <2>4 DEF Tells
<1>4. Accounts(x, l, off) BY <1>2, <1>3 DEF Accounts
<1>5. Rising(l, later) BY <1>1 DEF Kept, Rising
<1>6. Dated(x, off, later) BY <1>2 DEF Dated
<1> QED BY <1>4, <1>5, <1>6 DEF Kept

(* A backup is none the worse for a later write. *)
LEMMA BacksLater ==
    ASSUME NEW m \in Nat, NEW b \in BackupType, Backs(b, m)
    PROVE  Backs(b, m + 1)
<1>1. b.was[2] \in Seq(LedgerRow) BY DEF BackupType, Chain
<1>2. Kept(b.was[1], b.was[2], b.was[3], m + 1)
  <2>1. m + 1 \in Nat /\ m <= m + 1 OBVIOUS
  <2>2. Kept(b.was[1], b.was[2], b.was[3], m) BY DEF Backs
  <2> QED BY <1>1, <2>1, <2>2, KeptOff
<1> QED BY <1>2 DEF Backs

(* The ledger grows by one entry: the chain goes on, and every entry but that *)
(* of the same name is the latest of its own.                                *)
LEMMA ChainGrows ==
    ASSUME NEW l \in Seq(LedgerRow), NEW m \in Nat, NEW e \in LedgerRow, Chained(l), Rising(l, m), Ided(l),
           e.prev = LastStamp(l), e.stamp = m + 1, e.c = "records" => e.id \in Id
    PROVE  LET g == Append(l, e) IN
           /\ Chained(g) /\ Rising(g, m + 1) /\ Ided(g)
           /\ \A n \in 1..Len(l) :
                g[n] = l[n] /\ (Latest(g, n) <=> Latest(l, n) /\ ~(e.c = l[n].c /\ e.id = l[n].id))
           /\ Len(g) = Len(l) + 1 /\ g[Len(l) + 1] = e /\ Latest(g, Len(l) + 1)
<1> DEFINE g == Append(l, e)
<1>1. Len(g) = Len(l) + 1 /\ g[Len(l) + 1] = e /\ Len(l) \in Nat /\ \A n \in 1..Len(l) : g[n] = l[n]
  OBVIOUS
<1>2. 1..Len(g) = 1..Len(l) \cup {Len(l) + 1} BY <1>1
<1>3. LastStamp(l) = IF Len(l) = 0 THEN None ELSE l[Len(l)].stamp BY EmptySeq DEF LastStamp
<1> HIDE DEF g
<1>4. Chained(g)
  <2>1. ASSUME NEW n \in 1..Len(l) PROVE g[n].prev = IF n = 1 THEN None ELSE g[n - 1].stamp
    <3>1. n # 1 => n - 1 \in 1..Len(l) BY <1>1
    <3> QED BY <3>1, <1>1 DEF Chained
  <2>2. g[Len(l) + 1].prev = IF Len(l) + 1 = 1 THEN None ELSE g[Len(l) + 1 - 1].stamp
    <3>1. CASE Len(l) = 0 BY <3>1, <1>1, <1>3
    <3>2. CASE Len(l) # 0
      <4>1. Len(l) + 1 - 1 = Len(l) /\ Len(l) \in 1..Len(l) /\ Len(l) + 1 # 1 BY <3>2, <1>1
      <4> QED BY <4>1, <3>2, <1>1, <1>3
    <3> QED BY <3>1, <3>2
  <2> QED BY <2>1, <2>2, <1>2 DEF Chained
<1>5. Rising(g, m + 1)
  <2>1. ASSUME NEW n \in 1..Len(l) PROVE g[n].stamp \in 1..m
    BY <1>1 DEF Rising
  <2>2. ASSUME NEW n \in 1..Len(l), NEW k \in 1..Len(l), n < k PROVE g[n].stamp < g[k].stamp
    BY <2>2, <1>1 DEF Rising
  <2>3. g[Len(l) + 1].stamp = m + 1 BY <1>1
  <2>4. \A n \in 1..Len(g) : g[n].stamp \in 1..(m + 1)
    BY <2>1, <2>3, <1>2
  <2>5. ASSUME NEW n \in 1..Len(g), NEW k \in 1..Len(g), n < k PROVE g[n].stamp < g[k].stamp
    <3>1. n \in 1..Len(l) BY <2>5, <1>1
    <3>2. CASE k \in 1..Len(l) BY <3>1, <3>2, <2>2, <2>5
    <3>3. CASE k = Len(l) + 1 BY <3>1, <3>3, <2>1, <2>3
    <3> QED BY <3>2, <3>3, <1>2
  <2> QED BY <2>4, <2>5 DEF Rising
<1>6. Ided(g) BY <1>1, <1>2 DEF Ided
<1>7. ASSUME NEW n \in 1..Len(l)
      PROVE  Latest(g, n) <=> Latest(l, n) /\ ~(e.c = l[n].c /\ e.id = l[n].id)
  <2>1. g[n] = l[n] /\ n < Len(l) + 1 BY <1>1
  <2> QED BY <2>1, <1>1, <1>2 DEF Latest
<1>8. Latest(g, Len(l) + 1)
  <2>1. \A j \in 1..Len(g) : ~(Len(l) + 1 < j) BY <1>1
  <2> QED BY <2>1 DEF Latest
<1> QED BY <1>1, <1>4, <1>5, <1>6, <1>7, <1>8 DEF g

(* The ledger hears of a record that was put or deleted. *)
LEMMA RecordKept ==
    ASSUME NEW d \in Table, NEW l \in Seq(LedgerRow), NEW be, NEW m \in Nat, Kept(d, l, be, m), NEW i \in Id,
           NEW e \in LedgerRow, e.c = "records", e.id = i, e.prev = LastStamp(l), e.stamp = m + 1,
           IF e.op = "put" THEN Here(d[i]) /\ d[i][2] \in 1..m /\ e.hash = d[i][2] ELSE ~Here(d[i])
    PROVE  Kept(d, Append(l, e), be \ {i}, m + 1)
<1> DEFINE g == Append(l, e)
<1>1. /\ Chained(g) /\ Rising(g, m + 1) /\ Ided(g)
      /\ \A n \in 1..Len(l) :
           g[n] = l[n] /\ (Latest(g, n) <=> Latest(l, n) /\ ~(e.c = l[n].c /\ e.id = l[n].id))
      /\ Len(g) = Len(l) + 1 /\ g[Len(l) + 1] = e /\ Latest(g, Len(l) + 1)
  BY ChainGrows DEF Kept
<1>2. PICK off : off = be \ {i} OBVIOUS
<1>3. 1..Len(g) = 1..Len(l) \cup {Len(l) + 1} BY <1>1
<1> HIDE DEF g
<1>4. ASSUME NEW n \in 1..Len(g) PROVE Tells(g, n, d, off)
  <2>1. CASE n = Len(l) + 1 BY <2>1, <1>1 DEF Tells
  <2>2. CASE n \in 1..Len(l)
    <3> SUFFICES ASSUME g[n].c = "records", Latest(g, n), g[n].id \notin off
                 PROVE  IF g[n].op = "put" THEN Here(d[g[n].id]) /\ d[g[n].id][2] = g[n].hash ELSE ~Here(d[g[n].id])
      BY DEF Tells
    <3>1. g[n] = l[n] /\ Latest(l, n) /\ l[n].c = "records" /\ l[n].id # i BY <2>2, <1>1
    <3>2. l[n].id \notin be BY <3>1, <1>2
    <3>3. Tells(l, n, d, be) BY <2>2 DEF Kept, Accounts
    <3> QED BY <3>1, <3>2, <3>3 DEF Tells
  <2> QED BY <2>1, <2>2, <1>3
<1>5. ASSUME NEW j \in Id \ off, Here(d[j])
      PROVE  /\ \E n \in 1..Len(g) : g[n].c = "records" /\ g[n].id = j /\ Latest(g, n)
             /\ d[j][2] \in 1..(m + 1)
  <2>1. CASE j = i BY <2>1, <1>1, <1>3, <1>5
  <2>2. CASE j # i
    <3>1. j \in Id \ be BY <2>2, <1>2, <1>5
    <3>2. PICK n \in 1..Len(l) : l[n].c = "records" /\ l[n].id = j /\ Latest(l, n)
      BY <3>1, <1>5 DEF Kept, Accounts
    <3>3. d[j][2] \in 1..m BY <3>1, <1>5 DEF Kept, Dated
    <3>4. d[j][2] \in 1..(m + 1) BY <3>3
    <3>5. g[n].c = "records" /\ g[n].id = j /\ Latest(g, n) /\ n \in 1..Len(g) BY <3>2, <2>2, <1>1, <1>3
    <3> QED BY <3>4, <3>5
  <2> QED BY <2>1, <2>2
<1>6. Kept(d, g, off, m + 1) BY <1>1, <1>4, <1>5 DEF Kept, Accounts, Dated
<1> QED BY <1>2, <1>6 DEF g

(* The ledger gets an entry of the dictionary. *)
LEMMA EntryKept ==
    ASSUME NEW d \in Table, NEW l \in Seq(LedgerRow), NEW be, NEW m \in Nat, Kept(d, l, be, m),
           NEW e \in LedgerRow, e.c = "_dict_", e.prev = LastStamp(l), e.stamp = m + 1
    PROVE  Kept(d, Append(l, e), be, m + 1)
<1> DEFINE g == Append(l, e)
<1>1. /\ Chained(g) /\ Rising(g, m + 1) /\ Ided(g)
      /\ \A n \in 1..Len(l) :
           g[n] = l[n] /\ (Latest(g, n) <=> Latest(l, n) /\ ~(e.c = l[n].c /\ e.id = l[n].id))
      /\ Len(g) = Len(l) + 1 /\ g[Len(l) + 1] = e /\ Latest(g, Len(l) + 1)
  BY ChainGrows DEF Kept
<1>3. 1..Len(g) = 1..Len(l) \cup {Len(l) + 1} BY <1>1
<1> HIDE DEF g
<1>4. ASSUME NEW n \in 1..Len(g) PROVE Tells(g, n, d, be)
  <2>1. CASE n = Len(l) + 1 BY <2>1, <1>1 DEF Tells
  <2>2. CASE n \in 1..Len(l) BY <2>2, <1>1 DEF Tells, Kept, Accounts
  <2> QED BY <2>1, <2>2, <1>3
<1>5. ASSUME NEW j \in Id \ be, Here(d[j])
      PROVE  \E n \in 1..Len(g) : g[n].c = "records" /\ g[n].id = j /\ Latest(g, n)
  <2>1. PICK n \in 1..Len(l) : l[n].c = "records" /\ l[n].id = j /\ Latest(l, n)
    BY <1>5 DEF Kept, Accounts
  <2> QED BY <2>1, <1>1, <1>3
<1>6. Dated(d, be, m + 1)
  <2>1. ASSUME NEW j \in Id \ be, Here(d[j]) PROVE d[j][2] \in 1..(m + 1)
    <3>1. d[j][2] \in 1..m BY <2>1 DEF Kept, Dated
    <3> QED BY <3>1
  <2> QED BY <2>1 DEF Dated
<1>7. Kept(d, g, be, m + 1) BY <1>1, <1>4, <1>5, <1>6 DEF Kept, Accounts
<1> QED BY <1>7 DEF g

-----------------------------------------------------------------------------
(* Nothing is in flight after the step. *)
LEMMA RestKeeps ==
    ASSUME dictCall' \in [Caller -> DictCallType], \A w \in Caller : dictCall'[w].pc = "idle", StateOK',
           PlainDictionary /\ Labelled => LabelsOK', WholeBackups /\ Restorable => BackupsOK'
    PROVE  Keeps
<1>1. \A w \in Caller : /\ Shaped(dictCall'[w]) /\ Pending(dictCall'[w], records', behind', writes')
                        /\ dictCall'[w].pc \notin {"entries", "verify"}
  BY IdleHolds
<1>2. Lone(dictCall') BY DEF Lone
<1>3. BackupTypeOK' BY <1>1, <1>2 DEF BackupTypeOK, CallsType
<1>4. \A w \in Caller : LabelsOf(dictCall[w])' BY IdleHolds DEF LabelsOf
<1>5. \A w \in Caller : LoadsOf(dictCall[w])' BY IdleHolds DEF LoadsOf
<1> QED BY <1>3, <1>4, <1>5 DEF Keeps, Labelled, Restorable

(* A write of the store, the ledger is as it was. *)
LEMMA WriteLater ==
    ASSUME StateOK, BackupsOK, writes' = writes + 1, UNCHANGED <<ledger, head, whole, backup>>,
           \A i \in Id \ behind' : i \notin behind /\ records'[i] = records[i]
    PROVE  BackupsOK'
<1>1. ledger \in Seq(LedgerRow) /\ writes \in Nat BY DEF StateOK, StateType, Chain
<1>2. backup.made => backup \in BackupType BY DEF StateOK, StateType, Backup!NoBackup
<1>3. whole => Kept(records', ledger, behind', writes + 1)
  <2>1. ASSUME whole PROVE Kept(records', ledger, behind', writes + 1)
    <3>1. Kept(records, ledger, behind, writes) BY <2>1 DEF BackupsOK, BackupsHold
    <3>2. writes + 1 \in Nat /\ writes <= writes + 1 BY <1>1
    <3> QED BY <3>1, <3>2, <1>1, KeptOff
  <2> QED BY <2>1
<1>4. backup.made => Backs(backup, writes + 1) BY <1>1, <1>2, BacksLater DEF BackupsOK, BackupsHold
<1> QED BY <1>3, <1>4 DEF BackupsOK, BackupsHold

(* A record is put or deleted in the store: by an application or a rename. *)
LEMMA WroteKeeps ==
    ASSUME BackupTypeOK, NEW w \in Caller, Solo(w), NEW k \in DictCallType, NEW i \in Id, NEW r \in {<<>>} \cup Row,
           Backup!Wrote(w, k, i, r), UNCHANGED Backup!backupVars,
           Here(r) => r[2] = writes + 1, k.op \in {"record", "rename"},
           k.op = "rename" => /\ k.key \in DictKey /\ k.to \in DictKey /\ k.todo \subseteq Id
                              /\ Here(k.was) /\ Here(r) /\ r[1] = k.to,
           PlainDictionary /\ Labelled =>
             /\ Here(r) => r[1] \in Shown(dict)
             /\ k.op = "rename" =>
                  /\ k.key # k.to /\ k.was = dict[k.to]
                  /\ Left(records, k.key, k.todo \cup {i}, behind) /\ Left(held, k.key, k.todo \cup {i}, behind),
           WholeBackups /\ Restorable => (k.op = "rename" => handle # "old")
    PROVE  Keeps
<1>0. StateOK BY DEF BackupTypeOK
<1>1. /\ records' = [records EXCEPT ![i] = r] /\ behind' = behind \cup {i} /\ writes' = writes + 1
      /\ UNCHANGED <<held, dict, dropped, ledger, head, oldHead, syncCache, declared, handle, backup, exported, whole>>
  BY DEF Backup!Wrote, Backup!Stamp, Backup!entries, Backup!ledgers, Backup!counts, Backup!backupVars
<1>2. PICK q : q = [k EXCEPT !.pc = "account", !.rec = i, !.wrote = r] OBVIOUS
<1>3. /\ q \in DictCallType /\ q.pc = "account" /\ q.rec = i /\ q.wrote = r /\ q.op = k.op
      /\ q.key = k.key /\ q.to = k.to /\ q.was = k.was /\ q.todo = k.todo
  BY <1>2 DEF DictCallType
<1>4. dictCall' = [dictCall EXCEPT ![w] = q] BY <1>2 DEF Backup!Wrote
<1>5. /\ records \in Table /\ records' \in Table /\ records'[i] = r /\ writes \in Nat /\ behind' \subseteq Id
      /\ \A j \in Id : j # i => records'[j] = records[j]
  BY <1>0, <1>1 DEF StateOK, StateType, Table
<1>6. StateOK' BY <1>0, <1>1, <1>5 DEF StateOK, StateType
<1>7. Shaped(q) BY <1>3 DEF Shaped, Renames
<1>8. Pending(q, records', behind', writes')
  <2>1. Here(r) => r[2] \in 1..(writes + 1) BY <1>5
  <2> QED BY <2>1, <1>1, <1>3, <1>5 DEF Pending
<1>9. BackupTypeOK'
  <2>1. q.pc \notin {"entries", "verify"} BY <1>3
  <2> QED BY <2>1, <1>3, <1>4, <1>6, <1>7, <1>8, TurnTypes
<1>10. ASSUME PlainDictionary, Labelled PROVE Labelled'
  <2>1. LabelsOK BY <1>10 DEF Labelled
  <2>2. Here(r) => r[1] \in Shown(dict) BY <1>10
  <2>3. Resolved(records', dict, behind', dropped)
    BY <2>1, <2>2, <1>1, <1>5 DEF LabelsOK, LabelsHold, Resolved
  <2>4. Resolved(held, dict, behind', dropped) BY <2>1, <1>1 DEF LabelsOK, LabelsHold, Resolved
  <2>5. Known(records', held, behind') BY <2>1, <1>1, <1>5 DEF LabelsOK, LabelsHold, Known
  <2>6. LabelsOK' BY <2>1, <2>3, <2>4, <2>5, <1>1 DEF LabelsOK, LabelsHold
  <2>7. ASSUME k.op = "rename"
        PROVE  /\ k.key # k.to /\ k.was = dict[k.to]
               /\ Left(records', k.key, k.todo, behind') /\ Left(held, k.key, k.todo, behind')
    <3>1. /\ k.key # k.to /\ k.was = dict[k.to]
          /\ Left(records, k.key, k.todo \cup {i}, behind) /\ Left(held, k.key, k.todo \cup {i}, behind)
      BY <2>7, <1>10
    <3>2. Left(records', k.key, k.todo, behind') BY <3>1, <1>1, <1>5 DEF Left
    <3>3. Left(held, k.key, k.todo, behind') BY <3>1, <1>1 DEF Left
    <3> QED BY <3>1, <3>2, <3>3
  <2>8. Labels(q, records', held', behind', dict', dropped', backup', exported')
    BY <2>2, <2>7, <1>1, <1>3 DEF Labels, Renames
  <2> QED BY <1>3, <1>4, <2>6, <2>8, TurnLabels
<1>11. ASSUME WholeBackups, Restorable PROVE Restorable'
  <2>1. BackupsOK' BY <1>0, <1>1, <1>5, <1>11, WriteLater DEF Restorable
  <2>2. Loads(q, records', behind', ledger', head', handle', whole', backup') BY <1>1, <1>3, <1>11 DEF Loads
  <2> QED BY <1>3, <1>4, <2>1, <2>2, TurnBackups
<1> QED BY <1>9, <1>10, <1>11 DEF Keeps

(* An application puts a record, of a key the dictionary has, or deletes one. *)
LEMMA FirstCall ==
    ASSUME NEW k, k = [Backup!Idle EXCEPT !.op = "record"]
    PROVE  k \in DictCallType /\ k.op = "record"
BY DEF Backup!Idle, Backup!Absent, DictCallType, KeyOrNone

LEMMA PutRecordKeeps ==
    ASSUME BackupTypeOK, InTurn, NEW w \in Caller, NEW i \in Id, NEW k \in DictKey \cup {None},
           Backup!PutRecord(w, i, k), UNCHANGED Backup!backupVars
    PROVE  Keeps
<1>1. Solo(w) BY AtRest DEF Backup!PutRecord
<1>2. PICK q : q = [Backup!Idle EXCEPT !.op = "record"] OBVIOUS
<1>3. q \in DictCallType /\ q.op = "record" BY <1>2, FirstCall
<1>4. PICK m \in Nat : m = writes + 1 BY DEF BackupTypeOK, StateOK, StateType
<1>5. PICK r : r = <<k, m>> OBVIOUS
<1>6. r \in {<<>>} \cup Row /\ Here(r) /\ r[1] = k /\ r[2] = writes + 1 BY <1>4, <1>5 DEF Row, KeyOrNone, Here
<1>7. Backup!Wrote(w, q, i, r) BY <1>2, <1>4, <1>5 DEF Backup!PutRecord, Backup!Record, Backup!Stamp
<1>8. k \in Shown(dict)
  BY DEF Backup!PutRecord, Backup!Usable, Backup!Exists, Backup!Absent, Shown, Here
<1> QED BY <1>1, <1>3, <1>6, <1>7, <1>8, WroteKeeps

LEMMA DeleteRecordKeeps ==
    ASSUME BackupTypeOK, InTurn, NEW w \in Caller, NEW i \in Id, Backup!DeleteRecord(w, i),
           UNCHANGED Backup!backupVars
    PROVE  Keeps
<1>1. Solo(w) BY AtRest DEF Backup!DeleteRecord
<1>2. PICK q : q = [Backup!Idle EXCEPT !.op = "record"] OBVIOUS
<1>3. q \in DictCallType /\ q.op = "record" BY <1>2, FirstCall
<1>4. Backup!Wrote(w, q, i, <<>>) BY <1>2 DEF Backup!DeleteRecord, Backup!Absent
<1>5. ~Here(<<>>) BY DEF Here
<1> QED BY <1>1, <1>3, <1>4, <1>5, WroteKeeps

(* The end of a put or delete: the ledger's entry, and with it the cache. *)
LEMMA AccountKeeps ==
    ASSUME BackupTypeOK, NEW w \in Caller, Backup!AccountRecord(w), UNCHANGED Backup!backupVars
    PROVE  Keeps
<1> DEFINE k == dictCall[w]
<1>1. k.pc = "account" BY DEF Backup!AccountRecord
<1>2. Solo(w) /\ k \in DictCallType /\ Shaped(k) /\ Pending(k, records, behind, writes) /\ StateOK BY <1>1, AtWork
<1>3. /\ UNCHANGED <<records, dict, dropped, syncCache, declared, handle, backup, exported, whole>>
      /\ held' = [held EXCEPT ![k.rec] = k.wrote] /\ behind' = behind \ {k.rec} /\ writes' = writes + 1
  BY DEF Backup!AccountRecord, Backup!entries, Backup!counts, Backup!backupVars, Backup!Stamp
<1>4. /\ k.rec \in Id /\ records[k.rec] = k.wrote /\ k.rec \in behind /\ k.wrote \in {<<>>} \cup Row
      /\ Here(k.wrote) => k.wrote[2] \in 1..writes
      /\ k.op \in {"record", "rename"}
  BY <1>1, <1>2 DEF Pending, Shaped, DictCallType
<1>5. PICK q : q = IF k.op = "record" THEN Backup!Idle
                   ELSE [k EXCEPT !.pc = "update", !.rec = None, !.wrote = <<>>]
  OBVIOUS
<1>6. dictCall' = [dictCall EXCEPT ![w] = q] BY <1>5 DEF Backup!AccountRecord, Backup!Absent
<1>7. \/ q = Backup!Idle
      \/ /\ k.op = "rename" /\ q.pc = "update" /\ q.op = "rename" /\ q.key = k.key /\ q.to = k.to
         /\ q.was = k.was /\ q.todo = k.todo /\ q \in DictCallType
  <2>1. CASE k.op = "record" BY <2>1, <1>5
  <2>2. CASE k.op = "rename"
    <3>1. q = [k EXCEPT !.pc = "update", !.rec = None, !.wrote = <<>>] BY <2>2, <1>5
    <3> QED BY <2>2, <3>1, <1>2 DEF DictCallType
  <2> QED BY <2>1, <2>2, <1>4
<1>8. Shaped(q) /\ q \in DictCallType /\ q.pc \notin {"entries", "verify", "account"}
  <2>1. CASE q = Backup!Idle BY <2>1, IdleEnds
  <2>2. CASE q # Backup!Idle BY <2>2, <1>1, <1>2, <1>7 DEF Shaped, Renames
  <2> QED BY <2>1, <2>2
<1>9. /\ held' \in Table /\ held'[k.rec] = k.wrote /\ \A j \in Id : j # k.rec => held'[j] = held[j]
      /\ writes \in Nat /\ ledger \in Seq(LedgerRow) /\ records \in Table
  BY <1>2, <1>3, <1>4 DEF StateOK, StateType, Table, Chain
<1>10. PICK op \in {"put", "delete"} : op = IF Here(k.wrote) THEN "put" ELSE "delete" OBVIOUS
<1>11. PICK hash : hash = IF Here(k.wrote) THEN k.wrote[2] ELSE 0 OBVIOUS
<1>12. hash \in Nat BY <1>4, <1>11
<1>13. PICK m \in Nat : m = writes + 1 BY <1>9
<1>14. Backup!append(FALSE, op, "records", k.rec, hash, m)
  BY <1>10, <1>11, <1>13 DEF Backup!AccountRecord, Backup!Exists, Backup!Absent, Backup!Stamp, Here
<1>15. PICK e : e = [op |-> op, c |-> "records", id |-> k.rec, hash |-> hash, prev |-> LastStamp(ledger), stamp |-> m]
  OBVIOUS
<1>16. /\ ledger' \in Chain /\ head' \in HeadType /\ oldHead' \in HeadType
       /\ Leads(head, ledger) => ledger' = Append(ledger, e) /\ head' = [n |-> Len(ledger) + 1, stamp |-> m]
  <2>1. k.rec \in Id \cup DictKey /\ "records" \in {"records", "_dict_"} /\ FALSE \in BOOLEAN BY <1>4
  <2> HIDE DEF k
  <2> QED BY <2>1, <1>12, <1>14, <1>15, AppendTypes
<1> HIDE DEF k
<1>17. BackupTypeOK'
  <2>1. behind' \subseteq Id BY <1>2, <1>3 DEF StateOK, StateType
  <2>2. StateOK' BY <2>1, <1>2, <1>3, <1>9, <1>13, <1>16 DEF StateOK, StateType
  <2> QED BY <2>2, <1>2, <1>6, <1>8, TurnTypes
<1>18. ASSUME PlainDictionary, Labelled PROVE Labelled'
  <2>1. LabelsOK /\ LabelsOf(k) BY <1>18 DEF Labelled, k
  <2>2. Here(k.wrote) => k.wrote[1] \in Shown(dict) BY <2>1, <1>1 DEF LabelsOf, Labels
  <2>3. Resolved(records, dict, behind', dropped)
    BY <2>1, <2>2, <1>3, <1>4 DEF LabelsOK, LabelsHold, Resolved
  <2>4. Resolved(held', dict, behind', dropped)
    BY <2>1, <2>2, <1>3, <1>9 DEF LabelsOK, LabelsHold, Resolved
  <2>5. Known(records, held', behind') BY <2>1, <1>3, <1>4, <1>9 DEF LabelsOK, LabelsHold, Known
  <2>6. LabelsOK' BY <2>1, <2>3, <2>4, <2>5, <1>3 DEF LabelsOK, LabelsHold
  <2>7. Labels(q, records', held', behind', dict', dropped', backup', exported')
    <3>1. CASE q = Backup!Idle BY <3>1, IdleEnds
    <3>2. CASE q # Backup!Idle
      <4>1. /\ k.op = "rename" /\ q.pc = "update" /\ q.op = "rename" /\ q.key = k.key /\ q.to = k.to
            /\ q.was = k.was /\ q.todo = k.todo
        BY <3>2, <1>7
      <4>2. /\ k.key # k.to /\ k.was = dict[k.to]
            /\ Left(records, k.key, k.todo, behind) /\ Left(held, k.key, k.todo, behind)
        BY <4>1, <2>1, <1>1 DEF LabelsOf, Labels, Renames
      <4>3. k.wrote[1] # k.key BY <4>1, <4>2, <1>1, <1>2 DEF Shaped
      <4>4. Left(records, k.key, k.todo, behind') BY <4>2, <4>3, <1>3, <1>4 DEF Left
      <4>5. Left(held', k.key, k.todo, behind') BY <4>2, <4>3, <1>3, <1>9 DEF Left
      <4> QED BY <4>1, <4>2, <4>4, <4>5, <1>3 DEF Labels, Renames
    <3> QED BY <3>1, <3>2
  <2> QED BY <2>6, <2>7, <1>2, <1>6, <1>8, TurnLabels
<1>19. ASSUME WholeBackups, Restorable PROVE Restorable'
  <2>1. BackupsOK /\ LoadsOf(k) BY <1>19 DEF Restorable, k
  <2>2. ledger' = Append(ledger, e) /\ head' = [n |-> Len(ledger) + 1, stamp |-> e.stamp]
    BY <2>1, <1>15, <1>16 DEF BackupsOK, BackupsHold
  <2>3. e \in LedgerRow /\ e.prev = LastStamp(ledger) /\ e.stamp = writes + 1 /\ e.c = "records"
        /\ e.id = k.rec /\ e.op = op /\ e.hash = hash
    <3>1. LastStamp(ledger) \in Nat \cup {None} BY <1>9, LastType
    <3> QED BY <3>1, <1>4, <1>12, <1>13, <1>15 DEF LedgerRow
  <2>4. Leads(head', ledger') BY <2>2, <2>3, <1>9, LeadsOn
  <2>5. ASSUME whole PROVE Kept(records, ledger', behind', writes')
    <3>1. Kept(records, ledger, behind, writes) BY <2>1, <2>5 DEF BackupsOK, BackupsHold
    <3>2. IF e.op = "put" THEN Here(records[k.rec]) /\ records[k.rec][2] \in 1..writes /\ e.hash = records[k.rec][2]
          ELSE ~Here(records[k.rec])
      BY <2>3, <1>4, <1>10, <1>11
    <3>3. Kept(records, Append(ledger, e), behind \ {k.rec}, writes + 1)
      BY <3>1, <3>2, <2>3, <1>4, <1>9, RecordKept
    <3> QED BY <3>3, <2>2, <1>3
  <2>6. backup.made => Backs(backup, writes + 1)
    <3>1. backup.made => backup \in BackupType BY <1>2 DEF StateOK, StateType, Backup!NoBackup
    <3> QED BY <3>1, <2>1, <1>9, BacksLater DEF BackupsOK, BackupsHold
  <2>7. BackupsOK' BY <2>4, <2>5, <2>6, <1>3 DEF BackupsOK, BackupsHold
  <2>8. Loads(q, records', behind', ledger', head', handle', whole', backup')
    <3>1. CASE q = Backup!Idle BY <3>1, IdleEnds
    <3>2. CASE q # Backup!Idle BY <3>2, <2>1, <1>1, <1>3, <1>7 DEF LoadsOf, Loads
    <3> QED BY <3>1, <3>2
  <2> QED BY <2>7, <2>8, <1>2, <1>6, <1>8, TurnBackups
<1> QED BY <1>17, <1>18, <1>19 DEF Keeps

-----------------------------------------------------------------------------
(* findAndUpdateReferences begins: two fields of its call. *)
LEMMA UpdateFields ==
    ASSUME NEW f \in [Caller -> DictCallType], NEW w \in Caller, NEW t \in SUBSET (Id \cup DictKey)
    PROVE  [f EXCEPT ![w].pc = "update", ![w].todo = t] =
             [f EXCEPT ![w] = [f[w] EXCEPT !.pc = "update", !.todo = t]]
BY ZenonT(60) DEF DictCallType

(* A call with another step and another entry. *)
Noting(k, pc, x) == [k EXCEPT !.pc = pc, !.was = x]
LEMMA Noted ==
    ASSUME NEW k \in DictCallType, NEW x \in Labelling, NEW pc \in {"append", "list"}
    PROVE  /\ Noting(k, pc, x) \in DictCallType /\ Noting(k, pc, x).pc = pc /\ Noting(k, pc, x).was = x
           /\ Noting(k, pc, x).op = k.op /\ Noting(k, pc, x).key = k.key /\ Noting(k, pc, x).to = k.to
<1> DEFINE m == [k EXCEPT !.pc = pc]
<1>1. x \in {<<>>} \cup Labelling OBVIOUS
<1>2. m \in DictCallType BY DEF DictCallType
<1>3. Noting(k, pc, x) = [m EXCEPT !.was = x] BY DEF Noting
<1>4. Noting(k, pc, x) \in DictCallType
  <2> HIDE DEF m
  <2> QED BY <1>1, <1>2, <1>3 DEF DictCallType
<1>5. /\ Noting(k, pc, x).pc = pc /\ Noting(k, pc, x).was = x
      /\ Noting(k, pc, x).op = k.op /\ Noting(k, pc, x).key = k.key /\ Noting(k, pc, x).to = k.to
  BY ZenonT(30) DEF DictCallType, Noting
<1> QED BY <1>4, <1>5

(* put and rename write the entry: of a key that has no other labels. *)
LEMMA WriteKeeps ==
    ASSUME BackupTypeOK, NEW w \in Caller, Backup!WriteEntry(w), UNCHANGED Backup!backupVars
    PROVE  Keeps
<1> DEFINE k == dictCall[w]
<1>1. k.pc = "write" BY DEF Backup!WriteEntry
<1>2. Solo(w) /\ k \in DictCallType /\ Shaped(k) /\ StateOK BY <1>1, AtWork
<1>3. UNCHANGED <<records, held, behind, ledger, declared, head, oldHead, backup, exported, whole, handle>>
  BY DEF Backup!WriteEntry, Backup!records, Backup!ledgers, Backup!counts, Backup!backupVars
<1>4. k.op \in {"put", "rename"} /\ k.key \in DictKey /\ k.to \in DictKey
      /\ (k.op = "put" => k.to = k.key) /\ (k.op = "rename" => Here(k.was))
  BY <1>1, <1>2 DEF Shaped
<1>5. CASE Backup!Conflicts(k)
  <2>1. Backup!Returns(w) /\ UNCHANGED contentVars
    BY <1>3, <1>5 DEF Backup!WriteEntry, Backup!entries, contentVars
  <2> QED BY <2>1, <1>2, EndKeeps
<1>6. CASE ~Backup!Conflicts(k)
  <2>1. PICK v : v = IF k.op = "put" /\ Backup!Exists(k.was) THEN k.was[1] + 1 ELSE 1 OBVIOUS
  <2>2. PICK labels : labels = IF k.op = "put" THEN writes + 1 ELSE k.was[2] OBVIOUS
  <2>3. k.was \in {<<>>} \cup Labelling /\ writes \in Nat BY <1>2 DEF DictCallType, StateOK, StateType
  <2>4. v \in Nat
    <3>1. k.was # <<>> => k.was[1] \in Nat BY <2>3 DEF Labelling
    <3> QED BY <2>1, <3>1 DEF Backup!Exists, Backup!Absent
  <2>5. labels \in Nat
    <3>1. k.was # <<>> => k.was[2] \in Nat BY <2>3 DEF Labelling
    <3> QED BY <2>2, <2>3, <3>1, <1>4 DEF Here
  <2>6. PICK x : x = <<v, labels>> OBVIOUS
  <2>7. x \in Labelling /\ Here(x) /\ x[2] = labels BY <2>4, <2>5, <2>6 DEF Labelling, Here
  <2>8. PICK pc \in {"append", "list"} : pc = IF k.op = "put" THEN "append" ELSE "list" OBVIOUS
  <2>9. /\ dict' = [dict EXCEPT ![k.to] = x] /\ dropped' = dropped \ {k.to} /\ writes' = writes + 1
        /\ syncCache' = IF k.op = "put" THEN [syncCache EXCEPT ![k.to] = <<labels>>] ELSE syncCache
        /\ dictCall' = [dictCall EXCEPT ![w].pc = pc, ![w].was = dict'[k.to]]
    BY <1>6, <2>1, <2>2, <2>6, <2>8 DEF Backup!WriteEntry, Backup!Entry, Backup!Stamp, Backup!AfterWrite
  <2>10. dict' \in Book /\ dict'[k.to] = x /\ \A j \in DictKey : j # k.to => dict'[j] = dict[j]
    BY <1>2, <1>4, <2>7, <2>9 DEF StateOK, StateType, Book
  <2>11. PICK q : q = Noting(k, pc, x) OBVIOUS
  <2>12. dictCall' = [dictCall EXCEPT ![w] = q]
    <3>1. dictCall' = [dictCall EXCEPT ![w].pc = pc, ![w].was = x] BY <2>9, <2>10
    <3>2. x \in {<<>>} \cup Labelling /\ pc \in {"write", "remove", "list", "append"} BY <2>7
    <3>3. dictCall \in [Caller -> DictCallType] BY DEF BackupTypeOK, CallsType
    <3>4. [dictCall EXCEPT ![w].pc = pc, ![w].was = x] =
             [dictCall EXCEPT ![w] = [dictCall[w] EXCEPT !.pc = pc, !.was = x]]
      BY <3>2, <3>3, TwoFieldsBack
    <3> QED BY <3>1, <3>4, <2>11 DEF Noting
  <2>13. q \in DictCallType /\ q.pc = pc /\ q.was = x /\ q.op = k.op /\ q.key = k.key /\ q.to = k.to
    <3>1. k \in DictCallType BY <1>2
    <3>2. x \in Labelling BY <2>7
    <3>3. pc \in {"append", "list"} OBVIOUS
    <3> HIDE DEF k
    <3>4. Noting(k, pc, x) \in DictCallType BY <3>1, <3>2, <3>3, Noted
    <3> QED BY <3>1, <3>2, <3>3, <3>4, <2>11, Noted
  <2>14. <<labels>> \in Seq(Nat) BY <2>5
  <2>15. syncCache' \in Mirror /\ writes' \in Nat
    BY <1>2, <1>4, <2>3, <2>9, <2>14 DEF StateOK, StateType, Mirror
  <2>16. Shaped(q) BY <1>4, <2>7, <2>8, <2>13 DEF Shaped, Renames
  <2> HIDE DEF k
  <2>17. BackupTypeOK'
    <3>1. q.pc \notin {"entries", "verify", "account"} BY <2>8, <2>13
    <3>2. StateOK' BY <1>2, <1>3, <2>9, <2>10, <2>15 DEF StateOK, StateType
    <3> QED BY <1>2, <2>12, <2>13, <2>16, <3>1, <3>2, TurnTypes
  <2>18. ASSUME PlainDictionary, Labelled PROVE Labelled'
    <3>1. LabelsOK /\ LabelsOf(k) BY <2>18 DEF Labelled, k
    <3>2. k.op = "rename" => k.was = dict[k.key] /\ k.key # k.to /\ Takes(dict, k.key, k.to)
      BY <1>1, <3>1 DEF LabelsOf, Labels
    <3>3. Shown(dict) \subseteq Shown(dict') /\ k.to \in Shown(dict') BY <2>7, <2>10, <1>4 DEF Shown
    <3>4. /\ Resolved(records, dict', behind, dropped') /\ Resolved(held, dict', behind, dropped')
      BY <2>9, <3>1, <3>3 DEF LabelsOK, LabelsHold, Resolved
    <3>5. ASSUME NEW j \in DictKey, Here(syncCache'[j])
          PROVE  Here(dict'[j]) /\ syncCache'[j] = <<dict'[j][2]>>
      <4>1. CASE j # k.to
        <5>1. syncCache'[j] = syncCache[j] BY <4>1, <1>2, <1>4, <2>9 DEF StateOK, StateType, Mirror
        <5> QED BY <5>1, <4>1, <2>10, <3>1, <3>5 DEF LabelsOK, LabelsHold, Mirrored
      <4>2. CASE j = k.to /\ k.op = "put"
        <5>1. syncCache'[j] = <<labels>> BY <4>2, <1>2, <1>4, <2>9 DEF StateOK, StateType, Mirror
        <5> QED BY <5>1, <4>2, <2>7, <2>10
      <4>3. CASE j = k.to /\ k.op = "rename"
        <5>1. Here(dict[j]) /\ syncCache'[j] = <<dict[j][2]>>
          BY <4>3, <2>9, <3>1, <3>5 DEF LabelsOK, LabelsHold, Mirrored
        <5>2. dict[j][2] = labels BY <5>1, <4>3, <3>2, <2>2 DEF Takes
        <5> QED BY <5>1, <5>2, <4>3, <2>7, <2>10
      <4> QED BY <4>1, <4>2, <4>3, <1>4
    <3>6. LabelsOK' BY <1>3, <3>1, <3>4, <3>5 DEF LabelsOK, LabelsHold, Mirrored
    <3>7. Labels(q, records', held', behind', dict', dropped', backup', exported')
      BY <2>8, <2>10, <2>13, <3>2, <1>4 DEF Labels, Renames
    <3> QED BY <1>2, <2>12, <2>13, <3>6, <3>7, TurnLabels
  <2>19. ASSUME WholeBackups, Restorable PROVE Restorable'
    <3>1. BackupsOK /\ LoadsOf(k) BY <2>19 DEF Restorable, k
    <3>2. BackupsOK' BY <1>2, <1>3, <2>9, <3>1, WriteLater
    <3>3. Loads(q, records', behind', ledger', head', handle', whole', backup')
      BY <1>1, <1>3, <2>8, <2>13, <3>1 DEF LoadsOf, Loads
    <3> QED BY <1>2, <2>12, <2>13, <3>2, <3>3, TurnBackups
  <2> QED BY <2>17, <2>18, <2>19 DEF Keeps
<1> QED BY <1>5, <1>6

(* findAndUpdateReferences lists the records of the old key. *)
LEMMA ListKeeps ==
    ASSUME BackupTypeOK, NEW w \in Caller, Backup!ListReferences(w), UNCHANGED Backup!backupVars
    PROVE  Keeps
<1> DEFINE k == dictCall[w]
           t == {i \in Id : declared /\ Backup!Exists(held[i]) /\ held[i][1] = k.key}
<1>1. k.pc = "list" BY DEF Backup!ListReferences
<1>2. Solo(w) /\ k \in DictCallType /\ Shaped(k) BY <1>1, AtWork
<1>3. UNCHANGED contentVars /\ UNCHANGED handle
  BY DEF Backup!ListReferences, Backup!contents, Backup!records, Backup!entries, Backup!counts, Backup!backupVars,
         contentVars
<1>4. PICK q : q = [k EXCEPT !.pc = "update", !.todo = t] OBVIOUS
<1>5. dictCall' = [dictCall EXCEPT ![w].pc = "update", ![w].todo = t] BY DEF Backup!ListReferences
<1>6. dictCall' = [dictCall EXCEPT ![w] = q]
  <2>1. t \in SUBSET (Id \cup DictKey) OBVIOUS
  <2> HIDE DEF t
  <2> QED BY <1>4, <1>5, <2>1, UpdateFields DEF BackupTypeOK, CallsType
<1>7. /\ q \in DictCallType /\ q.pc = "update" /\ q.todo = t /\ q.was = k.was
      /\ q.op = k.op /\ q.key = k.key /\ q.to = k.to
  <2>1. t \in SUBSET (Id \cup DictKey) OBVIOUS
  <2> HIDE DEF t
  <2> QED BY <1>2, <1>4, <2>1 DEF DictCallType
<1>8. Shaped(q) BY <1>1, <1>2, <1>7 DEF Shaped, Renames
<1>9. ASSUME Labelled PROVE LabelsOf(q)
  <2>1. LabelsOf(k) /\ LabelsOK /\ declared = TRUE BY <1>9 DEF Labelled, LabelsOK, LabelsHold
  <2>2. k.key \in DictKey BY <1>1, <1>2 DEF Shaped
  <2>3. Left(held, k.key, t, behind) BY <2>1 DEF Left, Here, Backup!Exists, Backup!Absent
  <2> HIDE DEF t
  <2>4. Left(records, k.key, t, behind)
    <3>1. k.key # None BY <2>2, BackupAssumption DEF Backup!DictAssumption
    <3>2. Known(records, held, behind) BY <2>1 DEF LabelsOK, LabelsHold
    <3> QED BY <3>1, <3>2, <2>3 DEF Known, Left
  <2> QED BY <2>1, <2>3, <2>4, <1>1, <1>7 DEF LabelsOf, Labels, Renames
<1>10. ASSUME Restorable PROVE Loads(q, records, behind, ledger, head, handle', whole, backup)
  <2>1. LoadsOf(k) BY <1>10 DEF Restorable
  <2> HIDE DEF t
  <2> QED BY <2>1, <1>1, <1>3, <1>7 DEF LoadsOf, Loads
<1> HIDE DEF k, t
<1> QED BY <1>2, <1>3, <1>6, <1>7, <1>8, <1>9, <1>10, OnlyTheCall

(* It gives one of them the new key. *)
LEMMA UpdateKeeps ==
    ASSUME BackupTypeOK, NEW w \in Caller, NEW i \in Id, Backup!UpdateReference(w, i), UNCHANGED Backup!backupVars
    PROVE  Keeps
<1> DEFINE k == dictCall[w]
<1>1. k.pc = "update" /\ i \in k.todo BY DEF Backup!UpdateReference
<1>2. Solo(w) /\ k \in DictCallType /\ Shaped(k) BY <1>1, AtWork
<1>3. k.op = "rename" /\ k.key \in DictKey /\ k.to \in DictKey /\ Here(k.was) /\ k.todo \subseteq Id
  BY <1>1, <1>2 DEF Shaped, Renames
<1>4. PICK m \in Nat : m = writes + 1 BY DEF BackupTypeOK, StateOK, StateType
<1>5. PICK r : r = <<k.to, m>> OBVIOUS
<1>6. r \in {<<>>} \cup Row /\ Here(r) /\ r[1] = k.to /\ r[2] = writes + 1
  BY <1>3, <1>4, <1>5 DEF Row, KeyOrNone, Here
<1>7. PICK t : t = k.todo \ {i} OBVIOUS
<1>8. PICK q : q = [k EXCEPT !.todo = t] OBVIOUS
<1>9. q \in DictCallType /\ q.op = k.op /\ q.key = k.key /\ q.to = k.to /\ q.was = k.was /\ q.todo = t
  <2>1. t \in SUBSET (Id \cup DictKey) BY <1>3, <1>7
  <2> QED BY <2>1, <1>2, <1>8 DEF DictCallType
<1>10. Backup!Wrote(w, q, i, r) BY <1>4, <1>5, <1>7, <1>8 DEF Backup!UpdateReference, Backup!Record, Backup!Stamp
<1>11. ASSUME Labelled
       PROVE  /\ r[1] \in Shown(dict) /\ k.key # k.to /\ k.was = dict[k.to]
              /\ Left(records, k.key, t \cup {i}, behind) /\ Left(held, k.key, t \cup {i}, behind)
  <2>1. LabelsOf(k) BY <1>11 DEF Labelled
  <2>2. k.key # k.to /\ k.was = dict[k.to] /\ Left(records, k.key, k.todo, behind) /\ Left(held, k.key, k.todo, behind)
    BY <2>1, <1>1 DEF LabelsOf, Labels, Renames
  <2>3. k.todo \subseteq t \cup {i} BY <1>7
  <2>4. r[1] \in Shown(dict) BY <2>2, <1>3, <1>6 DEF Shown
  <2> QED BY <2>2, <2>3, <2>4 DEF Left
<1>12. ASSUME Restorable PROVE handle # "old"
  <2>1. LoadsOf(k) BY <1>12 DEF Restorable
  <2> QED BY <2>1, <1>1 DEF LoadsOf, Loads
<1> HIDE DEF k
<1>13. t \subseteq Id BY <1>3, <1>7
<1> QED BY <1>2, <1>3, <1>6, <1>9, <1>10, <1>11, <1>12, <1>13, WroteKeeps

(* It has reached them all: nothing uses the old key, but for what a put cut short has left. *)
LEMMA UpdatedKeeps ==
    ASSUME BackupTypeOK, NEW w \in Caller, Backup!UpdatedAll(w), UNCHANGED Backup!backupVars
    PROVE  Keeps
<1> DEFINE k == dictCall[w]
<1>1. k.pc = "update" /\ k.todo = {} BY DEF Backup!UpdatedAll
<1>2. Solo(w) /\ k \in DictCallType /\ Shaped(k) BY <1>1, AtWork
<1>3. UNCHANGED contentVars /\ UNCHANGED handle
  BY DEF Backup!UpdatedAll, Backup!contents, Backup!records, Backup!entries, Backup!counts, Backup!backupVars,
         contentVars
<1>4. PICK q : q = [k EXCEPT !.pc = "remove"] OBVIOUS
<1>5. dictCall' = [dictCall EXCEPT ![w] = q] BY <1>4 DEF Backup!UpdatedAll, Backup!Goes
<1>6. q \in DictCallType /\ q.pc = "remove" /\ q.was = k.was /\ q.op = k.op /\ q.key = k.key /\ q.to = k.to
  BY <1>2, <1>4 DEF DictCallType
<1>7. Shaped(q) BY <1>1, <1>2, <1>6 DEF Shaped, Renames
<1>8. ASSUME Labelled PROVE LabelsOf(q)
  <2>1. LabelsOf(k) BY <1>8 DEF Labelled
  <2> QED BY <2>1, <1>1, <1>6 DEF LabelsOf, Labels, Renames
<1>9. ASSUME Restorable PROVE Loads(q, records, behind, ledger, head, handle', whole, backup)
  <2>1. LoadsOf(k) BY <1>9 DEF Restorable
  <2> QED BY <2>1, <1>1, <1>3, <1>6 DEF LoadsOf, Loads
<1>10. q.pc \notin {"entries", "verify", "account"} BY <1>6
<1> HIDE DEF k
<1> QED BY <1>2, <1>3, <1>5, <1>6, <1>7, <1>8, <1>9, <1>10, OnlyTheCall

(* The old entry goes and the mirror follows. *)
LEMMA RemoveKeeps ==
    ASSUME BackupTypeOK, NEW w \in Caller, Backup!RemoveEntry(w), UNCHANGED Backup!backupVars
    PROVE  Keeps
<1> DEFINE k == dictCall[w]
<1>1. k.pc = "remove" BY DEF Backup!RemoveEntry
<1>2. Solo(w) /\ k \in DictCallType /\ Shaped(k) /\ StateOK BY <1>1, AtWork
<1>3. /\ UNCHANGED <<records, held, behind, ledger, declared, head, oldHead, writes, backup, exported, whole, handle>>
      /\ dropped' = IF k.op = "delete" THEN dropped \cup {k.key} ELSE dropped
  BY DEF Backup!RemoveEntry, Backup!records, Backup!ledgers, Backup!counts, Backup!backupVars
<1>4. /\ k.op \in {"delete", "rename"} /\ k.key \in DictKey /\ k.to \in DictKey
      /\ k.op = "rename" => Here(k.was)
  BY <1>1, <1>2 DEF Shaped, Renames
<1>5. PICK q : q = [k EXCEPT !.pc = "append"] OBVIOUS
<1>6. dictCall' = [dictCall EXCEPT ![w] = q] BY <1>5 DEF Backup!RemoveEntry, Backup!Goes
<1>7. q \in DictCallType /\ q.pc = "append" /\ q.was = k.was /\ q.op = k.op /\ q.key = k.key /\ q.to = k.to
  BY <1>2, <1>5 DEF DictCallType
<1>8. Shaped(q) BY <1>4, <1>7 DEF Shaped, Renames
<1>9. dict' = [dict EXCEPT ![k.key] = <<>>] BY DEF Backup!RemoveEntry, Backup!Absent
<1>10. dict' \in Book /\ dict'[k.key] = <<>> /\ \A j \in DictKey : j # k.key => dict'[j] = dict[j]
  BY <1>2, <1>4, <1>9 DEF StateOK, StateType, Book
<1>11. PICK gone : gone = [syncCache EXCEPT ![k.key] = <<>>] OBVIOUS
<1>12. gone \in Mirror /\ gone[k.key] = <<>> /\ \A j \in DictKey : j # k.key => gone[j] = syncCache[j]
  BY <1>2, <1>4, <1>11 DEF StateOK, StateType, Mirror
<1>13. syncCache' = IF k.op = "rename" THEN [gone EXCEPT ![k.to] = <<k.was[2]>>] ELSE gone
  BY <1>11 DEF Backup!RemoveEntry, Backup!CachedAfter, Backup!Absent
<1>14. syncCache' \in Mirror
  <2>1. CASE k.op = "rename"
    <3>1. k.was \in {<<>>} \cup Labelling BY <1>2 DEF DictCallType
    <3>2. k.was[2] \in Nat BY <2>1, <3>1, <1>4 DEF Here, Labelling
    <3>3. <<k.was[2]>> \in Seq(Nat) BY <3>2
    <3> QED BY <2>1, <3>3, <1>4, <1>12, <1>13 DEF Mirror
  <2>2. CASE k.op # "rename" BY <2>2, <1>12, <1>13
  <2> QED BY <2>1, <2>2
<1> HIDE DEF k
<1>15. BackupTypeOK'
  <2>1. dropped' \subseteq DictKey BY <1>2, <1>3, <1>4 DEF StateOK, StateType
  <2>2. StateOK' BY <2>1, <1>2, <1>3, <1>10, <1>14 DEF StateOK, StateType
  <2>3. q.pc \notin {"entries", "verify", "account"} BY <1>7
  <2> QED BY <1>2, <1>6, <1>7, <1>8, <2>2, <2>3, TurnTypes
<1>16. ASSUME PlainDictionary, Labelled PROVE Labelled'
  <2>1. LabelsOK /\ LabelsOf(k) BY <1>16 DEF Labelled, k
  <2>2. k.op = "rename" => /\ k.key # k.to /\ k.was = dict[k.to]
                           /\ Left(records, k.key, {}, behind) /\ Left(held, k.key, {}, behind)
    BY <2>1, <1>1 DEF LabelsOf, Labels, Renames
  <2>3. ASSUME NEW d, Resolved(d, dict, behind, dropped), k.op = "rename" => Left(d, k.key, {}, behind)
        PROVE  Resolved(d, dict', behind, dropped')
    <3>1. ASSUME NEW i \in Id, Here(d[i]), i \notin behind
          PROVE  d[i][1] \in Shown(dict') \/ d[i][1] \in dropped'
      <4>1. d[i][1] \in Shown(dict) \/ d[i][1] \in dropped BY <2>3, <3>1 DEF Resolved
      <4>2. CASE d[i][1] = k.key
        <5>1. k.op # "rename" BY <4>2, <2>3, <3>1 DEF Left
        <5> QED BY <5>1, <4>2, <1>3, <1>4
      <4>3. CASE d[i][1] # k.key BY <4>1, <4>3, <1>3, <1>10 DEF Shown
      <4> QED BY <4>2, <4>3
    <3> QED BY <3>1 DEF Resolved
  <2>4. Resolved(records, dict', behind, dropped') /\ Resolved(held, dict', behind, dropped')
    BY <2>1, <2>2, <2>3 DEF LabelsOK, LabelsHold
  <2>5. ASSUME NEW j \in DictKey, Here(syncCache'[j])
        PROVE  Here(dict'[j]) /\ syncCache'[j] = <<dict'[j][2]>>
    <3>1. CASE k.op = "rename" /\ j = k.to
      <4>1. syncCache'[j] = <<k.was[2]>> BY <3>1, <1>12, <1>13, <1>4 DEF Mirror
      <4> QED BY <4>1, <3>1, <2>2, <1>4, <1>10
    <3>2. CASE ~(k.op = "rename" /\ j = k.to)
      <4>1. syncCache'[j] = gone[j] BY <3>2, <1>12, <1>13, <1>4 DEF Mirror
      <4>2. j # k.key BY <4>1, <2>5, <1>12 DEF Here
      <4> QED BY <4>1, <4>2, <2>1, <2>5, <1>10, <1>12 DEF LabelsOK, LabelsHold, Mirrored
    <3> QED BY <3>1, <3>2
  <2>6. LabelsOK' BY <1>3, <2>1, <2>4, <2>5 DEF LabelsOK, LabelsHold, Mirrored
  <2>7. Labels(q, records', held', behind', dict', dropped', backup', exported') BY <1>7 DEF Labels, Renames
  <2> QED BY <1>2, <1>6, <1>7, <2>6, <2>7, TurnLabels
<1>17. ASSUME WholeBackups, Restorable PROVE Restorable'
  <2>1. BackupsOK' /\ LoadsOf(k) BY <1>3, <1>17 DEF Restorable, BackupsOK, k
  <2>2. Loads(q, records', behind', ledger', head', handle', whole', backup')
    BY <2>1, <1>1, <1>3, <1>7 DEF LoadsOf, Loads
  <2> QED BY <1>2, <1>6, <1>7, <2>1, <2>2, TurnBackups
<1> QED BY <1>15, <1>16, <1>17 DEF Keeps

(* The ledger hears of it, through the handle the dictionary has. *)
LEMMA AppendKeeps ==
    ASSUME BackupTypeOK, NEW w \in Caller, Backup!AppendEntry(w), UNCHANGED Backup!backupVars
    PROVE  Keeps
<1> DEFINE k == dictCall[w]
<1>1. k.pc = "append" BY DEF Backup!AppendEntry
<1>2. Solo(w) /\ k \in DictCallType /\ Shaped(k) /\ StateOK BY <1>1, AtWork
<1>3. UNCHANGED <<records, held, behind, dict, dropped, syncCache, declared, backup, exported, whole, handle>>
  BY DEF Backup!AppendEntry, Backup!records, Backup!entries, Backup!counts, Backup!backupVars
<1>4. k.to \in DictKey BY <1>1, <1>2 DEF Shaped
<1>5. PICK op \in {"put", "delete"} : op = IF k.op = "delete" THEN "delete" ELSE "put" OBVIOUS
<1>6. PICK old \in BOOLEAN : old = (handle = "old") OBVIOUS
<1>7. PICK m \in Nat : m = writes + 1 BY <1>2 DEF StateOK, StateType
<1>8. Backup!append(old, op, "_dict_", k.to, 0, m) BY <1>5, <1>6, <1>7 DEF Backup!AppendEntry, Backup!Stamp
<1>9. PICK e : e = [op |-> op, c |-> "_dict_", id |-> k.to, hash |-> 0, prev |-> LastStamp(ledger), stamp |-> m]
  OBVIOUS
<1>10. /\ ledger' \in Chain /\ head' \in HeadType /\ oldHead' \in HeadType
       /\ ~old /\ Leads(head, ledger) => ledger' = Append(ledger, e) /\ head' = [n |-> Len(ledger) + 1, stamp |-> m]
  BY <1>4, <1>8, <1>9, AppendTypes
<1>11. writes' = writes + 1 /\ writes' \in Nat BY <1>7 DEF Backup!AppendEntry, Backup!Stamp
<1>12. dictCall' = [dictCall EXCEPT ![w] = Backup!Idle] BY DEF Backup!AppendEntry, Backup!Returns
<1>13. BackupTypeOK'
  <2>1. StateOK' BY <1>2, <1>3, <1>10, <1>11 DEF StateOK, StateType
  <2> QED BY <1>2, <1>12, <2>1, IdleEnds, TurnTypes
<1>14. ASSUME Labelled PROVE Labelled'
  <2>1. LabelsOK' BY <1>3, <1>14 DEF Labelled, LabelsOK
  <2> QED BY <1>2, <1>12, <2>1, IdleEnds, TurnLabels
<1>15. ASSUME WholeBackups, Restorable PROVE Restorable'
  <2>1. BackupsOK /\ LoadsOf(k) BY <1>15 DEF Restorable
  <2>2. ~old BY <2>1, <1>1, <1>6 DEF LoadsOf, Loads
  <2>3. ledger' = Append(ledger, e) /\ head' = [n |-> Len(ledger) + 1, stamp |-> e.stamp]
    BY <2>1, <2>2, <1>9, <1>10 DEF BackupsOK, BackupsHold
  <2>4. records \in Table /\ ledger \in Seq(LedgerRow) /\ writes \in Nat BY <1>2 DEF StateOK, StateType, Chain
  <2>5. LastStamp(ledger) \in Nat \cup {None} BY <2>4, LastType
  <2>6. e \in LedgerRow /\ e.prev = LastStamp(ledger) /\ e.stamp = writes + 1 /\ e.c = "_dict_"
    BY <2>5, <1>4, <1>7, <1>9 DEF LedgerRow
  <2>7. Leads(head', ledger') BY <2>3, <2>4, <2>6, LeadsOn
  <2>8. whole => Kept(records, ledger', behind, writes')
    BY <2>1, <2>3, <2>4, <2>6, <1>11, EntryKept DEF BackupsOK, BackupsHold
  <2>9. backup.made => Backs(backup, writes + 1)
    <3>1. backup.made => backup \in BackupType BY <1>2 DEF StateOK, StateType, Backup!NoBackup
    <3> QED BY <3>1, <2>1, <2>4, BacksLater DEF BackupsOK, BackupsHold
  <2>10. BackupsOK' BY <1>3, <1>11, <2>7, <2>8, <2>9 DEF BackupsOK, BackupsHold
  <2> QED BY <1>2, <1>12, <2>10, IdleEnds, TurnBackups
<1> QED BY <1>13, <1>14, <1>15 DEF Keeps

-----------------------------------------------------------------------------
(* list: the keys, then the entries one by one into the mirror. *)
LEMMA ListsKeeps ==
    ASSUME BackupTypeOK, InTurn, NEW w \in Caller, Backup!list(w), UNCHANGED Backup!backupVars
    PROVE  Keeps
<1> DEFINE t == {k \in DictKey : Backup!Exists(dict[k])}
<1>1. Solo(w) BY AtRest DEF Backup!list
<1>2. PICK q : q = [Backup!Idle EXCEPT !.op = "list", !.pc = "fetch", !.todo = t] OBVIOUS
<1>3. q \in DictCallType /\ q.pc = "fetch" /\ q.todo = t
  <2>1. t \in SUBSET (Id \cup DictKey) OBVIOUS
  <2> HIDE DEF t
  <2> QED BY <1>2, <2>1 DEF Backup!Idle, Backup!Absent, DictCallType, KeyOrNone
<1>4. dictCall' = [dictCall EXCEPT ![w] = q] BY <1>2 DEF Backup!list
<1>5. UNCHANGED contentVars
  BY DEF Backup!list, Backup!contents, Backup!records, Backup!entries, Backup!counts, Backup!backupVars,
         contentVars
<1>6. Shaped(q) BY <1>3 DEF Shaped, Renames
<1> HIDE DEF t
<1>7. LabelsOf(q) BY <1>3 DEF LabelsOf, Labels, Renames
<1>8. \A d, be, l, h, hd, wh, b : Loads(q, d, be, l, h, hd, wh, b) BY <1>3 DEF Loads
<1>9. q.pc \notin {"entries", "verify", "account"} BY <1>3
<1> QED BY <1>1, <1>3, <1>4, <1>5, <1>6, <1>7, <1>8, <1>9, OnlyTheCall

LEMMA FetchKeeps ==
    ASSUME BackupTypeOK, NEW w \in Caller, NEW j \in DictKey, Backup!FetchEntry(w, j), UNCHANGED Backup!backupVars
    PROVE  Keeps
<1> DEFINE k == dictCall[w]
<1>1. k.pc = "fetch" /\ j \in k.todo BY DEF Backup!FetchEntry
<1>2. Solo(w) /\ k \in DictCallType /\ Shaped(k) /\ StateOK BY <1>1, AtWork
<1>3. UNCHANGED <<records, held, behind, dict, dropped, ledger, declared, head, oldHead, writes, backup, exported,
                  whole, handle>>
  BY DEF Backup!FetchEntry, Backup!contents, Backup!records, Backup!entries, Backup!counts, Backup!backupVars
<1>4. PICK t : t = k.todo \ {j} OBVIOUS
<1>5. PICK q : q = IF t = {} THEN Backup!Idle ELSE [k EXCEPT !.todo = t] OBVIOUS
<1>6. dictCall' = [dictCall EXCEPT ![w] = q] BY <1>4, <1>5 DEF Backup!FetchEntry, Backup!Returns
<1>7. q \in DictCallType /\ q.pc \in {"idle", "fetch"} /\ (q.pc = "fetch" => q.todo \subseteq DictKey)
  <2>1. CASE t = {} BY <2>1, <1>5, IdleCall
  <2>2. CASE t # {}
    <3>1. t \in SUBSET (Id \cup DictKey) /\ t \subseteq DictKey BY <1>1, <1>2, <1>4 DEF Shaped
    <3> QED BY <2>2, <3>1, <1>1, <1>2, <1>5 DEF DictCallType
  <2> QED BY <2>1, <2>2
<1>8. Shaped(q) BY <1>7 DEF Shaped, Renames
<1>9. \A d, c, be, di, dr, b, ex : Labels(q, d, c, be, di, dr, b, ex) BY <1>7 DEF Labels, Renames
<1>10. \A d, be, l, h, hd, wh, b : Loads(q, d, be, l, h, hd, wh, b) BY <1>7 DEF Loads
<1>11. q.pc \notin {"entries", "verify", "account"} BY <1>7
<1>12. syncCache' = IF Here(dict[j]) THEN [syncCache EXCEPT ![j] = <<dict[j][2]>>] ELSE syncCache
  BY DEF Backup!FetchEntry, Backup!Exists, Backup!Absent, Here
<1>13. syncCache' \in Mirror
  <2>1. dict[j] \in {<<>>} \cup Labelling /\ syncCache \in Mirror BY <1>2 DEF StateOK, StateType, Book
  <2>2. Here(dict[j]) => <<dict[j][2]>> \in Seq(Nat)
    <3>1. Here(dict[j]) => dict[j][2] \in Nat BY <2>1 DEF Here, Labelling
    <3> QED BY <3>1
  <2> QED BY <2>1, <2>2, <1>12 DEF Mirror
<1>14. BackupTypeOK'
  <2>1. StateOK' BY <1>2, <1>3, <1>13 DEF StateOK, StateType
  <2> QED BY <1>2, <1>6, <1>7, <1>8, <1>11, <2>1, TurnTypes
<1>15. ASSUME Labelled PROVE Labelled'
  <2>1. LabelsOK BY <1>15 DEF Labelled
  <2>2. ASSUME NEW i \in DictKey, Here(syncCache'[i])
        PROVE  Here(dict[i]) /\ syncCache'[i] = <<dict[i][2]>>
    <3>1. CASE i = j /\ Here(dict[j]) BY <3>1, <1>2, <1>12 DEF StateOK, StateType, Mirror
    <3>2. CASE ~(i = j /\ Here(dict[j]))
      <4>1. syncCache'[i] = syncCache[i] BY <3>2, <1>2, <1>12 DEF StateOK, StateType, Mirror
      <4> QED BY <4>1, <2>1, <2>2 DEF LabelsOK, LabelsHold, Mirrored
    <3> QED BY <3>1, <3>2
  <2>3. LabelsOK' BY <1>3, <2>1, <2>2 DEF LabelsOK, LabelsHold, Mirrored
  <2> QED BY <1>2, <1>6, <1>7, <1>9, <2>3, TurnLabels
<1>16. ASSUME Restorable PROVE Restorable'
  <2>1. BackupsOK' BY <1>3, <1>16 DEF Restorable, BackupsOK
  <2> QED BY <1>2, <1>6, <1>7, <1>10, <2>1, TurnBackups
<1> QED BY <1>14, <1>15, <1>16 DEF Keeps

(* Calls end, or fail. *)
LEMMA FetchedKeeps ==
    ASSUME BackupTypeOK, NEW w \in Caller, Backup!FetchedNone(w), UNCHANGED Backup!backupVars
    PROVE  Keeps
<1>1. dictCall[w].pc = "fetch" BY DEF Backup!FetchedNone
<1>2. Backup!Returns(w) /\ UNCHANGED contentVars
  BY DEF Backup!FetchedNone, Backup!contents, Backup!records, Backup!entries, Backup!counts, Backup!backupVars, contentVars
<1> QED BY <1>1, <1>2, AtWork, EndKeeps

(* A call that ends half way leaves what it has written. *)
LEMMA FailKeeps ==
    ASSUME BackupTypeOK, NEW w \in Caller, Backup!Fail(w), UNCHANGED Backup!backupVars
    PROVE  Keeps
<1>1. dictCall[w].pc # "idle" BY DEF Backup!Fail
<1>2. Backup!Returns(w) /\ UNCHANGED contentVars
  BY DEF Backup!Fail, Backup!contents, Backup!records, Backup!entries, Backup!backupVars, contentVars
<1> QED BY <1>1, <1>2, AtWork, EndKeeps

(* A session begins: nothing is in flight, nothing is cached. *)
LEMMA SessionBegins ==
    ASSUME Backup!NewSession
    PROVE  /\ dictCall' \in [Caller -> DictCallType] /\ \A w \in Caller : dictCall'[w].pc = "idle"
           /\ syncCache' \in Mirror /\ \A k \in DictKey : ~Here(syncCache'[k])
           /\ head' \in HeadType /\ oldHead' \in HeadType /\ head' = [n |-> 0, stamp |-> 0]
           /\ PlainDictionary => declared' = TRUE
<1>1. dictCall' = [w \in Caller |-> Backup!Idle] BY DEF Backup!NewSession
<1>2. syncCache' = [k \in DictKey |-> <<>>] BY DEF Backup!NewSession, Backup!Absent
<1>3. <<>> \in Seq(Nat) OBVIOUS
<1>4. syncCache' \in Mirror BY <1>2, <1>3 DEF Mirror
<1>5. head' = [n |-> 0, stamp |-> 0] /\ oldHead' = [n |-> 0, stamp |-> 0]
  BY DEF Backup!NewSession, Backup!Unread
<1>6. head' \in HeadType /\ oldHead' \in HeadType BY <1>5 DEF HeadType
<1>7. PlainDictionary => declared' = TRUE BY DEF Backup!NewSession, Backup!May, PlainDictionary
<1> QED BY <1>1, <1>2, <1>4, <1>5, <1>6, <1>7, IdleCall DEF Here

(* A restart: the next session reads the store. *)
LEMMA CrashKeeps ==
    ASSUME BackupTypeOK, Backup!Crash, UNCHANGED Backup!backupVars
    PROVE  Keeps
<1>1. /\ UNCHANGED <<records, behind, dict, dropped, ledger, writes, backup, exported, whole>>
      /\ Backup!NewSession /\ held' = records
  BY DEF Backup!Crash, Backup!entries, Backup!backupVars
<1>2. StateOK' BY <1>1, SessionBegins DEF BackupTypeOK, StateOK, StateType
<1>3. ASSUME PlainDictionary, Labelled PROVE LabelsOK'
  BY <1>1, <1>3, SessionBegins DEF Labelled, LabelsOK, LabelsHold, Mirrored, Known
<1>4. ASSUME Restorable PROVE BackupsOK'
  BY <1>1, <1>4, SessionBegins DEF Restorable, BackupsOK, BackupsHold, Leads
<1> QED BY <1>1, <1>2, <1>3, <1>4, SessionBegins, RestKeeps

-----------------------------------------------------------------------------
(* Two fields of an entry of the file. *)
LEMMA ChangedRow ==
    ASSUME NEW b \in BackupType, NEW n
    PROVE  [b EXCEPT !.internal[n].hash = 0, !.internal[n].stamp = 0] =
             [b EXCEPT !.internal = [b.internal EXCEPT ![n] = [b.internal[n] EXCEPT !.hash = 0, !.stamp = 0]]]
BY ZenonT(60) DEF BackupType

(* A backup that has lost or changed a record is one that may have done so. *)
LEMMA WornCollections ==
    ASSUME NEW b \in BackupType, NEW i \in Id, Here(b.collections[i]), NEW r \in {<<>>, <<None, 0>>}, NEW m
    PROVE  LET x == [b EXCEPT !.collections[i] = r, !.damaged = TRUE] IN
           /\ x \in BackupType /\ (Backs(b, m) => Backs(x, m))
           /\ Keyless(b.collections) => Keyless(x.collections)
<1> DEFINE x == [b EXCEPT !.collections[i] = r, !.damaged = TRUE]
<1>1. r \in {<<>>} \cup Row
  <2>1. <<None, 0>> \in Row BY DEF Row, KeyOrNone
  <2> QED BY <2>1
<1>2. PICK y : y = [b.collections EXCEPT ![i] = r] OBVIOUS
<1>3. y \in Table /\ y[i] = r /\ \A j \in Id : j # i => y[j] = b.collections[j]
  BY <1>1, <1>2 DEF BackupType, Table
<1>4. /\ x \in BackupType /\ x.collections = y /\ x.internal = b.internal /\ x.ledgerHead = b.ledgerHead
      /\ x.was = b.was /\ x.damaged = TRUE
  BY <1>2, <1>3 DEF BackupType
<1> HIDE DEF x
<1>5. ASSUME Backs(b, m) PROVE Backs(x, m)
  <2>1. \A j \in Id : Worn(b.was[1][j], y[j]) BY <1>3, <1>5 DEF Backs, Worn, Here
  <2> QED BY <2>1, <1>4, <1>5 DEF Backs
<1>6. ASSUME Keyless(b.collections) PROVE Keyless(x.collections)
  BY <1>3, <1>4, <1>6 DEF Keyless, Here
<1> QED BY <1>4, <1>5, <1>6 DEF x

(* So is one that has lost or changed entries of its ledger. *)
LEMMA WornLedger ==
    ASSUME NEW b \in BackupType, NEW e \in Seq(LedgerRow), NEW m,
           Len(e) <= Len(b.internal),
           \A n \in 1..Len(e) : e[n] = b.internal[n] \/ (e[n].stamp = 0 /\ e[n].prev = b.internal[n].prev)
    PROVE  LET x == [b EXCEPT !.internal = e, !.damaged = TRUE] IN
           /\ x \in BackupType /\ (Backs(b, m) => Backs(x, m))
           /\ Keyless(b.collections) => Keyless(x.collections)
<1> DEFINE x == [b EXCEPT !.internal = e, !.damaged = TRUE]
<1>1. /\ x \in BackupType /\ x.collections = b.collections /\ x.internal = e /\ x.ledgerHead = b.ledgerHead
      /\ x.was = b.was /\ x.damaged = TRUE
  BY DEF BackupType, Chain
<1>2. b.internal \in Seq(LedgerRow) /\ b.was[2] \in Seq(LedgerRow) BY DEF BackupType, Chain
<1>3. Len(e) \in Nat /\ Len(b.internal) \in Nat /\ Len(b.was[2]) \in Nat BY <1>2
<1> HIDE DEF x
<1>4. ASSUME Backs(b, m) PROVE Backs(x, m)
  <2>1. Len(e) <= Len(b.was[2]) BY <1>3, <1>4 DEF Backs
  <2>2. \A n \in 1..Len(e) : WornRow(b.was[2][n], e[n])
    <3>1. ASSUME NEW n \in 1..Len(e) PROVE WornRow(b.was[2][n], e[n])
      <4>1. n \in 1..Len(b.internal) BY <1>3
      <4>2. WornRow(b.was[2][n], b.internal[n]) BY <4>1, <1>4 DEF Backs
      <4> QED BY <4>2, <3>1 DEF WornRow
    <3> QED BY <3>1
  <2> QED BY <2>1, <2>2, <1>1, <1>4 DEF Backs
<1> QED BY <1>1, <1>4 DEF x

(* A stored backup loses or changes something. *)
LEMMA DamageKeeps ==
    ASSUME BackupTypeOK, InTurn, Backup!Damage
    PROVE  Keeps
<1>1. UNCHANGED <<records, held, behind, dict, dropped, ledger, syncCache, declared, head, oldHead, dictCall, writes,
                  exported, whole>>
      /\ \A w \in Caller : dictCall[w].pc = "idle"
  BY DEF Backup!Damage, Backup!dictVars, Backup!Quiet
<1>2. backup \in BackupType BY DEF Backup!Damage, BackupTypeOK, StateOK, StateType, Backup!NoBackup
<1>3. PICK b \in Backup!Losses(backup) : backup' = [b EXCEPT !.damaged = TRUE] BY DEF Backup!Damage
<1> DEFINE Fits == /\ backup' \in BackupType /\ (Backs(backup, writes) => Backs(backup', writes))
                   /\ Keyless(backup.collections) => Keyless(backup'.collections)
<1>4. Fits
  <2>1. ASSUME NEW i \in Backup!Ids(backup.collections), b = [backup EXCEPT !.collections[i] = <<>>]
        PROVE  Fits
    <3>1. i \in Id /\ Here(backup.collections[i]) BY <2>1 DEF Backup!Ids, Backup!Exists, Backup!Absent, Here
    <3>2. backup' = [backup EXCEPT !.collections[i] = <<>>, !.damaged = TRUE] BY <2>1, <1>3
    <3> QED BY <3>1, <3>2, <1>2, WornCollections
  <2>2. ASSUME NEW i \in Backup!Ids(backup.collections), b = [backup EXCEPT !.collections[i] = <<None, 0>>]
        PROVE  Fits
    <3>1. i \in Id /\ Here(backup.collections[i]) BY <2>2 DEF Backup!Ids, Backup!Exists, Backup!Absent, Here
    <3>2. backup' = [backup EXCEPT !.collections[i] = <<None, 0>>, !.damaged = TRUE] BY <2>2, <1>3
    <3> QED BY <3>1, <3>2, <1>2, WornCollections
  <2>3. ASSUME backup.internal # <<>>,
               b = [backup EXCEPT !.internal = SubSeq(backup.internal, 1, Len(backup.internal) - 1)]
        PROVE  Fits
    <3>1. PICK e : e = SubSeq(backup.internal, 1, Len(backup.internal) - 1) OBVIOUS
    <3>2. backup.internal \in Seq(LedgerRow) /\ Len(backup.internal) \in Nat \ {0}
      BY <1>2, <2>3, EmptySeq DEF BackupType, Chain
    <3>3. /\ e \in Seq(LedgerRow) /\ Len(e) <= Len(backup.internal)
          /\ \A n \in 1..Len(e) : e[n] = backup.internal[n]
      BY <3>1, <3>2
    <3>4. backup' = [backup EXCEPT !.internal = e, !.damaged = TRUE] BY <2>3, <3>1, <1>3
    <3> QED BY <3>3, <3>4, <1>2, WornLedger
  <2>4. ASSUME NEW n \in DOMAIN backup.internal,
               b = [backup EXCEPT !.internal[n].hash = 0, !.internal[n].stamp = 0]
        PROVE  Fits
    <3>1. backup.internal \in Seq(LedgerRow) BY <1>2 DEF BackupType, Chain
    <3>2. PICK g : g = [backup.internal[n] EXCEPT !.hash = 0, !.stamp = 0] OBVIOUS
    <3>3. backup.internal[n] \in LedgerRow BY <3>1
    <3>4. g \in LedgerRow /\ g.stamp = 0 /\ g.prev = backup.internal[n].prev BY <3>2, <3>3 DEF LedgerRow
    <3>5. PICK e : e = [backup.internal EXCEPT ![n] = g] OBVIOUS
    <3>6. /\ e \in Seq(LedgerRow) /\ Len(e) = Len(backup.internal)
          /\ \A j \in 1..Len(e) : e[j] = IF j = n THEN g ELSE backup.internal[j]
      BY <3>1, <3>4, <3>5
    <3>7. b = [backup EXCEPT !.internal = e] BY <2>4, <3>2, <3>5, <1>2, ChangedRow
    <3>8. backup' = [backup EXCEPT !.internal = e, !.damaged = TRUE] BY <3>7, <1>3
    <3>9. Len(e) <= Len(backup.internal) BY <3>1, <3>6
    <3> QED BY <3>4, <3>6, <3>8, <3>9, <1>2, WornLedger
  <2>5. \/ \E i \in Backup!Ids(backup.collections) : b = [backup EXCEPT !.collections[i] = <<>>]
        \/ \E i \in Backup!Ids(backup.collections) : b = [backup EXCEPT !.collections[i] = <<None, 0>>]
        \/ \E n \in 1..(IF backup.internal = <<>> THEN 0 ELSE 1) :
             b = [backup EXCEPT !.internal = SubSeq(backup.internal, 1, Len(backup.internal) - 1)]
        \/ \E n \in {m \in DOMAIN backup.internal : backup.internal[m].op = "put"} :
             b = [backup EXCEPT !.internal[n].hash = 0, !.internal[n].stamp = 0]
    BY <1>3, Zenon DEF Backup!Losses, Backup!Absent, Backup!Record
  <2>6. \A n \in 1..(IF backup.internal = <<>> THEN 0 ELSE 1) : backup.internal # <<>> OBVIOUS
  <2>7. CASE \E i \in Backup!Ids(backup.collections) : b = [backup EXCEPT !.collections[i] = <<>>]
    BY <2>1, <2>7
  <2>8. CASE \E i \in Backup!Ids(backup.collections) : b = [backup EXCEPT !.collections[i] = <<None, 0>>]
    BY <2>2, <2>8
  <2>9. CASE \E n \in 1..(IF backup.internal = <<>> THEN 0 ELSE 1) :
             b = [backup EXCEPT !.internal = SubSeq(backup.internal, 1, Len(backup.internal) - 1)]
    BY <2>3, <2>6, <2>9
  <2>10. CASE \E n \in {m \in DOMAIN backup.internal : backup.internal[m].op = "put"} :
             b = [backup EXCEPT !.internal[n].hash = 0, !.internal[n].stamp = 0]
    BY <2>4, <2>10
  <2> HIDE DEF Fits
  <2> QED BY <2>5, <2>7, <2>8, <2>9, <2>10
<1>5. StateOK' BY <1>1, <1>4 DEF BackupTypeOK, StateOK, StateType
<1>6. backup.made /\ backup'.made BY <1>2, <1>4 DEF BackupType
<1>7. ASSUME Labelled PROVE LabelsOK'
  BY <1>1, <1>4, <1>6, <1>7 DEF Labelled, LabelsOK, LabelsHold
<1>8. ASSUME Restorable PROVE BackupsOK'
  BY <1>1, <1>4, <1>6, <1>8 DEF Restorable, BackupsOK, BackupsHold
<1>9. dictCall' \in [Caller -> DictCallType] BY <1>1 DEF BackupTypeOK, CallsType
<1> QED BY <1>1, <1>5, <1>7, <1>8, <1>9, RestKeeps

(* An empty vault. *)
LEMMA NothingKept ==
    ASSUME NEW d, NEW be, \A i \in Id \ be : ~Here(d[i]), NEW m
    PROVE  Kept(d, <<>>, be, m)
<1>1. 1..Len(<<>>) = {} OBVIOUS
<1> QED BY <1>1 DEF Kept, Chained, Rising, Accounts, Dated, Ided

(* Another vault, and a session on it. *)
LEMMA NewVaultKeeps ==
    ASSUME BackupTypeOK, InTurn, Backup!NewVault
    PROVE  Keeps
<1>1. UNCHANGED <<writes, backup, exported>> /\ Backup!NewSession BY DEF Backup!NewVault
<1>2. /\ records' = [i \in Id |-> <<>>] /\ held' = records' /\ behind' = {}
      /\ dict' = [k \in DictKey |-> <<>>] /\ dropped' = {} /\ ledger' = <<>>
  BY DEF Backup!NewVault, Backup!Absent
<1>3. records' \in Table /\ held' \in Table /\ (\A i \in Id : ~Here(records'[i])) /\ \A i \in Id : ~Here(held'[i])
  BY <1>2 DEF Table, Here
<1>4. dict' \in Book BY <1>2 DEF Book
<1>5. ledger' \in Chain BY <1>2 DEF Chain
<1>6. StateOK' BY <1>1, <1>2, <1>3, <1>4, <1>5, SessionBegins DEF BackupTypeOK, StateOK, StateType
<1>7. ASSUME PlainDictionary, Labelled PROVE LabelsOK'
  BY <1>1, <1>3, <1>7, SessionBegins DEF Labelled, LabelsOK, LabelsHold, Mirrored, Resolved, Known
<1>8. ASSUME Restorable PROVE BackupsOK'
  <2>1. Kept(records', ledger', behind', writes') BY <1>2, <1>3, NothingKept
  <2> QED BY <1>1, <1>8, <2>1, SessionBegins DEF Restorable, BackupsOK, BackupsHold, Leads
<1> QED BY <1>1, <1>6, <1>7, <1>8, SessionBegins, RestKeeps

-----------------------------------------------------------------------------
(* A dump or an export begins with what the vault holds. *)
LEMMA Beginning ==
    ASSUME BackupTypeOK, InTurn, NEW w \in Caller, NEW op \in {"dump", "export"}, NEW pc \in {"ledger", "labels"},
           Backup!Begin(w, op, pc)
    PROVE  Solo(w) /\ \E q \in DictCallType :
             /\ dictCall' = [dictCall EXCEPT ![w] = q] /\ Shaped(q)
             /\ q.pc = pc /\ q.pc \notin {"entries", "verify", "account"} /\ q.snapshot = records /\ q.todo \subseteq Id
<1> DEFINE t == Backup!Ids(records)
<1>1. Solo(w) BY AtRest DEF Backup!Begin
<1>2. PICK q : q = [Backup!Idle EXCEPT !.op = op, !.pc = pc, !.snapshot = records, !.todo = t] OBVIOUS
<1>3. records \in Table /\ t \subseteq Id BY DEF BackupTypeOK, StateOK, StateType, Backup!Ids
<1> HIDE DEF t
<1>4. q \in DictCallType /\ q.pc = pc /\ q.snapshot = records /\ q.todo = t
  BY <1>2, <1>3 DEF Backup!Idle, Backup!Absent, DictCallType, KeyOrNone
<1>5. Shaped(q) BY <1>3, <1>4 DEF Shaped, Renames
<1>6. dictCall' = [dictCall EXCEPT ![w] = q] BY <1>2 DEF Backup!Begin, t
<1>7. q.pc \notin {"entries", "verify", "account"} BY <1>4
<1> QED BY <1>1, <1>3, <1>4, <1>5, <1>6, <1>7

(* A dump begins: of a vault no load of which was cut short or refused. *)
LEMMA DumpKeeps ==
    ASSUME BackupTypeOK, InTurn, NEW w \in Caller, Backup!dump(w)
    PROVE  Keeps
<1>1. UNCHANGED contentVars
  BY DEF Backup!dump, Backup!contents, Backup!records, Backup!entries, Backup!backupVars, contentVars
<1>2. Backup!Begin(w, "dump", "ledger") BY DEF Backup!dump
<1>3. Solo(w) BY <1>2, Beginning
<1>4. PICK q \in DictCallType :
        /\ dictCall' = [dictCall EXCEPT ![w] = q] /\ Shaped(q)
        /\ q.pc = "ledger" /\ q.pc \notin {"entries", "verify", "account"} /\ q.snapshot = records /\ q.todo \subseteq Id
  BY <1>2, Beginning
<1>5. ASSUME PlainDictionary PROVE LabelsOf(q)
  <2>1. Backup!WithoutKeys BY <1>5 DEF Backup!dump, Backup!Dumpable, Backup!May, PlainDictionary
  <2>2. Keyless(records)
    BY <2>1 DEF Backup!WithoutKeys, Backup!Ids, Backup!KeyOf, Backup!Exists, Backup!Absent, Keyless, Here
  <2> QED BY <2>2, <1>4 DEF LabelsOf, Labels, Renames
<1>6. ASSUME WholeBackups, Restorable PROVE Loads(q, records, behind, ledger, head, handle', whole, backup)
  <2>1. Backup!WithoutDictionary(ledger) /\ whole
    BY <1>6 DEF Backup!dump, Backup!Dumpable, Backup!May, WholeBackups
  <2>2. ledger \in Seq(LedgerRow) BY DEF BackupTypeOK, StateOK, StateType, Chain
  <2>3. Plain(ledger) BY <2>1, <2>2 DEF Backup!WithoutDictionary, Plain
  <2> QED BY <2>1, <2>3, <1>4 DEF Loads
<1> QED BY <1>1, <1>3, <1>4, <1>5, <1>6, OnlyTheCall

(* A dump is made: of what the vault held when it began. *)
LEMMA DumpLedgerKeeps ==
    ASSUME BackupTypeOK, NEW w \in Caller, Backup!DumpLedger(w)
    PROVE  Keeps
<1> DEFINE k == dictCall[w]
<1>1. k.pc = "ledger" BY DEF Backup!DumpLedger
<1>2. Solo(w) /\ k \in DictCallType /\ Shaped(k) /\ StateOK BY <1>1, AtWork
<1>3. UNCHANGED <<records, held, behind, dict, dropped, ledger, syncCache, declared, oldHead, handle, writes, exported,
                  whole>>
      /\ Backup!Returns(w)
  BY DEF Backup!DumpLedger, Backup!contents, Backup!records, Backup!entries
<1>4. k.snapshot \in Table BY <1>1, <1>2 DEF Shaped
<1>5. ledger \in Seq(LedgerRow) /\ head \in HeadType /\ behind \in SUBSET Id
  BY <1>2 DEF StateOK, StateType, Chain
<1>6. PICK h : h = Backup!getCachedHead(head) OBVIOUS
<1>7. h = IF head = [n |-> 0, stamp |-> 0] THEN [n |-> Len(ledger), stamp |-> LastStamp(ledger)] ELSE head
  BY <1>6 DEF Backup!getCachedHead, Backup!Unread, Backup!HeadAt, LastStamp
<1>8. h \in HeadType
  <2>1. LastStamp(ledger) \in Nat \cup {None} /\ Len(ledger) \in Nat BY <1>5, LastType
  <2> QED BY <2>1, <1>5, <1>7 DEF HeadType
<1>9. head' = h /\ backup' = [made |-> TRUE, collections |-> k.snapshot, internal |-> ledger, ledgerHead |-> h,
                              was |-> <<k.snapshot, ledger, behind>>, damaged |-> FALSE]
  BY <1>6 DEF Backup!DumpLedger, Backup!NewBackup
<1>10. <<k.snapshot, ledger, behind>> \in Table \X Chain \X SUBSET Id BY <1>4, <1>5 DEF Chain
<1> HIDE DEF k
<1>11. /\ backup' \in BackupType /\ backup'.made /\ backup'.collections = k.snapshot /\ backup'.internal = ledger
       /\ backup'.ledgerHead = h /\ backup'.was[1] = k.snapshot /\ backup'.was[2] = ledger
       /\ backup'.was[3] = behind
  BY <1>4, <1>5, <1>8, <1>9, <1>10 DEF BackupType, Chain
<1>12. dictCall' = [dictCall EXCEPT ![w] = Backup!Idle] BY <1>3 DEF Backup!Returns
<1>13. BackupTypeOK'
  <2>1. StateOK' BY <1>2, <1>3, <1>8, <1>9, <1>11 DEF StateOK, StateType
  <2> QED BY <1>2, <1>12, <2>1, IdleEnds, TurnTypes
<1>14. ASSUME Labelled PROVE Labelled'
  <2>1. Keyless(k.snapshot) BY <1>1, <1>14 DEF Labelled, LabelsOf, Labels, k
  <2>2. LabelsOK' BY <1>3, <1>11, <1>14, <2>1 DEF Labelled, LabelsOK, LabelsHold
  <2> QED BY <1>2, <1>12, <2>2, IdleEnds, TurnLabels
<1>15. ASSUME Restorable PROVE Restorable'
  <2>1. BackupsOK BY <1>15 DEF Restorable
  <2>2. whole /\ k.snapshot = records /\ Plain(ledger) BY <1>1, <1>15 DEF Restorable, LoadsOf, Loads, k
  <2>3. h = [n |-> Len(ledger), stamp |-> LastStamp(ledger)] BY <2>1, <1>7 DEF BackupsOK, BackupsHold, Leads
  <2>4. Kept(records, ledger, behind, writes) BY <2>1, <2>2 DEF BackupsOK, BackupsHold
  <2>5. ledger \in Seq(LedgerRow) /\ Len(ledger) <= Len(ledger) BY <1>5
  <2>6. Backs(backup', writes) BY <1>11, <2>2, <2>3, <2>4, <2>5 DEF Backs, Worn, WornRow
  <2>7. BackupsOK' BY <1>3, <1>9, <2>1, <2>3, <2>6 DEF BackupsOK, BackupsHold, Leads
  <2> QED BY <1>2, <1>12, <2>7, IdleEnds, TurnBackups
<1> QED BY <1>13, <1>14, <1>15 DEF Keeps

(* A load writes the records of the file into an empty vault. *)
LEMMA LoadKeeps ==
    ASSUME BackupTypeOK, InTurn, NEW w \in Caller, Backup!load(w)
    PROVE  Keeps
<1>1. Solo(w) /\ StateOK BY AtRest DEF Backup!load
<1>2. UNCHANGED <<held, dict, dropped, ledger, head, oldHead, syncCache, declared, handle, writes, backup, exported>>
      /\ backup.made /\ whole' = FALSE /\ behind' = behind \cup backup.was[3]
  BY DEF Backup!load, Backup!ledgers, Backup!entries
<1>3. backup \in BackupType BY <1>1, <1>2 DEF StateOK, StateType, Backup!NoBackup
<1>4. backup.was[3] \subseteq Id BY <1>3 DEF BackupType
<1>5. PICK q : q = [Backup!Idle EXCEPT !.op = "load", !.pc = "entries"] OBVIOUS
<1>6. q \in DictCallType /\ q.pc = "entries"
  BY <1>5 DEF Backup!Idle, Backup!Absent, DictCallType, KeyOrNone
<1>7. dictCall' = [dictCall EXCEPT ![w] = q] BY <1>5 DEF Backup!load
<1>8. Shaped(q) BY <1>6 DEF Shaped, Renames
<1>9. PICK S : S = Backup!Saved(backup.collections) OBVIOUS
<1>10. /\ records' = [i \in Id |-> IF i \in S THEN backup.collections[i] ELSE records[i]]
       /\ records \in Table /\ backup.collections \in Table
       /\ \A i \in Id : i \in S \/ (~Here(backup.collections[i]) /\ Backup!May("addingStore"))
  BY <1>1, <1>3, <1>9
     DEF Backup!load, Backup!saveAll, Backup!Saved, Backup!Exists, Backup!Absent, Here, StateOK, StateType, BackupType
<1>11. records' \in Table BY <1>10 DEF Table
<1>12. BackupTypeOK'
  <2>1. StateOK' BY <1>1, <1>2, <1>4, <1>11 DEF StateOK, StateType
  <2>2. q.pc # "account" /\ backup'.made BY <1>2, <1>6
  <2> QED BY <1>1, <1>6, <1>7, <1>8, <2>1, <2>2, TurnTypes
<1>13. ASSUME PlainDictionary, Labelled PROVE Labelled'
  <2>1. LabelsOK BY <1>13 DEF Labelled
  <2>2. ASSUME NEW i \in S, i \in Id, Here(records'[i]) PROVE records'[i][1] = None
    BY <2>1, <2>2, <1>2, <1>10 DEF LabelsOK, LabelsHold, Keyless
  <2>3. Resolved(records', dict, behind', dropped)
    <3>1. ASSUME NEW i \in Id, Here(records'[i])
          PROVE  records'[i][1] \in Shown(dict) \/ i \in behind' \/ records'[i][1] \in dropped
      <4>1. CASE i \in S BY <4>1, <3>1, <2>2 DEF Shown
      <4>2. CASE i \notin S BY <4>2, <3>1, <2>1, <1>2, <1>10 DEF LabelsOK, LabelsHold, Resolved
      <4> QED BY <4>1, <4>2
    <3> QED BY <3>1 DEF Resolved
  <2>4. Known(records', held, behind')
    <3>1. ASSUME NEW i \in Id, Here(records'[i]), records'[i][1] # None
          PROVE  held[i] = records'[i] \/ i \in behind'
      <4>1. i \notin S BY <3>1, <2>2
      <4> QED BY <4>1, <3>1, <2>1, <1>2, <1>10 DEF LabelsOK, LabelsHold, Known
    <3> QED BY <3>1 DEF Known
  <2>5. Resolved(held, dict, behind', dropped) BY <2>1, <1>2 DEF LabelsOK, LabelsHold, Resolved
  <2>6. LabelsOK' BY <1>2, <2>1, <2>3, <2>4, <2>5 DEF LabelsOK, LabelsHold
  <2>7. Labels(q, records', held', behind', dict', dropped', backup', exported')
    <3>1. \A i \in Backup!Saved(backup.collections) : i \in Id BY DEF Backup!Saved
    <3>2. \A i \in Backup!Saved(backup.collections) : Here(records'[i]) => records'[i][1] = None
      BY <3>1, <2>2, <1>9
    <3> QED BY <3>2, <1>2, <1>6 DEF Labels, Renames
  <2> QED BY <1>1, <1>6, <1>7, <2>6, <2>7, TurnLabels
<1>14. ASSUME WholeBackups, Restorable PROVE Restorable'
  <2>1. BackupsOK BY <1>14 DEF Restorable
  <2>2. records = [i \in Id |-> <<>>] /\ ledger = <<>>
    BY <1>14 DEF WholeBackups, Backup!load, Backup!May, Backup!Empty, Backup!Absent
  <2>3. \A i \in Id : records'[i] = backup.collections[i] BY <1>10, <2>2 DEF Here
  <2>4. records' = backup.collections BY <1>10, <1>11, <2>3 DEF Table
  <2>5. BackupsOK' BY <1>2, <2>1 DEF BackupsOK, BackupsHold
  <2>6. Loads(q, records', behind', ledger', head', handle', whole', backup') BY <1>2, <1>6, <2>2, <2>4 DEF Loads
  <2> QED BY <1>1, <1>6, <1>7, <2>5, <2>6, TurnBackups
<1> QED BY <1>12, <1>13, <1>14 DEF Keeps

(* It writes the ledger and forgets the caches. *)
LEMMA LoadEntriesKeeps ==
    ASSUME BackupTypeOK, NEW w \in Caller, Backup!LoadEntries(w)
    PROVE  Keeps
<1> DEFINE k == dictCall[w]
           new == backup.internal
<1>1. k.pc = "entries" BY DEF Backup!LoadEntries
<1>2. Solo(w) /\ k \in DictCallType /\ Shaped(k) /\ StateOK /\ backup.made
  BY <1>1, AtWork DEF BackupTypeOK, CallsType
<1>3. UNCHANGED <<records, dict, dropped, syncCache, declared, writes, backup, exported, whole>>
      /\ held' = records /\ behind' = backup.was[3] \cup (behind \ Backup!Saved(backup.collections))
  BY DEF Backup!LoadEntries, Backup!entries
<1>4. backup \in BackupType BY <1>2 DEF StateOK, StateType, Backup!NoBackup
<1>5. new \in Seq(LedgerRow) /\ ledger \in Seq(LedgerRow) BY <1>2, <1>4 DEF BackupType, Chain, StateOK, StateType
<1>6. PICK m \in Nat : m = IF Len(new) > Len(ledger) THEN Len(new) ELSE Len(ledger) BY <1>5
<1>7. ledger' = [n \in 1..m |-> IF n <= Len(new) THEN new[n] ELSE ledger[n]] BY <1>6 DEF Backup!LoadEntries
<1>8. ledger' \in Seq(LedgerRow)
  <2>1. ASSUME NEW n \in 1..m PROVE (IF n <= Len(new) THEN new[n] ELSE ledger[n]) \in LedgerRow
    <3>1. CASE n <= Len(new)
      <4>1. n \in 1..Len(new) BY <3>1, <1>5
      <4> QED BY <4>1, <3>1, <1>5, ElementOfSeq
    <3>2. CASE ~(n <= Len(new))
      <4>1. n \in 1..Len(ledger) BY <3>2, <1>5, <1>6
      <4> QED BY <4>1, <3>2, <1>5, ElementOfSeq
    <3> QED BY <3>1, <3>2
  <2>2. ledger' \in [1..m -> LedgerRow] BY <2>1, <1>7
  <2>3. [1..m -> LedgerRow] \in {[1..n -> LedgerRow] : n \in Nat} OBVIOUS
  <2>4. Seq(LedgerRow) = UNION {[1..n -> LedgerRow] : n \in Nat} BY SeqDef
  <2> QED BY <2>2, <2>3, <2>4
<1>9. head' = [n |-> 0, stamp |-> 0] /\ oldHead' = head BY DEF Backup!LoadEntries, Backup!Unread
<1>10. PICK q : q = [k EXCEPT !.pc = "verify"] OBVIOUS
<1>11. dictCall' = [dictCall EXCEPT ![w] = q] BY <1>10 DEF Backup!LoadEntries, Backup!Goes
<1>12. q \in DictCallType /\ q.pc = "verify" BY <1>2, <1>10 DEF DictCallType
<1>13. Shaped(q) BY <1>12 DEF Shaped, Renames
<1> HIDE DEF k
<1>14. BackupTypeOK'
  <2>1. StateOK'
    <3>1. head' \in HeadType /\ oldHead' \in HeadType BY <1>2, <1>9 DEF HeadType, StateOK, StateType
    <3>2. behind' \subseteq Id BY <1>2, <1>3, <1>4 DEF BackupType, StateOK, StateType
    <3> QED BY <1>2, <1>3, <1>8, <3>1, <3>2 DEF StateOK, StateType, Chain
  <2>2. q.pc # "account" /\ backup'.made BY <1>2, <1>3, <1>12
  <2> QED BY <1>2, <1>11, <1>12, <1>13, <2>1, <2>2, TurnTypes
<1>15. ASSUME Labelled PROVE Labelled'
  <2>1. LabelsOK /\ LabelsOf(k) BY <1>15 DEF Labelled, k
  <2>2. \A i \in Backup!Saved(backup.collections) : Here(records[i]) => records[i][1] = None
    BY <1>1, <2>1 DEF LabelsOf, Labels, k
  <2>3. Resolved(records, dict, behind', dropped)
    <3>1. ASSUME NEW i \in Id, Here(records[i])
          PROVE  records[i][1] \in Shown(dict) \/ i \in behind' \/ records[i][1] \in dropped
      <4>1. CASE i \in Backup!Saved(backup.collections) BY <4>1, <3>1, <2>2 DEF Shown
      <4>2. CASE i \notin Backup!Saved(backup.collections)
        BY <4>2, <3>1, <2>1, <1>3 DEF LabelsOK, LabelsHold, Resolved
      <4> QED BY <4>1, <4>2
    <3> QED BY <3>1 DEF Resolved
  <2>4. LabelsOK' BY <1>3, <2>1, <2>3 DEF LabelsOK, LabelsHold, Known
  <2>5. Labels(q, records', held', behind', dict', dropped', backup', exported') BY <1>12 DEF Labels, Renames
  <2> QED BY <1>2, <1>11, <1>12, <2>4, <2>5, TurnLabels
<1>16. ASSUME WholeBackups, Restorable PROVE Restorable'
  <2>1. BackupsOK /\ LoadsOf(k) BY <1>16 DEF Restorable, k
  <2>2. ledger = <<>> /\ records = backup.collections /\ ~whole BY <1>1, <2>1 DEF LoadsOf, Loads, k
  <2>3. ledger' = new
    <3>1. Len(ledger) = 0 BY <2>2
    <3>2. m = Len(new) BY <3>1, <1>5, <1>6
    <3>3. \A n \in 1..m : ledger'[n] = new[n] BY <3>2, <1>7
    <3>4. Len(ledger') = m
      <4>1. DOMAIN ledger' = 1..m BY <1>7
      <4> QED BY <4>1, <1>8, LenProperties
    <3> HIDE DEF new
    <3> QED BY <3>2, <3>3, <3>4, <1>5, <1>8, SeqEqual
  <2>4. BackupsOK' BY <1>3, <1>9, <2>1, <2>2 DEF BackupsOK, BackupsHold, Leads
  <2>5. Loads(q, records', behind', ledger', head', handle', whole', backup')
    BY <1>3, <1>9, <1>12, <2>2, <2>3 DEF Loads
  <2> QED BY <1>2, <1>11, <1>12, <2>4, <2>5, TurnBackups
<1> QED BY <1>14, <1>15, <1>16 DEF Keeps

(* A load that finds the chain whole, its last hash that of the head and every *)
(* record as its last put has left it has put back what the dump has read, but *)
(* for what the dump's ledger did not account for.                             *)
LEMMA WholeAgain ==
    ASSUME NEW d \in Table, NEW l \in Seq(LedgerRow), NEW m \in Nat, NEW be \in SUBSET Id, Kept(d, l, be, m),
           Len(l) # 0,
           NEW c \in Table, NEW e \in Seq(LedgerRow),
           \A i \in Id : Worn(d[i], c[i]), Len(e) <= Len(l), \A n \in 1..Len(e) : WornRow(l[n], e[n]),
           Chained(e), LastStamp(e) = LastStamp(l),
           \A n \in 1..Len(e) : Latest(e, n) /\ e[n].op = "put" /\ e[n].c = "records" =>
              (IF Here(c[e[n].id]) THEN c[e[n].id][2] ELSE None) = e[n].hash
    PROVE  e = l /\ \A i \in Id \ be : c[i] = d[i]
<1>0. None \notin Nat BY BackupAssumption DEF Backup!DictAssumption
<1>1. /\ Len(l) \in Nat /\ Len(l) \in 1..Len(l) /\ l # <<>> /\ Len(e) \in Nat
      /\ \A n \in 1..Len(l) : l[n].stamp \in 1..m
      /\ \A n, k \in 1..Len(l) : n < k => l[n].stamp < l[k].stamp
      /\ \A n \in 1..Len(l) : l[n].prev = IF n = 1 THEN None ELSE l[n - 1].stamp
  <2>1. Len(l) \in Nat /\ l # <<>> /\ Len(e) \in Nat BY EmptySeq
  <2> QED BY <2>1 DEF Kept, Rising, Chained
<1>2. LastStamp(l) = l[Len(l)].stamp /\ LastStamp(l) \in 1..m BY <1>1 DEF LastStamp
<1>3. Len(e) # 0 /\ e # <<>>
  <2>1. e # <<>> BY <1>0, <1>2 DEF LastStamp
  <2> QED BY <2>1, EmptySeq
<1>4. Len(e) \in 1..Len(e) /\ Len(e) \in 1..Len(l) /\ e[Len(e)].stamp = l[Len(l)].stamp
  BY <1>1, <1>2, <1>3 DEF LastStamp
<1>5. e[Len(e)] = l[Len(e)]
  <2>1. WornRow(l[Len(e)], e[Len(e)]) BY <1>4
  <2>2. e[Len(e)].stamp # 0 BY <1>1, <1>4
  <2> QED BY <2>1, <2>2 DEF WornRow
<1>6. Len(e) = Len(l)
  <2>1. ~(Len(e) < Len(l))
    <3>1. ASSUME Len(e) < Len(l) PROVE FALSE
      <4>1. l[Len(e)].stamp < l[Len(l)].stamp BY <3>1, <1>1, <1>4
      <4>2. l[Len(l)].stamp \in 1..m BY <1>1
      <4> QED BY <4>1, <4>2, <1>4, <1>5
    <3> QED BY <3>1
  <2> QED BY <2>1, <1>1
<1>7. ASSUME NEW n \in 1..Len(l) PROVE e[n] = l[n]
  <2>1. CASE n = Len(l) BY <2>1, <1>5, <1>6
  <2>2. CASE n # Len(l)
    <3>1. n + 1 \in 1..Len(l) /\ n + 1 # 1 /\ n + 1 - 1 = n BY <2>2, <1>1
    <3>2. e[n + 1].prev = e[n].stamp BY <3>1, <1>6 DEF Chained
    <3>3. l[n + 1].prev = l[n].stamp BY <3>1, <1>1
    <3>4. WornRow(l[n + 1], e[n + 1]) /\ WornRow(l[n], e[n]) BY <3>1, <1>6
    <3>5. e[n + 1].prev = l[n + 1].prev BY <3>4 DEF WornRow
    <3>6. e[n].stamp # 0 BY <3>2, <3>3, <3>5, <1>1
    <3> QED BY <3>4, <3>6 DEF WornRow
  <2> QED BY <2>1, <2>2
<1>8. e = l BY <1>6, <1>7, SeqEqual
<1>9. ASSUME NEW i \in Id \ be PROVE c[i] = d[i]
  <2>1. SUFFICES ASSUME c[i] # d[i] PROVE FALSE OBVIOUS
  <2>2. Here(d[i]) /\ (c[i] = <<>> \/ c[i] = <<None, 0>>) BY <2>1 DEF Worn
  <2>3. PICK n \in 1..Len(l) : l[n].c = "records" /\ l[n].id = i /\ Latest(l, n)
    BY <2>2 DEF Kept, Accounts
  <2>4. Tells(l, n, d, be) BY DEF Kept, Accounts
  <2>5. l[n].op = "put" /\ d[i][2] = l[n].hash BY <2>2, <2>3, <2>4 DEF Tells
  <2>6. d[i][2] \in 1..m BY <2>2 DEF Kept, Dated
  <2>7. (IF Here(c[i]) THEN c[i][2] ELSE None) = d[i][2] BY <2>3, <2>5, <1>8
  <2>8. CASE c[i] = <<>> BY <2>6, <2>7, <2>8, <1>0 DEF Here
  <2>9. CASE c[i] = <<None, 0>>
    <3>1. c[i][2] = 0 /\ Here(c[i]) BY <2>9 DEF Here
    <3> QED BY <2>6, <2>7, <3>1
  <2> QED BY <2>2, <2>8, <2>9
<1> QED BY <1>8, <1>9

(* What the verification of a vault looks at. *)
LEMMA VerifiesWhat ==
    ASSUME records \in Table, ledger \in Seq(LedgerRow)
    PROVE  Backup!verifyBackupIntegrity =>
             /\ Chained(ledger)
             /\ \A n \in 1..Len(ledger) :
                  Latest(ledger, n) /\ ledger[n].op = "put" /\ ledger[n].c = "records" =>
                    (IF Here(records[ledger[n].id]) THEN records[ledger[n].id][2] ELSE None) = ledger[n].hash
<1>1. DOMAIN ledger = 1..Len(ledger) /\ Len(ledger) \in Nat OBVIOUS
<1>2. SUFFICES ASSUME Backup!verifyBackupIntegrity
               PROVE  /\ Chained(ledger)
                      /\ \A n \in 1..Len(ledger) :
                           Latest(ledger, n) /\ ledger[n].op = "put" /\ ledger[n].c = "records" =>
                             (IF Here(records[ledger[n].id]) THEN records[ledger[n].id][2] ELSE None)
                               = ledger[n].hash
  OBVIOUS
<1>3. Chained(ledger) BY <1>1, <1>2 DEF Backup!verifyBackupIntegrity, Backup!ChainHolds, Chained
<1>4. ASSUME NEW n \in 1..Len(ledger), Latest(ledger, n), ledger[n].op = "put", ledger[n].c = "records"
      PROVE  (IF Here(records[ledger[n].id]) THEN records[ledger[n].id][2] ELSE None) = ledger[n].hash
  <2>1. n \in Backup!LatestOps(ledger)
    <3>1. \A j \in DOMAIN ledger : j > n => <<ledger[j].c, ledger[j].id>> # <<ledger[n].c, ledger[n].id>>
      BY <1>1, <1>4 DEF Latest
    <3> QED BY <3>1, <1>1 DEF Backup!LatestOps
  <2>2. Backup!HashOf(records, ledger[n]) = ledger[n].hash
    BY <2>1, <1>2, <1>4 DEF Backup!verifyBackupIntegrity, Backup!DataMatches
  <2> QED BY <2>2, <1>4 DEF Backup!HashOf, Backup!Exists, Backup!Absent, Here
<1> QED BY <1>3, <1>4

(* A vault whose ledger tells all of it verifies. *)
LEMMA WholeVerifies ==
    ASSUME NEW m \in Nat, records \in Table, ledger \in Seq(LedgerRow), Kept(records, ledger, {}, m), Plain(ledger)
    PROVE  Backup!verifyBackupIntegrity
<1>1. DOMAIN ledger = 1..Len(ledger) /\ Len(ledger) \in Nat OBVIOUS
<1>2. Backup!ChainHolds(ledger) BY <1>1 DEF Backup!ChainHolds, Kept, Chained
<1>3. ASSUME NEW n \in Backup!LatestOps(ledger), ledger[n].op = "put"
      PROVE  Backup!HashOf(records, ledger[n]) = ledger[n].hash
  <2>1. n \in 1..Len(ledger) /\ Latest(ledger, n)
    <3>1. n \in 1..Len(ledger) BY <1>1 DEF Backup!LatestOps
    <3>2. \A j \in DOMAIN ledger : j > n => <<ledger[j].c, ledger[j].id>> # <<ledger[n].c, ledger[n].id>>
      BY DEF Backup!LatestOps
    <3> QED BY <3>1, <3>2, <1>1 DEF Latest
  <2>2. ledger[n].c = "records" /\ Tells(ledger, n, records, {}) BY <2>1 DEF Plain, Kept, Accounts
  <2> QED BY <2>1, <2>2, <1>3 DEF Tells, Backup!HashOf, Backup!Exists, Backup!Absent, Here
<1>4. Backup!DataMatches(records, ledger) BY <1>3 DEF Backup!DataMatches
<1> QED BY <1>2, <1>4 DEF Backup!verifyBackupIntegrity

(* What a load says when it is over. *)
LEMMA LoadSays ==
    ASSUME BackupTypeOK, Restorable, NEW w \in Caller, Backup!LoadVerify(w)
    PROVE  /\ report' = "ok" =>
                ledger = backup.was[2] /\ \A i \in Id \ backup.was[3] : records[i] = backup.was[1][i]
           /\ ~backup.damaged /\ backup.was[3] = {} => report' # "broken"
           /\ report' # "broken" => Kept(records, ledger, behind, writes)
<1>1. dictCall[w].pc = "verify" BY DEF Backup!LoadVerify
<1>2. StateOK /\ backup.made /\ BackupsOK /\ LoadsOf(dictCall[w])
  BY <1>1 DEF BackupTypeOK, CallsType, Restorable
<1>3. backup \in BackupType /\ Backs(backup, writes) /\ writes \in Nat
  BY <1>2 DEF StateOK, StateType, Backup!NoBackup, BackupsOK, BackupsHold
<1>4. records = backup.collections /\ ledger = backup.internal /\ backup.was[3] \subseteq behind
  BY <1>1, <1>2 DEF LoadsOf, Loads
<1>5. records \in Table /\ ledger \in Seq(LedgerRow) BY <1>2 DEF StateOK, StateType, Chain
<1>6. PICK d \in Table, l \in Seq(LedgerRow), be \in SUBSET Id :
        backup.was[1] = d /\ backup.was[2] = l /\ backup.was[3] = be
  BY <1>3 DEF BackupType, Chain
<1>7. /\ Kept(d, l, be, writes) /\ Plain(l) /\ be \subseteq behind
      /\ backup.ledgerHead = [n |-> Len(l), stamp |-> LastStamp(l)]
      /\ \A i \in Id : Worn(d[i], records[i])
      /\ Len(ledger) <= Len(l) /\ \A n \in 1..Len(ledger) : WornRow(l[n], ledger[n])
      /\ backup.damaged \/ (records = d /\ ledger = l)
  BY <1>3, <1>4, <1>6 DEF Backs
<1>8. backup.ledgerHead.n = Len(l) /\ backup.ledgerHead.stamp = LastStamp(l) BY <1>7
<1>9. Backup!getCachedHead(Backup!Unread).stamp = LastStamp(ledger)
  BY DEF Backup!getCachedHead, Backup!Unread, Backup!HeadAt, LastStamp
<1>10. report' = IF Len(l) = 0 THEN "unchecked"
                 ELSE IF Backup!verifyBackupIntegrity /\ LastStamp(ledger) = LastStamp(l) THEN "ok" ELSE "broken"
  BY <1>8, <1>9 DEF Backup!LoadVerify, Backup!LoadVerdict
<1>11. ASSUME report' = "ok" PROVE ledger = l /\ \A i \in Id \ be : records[i] = d[i]
  <2>1. Len(l) # 0 /\ Backup!verifyBackupIntegrity /\ LastStamp(ledger) = LastStamp(l) BY <1>10, <1>11
  <2>2. /\ Chained(ledger)
        /\ \A n \in 1..Len(ledger) :
             Latest(ledger, n) /\ ledger[n].op = "put" /\ ledger[n].c = "records" =>
               (IF Here(records[ledger[n].id]) THEN records[ledger[n].id][2] ELSE None) = ledger[n].hash
    BY <2>1, <1>5, VerifiesWhat
  <2>3. Chained(ledger) /\ LastStamp(ledger) = LastStamp(l) /\ Len(l) # 0 BY <2>1, <2>2
  <2>4. /\ Kept(d, l, be, writes) /\ \A i \in Id : Worn(d[i], records[i])
        /\ Len(ledger) <= Len(l) /\ \A n \in 1..Len(ledger) : WornRow(l[n], ledger[n])
    BY <1>7
  <2> QED BY <2>2, <2>3, <2>4, <1>3, <1>5, WholeAgain
<1>12. ASSUME ~backup.damaged, be = {} PROVE report' # "broken"
  <2>1. records = d /\ ledger = l BY <1>7, <1>12
  <2>2. Kept(records, ledger, {}, writes) BY <2>1, <1>7, <1>12
  <2>3. Backup!verifyBackupIntegrity BY <2>1, <2>2, <1>3, <1>5, <1>7, WholeVerifies
  <2> QED BY <2>1, <2>3, <1>10
<1>13. ASSUME report' = "ok" PROVE Kept(records, ledger, behind, writes)
  <2>1. \A i \in Id \ behind : i \notin be /\ records[i] = d[i] BY <1>7, <1>11, <1>13
  <2>2. writes <= writes BY <1>3
  <2>3. Kept(records, l, behind, writes) BY <2>1, <2>2, <1>3, <1>7, KeptOff
  <2> QED BY <2>3, <1>11, <1>13
<1>14. ASSUME report' = "unchecked" PROVE Kept(records, ledger, behind, writes)
  <2>1. Len(l) = 0 BY <1>10, <1>14
  <2>2. l = <<>> /\ ledger = <<>>
    <3>1. Len(ledger) = 0 BY <2>1, <1>5, <1>7
    <3> QED BY <2>1, <3>1, <1>5, EmptySeq
  <2>3. \A i \in Id \ be : ~Here(d[i])
    <3>1. 1..Len(l) = {} BY <2>1
    <3> QED BY <3>1, <1>7 DEF Kept, Accounts
  <2>4. \A i \in Id \ behind : ~Here(records[i]) BY <2>3, <1>7 DEF Worn
  <2> QED BY <2>2, <2>4, NothingKept
<1>15. report' \in {"unchecked", "ok", "broken"} BY <1>10
<1> QED BY <1>6, <1>11, <1>12, <1>13, <1>14, <1>15

(* A load is over: unless it was refused, the ledger tells all of the vault. *)
LEMMA LoadVerifyKeeps ==
    ASSUME BackupTypeOK, NEW w \in Caller, Backup!LoadVerify(w)
    PROVE  Keeps
<1>1. dictCall[w].pc = "verify" BY DEF Backup!LoadVerify
<1>2. Solo(w) /\ StateOK BY <1>1, AtWork
<1>3. UNCHANGED <<records, held, behind, dict, dropped, ledger, syncCache, declared, head, oldHead, handle, writes,
                  backup, exported>>
      /\ Backup!Returns(w) /\ whole' = (report' # "broken")
  BY DEF Backup!LoadVerify, Backup!contents, Backup!records, Backup!entries
<1>4. dictCall' = [dictCall EXCEPT ![w] = Backup!Idle] BY <1>3 DEF Backup!Returns
<1>5. BackupTypeOK'
  <2>1. StateOK' BY <1>2, <1>3 DEF StateOK, StateType
  <2> QED BY <1>2, <1>4, <2>1, IdleEnds, TurnTypes
<1>6. ASSUME Labelled PROVE Labelled'
  <2>1. LabelsOK' BY <1>3, <1>6 DEF Labelled, LabelsOK
  <2> QED BY <1>2, <1>4, <2>1, IdleEnds, TurnLabels
<1>7. ASSUME Restorable PROVE Restorable'
  <2>1. BackupsOK BY <1>7 DEF Restorable
  <2>2. whole' => Kept(records, ledger, behind, writes) BY <1>3, <1>7, LoadSays
  <2>3. BackupsOK' BY <1>3, <2>1, <2>2 DEF BackupsOK, BackupsHold
  <2> QED BY <1>2, <1>4, <2>3, IdleEnds, TurnBackups
<1> QED BY <1>5, <1>6, <1>7 DEF Keeps

-----------------------------------------------------------------------------

(* An export begins. *)
LEMMA ExportKeeps ==
    ASSUME BackupTypeOK, InTurn, NEW w \in Caller, Backup!exportStream(w)
    PROVE  Keeps
<1>1. UNCHANGED <<records, held, behind, dict, dropped, ledger, syncCache, declared, head, oldHead, handle, writes,
                  backup, whole>>
      /\ exported' = [labels |-> {}, used |-> {}]
  BY DEF Backup!exportStream, Backup!contents, Backup!records, Backup!entries, Backup!NoExport
<1>2. Backup!Begin(w, "export", "labels") BY DEF Backup!exportStream
<1>3. Solo(w) BY <1>2, Beginning
<1>4. PICK q \in DictCallType :
        /\ dictCall' = [dictCall EXCEPT ![w] = q] /\ Shaped(q)
        /\ q.pc = "labels" /\ q.pc \notin {"entries", "verify", "account"} /\ q.snapshot = records
        /\ q.todo \subseteq Id
  BY <1>2, Beginning
<1>5. BackupTypeOK'
  <2>1. exported' \in ExportType BY <1>1 DEF ExportType
  <2>2. StateOK' BY <1>1, <2>1 DEF BackupTypeOK, StateOK, StateType
  <2> QED BY <1>3, <1>4, <2>2, TurnTypes
<1>6. ASSUME Labelled PROVE Labelled'
  <2>1. LabelsOK' BY <1>1, <1>6 DEF Labelled, LabelsOK
  <2>2. Labels(q, records', held', behind', dict', dropped', backup', exported') BY <1>4 DEF Labels, Renames
  <2> QED BY <1>3, <1>4, <2>1, <2>2, TurnLabels
<1>7. ASSUME Restorable PROVE Restorable'
  <2>1. BackupsOK' BY <1>1, <1>7 DEF Restorable, BackupsOK
  <2>2. Loads(q, records', behind', ledger', head', handle', whole', backup') BY <1>4 DEF Loads
  <2> QED BY <1>3, <1>4, <2>1, <2>2, TurnBackups
<1> QED BY <1>5, <1>6, <1>7 DEF Keeps

(* It takes the labels of every key. *)
LEMMA ExportLabelsKeeps ==
    ASSUME BackupTypeOK, NEW w \in Caller, Backup!ExportLabels(w)
    PROVE  Keeps
<1> DEFINE k == dictCall[w]
<1>1. k.pc = "labels" BY DEF Backup!ExportLabels
<1>2. Solo(w) /\ k \in DictCallType /\ Shaped(k) BY <1>1, AtWork
<1>3. UNCHANGED <<records, held, behind, dict, dropped, ledger, syncCache, declared, head, oldHead, handle, writes,
                  backup, whole>>
      /\ exported' = [labels |-> Shown(dict), used |-> {}]
  BY DEF Backup!ExportLabels, Backup!contents, Backup!records, Backup!entries, Backup!NoExport, Backup!Usable,
         Backup!Exists, Backup!Absent, Shown, Here
<1>4. PICK q : q = [k EXCEPT !.pc = "export"] OBVIOUS
<1>5. dictCall' = [dictCall EXCEPT ![w] = q] BY <1>4 DEF Backup!ExportLabels, Backup!Goes
<1>6. q \in DictCallType /\ q.pc = "export" /\ q.snapshot = k.snapshot /\ q.todo = k.todo
  BY <1>2, <1>4 DEF DictCallType
<1>7. Shaped(q) BY <1>1, <1>2, <1>6 DEF Shaped, Renames
<1> HIDE DEF k
<1>8. q.pc \notin {"entries", "verify", "account"} BY <1>6
<1>9. BackupTypeOK'
  <2>1. exported' \in ExportType
    <3>1. Shown(dict) \subseteq KeyOrNone BY DEF Shown, KeyOrNone
    <3> QED BY <3>1, <1>3 DEF ExportType
  <2>2. StateOK' BY <1>3, <2>1 DEF BackupTypeOK, StateOK, StateType
  <2> QED BY <1>2, <1>5, <1>6, <1>7, <1>8, <2>2, TurnTypes
<1>10. ASSUME Labelled PROVE Labelled'
  <2>1. LabelsOK' BY <1>3, <1>10 DEF Labelled, LabelsOK
  <2>2. Labels(q, records', held', behind', dict', dropped', backup', exported') BY <1>3, <1>6 DEF Labels, Renames
  <2> QED BY <1>2, <1>5, <1>6, <2>1, <2>2, TurnLabels
<1>11. ASSUME Restorable PROVE Restorable'
  <2>1. BackupsOK' BY <1>3, <1>11 DEF Restorable, BackupsOK
  <2>2. Loads(q, records', behind', ledger', head', handle', whole', backup') BY <1>6 DEF Loads
  <2> QED BY <1>2, <1>5, <1>6, <2>1, <2>2, TurnBackups
<1> QED BY <1>9, <1>10, <1>11 DEF Keeps

(* It reads a record: its key is among them, or excused. *)
LEMMA ExportRecordKeeps ==
    ASSUME BackupTypeOK, NEW w \in Caller, NEW i \in Id, Backup!ExportRecord(w, i)
    PROVE  Keeps
<1> DEFINE k == dictCall[w]
<1>1. k.pc = "export" BY DEF Backup!ExportRecord
<1>2. Solo(w) /\ k \in DictCallType /\ Shaped(k) /\ StateOK BY <1>1, AtWork
<1>3. UNCHANGED <<records, held, behind, dict, dropped, ledger, syncCache, declared, head, oldHead, handle, writes,
                  backup, whole>>
  BY DEF Backup!ExportRecord, Backup!contents, Backup!records, Backup!entries
<1>4. PICK x : x = <<i, held[i][1]>> OBVIOUS
<1>5. exported' = IF Here(held[i]) THEN [exported EXCEPT !.used = exported.used \cup {x}] ELSE exported
  BY <1>4 DEF Backup!ExportRecord, Backup!Exists, Backup!Absent, Here
<1>6. PICK q : q = [k EXCEPT !.todo = k.todo \ {i}] OBVIOUS
<1>7. dictCall' = [dictCall EXCEPT ![w] = q] BY <1>6 DEF Backup!ExportRecord
<1>8. q \in DictCallType /\ q.pc = "export" /\ q.snapshot = k.snapshot /\ q.todo \subseteq Id
  <2>1. k.todo \subseteq Id /\ k.todo \ {i} \in SUBSET (Id \cup DictKey) BY <1>1, <1>2 DEF Shaped
  <2> QED BY <2>1, <1>1, <1>2, <1>6 DEF DictCallType
<1>9. Shaped(q) BY <1>1, <1>2, <1>8 DEF Shaped, Renames
<1>10. q.pc \notin {"entries", "verify", "account"} BY <1>8
<1> HIDE DEF k
<1>11. Here(held[i]) => x \in Id \X KeyOrNone /\ x[1] = i /\ x[2] = held[i][1]
  <2>1. held[i] \in {<<>>} \cup Row BY <1>2 DEF StateOK, StateType, Table
  <2>2. Here(held[i]) => held[i][1] \in KeyOrNone BY <2>1 DEF Here, Row
  <2> QED BY <2>2, <1>4
<1>12. /\ exported' \in ExportType /\ exported'.labels = exported.labels
       /\ \A y \in exported'.used : y \in exported.used \/ (y = x /\ Here(held[i]))
  <2>1. exported \in ExportType BY <1>2 DEF StateOK, StateType
  <2> QED BY <2>1, <1>5, <1>11 DEF ExportType
<1>13. BackupTypeOK'
  <2>1. StateOK' BY <1>2, <1>3, <1>12 DEF StateOK, StateType
  <2> QED BY <1>2, <1>7, <1>8, <1>9, <1>10, <2>1, TurnTypes
<1>14. ASSUME Labelled PROVE Labelled'
  <2>1. LabelsOK /\ LabelsOf(k) BY <1>14 DEF Labelled, k
  <2>2. /\ exported.labels = Shown(dict)
        /\ \A y \in exported.used : y[2] \in exported.labels \/ y[1] \in behind \/ y[2] \in dropped
    BY <1>1, <2>1 DEF LabelsOf, Labels, k
  <2>3. Here(held[i]) => x[2] \in exported.labels \/ x[1] \in behind \/ x[2] \in dropped
    BY <2>1, <2>2, <1>11 DEF LabelsOK, LabelsHold, Resolved
  <2>4. \A y \in exported'.used : y[2] \in exported'.labels \/ y[1] \in behind \/ y[2] \in dropped
    BY <2>2, <2>3, <1>12
  <2>5. LabelsOK' BY <1>3, <2>1 DEF LabelsOK
  <2>6. Labels(q, records', held', behind', dict', dropped', backup', exported')
    BY <1>3, <1>8, <1>12, <2>2, <2>4 DEF Labels, Renames
  <2> QED BY <1>2, <1>7, <1>8, <2>5, <2>6, TurnLabels
<1>15. ASSUME Restorable PROVE Restorable'
  <2>1. BackupsOK' BY <1>3, <1>15 DEF Restorable, BackupsOK
  <2>2. Loads(q, records', behind', ledger', head', handle', whole', backup') BY <1>8 DEF Loads
  <2> QED BY <1>2, <1>7, <1>8, <2>1, <2>2, TurnBackups
<1> QED BY <1>13, <1>14, <1>15 DEF Keeps

(* It ends. *)
LEMMA ExportDoneKeeps ==
    ASSUME BackupTypeOK, NEW w \in Caller, Backup!ExportDone(w)
    PROVE  Keeps
<1>1. dictCall[w].pc = "export" BY DEF Backup!ExportDone
<1>2. Solo(w) /\ StateOK BY <1>1, AtWork
<1>3. UNCHANGED <<records, held, behind, dict, dropped, ledger, syncCache, declared, head, oldHead, handle, writes,
                  backup, whole>>
      /\ exported' = [labels |-> {}, used |-> {}] /\ dictCall' = [dictCall EXCEPT ![w] = Backup!Idle]
  BY DEF Backup!ExportDone, Backup!contents, Backup!records, Backup!entries, Backup!NoExport, Backup!Returns
<1>4. BackupTypeOK'
  <2>1. exported' \in ExportType BY <1>3 DEF ExportType
  <2>2. StateOK' BY <1>2, <1>3, <2>1 DEF StateOK, StateType
  <2> QED BY <1>2, <1>3, <2>2, IdleEnds, TurnTypes
<1>5. ASSUME Labelled PROVE Labelled'
  <2>1. LabelsOK' BY <1>3, <1>5 DEF Labelled, LabelsOK
  <2> QED BY <1>2, <1>3, <2>1, IdleEnds, TurnLabels
<1>6. ASSUME Restorable PROVE Restorable'
  <2>1. BackupsOK' BY <1>3, <1>6 DEF Restorable, BackupsOK
  <2> QED BY <1>2, <1>3, <2>1, IdleEnds, TurnBackups
<1> QED BY <1>4, <1>5, <1>6 DEF Keeps

-----------------------------------------------------------------------------

(* Every step of the records and the dictionary. *)
LEMMA DictKeeps ==
    ASSUME BackupTypeOK, InTurn, Backup!DictNext, UNCHANGED Backup!backupVars
    PROVE  Keeps
<1>1. CASE Backup!Crash BY <1>1, CrashKeeps
<1>2. ASSUME NEW w \in Caller, NEW i \in Id, Backup!DeleteRecord(w, i) PROVE Keeps BY <1>2, DeleteRecordKeeps
<1>3. ASSUME NEW w \in Caller, NEW i \in Id, NEW k \in DictKey \cup {None}, Backup!PutRecord(w, i, k) PROVE Keeps
  BY <1>3, PutRecordKeeps
<1>4. ASSUME NEW w \in Caller,
             \/ Backup!GetEntry(w) \/ Backup!WriteEntry(w) \/ Backup!ListReferences(w) \/ Backup!UpdatedAll(w)
             \/ Backup!RemoveEntry(w) \/ Backup!AppendEntry(w) \/ Backup!list(w) \/ Backup!FetchedNone(w)
             \/ Backup!Fail(w) \/ Backup!AccountRecord(w)
      PROVE  Keeps
  BY <1>4, GetKeeps, WriteKeeps, ListKeeps, UpdatedKeeps, RemoveKeeps, AppendKeeps, ListsKeeps, FetchedKeeps,
     FailKeeps, AccountKeeps
<1>5. ASSUME NEW w \in Caller, NEW i \in Id, Backup!UpdateReference(w, i) PROVE Keeps BY <1>5, UpdateKeeps
<1>6. ASSUME NEW w \in Caller, NEW k \in DictKey, Backup!put(w, k) \/ Backup!delete(w, k) \/ Backup!FetchEntry(w, k)
      PROVE  Keeps
  BY <1>6, PutKeeps, DeleteKeeps, FetchKeeps
<1>7. ASSUME NEW w \in Caller, NEW k \in DictKey, NEW to \in DictKey, Backup!rename(w, k, to) PROVE Keeps
  BY <1>7, RenameKeeps
<1> QED BY <1>1, <1>2, <1>3, <1>4, <1>5, <1>6, <1>7 DEF Backup!DictNext

(* Every step. *)
LEMMA BackupKeeps ==
    ASSUME BackupTypeOK, InTurn, Backup!Next
    PROVE  Keeps
<1>1. CASE Backup!DictNext /\ UNCHANGED Backup!backupVars BY <1>1, DictKeeps
<1>2. CASE Backup!Damage \/ Backup!NewVault BY <1>2, DamageKeeps, NewVaultKeeps
<1>3. ASSUME NEW w \in Caller,
             \/ Backup!dump(w) \/ Backup!DumpLedger(w) \/ Backup!load(w) \/ Backup!LoadEntries(w)
             \/ Backup!LoadVerify(w)
      PROVE  Keeps
  BY <1>3, DumpKeeps, DumpLedgerKeeps, LoadKeeps, LoadEntriesKeeps, LoadVerifyKeeps
<1>4. ASSUME NEW w \in Caller, Backup!exportStream(w) \/ Backup!ExportLabels(w) \/ Backup!ExportDone(w)
      PROVE  Keeps
  BY <1>4, ExportKeeps, ExportLabelsKeeps, ExportDoneKeeps
<1>5. ASSUME NEW w \in Caller, NEW i \in Id, Backup!ExportRecord(w, i) PROVE Keeps
  BY <1>5, ExportRecordKeeps
<1> QED BY <1>1, <1>2, <1>3, <1>4, <1>5 DEF Backup!Next

(* A new vault. *)
LEMMA BackupInit ==
    ASSUME Backup!Init
    PROVE  BackupTypeOK /\ (PlainDictionary => Labelled) /\ Restorable
<1>1. /\ records = [i \in Id |-> <<>>] /\ held = records /\ behind = {} /\ dropped = {}
      /\ dict = [k \in DictKey |-> <<>>] /\ ledger = <<>>
      /\ syncCache = [k \in DictKey |-> <<>>] /\ (PlainDictionary => declared = TRUE)
      /\ head = [n |-> 0, stamp |-> 0] /\ oldHead = [n |-> 0, stamp |-> 0]
      /\ dictCall = [w \in Caller |-> Backup!Idle] /\ writes = 0
      /\ backup = Backup!NoBackup /\ exported = [labels |-> {}, used |-> {}]
  BY DEF Backup!Init, Backup!InitDict, Backup!Absent, Backup!Unread, Backup!NoExport, Backup!May, PlainDictionary
<1>2. records \in Table /\ held \in Table /\ dict \in Book /\ (\A i \in Id : ~Here(records[i]))
      /\ \A i \in Id : ~Here(held[i])
  BY <1>1 DEF Table, Book, Here
<1>3. syncCache \in Mirror /\ \A k \in DictKey : ~Here(syncCache[k])
  <2>1. <<>> \in Seq(Nat) OBVIOUS
  <2> QED BY <2>1, <1>1 DEF Mirror, Here
<1>4. ledger \in Chain /\ exported \in ExportType BY <1>1 DEF Chain, ExportType
<1>5. head \in HeadType /\ oldHead \in HeadType BY <1>1 DEF HeadType
<1>6. dictCall \in [Caller -> DictCallType] /\ \A w \in Caller : dictCall[w].pc = "idle" BY <1>1, IdleCall
<1>7. /\ Lone(dictCall)
      /\ \A w \in Caller : Shaped(dictCall[w]) /\ dictCall[w].pc \notin {"entries", "verify"}
      /\ \A w \in Caller : Pending(dictCall[w], records, behind, writes)
      /\ \A w \in Caller : LabelsOf(dictCall[w])
      /\ \A w \in Caller : LoadsOf(dictCall[w])
  BY <1>6, IdleHolds DEF Lone, LabelsOf, LoadsOf
<1>8. StateOK BY <1>1, <1>2, <1>3, <1>4, <1>5 DEF StateOK, StateType
<1>9. BackupTypeOK BY <1>6, <1>7, <1>8 DEF BackupTypeOK, CallsType
<1>10. ~backup.made BY <1>1 DEF Backup!NoBackup
<1>11. PlainDictionary => Labelled
  BY <1>1, <1>2, <1>3, <1>7, <1>10 DEF Labelled, LabelsOK, LabelsHold, Resolved, Mirrored, Known
<1>12. Restorable
  <2>1. Kept(records, ledger, behind, writes) BY <1>1, <1>2, NothingKept
  <2> QED BY <1>1, <1>7, <1>10, <2>1 DEF Restorable, BackupsOK, BackupsHold, Leads
<1> QED BY <1>9, <1>11, <1>12

(* The invariant. *)
VaultInv ==
    part = "backup" =>
      /\ BackupTypeOK
      /\ PlainDictionary => Labelled
      /\ WholeBackups => Restorable

(* A step that is none of these. *)
LEMMA BackupStutters ==
    ASSUME BackupTypeOK, UNCHANGED backupVars
    PROVE  Keeps
<1>1. BackupTypeOK' BY DEF BackupTypeOK, StateOK, backupVars
<1>2. Labelled => Labelled' BY DEF Labelled, LabelsOK, LabelsOf, backupVars
<1>3. Restorable => Restorable' BY DEF Restorable, BackupsOK, LoadsOf, backupVars
<1> QED BY <1>1, <1>2, <1>3 DEF Keeps

(* The invariant holds. *)
LEMMA VaultInvariance ==
    ASSUME InTurn
    PROVE  VaultSpec => []VaultInv
<1>1. VaultInit => VaultInv BY BackupInit DEF VaultInit, VaultInv
<1>2. VaultInv /\ [VaultNext]_<<part, vars, backupVars>> => VaultInv'
  <2> SUFFICES ASSUME VaultInv, [VaultNext]_<<part, vars, backupVars>> PROVE VaultInv'
    OBVIOUS
  <2>1. CASE part = "refs" /\ Next /\ UNCHANGED <<part, backupVars>> BY <2>1 DEF VaultInv
  <2>2. CASE part = "backup" /\ Backup!Next /\ UNCHANGED <<part, vars>>
    <3>1. BackupTypeOK /\ (PlainDictionary => Labelled) /\ (WholeBackups => Restorable) BY <2>2 DEF VaultInv
    <3>2. Keeps BY <2>2, <3>1, BackupKeeps
    <3> QED BY <2>2, <3>1, <3>2 DEF VaultInv, Keeps
  <2>3. CASE UNCHANGED <<part, vars, backupVars>>
    <3>1. part' = part /\ UNCHANGED backupVars BY <2>3
    <3>2. part = "backup" => Keeps BY <3>1, BackupStutters DEF VaultInv
    <3> QED BY <3>1, <3>2 DEF VaultInv, Keeps
  <2> QED BY <2>1, <2>2, <2>3 DEF VaultNext
<1> QED BY <1>1, <1>2, PTL DEF VaultSpec

(* Every key of a record has labels, in the vault and in an export, and what  *)
(* joins read synchronously is what is stored: between the steps of a rename, *)
(* after one that failed half way and after a restart (dictionary.ts, rename, *)
(* findAndUpdateReferences; vault.ts, exportStream).  Excused are a key whose *)
(* entry the application has deleted, which Dictionary.delete does not look   *)
(* for, and a record whose last put or delete has written the store and has   *)
(* not come to its end, or failed there (collection.ts, put).                 *)
THEOREM KeysKeepLabels == PlainDictionary => (VaultSpec => []LabelsSound)
<1> SUFFICES ASSUME PlainDictionary PROVE VaultSpec => []LabelsSound OBVIOUS
<1>1. InTurn BY DEF InTurn, PlainDictionary
<1>2. VaultInv => LabelsSound
  <2> SUFFICES ASSUME VaultInv, part = "backup" PROVE Backup!LabelsFound /\ Backup!SnapshotSound
    BY DEF LabelsSound
  <2>1. Labelled BY DEF VaultInv
  <2>2. Resolved(records, dict, behind, dropped) /\ Mirrored(syncCache, dict)
    BY <2>1 DEF Labelled, LabelsOK, LabelsHold
  <2>3. Backup!KeysResolve
    BY <2>2 DEF Backup!KeysResolve, Backup!Excused, Backup!Exists, Backup!Absent, Backup!KeyOf, Backup!Usable,
                Resolved, Shown, Here
  <2>4. ASSUME NEW w \in Caller, dictCall[w].pc = "export", NEW x \in exported.used
        PROVE  x[2] \in exported.labels \/ Backup!Excused(x[1], x[2])
    <3>1. LabelsOf(dictCall[w]) BY <2>1 DEF Labelled
    <3> QED BY <3>1, <2>4 DEF LabelsOf, Labels, Backup!Excused
  <2>5. Backup!LabelsFound BY <2>3, <2>4 DEF Backup!LabelsFound
  <2>6. Backup!SnapshotSound BY <2>2 DEF Backup!SnapshotSound, Backup!Exists, Backup!Absent, Mirrored, Here
  <2> QED BY <2>5, <2>6
<1> QED BY <1>1, <1>2, VaultInvariance, PTL

(* A load that reports success has put back the records and the ledger as the *)
(* dump has read them, whatever the file has lost since; but for a record     *)
(* whose last put or delete had not come to the ledger when it was dumped.  A *)
(* load of an undamaged dump that had no such record reports success          *)
(* (vault.ts, load, verifyBackupIntegrity; collection.ts, put, delete).       *)
THEOREM LoadsRestoreExactly == WholeBackups => (VaultSpec => RestoresExactly)
<1> SUFFICES ASSUME WholeBackups PROVE VaultSpec => RestoresExactly OBVIOUS
<1>1. InTurn BY DEF InTurn, WholeBackups
<1>2. VaultInv /\ [VaultNext]_<<part, vars, backupVars>> =>
        [\A w \in Caller : Backup!LoadVerify(w) =>
            LET table == backup.was[1]
                rows  == backup.was[2]
                missed == backup.was[3] IN
            /\ report' = "ok" => ledger = rows /\ \A i \in Id \ missed : records[i] = table[i]
            /\ ~backup.damaged /\ Backup!WithoutDictionary(backup.internal) /\ missed = {}
                 => report' # "broken"]_(Backup!vars)
  <2> SUFFICES ASSUME VaultInv, [VaultNext]_<<part, vars, backupVars>>, ~UNCHANGED Backup!vars,
                      NEW w \in Caller, Backup!LoadVerify(w)
               PROVE  LET table == backup.was[1]
                          rows  == backup.was[2]
                          missed == backup.was[3] IN
                      /\ report' = "ok" => ledger = rows /\ \A i \in Id \ missed : records[i] = table[i]
                      /\ ~backup.damaged /\ Backup!WithoutDictionary(backup.internal) /\ missed = {}
                           => report' # "broken"
    OBVIOUS
  <2>1. part = "backup"
    <3>1. UNCHANGED backupVars => UNCHANGED Backup!vars
      BY DEF backupVars, Backup!vars, Backup!dictVars, Backup!backupVars
    <3> QED BY <3>1 DEF VaultNext
  <2>2. BackupTypeOK /\ Restorable BY <2>1 DEF VaultInv
  <2> QED BY <2>2, LoadSays
<1> QED BY <1>1, <1>2, VaultInvariance, PTL DEF VaultSpec, RestoresExactly, Backup!RestoresExactly
=============================================================================
