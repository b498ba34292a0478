-------------------------- MODULE SyncEngine_proofs --------------------------
(***************************************************************************)
(* What holds of SyncEngine for every set of records and pushers and for  *)
(* every bound.  The first half is about the dirty log as a data          *)
(* structure, whatever calls overlap; the second about dirty tracking,    *)
(* for an application that awaits its calls.                              *)
(***************************************************************************)
EXTENDS SyncEngine, FiniteSetTheorems, TLAPS

-----------------------------------------------------------------------------
(***************************************************************************)
(* The dirty log.                                                         *)
(***************************************************************************)
InUse(log) == {r \in Record : Logged(log, r)}

\* Every index is used once and none lies behind the end of the array.
WellIndexed(log) ==
    /\ \A q, r \in Record : Logged(log, q) /\ Logged(log, r) /\ log[q].at = log[r].at => q = r
    /\ \A r \in Record : log[r].at <= LogLength(log)

\* The length of a log is a number no larger than the number of records.
LEMMA LogLengthBound ==
    ASSUME NEW log
    PROVE  /\ IsFiniteSet(InUse(log)) /\ LogLength(log) \in Nat
           /\ LogLength(log) <= Cardinality(Record) /\ Cardinality(Record) \in Nat
           /\ \A r \in Record : ~Logged(log, r) => LogLength(log) < Cardinality(Record)
<1>1. InUse(log) \in SUBSET Record
  BY DEF InUse
<1>2. /\ IsFiniteSet(InUse(log)) /\ Cardinality(InUse(log)) <= Cardinality(Record)
      /\ Cardinality(Record) = Cardinality(InUse(log)) => Record = InUse(log)
  BY <1>1, FS_Subset, ConstantsAssumption
<1>3. Cardinality(InUse(log)) \in Nat /\ Cardinality(Record) \in Nat
  BY <1>2, FS_CardinalityType, ConstantsAssumption
<1>4. LogLength(log) = Cardinality(InUse(log))
  BY DEF LogLength, InUse
<1>5. \A r \in Record : ~Logged(log, r) => Record # InUse(log)
  BY DEF InUse
<1> QED
  BY <1>2, <1>3, <1>4, <1>5

\* The empty log is a well indexed log.
LEMMA NoLogWellIndexed == NoLog \in Log /\ WellIndexed(NoLog)
<1>1. NoLog \in Log
  BY LogLengthBound DEF NoLog, Log, Clean, Entry
<1>2. \A r \in Record : NoLog[r].at = 0
  BY DEF NoLog, Clean
<1>3. LogLength(NoLog) \in Nat
  BY LogLengthBound
<1> QED
  BY <1>1, <1>2, <1>3 DEF WellIndexed, Logged

\* trackChange keeps a log a log, and its indexing intact.
LEMMA LogChangeIndexed ==
    ASSUME NEW log \in Log, NEW r \in Record, NEW action \in {"put", "delete"},
           NEW version \in Nat
    PROVE  LET new == LogChange(log, r, action, version) IN
           /\ new \in Log
           /\ \A q \in Record : Logged(new, q) <=> Logged(log, q) \/ q = r
           /\ \A q \in Record \ {r} : new[q] = log[q]
           /\ new[r].action = action /\ new[r].version = version
           /\ WellIndexed(log) => WellIndexed(new)
<1> DEFINE at  == IF Logged(log, r) THEN log[r].at ELSE LogLength(log) + 1
           new == LogChange(log, r, action, version)
<1>1. at \in 1..Cardinality(Record)
  BY LogLengthBound DEF Log, Entry, Logged
<1>2. new = [log EXCEPT ![r] = [at |-> at, action |-> action, version |-> version]]
  BY DEF LogChange
<1>3. new \in Log /\ new[r] = [at |-> at, action |-> action, version |-> version]
  BY <1>1, <1>2, LogLengthBound DEF Log, Entry
<1>4. \A q \in Record \ {r} : new[q] = log[q]
  BY <1>2 DEF Log
<1>5. Logged(new, r)
  BY <1>1, <1>3 DEF Logged
<1>6. \A q \in Record : Logged(new, q) <=> Logged(log, q) \/ q = r
  BY <1>4, <1>5 DEF Logged
<1>7. LogLength(new) = IF Logged(log, r) THEN LogLength(log) ELSE LogLength(log) + 1
  <2>1. InUse(new) = InUse(log) \cup {r}
    BY <1>6 DEF InUse
  <2>2. r \in InUse(log) <=> Logged(log, r)
    BY DEF InUse
  <2> QED
    BY <2>1, <2>2, LogLengthBound, FS_AddElement DEF LogLength, InUse
<1>8. ASSUME WellIndexed(log) PROVE WellIndexed(new)
  <2>1. LogLength(log) \in Nat /\ \A q \in Record : log[q].at \in Nat /\ log[q].at <= LogLength(log)
    BY <1>8, LogLengthBound DEF WellIndexed, Log, Entry
  <2>2. \A q \in Record : new[q].at <= LogLength(new)
    BY <2>1, <1>3, <1>4, <1>7
  <2>3. \A q \in Record \ {r} : Logged(log, q) => log[q].at # at
    BY <2>1, <1>8 DEF WellIndexed
  <2>4. \A q, s \in Record : Logged(new, q) /\ Logged(new, s) /\ new[q].at = new[s].at => q = s
    BY <2>3, <1>3, <1>4, <1>6, <1>8 DEF WellIndexed
  <2> QED
    BY <2>2, <2>4 DEF WellIndexed
<1> QED
  BY <1>3, <1>4, <1>6, <1>8

\* trackChange keeps a log a log, in a form to apply to any arguments.
LEMMA LogChangeType ==
    \A log \in Log, r \in Record, action \in {"put", "delete"}, version \in Nat :
        LogChange(log, r, action, version) \in Log
<1> SUFFICES ASSUME NEW log \in Log, NEW r \in Record, NEW action \in {"put", "delete"},
                    NEW version \in Nat
             PROVE  LogChange(log, r, action, version) \in Log
  OBVIOUS
<1> QED
  BY LogChangeIndexed

\* splice and filter keep a log a log, and its indexing intact.
LEMMA WithoutIndexed ==
    ASSUME NEW log \in Log, NEW R
    PROVE  LET new == Without(log, R) IN
           /\ new \in Log
           /\ \A q \in Record : Logged(new, q) <=> Logged(log, q) /\ q \notin R
           /\ \A q \in Record : Logged(new, q) => /\ new[q].action = log[q].action
                                                  /\ new[q].version = log[q].version
           /\ WellIndexed(log) => WellIndexed(new)
<1> DEFINE new == Without(log, R)
           stay == {q \in Record \ R : Logged(log, q)}
<1>1. \A r \in Record : log[r].at \in Nat
  BY LogLengthBound DEF Log, Entry
<1>2. IsFiniteSet(stay) /\ Cardinality(stay) \in Nat /\ Cardinality(stay) <= Cardinality(Record)
  <2>1. stay \in SUBSET Record
    OBVIOUS
  <2> QED
    BY <2>1, FS_Subset, FS_CardinalityType, ConstantsAssumption
<1>3. \A r \in stay : /\ UpTo(log, R, r) \in SUBSET stay /\ r \in UpTo(log, R, r)
                      /\ IsFiniteSet(UpTo(log, R, r))
                      /\ Cardinality(UpTo(log, R, r)) \in 1..Cardinality(stay)
  <2> SUFFICES ASSUME NEW r \in stay
               PROVE  /\ UpTo(log, R, r) \in SUBSET stay /\ r \in UpTo(log, R, r)
                      /\ IsFiniteSet(UpTo(log, R, r))
                      /\ Cardinality(UpTo(log, R, r)) \in 1..Cardinality(stay)
    OBVIOUS
  <2>1. UpTo(log, R, r) \in SUBSET stay /\ r \in UpTo(log, R, r)
    BY <1>1 DEF UpTo
  <2>2. IsFiniteSet(UpTo(log, R, r)) /\ Cardinality(UpTo(log, R, r)) <= Cardinality(stay)
    BY <1>2, <2>1, FS_Subset
  <2>3. Cardinality(UpTo(log, R, r)) \in Nat /\ Cardinality(UpTo(log, R, r)) # 0
    BY <2>1, <2>2, FS_CardinalityType, FS_EmptySet
  <2> QED
    BY <1>2, <2>1, <2>2, <2>3
<1>4. ASSUME NEW r \in stay
      PROVE  /\ new[r] \in Entry /\ new[r].at = Cardinality(UpTo(log, R, r))
             /\ new[r].action = log[r].action /\ new[r].version = log[r].version
  <2>1. new[r] = [at |-> Cardinality(UpTo(log, R, r)),
                  action |-> log[r].action, version |-> log[r].version]
    BY DEF Without
  <2>2. Cardinality(UpTo(log, R, r)) \in 0..Cardinality(Record)
    BY <1>2, <1>3, LogLengthBound
  <2>3. log[r].action \in {"put", "delete"} /\ log[r].version \in Nat
    BY DEF Log, Entry
  <2> HIDE DEF new
  <2>4. new[r] \in Entry
    BY <2>1, <2>2, <2>3 DEF Entry
  <2> QED
    BY <2>1, <2>4
<1>5. ASSUME NEW r \in Record, r \notin stay PROVE new[r] = Clean
  BY <1>5 DEF Without
<1>6. Clean \in Entry /\ Clean.at = 0
  BY LogLengthBound DEF Clean, Entry
<1>7. new \in Log
  <2>1. \A r \in Record : new[r] \in Entry
    BY <1>4, <1>5, <1>6
  <2> QED
    BY <2>1 DEF Log, Without
<1> HIDE DEF new
<1>8. \A r \in Record : Logged(new, r) <=> r \in stay
  <2>1. ASSUME NEW r \in stay PROVE Logged(new, r)
    BY <1>2, <1>3, <1>4 DEF Logged
  <2>2. \A r \in Record : r \notin stay => ~Logged(new, r)
    BY <1>5, <1>6 DEF Logged
  <2> QED
    BY <2>1, <2>2
<1>9. ASSUME WellIndexed(log) PROVE WellIndexed(new)
  <2>1. LogLength(new) = Cardinality(stay)
    <3>1. {r \in Record : Logged(new, r)} = stay
      BY <1>8
    <3> QED
      BY <3>1 DEF LogLength
  <2>2. ASSUME NEW r \in Record PROVE new[r].at <= LogLength(new)
    BY <2>1, <1>2, <1>3, <1>4, <1>5, <1>6
  <2>3. ASSUME NEW q \in stay, NEW r \in stay, log[q].at < log[r].at
        PROVE  new[q].at < new[r].at
    <3>1. UpTo(log, R, q) \in SUBSET UpTo(log, R, r)
      BY <1>1, <2>3 DEF UpTo
    <3>2. r \notin UpTo(log, R, q) /\ r \in UpTo(log, R, r)
      BY <1>1, <2>3 DEF UpTo
    <3>3. /\ Cardinality(UpTo(log, R, q)) <= Cardinality(UpTo(log, R, r))
          /\ Cardinality(UpTo(log, R, r)) = Cardinality(UpTo(log, R, q))
                => UpTo(log, R, r) = UpTo(log, R, q)
      BY <3>1, <1>3, FS_Subset
    <3>4. Cardinality(UpTo(log, R, q)) \in Nat /\ Cardinality(UpTo(log, R, r)) \in Nat
      BY <1>2, <1>3
    <3> QED
      BY <1>4, <3>2, <3>3, <3>4
  <2>4. ASSUME NEW q \in Record, NEW r \in Record, Logged(new, q), Logged(new, r),
               new[q].at = new[r].at
        PROVE  q = r
    <3>1. q \in stay /\ r \in stay
      BY <1>8, <2>4
    <3>2. log[q].at = log[r].at
      <4>1. new[q].at \in Nat /\ new[r].at \in Nat /\ log[q].at \in Nat /\ log[r].at \in Nat
        BY <1>1, <1>2, <1>3, <1>4, <3>1
      <4>2. ~(new[q].at < new[r].at) /\ ~(new[r].at < new[q].at)
        BY <4>1, <2>4
      <4> QED
        BY <4>1, <4>2, <3>1, <2>3
    <3> QED
      BY <1>9, <3>1, <3>2 DEF WellIndexed
  <2> QED
    BY <2>2, <2>4 DEF WellIndexed
<1>10. \A q \in Record : Logged(new, q) <=> Logged(log, q) /\ q \notin R
  BY <1>8
<1>11. \A q \in Record : Logged(new, q) => /\ new[q].action = log[q].action
                                           /\ new[q].version = log[q].version
  BY <1>4, <1>8
<1> QED
  BY <1>7, <1>9, <1>10, <1>11 DEF new

\* A well indexed log has no gaps: as many distinct indices as entries, none
\* beyond their number.
LEMMA WellIndexedDense ==
    ASSUME NEW log \in Log, WellIndexed(log)
    PROVE  Dense(log)
<1> DEFINE n == LogLength(log)
           f == [r \in InUse(log) |-> log[r].at]
<1>1. n \in Nat /\ IsFiniteSet(InUse(log)) /\ Cardinality(InUse(log)) = n
  BY LogLengthBound DEF LogLength, InUse
<1>2. \A r \in InUse(log) : r \in Record /\ log[r].at \in 1..n
  BY <1>1, LogLengthBound DEF InUse, Log, Entry, Logged, WellIndexed
<1>3. f \in Injection(InUse(log), 1..n)
  <2>1. f \in [InUse(log) -> 1..n]
    BY <1>2
  <2>2. \A q, r \in InUse(log) : f[q] = f[r] => q = r
    BY DEF InUse, WellIndexed
  <2> QED
    BY <2>1, <2>2 DEF Injection, IsInjective
<1>4. IsFiniteSet(1..n) /\ Cardinality(1..n) = n
  BY <1>1, FS_Interval
<1>5. f \in Surjection(InUse(log), 1..n)
  BY <1>1, <1>3, <1>4, FS_Injection
<1>6. \A i \in 1..n : \E r \in InUse(log) : log[r].at = i
  BY <1>5 DEF Surjection
<1> QED
  BY <1>2, <1>6 DEF Dense, InUse

-----------------------------------------------------------------------------
(***************************************************************************)
(* Type correctness.                                                      *)
(***************************************************************************)
\* The values of idle processes have the types of the processes.
LEMMA IdleTypes ==
    /\ AnyRecord \in Record /\ NoLog \in Log /\ NoDoc \in Document
    /\ (\A log \in Log : Doc(log) \in Document) /\ Missing \in Envelope /\ Clean \in Entry
    /\ AppIdle \in AppType /\ TrackNone \in TrackType
    /\ PushIdle \in PushType /\ PullIdle \in PullType
<1>1. AnyRecord \in Record
  BY ConstantsAssumption DEF AnyRecord
<1>2. /\ NoLog \in Log /\ Missing \in Envelope /\ Clean \in Entry
      /\ NoDoc \in Document /\ \A log \in Log : Doc(log) \in Document
  BY NoLogWellIndexed, LogLengthBound DEF Missing, Envelope, Clean, Entry, NoDoc, Doc, Document
<1>3. AppIdle \in AppType /\ TrackNone \in TrackType
  BY <1>1, <1>2 DEF AppIdle, AppType, TrackNone, TrackType
<1>4. PushIdle \in PushType
  BY <1>1, <1>2 DEF PushIdle, PushType, PushPc
<1>5. PullIdle \in PullType
  BY <1>1, <1>2 DEF PullIdle, PullType, PullPc
<1> QED
  BY <1>1, <1>2, <1>3, <1>4, <1>5

\* A merged envelope is an envelope.
LEMMA MergeType == \A e, f \in Envelope : MergeOf(e, f) \in Envelope
  BY DEF MergeOf, Envelope

\* The changes the actions make to the record of a push keep its type.
LEMMA PushChanges ==
    ASSUME NEW x \in PushType
    PROVE  /\ \A F \in SUBSET Record, i \in Nat, done \in SUBSET Nat :
                 [x EXCEPT !.pc = "next", !.filter = F, !.i = i, !.done = done] \in PushType
           /\ \A F \in SUBSET Record, pc \in PushPc, doc \in Document :
                 [x EXCEPT !.filter = F, !.pc = pc, !.snap = doc] \in PushType
           /\ \A pc \in PushPc, doc \in Document : [x EXCEPT !.pc = pc, !.snap = doc] \in PushType
           /\ \A pc \in PushPc : [x EXCEPT !.pc = pc] \in PushType
           /\ \A r \in Record, e \in Entry, pc \in PushPc :
                 [x EXCEPT !.rec = r, !.entry = e, !.pc = pc] \in PushType
           /\ \A pc \in PushPc, e \in Envelope : [x EXCEPT !.pc = pc, !.env = e] \in PushType
           /\ \A pc \in PushPc, e, w \in Envelope :
                 [x EXCEPT !.pc = pc, !.renv = e, !.winner = w] \in PushType
<1>1. \A F \in SUBSET Record, i \in Nat, done \in SUBSET Nat :
          [x EXCEPT !.pc = "next", !.filter = F, !.i = i, !.done = done] \in PushType
  BY DEF PushType, PushPc
<1>2. \A F \in SUBSET Record, pc \in PushPc, doc \in Document :
          [x EXCEPT !.filter = F, !.pc = pc, !.snap = doc] \in PushType
  BY DEF PushType
<1>3. \A pc \in PushPc, doc \in Document : [x EXCEPT !.pc = pc, !.snap = doc] \in PushType
  BY DEF PushType
<1>4. \A pc \in PushPc : [x EXCEPT !.pc = pc] \in PushType
  BY DEF PushType
<1>5. \A r \in Record, e \in Entry, pc \in PushPc :
          [x EXCEPT !.rec = r, !.entry = e, !.pc = pc] \in PushType
  BY DEF PushType
<1>6. \A pc \in PushPc, e \in Envelope : [x EXCEPT !.pc = pc, !.env = e] \in PushType
  BY DEF PushType
<1>7. \A pc \in PushPc, e, w \in Envelope :
          [x EXCEPT !.pc = pc, !.renv = e, !.winner = w] \in PushType
  BY DEF PushType
<1> QED
  BY <1>1, <1>2, <1>3, <1>4, <1>5, <1>6, <1>7

\* The changes the actions make to the record of the pull keep its type.
LEMMA PullChanges ==
    ASSUME NEW x \in PullType
    PROVE  /\ \A F \in SUBSET Record, pc \in PullPc, doc \in Document :
                 [x EXCEPT !.filter = F, !.pc = pc, !.snap = doc] \in PullType
           /\ \A pc \in PullPc, doc \in Document : [x EXCEPT !.pc = pc, !.snap = doc] \in PullType
           /\ \A pc \in PullPc, rs \in [Record -> Envelope], T \in SUBSET Record :
                 [x EXCEPT !.pc = pc, !.remote = rs, !.todo = T] \in PullType
           /\ \A r \in Record : [x EXCEPT !.todo = @ \ {r}] \in PullType
           /\ \A pc \in PullPc, r \in Record, e, w \in Envelope, c \in BOOLEAN :
                 [x EXCEPT !.pc = pc, !.todo = @ \ {r}, !.rec = r, !.env = e, !.winner = w,
                           !.clear = c] \in PullType
           /\ \A pc \in PullPc, r \in Record, e, w \in Envelope :
                 [x EXCEPT !.pc = pc, !.rec = r, !.env = e, !.winner = w] \in PullType
           /\ \A pc \in PullPc, r \in Record, c \in BOOLEAN :
                 [x EXCEPT !.pc = pc, !.rec = r, !.clear = c] \in PullType
<1>1. \A F \in SUBSET Record, pc \in PullPc, doc \in Document :
          [x EXCEPT !.filter = F, !.pc = pc, !.snap = doc] \in PullType
  BY DEF PullType
<1>2. \A pc \in PullPc, doc \in Document : [x EXCEPT !.pc = pc, !.snap = doc] \in PullType
  BY DEF PullType
<1>3. \A pc \in PullPc, rs \in [Record -> Envelope], T \in SUBSET Record :
          [x EXCEPT !.pc = pc, !.remote = rs, !.todo = T] \in PullType
  BY DEF PullType
<1>4. \A r \in Record : [x EXCEPT !.todo = @ \ {r}] \in PullType
  BY DEF PullType
<1>5. \A pc \in PullPc, r \in Record, e, w \in Envelope, c \in BOOLEAN :
          [x EXCEPT !.pc = pc, !.todo = @ \ {r}, !.rec = r, !.env = e, !.winner = w,
                    !.clear = c] \in PullType
  BY DEF PullType
<1>6. \A pc \in PullPc, r \in Record, e, w \in Envelope :
          [x EXCEPT !.pc = pc, !.rec = r, !.env = e, !.winner = w] \in PullType
  BY DEF PullType
<1>7. \A pc \in PullPc, r \in Record, c \in BOOLEAN :
          [x EXCEPT !.pc = pc, !.rec = r, !.clear = c] \in PullType
  BY DEF PullType
<1> QED
  BY <1>1, <1>2, <1>3, <1>4, <1>5, <1>6, <1>7

\* Ending a round leaves a push record of the right type.
LEMMA NextRoundType ==
    ASSUME push \in [Pusher -> PushType], NEW p \in Pusher, NEW done \in SUBSET Nat,
           NextRound(p, done)
    PROVE  push' \in [Pusher -> PushType]
<1>1. push[p].filter \in SUBSET Record /\ push[p].i + 1 \in Nat
  BY DEF PushType
<1>2. [PushIdle EXCEPT !.pc = "next", !.filter = push[p].filter,
                       !.i = push[p].i + 1, !.done = done] \in PushType
  BY <1>1, IdleTypes, PushChanges
<1> QED
  BY <1>2 DEF NextRound, ToEntry

\* A push moves on to a state of its type.
LEMMA ToEntryType ==
    ASSUME push \in [Pusher -> PushType], NEW p \in Pusher, NEW x \in PushType, ToEntry(p, x)
    PROVE  push' \in [Pusher -> PushType]
  BY DEF ToEntry

\* The start of the system is well typed.
LEMMA InitTypes == Init => TypeOK
<1> SUFFICES ASSUME Init PROVE TypeOK
  OBVIOUS
<1>1. /\ local \in [Record -> Envelope] /\ remote \in [Record -> Envelope]
      /\ meta \in Document /\ dirty \in Log /\ loaded \in BOOLEAN
  BY IdleTypes DEF Init
<1>2. /\ cached \in [Record -> [known : BOOLEAN, v : Nat]] /\ policy \in [Record -> Policies]
  BY DEF Init, NotHydrated
<1>3. app \in AppType /\ track \in [1..MaxOps -> TrackType]
      /\ push \in [Pusher -> PushType] /\ pull \in PullType
  BY IdleTypes DEF Init
<1>4. /\ ops \in 0..MaxOps /\ peerOps \in 0..MaxPeerOps
      /\ fails \in 0..MaxFails /\ crashes \in 0..MaxCrashes /\ reached \in SUBSET WriteId
  BY ConstantsAssumption DEF Init
<1> QED
  BY <1>1, <1>2, <1>3, <1>4 DEF TypeOK

\* Every step keeps every variable in its type.
LEMMA StepTypes == TypeOK /\ [Next]_vars => TypeOK'
<1> SUFFICES ASSUME TypeOK, [Next]_vars PROVE TypeOK'
  OBVIOUS
<1> USE ConstantsAssumption DEF store, memory, history, counts
<1>1. ASSUME NEW r \in Record, AppPut(r) PROVE TypeOK'
  <2>1. Existing(r) + 1 \in Nat
    BY DEF TypeOK, Existing, Envelope
  <2>2. [v |-> Existing(r) + 1, src |-> {<<"app", ops + 1>>}] \in Envelope
    BY <2>1 DEF TypeOK, Envelope, WriteId
  <2>3. local' \in [Record -> Envelope] /\ app' \in AppType /\ ops' \in 0..MaxOps
    BY <1>1, <2>1, <2>2 DEF TypeOK, AppPut, AppType
  <2> QED
    BY <1>1, <2>3 DEF TypeOK, AppPut
<1>2. ASSUME NEW r \in Record, AppDelete(r) PROVE TypeOK'
  <2>1. local' \in [Record -> Envelope] /\ app' \in AppType /\ ops' \in 0..MaxOps
    BY <1>2, IdleTypes DEF TypeOK, AppDelete, AppType
  <2> QED
    BY <1>2, <2>1 DEF TypeOK, AppDelete
<1>3. CASE AppNotify
  <2>1. /\ LogChange(dirty, app.rec, app.action, app.version) \in Log
        /\ app.rec \in Record /\ app.action \in {"put", "delete"} /\ app.version \in Nat
    BY ZenonT(60), LogChangeIndexed DEF TypeOK, AppType
  <2>2. dirty' \in Log /\ app' \in AppType
    BY <1>3, <2>1, IdleTypes DEF TypeOK, AppNotify
  <2>3. cached' \in [Record -> [known : BOOLEAN, v : Nat]]
    BY ZenonT(60), <1>3, <2>1 DEF TypeOK, AppNotify, Hydrated
  <2>4. \A pc \in {"load", "persist"}, doc \in Document :
           [pc |-> pc, rec |-> app.rec, action |-> app.action, version |-> app.version,
            snap |-> doc] \in TrackType
    BY <2>1 DEF TrackType
  <2>5. track' \in [1..MaxOps -> TrackType]
    <3> DEFINE T(pc, doc) == [pc |-> pc, rec |-> app.rec, action |-> app.action,
                              version |-> app.version, snap |-> doc]
    <3>1. Doc(dirty') \in Document /\ meta \in Document
      BY <2>2, IdleTypes DEF TypeOK
    <3>2. track' = [track EXCEPT ![ops] = T("persist", Doc(dirty'))]
          \/ track' = [track EXCEPT ![ops] = T("load", meta)]
      BY <1>3 DEF AppNotify
    <3>3. T("persist", Doc(dirty')) \in TrackType /\ T("load", meta) \in TrackType
      BY <2>4, <3>1
    <3> HIDE DEF T
    <3> QED
      BY <3>2, <3>3 DEF TypeOK
  <2> QED
    BY <1>3, <2>2, <2>3, <2>5 DEF TypeOK, AppNotify
<1>4. ASSUME NEW n \in 1..MaxOps, TrackLoaded(n) PROVE TypeOK'
  <2>1. /\ LoadedLog(track[n].snap) \in Log /\ track[n].rec \in Record
        /\ track[n].action \in {"put", "delete"} /\ track[n].version \in Nat
    BY DEF TypeOK, TrackType, LoadedLog, Document
  <2>2. dirty' \in Log
    <3>1. LogChange(LoadedLog(track[n].snap), track[n].rec, track[n].action,
                    track[n].version) \in Log
      BY <2>1, LogChangeType
    <3> QED
      BY <1>4, <3>1 DEF TrackLoaded
  <2>3. track' \in [1..MaxOps -> TrackType]
    <3>1. Doc(dirty') \in Document
      BY <2>2, IdleTypes
    <3> QED
      BY ZenonT(60), <1>4, <2>1, <3>1 DEF TypeOK, TrackLoaded, TrackType
  <2> QED
    BY <1>4, <2>2, <2>3 DEF TypeOK, TrackLoaded
<1>5. ASSUME NEW n \in 1..MaxOps, TrackPersist(n) PROVE TypeOK'
  <2>1. meta' \in Document
    BY <1>5 DEF TypeOK, TrackPersist, TrackType
  <2>2. track' \in [1..MaxOps -> TrackType]
    BY <1>5, IdleTypes DEF TypeOK, TrackPersist
  <2> QED
    BY <1>5, <2>1, <2>2 DEF TypeOK, TrackPersist
<1>6. ASSUME NEW p \in Pusher, NEW F \in SUBSET Record, PushStart(p, F) PROVE TypeOK'
  <2> DEFINE x == [PushIdle EXCEPT !.filter = F, !.pc = IF loaded THEN "next" ELSE "load",
                                   !.snap = IF loaded THEN NoDoc ELSE meta]
  <2>1. x \in PushType
    <3>1. (IF loaded THEN "next" ELSE "load") \in PushPc
      BY DEF PushPc
    <3>2. (IF loaded THEN NoDoc ELSE meta) \in Document
      BY IdleTypes DEF TypeOK
    <3> QED
      BY <3>1, <3>2, IdleTypes, PushChanges
  <2>2. push' = [push EXCEPT ![p] = x]
    BY <1>6 DEF PushStart, ToEntry
  <2> HIDE DEF x
  <2>3. push' \in [Pusher -> PushType]
    BY <2>1, <2>2 DEF TypeOK
  <2> QED
    BY <1>6, <2>3 DEF TypeOK, PushStart
<1>7. ASSUME NEW p \in Pusher, PushLoaded(p) PROVE TypeOK'
  <2>1. push[p] \in PushType /\ LoadedLog(push[p].snap) \in Log
    BY DEF TypeOK, PushType, LoadedLog, Document
  <2>2. dirty' \in Log /\ push' \in [Pusher -> PushType]
    BY <1>7, <2>1, IdleTypes, PushChanges DEF TypeOK, PushLoaded, ToEntry, PushPc
  <2> QED
    BY <1>7, <2>2 DEF TypeOK, PushLoaded
<1>8. ASSUME NEW p \in Pusher, NEW r \in Record, PushPick(p, r) PROVE TypeOK'
  <2>1. push[p] \in PushType /\ dirty[r] \in Entry /\ push[p].done \in SUBSET Nat
    BY DEF TypeOK, Log, PushType
  <2>2. CASE r \in push[p].filter
    <3> DEFINE x == [push[p] EXCEPT !.rec = r, !.entry = dirty[r],
                       !.pc = IF dirty[r].action = "delete" THEN "delete" ELSE "read"]
    <3>1. (IF dirty[r].action = "delete" THEN "delete" ELSE "read") \in PushPc
      BY DEF PushPc
    <3>2. x \in PushType
      BY <2>1, <3>1, PushChanges
    <3>3. push' = [push EXCEPT ![p] = x]
      BY <1>8, <2>2 DEF PushPick, ToEntry
    <3> HIDE DEF x
    <3> QED
      BY <1>8, <3>2, <3>3 DEF TypeOK, PushPick
  <2>3. CASE r \notin push[p].filter
    BY <1>8, <2>1, <2>3, NextRoundType DEF TypeOK, PushPick, NotDone
  <2> QED
    BY <2>2, <2>3
<1>9. ASSUME NEW p \in Pusher PROVE Done(p) \in SUBSET Nat /\ NotDone(p) \in SUBSET Nat
  BY DEF TypeOK, PushType, Done, NotDone
<1>10. ASSUME NEW p \in Pusher, PushDelete(p) PROVE TypeOK'
  <2>1. remote' \in [Record -> Envelope] /\ push' \in [Pusher -> PushType]
    BY <1>9, <1>10, IdleTypes, NextRoundType DEF TypeOK, PushDelete
  <2> QED
    BY <1>10, <2>1 DEF TypeOK, PushDelete
<1>11. ASSUME NEW p \in Pusher, PushRead(p) PROVE TypeOK'
  <2>1. push[p] \in PushType /\ local[push[p].rec] \in Envelope
    BY DEF TypeOK, PushType
  <2>2. [push[p] EXCEPT !.pc = "put", !.env = local[push[p].rec]] \in PushType
    BY <2>1, PushChanges DEF PushPc
  <2>3. push' \in [Pusher -> PushType]
    BY <1>9, <1>11, <2>2, NextRoundType, ToEntryType DEF TypeOK, PushRead
  <2> QED
    BY <1>11, <2>3 DEF TypeOK, PushRead
<1>12. ASSUME NEW p \in Pusher, PushPut(p) PROVE TypeOK'
  <2>1. push[p].env \in Envelope /\ push[p].env.src \in SUBSET WriteId
    BY DEF TypeOK, PushType, Envelope
  <2>2. remote' \in [Record -> Envelope] /\ reached' \in SUBSET WriteId
    BY <1>12, <2>1 DEF TypeOK, PushPut
  <2>3. [push[p] EXCEPT !.pc = "fetch"] \in PushType
    BY PushChanges DEF TypeOK, PushPc
  <2>4. push' \in [Pusher -> PushType]
    BY <1>9, <1>12, <2>3, NextRoundType, ToEntryType DEF TypeOK, PushPut
  <2> QED
    BY <1>12, <2>2, <2>4 DEF TypeOK, PushPut
<1>13. ASSUME NEW p \in Pusher, NEW o \in Outcome, PushResolve(p, o) PROVE TypeOK'
  <2> DEFINE Keep(pc, winner) == [push[p] EXCEPT !.pc = pc, !.renv = remote[push[p].rec],
                                                 !.winner = winner]
  <2>1. push[p] \in PushType /\ remote[push[p].rec] \in Envelope /\ push[p].env \in Envelope
    BY DEF TypeOK, PushType
  <2>2. MergeOf(push[p].env, remote[push[p].rec]) \in Envelope
    BY <2>1, MergeType
  <2>3. \A pc \in {"force", "forceMerged", "store"}, w \in Envelope : Keep(pc, w) \in PushType
    BY <2>1, PushChanges DEF PushPc
  <2>4. push' \in [Pusher -> PushType]
    <3>1. CASE o = "deferred"
      BY <1>9, <1>13, <3>1, NextRoundType DEF TypeOK, PushResolve
    <3>2. CASE o # "deferred"
      <4> HIDE DEF Keep
      <4>1. \/ ToEntry(p, Keep("force", push[p].env))
            \/ ToEntry(p, Keep("forceMerged", MergeOf(push[p].env, remote[push[p].rec])))
            \/ ToEntry(p, Keep("store", remote[push[p].rec]))
        BY <1>13, <3>2 DEF PushResolve, Outcome, Keep
      <4> QED
        BY <2>1, <2>2, <2>3, <4>1, ToEntryType DEF TypeOK
    <3> QED
      BY <3>1, <3>2
  <2> QED
    BY <1>13, <2>4 DEF TypeOK, PushResolve
<1>14. ASSUME NEW p \in Pusher, PushForce(p) PROVE TypeOK'
  <2>1. push[p].winner \in Envelope /\ push[p].winner.src \in SUBSET WriteId
    BY DEF TypeOK, PushType, Envelope
  <2>2. remote' \in [Record -> Envelope] /\ reached' \in SUBSET WriteId
    BY <1>14, <2>1 DEF TypeOK, PushForce
  <2>3. [push[p] EXCEPT !.pc = "store"] \in PushType
    BY PushChanges DEF TypeOK, PushPc
  <2>4. push' \in [Pusher -> PushType]
    BY <1>9, <1>14, <2>3, NextRoundType, ToEntryType DEF TypeOK, PushForce
  <2> QED
    BY <1>14, <2>2, <2>4 DEF TypeOK, PushForce
<1>15. ASSUME NEW p \in Pusher, PushStore(p) PROVE TypeOK'
  <2>1. local' \in [Record -> Envelope]
    BY <1>15 DEF TypeOK, PushStore, PushType
  <2>2. push' \in [Pusher -> PushType]
    BY <1>9, <1>15, NextRoundType DEF TypeOK, PushStore
  <2> QED
    BY <1>15, <2>1, <2>2 DEF TypeOK, PushStore
<1>16. ASSUME NEW p \in Pusher, NEW b \in BOOLEAN, PushFail(p, b) PROVE TypeOK'
  <2>1. \E sent \in Envelope :
           /\ remote' = IF b THEN [remote EXCEPT ![push[p].rec] = sent] ELSE remote
           /\ reached' = IF b THEN reached \cup sent.src ELSE reached
    BY <1>16, IdleTypes DEF TypeOK, PushFail, PushType
  <2>2. remote' \in [Record -> Envelope] /\ reached' \in SUBSET WriteId
    BY <2>1 DEF TypeOK, Envelope
  <2>3. push' \in [Pusher -> PushType] /\ fails' \in 0..MaxFails
    BY <1>9, <1>16, NextRoundType DEF TypeOK, PushFail
  <2> QED
    BY <1>16, <2>2, <2>3 DEF TypeOK, PushFail
<1>17. ASSUME NEW p \in Pusher, PushFinish(p) PROVE TypeOK'
  <2>1. dirty' \in Log
    BY <1>17, WithoutIndexed DEF TypeOK, PushFinish
  <2>2. [PushIdle EXCEPT !.pc = "persist", !.snap = Doc(dirty')] \in PushType
    BY <2>1, IdleTypes, PushChanges DEF PushPc
  <2>3. push' \in [Pusher -> PushType]
    BY <1>17, <2>2, ToEntryType DEF TypeOK, PushFinish
  <2> QED
    BY <1>17, <2>1, <2>3 DEF TypeOK, PushFinish
<1>18. ASSUME NEW p \in Pusher, PushPersist(p) PROVE TypeOK'
  <2>1. meta' \in Document /\ push' \in [Pusher -> PushType]
    BY <1>18, IdleTypes DEF TypeOK, PushPersist, ToEntry, PushType
  <2> QED
    BY <1>18, <2>1 DEF TypeOK, PushPersist
<1>19. ASSUME NEW F \in SUBSET Record, PullStart(F) PROVE TypeOK'
  <2>1. pull' \in PullType
    BY <1>19, IdleTypes, PullChanges DEF TypeOK, PullStart, PullPc
  <2> QED
    BY <1>19, <2>1 DEF TypeOK, PullStart
<1>20. CASE PullLoaded \/ PullFetch \/ PullFail \/ PullClear \/ PullFinish \/ PullPersist
  <2>1. /\ Without(dirty, {pull.rec}) \in Log /\ pull.snap \in Document
        /\ LoadedLog(pull.snap) \in Log
        /\ {r \in pull.filter : Exists(remote[r])} \in SUBSET Record
    BY WithoutIndexed DEF TypeOK, PullType, LoadedLog, Document
  <2>2. CASE PullLoaded
    BY <2>1, <2>2, IdleTypes, PullChanges DEF TypeOK, PullLoaded, PullPc
  <2>3. CASE PullFetch
    <3> DEFINE T == {r \in pull.filter : Exists(remote[r])}
               x == [pull EXCEPT !.pc = "next", !.remote = remote, !.todo = T]
    <3>1. pull' = x
      BY <2>3 DEF PullFetch
    <3> HIDE DEF T
    <3>2. x \in PullType
      BY <2>1, PullChanges DEF TypeOK, PullPc, T
    <3> HIDE DEF x
    <3> QED
      BY <2>3, <3>1, <3>2 DEF TypeOK, PullFetch
  <2>4. CASE PullFail
    <3>1. [PullIdle EXCEPT !.pc = "persist", !.snap = Doc(dirty)] \in PullType
      BY IdleTypes, PullChanges DEF TypeOK, PullPc
    <3>2. fails' = fails + 1 /\ fails < MaxFails
      BY <2>4 DEF PullFail
    <3>3. fails' \in 0..MaxFails
      BY <3>2 DEF TypeOK
    <3> QED
      BY <2>4, <3>1, <3>3 DEF TypeOK, PullFail
  <2>5. CASE PullClear
    BY <2>1, <2>5, IdleTypes, PullChanges DEF TypeOK, PullClear, PullPc
  <2>6. CASE PullFinish
    BY <2>6, IdleTypes, PullChanges DEF TypeOK, PullFinish, PullPc
  <2>7. CASE PullPersist
    BY <2>1, <2>7, IdleTypes DEF TypeOK, PullPersist
  <2> QED
    BY <1>20, <2>2, <2>3, <2>4, <2>5, <2>6, <2>7
<1>21. ASSUME NEW r \in Record, NEW o \in Outcome, PullDecide(r, o) PROVE TypeOK'
  <2> DEFINE Keep(winner, clear) ==
               [pull EXCEPT !.pc = "store", !.todo = @ \ {r}, !.rec = r, !.env = local[r],
                            !.winner = winner, !.clear = clear]
             Skip == [pull EXCEPT !.todo = @ \ {r}]
  <2>1. pull \in PullType /\ local[r] \in Envelope /\ pull.remote[r] \in Envelope
    BY DEF TypeOK, PullType
  <2>2. MergeOf(local[r], pull.remote[r]) \in Envelope
    BY <2>1, MergeType
  <2>3. \A w \in Envelope, c \in BOOLEAN : Keep(w, c) \in PullType
    BY <2>1, PullChanges DEF PullPc
  <2>4. Skip \in PullType
    BY <2>1, PullChanges
  <2>5. pull' = Skip \/ \E w \in Envelope, c \in BOOLEAN : pull' = Keep(w, c)
    BY <1>21, <2>1, <2>2 DEF PullDecide
  <2>6. pull' \in PullType
    BY <2>3, <2>4, <2>5
  <2> QED
    BY <1>21, <2>6 DEF TypeOK, PullDecide
<1>22. CASE PullStore
  <2>1. pull.rec \in Record /\ pull.winner \in Envelope
    BY DEF TypeOK, PullType
  <2>2. local' \in [Record -> Envelope] /\ pull' \in PullType
    BY ZenonT(60), <1>22, <2>1, IdleTypes, PullChanges DEF TypeOK, PullStore, PullPc
  <2> QED
    BY <1>22, <2>2 DEF TypeOK, PullStore
<1>23. \A F \in Filters : F \in SUBSET Record
  BY DEF Filters
<1>24. ASSUME NEW r \in Record, PeerPut(r) PROVE TypeOK'
  <2>1. [v |-> remote[r].v + 1, src |-> {<<"peer", peerOps + 1>>}] \in Envelope
    BY DEF TypeOK, Envelope, WriteId
  <2>2. remote' \in [Record -> Envelope] /\ peerOps' \in 0..MaxPeerOps
    BY <1>24, <2>1 DEF TypeOK, PeerPut
  <2> QED
    BY <1>24, <2>2 DEF TypeOK, PeerPut
<1>25. ASSUME NEW r \in Record, PeerDelete(r) PROVE TypeOK'
  <2>1. remote' \in [Record -> Envelope] /\ peerOps' \in 0..MaxPeerOps
    BY <1>25, IdleTypes DEF TypeOK, PeerDelete
  <2> QED
    BY <1>25, <2>1 DEF TypeOK, PeerDelete
<1>26. CASE Crash
  <2>1. /\ dirty' \in Log /\ app' \in AppType /\ track' \in [1..MaxOps -> TrackType]
        /\ push' \in [Pusher -> PushType] /\ pull' \in PullType
    BY <1>26, IdleTypes DEF Crash
  <2>2. NotHydrated \in [known : BOOLEAN, v : Nat]
    BY DEF NotHydrated
  <2>3. cached' \in [Record -> [known : BOOLEAN, v : Nat]]
    BY <1>26, <2>2 DEF Crash
  <2>4. loaded' = FALSE /\ crashes' = crashes + 1 /\ crashes < MaxCrashes
    BY <1>26 DEF Crash
  <2>5. crashes' \in 0..MaxCrashes
    BY <2>4 DEF TypeOK
  <2> QED
    BY <1>26, <2>1, <2>3, <2>4, <2>5 DEF TypeOK, Crash
<1>27. CASE UNCHANGED vars
  BY <1>27 DEF TypeOK, vars
<1> QED
  BY <1>1, <1>2, <1>3, <1>4, <1>5, <1>6, <1>7, <1>8, <1>10, <1>11, <1>12, <1>13, <1>14, <1>15,
     <1>16, <1>17, <1>18, <1>19, <1>20, <1>21, <1>22, <1>23, <1>24, <1>25, <1>26, <1>27
  DEF Next, PushStep, PullStep

\* Every variable has its type in every reachable state.
THEOREM TypeCorrect == Spec => []TypeOK
  BY InitTypes, StepTypes, PTL DEF Spec

-----------------------------------------------------------------------------
(***************************************************************************)
(* The log is a gap-free array, whatever calls overlap.  LogDense alone   *)
(* is not inductive: a log read or captured before an await comes back    *)
(* as the log of the engine or of the store, so that every copy in        *)
(* flight has to be well indexed too.                                     *)
(***************************************************************************)
LogsIndexed ==
    /\ WellIndexed(dirty) /\ WellIndexed(meta.log)
    /\ \A n \in 1..MaxOps : WellIndexed(track[n].snap.log)
    /\ \A p \in Pusher : WellIndexed(push[p].snap.log)
    /\ WellIndexed(pull.snap.log)

\* The idle processes hold the empty log.
LEMMA IdleSnaps == /\ TrackNone.snap = NoDoc /\ PushIdle.snap = NoDoc /\ PullIdle.snap = NoDoc
                   /\ WellIndexed(NoDoc.log) /\ WellIndexed(NoLog)
                   /\ \A log : Doc(log).log = log
  BY NoLogWellIndexed DEF TrackNone, PushIdle, PullIdle, NoDoc, Doc

\* A push that moves on to a state with a well indexed copy.
LEMMA ToEntryIndexed ==
    ASSUME push \in [Pusher -> PushType], \A q \in Pusher : WellIndexed(push[q].snap.log),
           NEW p \in Pusher, NEW x, WellIndexed(x.snap.log), ToEntry(p, x)
    PROVE  \A q \in Pusher : WellIndexed(push'[q].snap.log)
  BY DEF ToEntry

\* A push that ends a round holds no copy of the log.
LEMMA NextRoundIndexed ==
    ASSUME push \in [Pusher -> PushType], \A q \in Pusher : WellIndexed(push[q].snap.log),
           NEW p \in Pusher, NEW done, NextRound(p, done)
    PROVE  \A q \in Pusher : WellIndexed(push'[q].snap.log)
<1> DEFINE x == [PushIdle EXCEPT !.pc = "next", !.filter = push[p].filter,
                                 !.i = push[p].i + 1, !.done = done]
<1>1. x.snap = NoDoc
  BY DEF PushIdle
<1>2. ToEntry(p, x)
  BY DEF NextRound
<1> HIDE DEF x
<1> QED
  BY <1>1, <1>2, IdleSnaps, ToEntryIndexed

\* Every step keeps every copy of the log well indexed.
LEMMA StepIndexed == TypeOK /\ LogsIndexed /\ [Next]_vars => LogsIndexed'
<1> SUFFICES ASSUME TypeOK, LogsIndexed, [Next]_vars PROVE LogsIndexed'
  OBVIOUS
<1> USE DEF store, memory, history, counts
<1>1. ASSUME NEW r \in Record, AppPut(r) \/ AppDelete(r) \/ PeerPut(r) \/ PeerDelete(r)
      PROVE  LogsIndexed'
  BY <1>1 DEF LogsIndexed, AppPut, AppDelete, PeerPut, PeerDelete
<1>2. CASE AppNotify
  <2>1. WellIndexed(LogChange(dirty, app.rec, app.action, app.version))
    BY LogChangeIndexed DEF TypeOK, LogsIndexed, AppType
  <2>2. WellIndexed(dirty')
    BY <1>2, <2>1 DEF LogsIndexed, AppNotify
  <2>3. \A n \in 1..MaxOps : track'[n].snap \in {track[n].snap, Doc(dirty'), meta}
    <3> DEFINE T(pc, doc) == [pc |-> pc, rec |-> app.rec, action |-> app.action,
                              version |-> app.version, snap |-> doc]
    <3>1. track' = [track EXCEPT ![ops] = T("persist", Doc(dirty'))]
          \/ track' = [track EXCEPT ![ops] = T("load", meta)]
      BY <1>2 DEF AppNotify
    <3>2. T("persist", Doc(dirty')).snap = Doc(dirty') /\ T("load", meta).snap = meta
      OBVIOUS
    <3> HIDE DEF T
    <3>3. \A n \in 1..MaxOps : track'[n] \in {track[n], T("persist", Doc(dirty')), T("load", meta)}
      BY <3>1 DEF TypeOK
    <3> QED
      BY <3>2, <3>3
  <2> QED
    BY <1>2, <2>2, <2>3, IdleSnaps DEF LogsIndexed, AppNotify
<1>3. ASSUME NEW n \in 1..MaxOps, TrackLoaded(n) PROVE LogsIndexed'
  <2>1. /\ LoadedLog(track[n].snap) \in Log /\ track[n].rec \in Record
        /\ track[n].action \in {"put", "delete"} /\ track[n].version \in Nat
        /\ WellIndexed(LoadedLog(track[n].snap))
    BY DEF TypeOK, TrackType, LogsIndexed, LoadedLog, Document
  <2>2. WellIndexed(dirty')
    <3>1. \A log \in Log, r \in Record, a \in {"put", "delete"}, v \in Nat :
             WellIndexed(log) => WellIndexed(LogChange(log, r, a, v))
      BY LogChangeIndexed
    <3> QED
      BY <1>3, <2>1, <3>1 DEF TrackLoaded
  <2>3. \A m \in 1..MaxOps : track'[m].snap = IF m = n THEN Doc(dirty') ELSE track[m].snap
    <3>1. track' = [track EXCEPT ![n].pc = "persist", ![n].snap = Doc(dirty')]
      BY <1>3 DEF TrackLoaded
    <3>2. [track[n] EXCEPT !.pc = "persist", !.snap = Doc(dirty')].snap = Doc(dirty')
      BY DEF TypeOK, TrackType
    <3>3. track'[n].snap = Doc(dirty') /\ \A m \in 1..MaxOps : m # n => track'[m] = track[m]
      BY <3>1, <3>2 DEF TypeOK, TrackType
    <3> QED
      BY <3>3
  <2>4. \A m \in 1..MaxOps : WellIndexed(track'[m].snap.log)
    BY <2>2, <2>3 DEF LogsIndexed, Doc
  <2> QED
    BY <1>3, <2>2, <2>4 DEF LogsIndexed, TrackLoaded
<1>4. ASSUME NEW n \in 1..MaxOps, TrackPersist(n) PROVE LogsIndexed'
  BY <1>4, IdleSnaps DEF TypeOK, LogsIndexed, TrackPersist
<1>5. ASSUME NEW p \in Pusher, NEW F \in SUBSET Record, PushStart(p, F) PROVE LogsIndexed'
  <2> DEFINE x == [PushIdle EXCEPT !.filter = F, !.pc = IF loaded THEN "next" ELSE "load",
                                   !.snap = IF loaded THEN NoDoc ELSE meta]
  <2>1. x.snap = IF loaded THEN NoDoc ELSE meta
    BY DEF PushIdle
  <2>2. ToEntry(p, x)
    BY <1>5 DEF PushStart
  <2> HIDE DEF x
  <2>3. \A q \in Pusher : WellIndexed(push'[q].snap.log)
    BY <2>1, <2>2, IdleSnaps, ToEntryIndexed DEF TypeOK, LogsIndexed
  <2> QED
    BY <1>5, <2>3 DEF LogsIndexed, PushStart
<1>6. ASSUME NEW p \in Pusher, PushLoaded(p) PROVE LogsIndexed'
  <2> DEFINE x == [push[p] EXCEPT !.pc = "next", !.snap = NoDoc]
  <2>1. x.snap = NoDoc
    BY DEF TypeOK, PushType
  <2>2. ToEntry(p, x)
    BY <1>6 DEF PushLoaded
  <2>4. WellIndexed(LoadedLog(push[p].snap))
    BY DEF LoadedLog, LogsIndexed
  <2> HIDE DEF x
  <2>3. \A q \in Pusher : WellIndexed(push'[q].snap.log)
    BY <2>1, <2>2, IdleSnaps, ToEntryIndexed DEF TypeOK, LogsIndexed
  <2> QED
    BY <1>6, <2>3, <2>4 DEF LogsIndexed, PushLoaded
<1>7. ASSUME NEW p \in Pusher,
             \/ \E r \in Record : PushPick(p, r)
             \/ PushDelete(p) \/ PushRead(p) \/ PushPut(p) \/ PushForce(p) \/ PushStore(p)
             \/ \E o \in Outcome : PushResolve(p, o)
             \/ \E b \in BOOLEAN : PushFail(p, b)
      PROVE  LogsIndexed'
  <2>1. UNCHANGED <<dirty, meta, track, pull>>
    BY <1>7 DEF PushPick, PushDelete, PushRead, PushPut, PushForce, PushStore, PushResolve, PushFail
  <2>2. \/ \E done : NextRound(p, done)
        \/ \E x : x.snap = push[p].snap /\ ToEntry(p, x)
    <3>1. \A r, e, pc : [push[p] EXCEPT !.rec = r, !.entry = e, !.pc = pc].snap = push[p].snap
      BY DEF TypeOK, PushType
    <3>2. \A e, pc : [push[p] EXCEPT !.pc = pc, !.env = e].snap = push[p].snap
      BY DEF TypeOK, PushType
    <3>3. \A pc : [push[p] EXCEPT !.pc = pc].snap = push[p].snap
      BY DEF TypeOK, PushType
    <3>4. \A pc, e, w : [push[p] EXCEPT !.pc = pc, !.renv = e, !.winner = w].snap = push[p].snap
      BY DEF TypeOK, PushType
    <3>5. ASSUME NEW r \in Record, PushPick(p, r)
          PROVE  \/ \E done : NextRound(p, done)
                 \/ \E x : x.snap = push[p].snap /\ ToEntry(p, x)
      <4> DEFINE x == [push[p] EXCEPT !.rec = r, !.entry = dirty[r],
                         !.pc = IF dirty[r].action = "delete" THEN "delete" ELSE "read"]
      <4>1. ToEntry(p, x) \/ NextRound(p, NotDone(p))
        BY <3>5 DEF PushPick
      <4>2. x.snap = push[p].snap
        BY <3>1
      <4> HIDE DEF x
      <4> QED
        BY <4>1, <4>2
    <3>6. CASE PushDelete(p) \/ PushStore(p) \/ \E b \in BOOLEAN : PushFail(p, b)
      BY <3>6 DEF PushDelete, PushStore, PushFail
    <3>7. CASE PushRead(p)
      BY <3>2, <3>7 DEF PushRead
    <3>8. CASE PushPut(p) \/ PushForce(p)
      BY <3>3, <3>8 DEF PushPut, PushForce
    <3>9. ASSUME NEW o \in Outcome, PushResolve(p, o)
          PROVE  \/ \E done : NextRound(p, done)
                 \/ \E x : x.snap = push[p].snap /\ ToEntry(p, x)
      <4> DEFINE x(pc, w) == [push[p] EXCEPT !.pc = pc, !.renv = remote[push[p].rec], !.winner = w]
      <4>1. \A pc, w : x(pc, w).snap = push[p].snap
        BY <3>4
      <4> HIDE DEF x
      <4>2. \/ ToEntry(p, x("force", push[p].env))
            \/ ToEntry(p, x("forceMerged", MergeOf(push[p].env, remote[push[p].rec])))
            \/ ToEntry(p, x("store", remote[push[p].rec]))
            \/ NextRound(p, NotDone(p))
        BY <3>9 DEF PushResolve, Outcome, x
      <4> QED
        BY <4>1, <4>2
    <3> QED
      BY <1>7, <3>5, <3>6, <3>7, <3>8, <3>9
  <2>3. \A q \in Pusher : WellIndexed(push'[q].snap.log)
    BY <2>2, ToEntryIndexed, NextRoundIndexed DEF TypeOK, LogsIndexed
  <2> QED
    BY <2>1, <2>3 DEF LogsIndexed
<1>8. ASSUME NEW p \in Pusher, PushFinish(p) PROVE LogsIndexed'
  <2> DEFINE x == [PushIdle EXCEPT !.pc = "persist", !.snap = Doc(dirty')]
  <2>1. WellIndexed(dirty')
    BY <1>8, WithoutIndexed DEF TypeOK, LogsIndexed, PushFinish
  <2>2. x.snap = Doc(dirty')
    BY DEF PushIdle
  <2>3. ToEntry(p, x)
    BY <1>8 DEF PushFinish
  <2> HIDE DEF x
  <2>4. \A q \in Pusher : WellIndexed(push'[q].snap.log)
    BY SMTT(20), <2>1, <2>2, <2>3, ToEntryIndexed DEF TypeOK, Doc, LogsIndexed
  <2> QED
    BY <1>8, <2>1, <2>4 DEF LogsIndexed, PushFinish
<1>9. ASSUME NEW p \in Pusher, PushPersist(p) PROVE LogsIndexed'
  <2>1. \A q \in Pusher : WellIndexed(push'[q].snap.log)
    BY <1>9, IdleSnaps, ToEntryIndexed DEF TypeOK, LogsIndexed, PushPersist
  <2> QED
    BY <1>9, <2>1 DEF LogsIndexed, PushPersist
<1>10. ASSUME NEW F \in SUBSET Record, PullStart(F) PROVE LogsIndexed'
  <2>1. pull'.snap = IF loaded THEN NoDoc ELSE meta
    BY <1>10 DEF PullStart, PullIdle
  <2> QED
    BY <1>10, <2>1, IdleSnaps DEF LogsIndexed, PullStart
<1>11. CASE PullLoaded
  <2>1. pull'.snap = NoDoc
    BY <1>11 DEF TypeOK, PullType, PullLoaded
  <2> QED
    BY <1>11, <2>1, IdleSnaps DEF LogsIndexed, PullLoaded, LoadedLog
<1>12. CASE PullFetch \/ PullStore
  <2>1. pull'.snap = pull.snap
    BY <1>12 DEF TypeOK, PullType, PullFetch, PullStore
  <2> QED
    BY <1>12, <2>1 DEF LogsIndexed, PullFetch, PullStore
<1>13. ASSUME NEW r \in Record, NEW o \in Outcome, PullDecide(r, o) PROVE LogsIndexed'
  <2>1. pull'.snap = pull.snap
    BY <1>13 DEF TypeOK, PullType, PullDecide
  <2> QED
    BY <1>13, <2>1 DEF LogsIndexed, PullDecide
<1>14. CASE PullClear
  <2>1. WellIndexed(dirty')
    BY <1>14, WithoutIndexed DEF TypeOK, LogsIndexed, PullClear
  <2>2. pull'.snap = pull.snap
    BY <1>14 DEF TypeOK, PullType, PullClear
  <2> QED
    BY <1>14, <2>1, <2>2 DEF LogsIndexed, PullClear
<1>15. CASE PullFail \/ PullFinish
  <2>1. pull'.snap = Doc(dirty)
    BY <1>15 DEF PullFail, PullFinish, PullIdle
  <2> QED
    BY <1>15, <2>1, IdleSnaps DEF LogsIndexed, PullFail, PullFinish
<1>16. CASE PullPersist
  BY <1>16, IdleSnaps DEF LogsIndexed, PullPersist
<1>17. CASE Crash
  BY <1>17, IdleSnaps DEF LogsIndexed, Crash
<1>18. CASE UNCHANGED vars
  BY <1>18 DEF LogsIndexed, vars
<1>19. \A F \in Filters : F \in SUBSET Record
  BY DEF Filters
<1> QED
  BY <1>1, <1>2, <1>3, <1>4, <1>5, <1>6, <1>7, <1>8, <1>9, <1>10, <1>11, <1>12, <1>13, <1>14,
     <1>15, <1>16, <1>17, <1>18, <1>19
  DEF Next, PushStep, PullStep

\* However calls overlap, fail or are cut off by a crash, the dirty log in
\* memory and the persisted one are gap-free arrays with one entry per record.
THEOREM LogAlwaysDense == Spec => []LogDense
<1>1. Init => LogsIndexed
  BY IdleSnaps DEF Init, LogsIndexed
<1>2. TypeOK /\ LogsIndexed => LogDense
  BY WellIndexedDense DEF TypeOK, Document, LogsIndexed, LogDense
<1> QED
  BY <1>1, <1>2, StepIndexed, TypeCorrect, PTL DEF Spec

-----------------------------------------------------------------------------
(***************************************************************************)
(* Dirty tracking loses nothing: for every set of records and every bound *)
(* a local write the remote has not got is in the dirty log, in memory    *)
(* and on disk, and nothing replaces it that no policy has decided,        *)
(* provided that the application awaits its calls, that the device does   *)
(* not go down between a write and its log entry, and that no collection  *)
(* merges.  Each of the three conditions is needed: README.md lists an    *)
(* instance of SyncEngine for each that shows what happens without it.    *)
(***************************************************************************)
Careful == Serial /\ "midWriteCrash" \notin Allowed /\ "merge" \notin Policies

(***************************************************************************)
(* The inductive invariant.                                               *)
(***************************************************************************)
\* At most one call is in flight.
NoTrack == \A n \in 1..MaxOps : track[n].pc = "none"
NoPush  == \A p \in Pusher : push[p].pc = "idle"
Alone ==
    /\ app.pc = "stored" => NoTrack /\ NoPush /\ pull.pc = "idle" /\ ops \in 1..MaxOps
    /\ \A n \in 1..MaxOps : track[n].pc # "none" =>
          /\ app.pc = "idle" /\ NoPush /\ pull.pc = "idle"
          /\ \A m \in 1..MaxOps : m # n => track[m].pc = "none"
    /\ \A p \in Pusher : push[p].pc # "idle" =>
          /\ app.pc = "idle" /\ NoTrack /\ pull.pc = "idle"
          /\ \A q \in Pusher : q # p => push[q].pc = "idle"
    /\ pull.pc # "idle" => app.pc = "idle" /\ NoTrack /\ NoPush

\* What is on the remote, or was read from it, has no write it never got.
Reached(e) == \A w \in e.src : w[1] = "app" => w \in reached
RemoteReached ==
    /\ \A r \in Record : Reached(remote[r]) /\ Reached(pull.remote[r])
    /\ Reached(pull.winner)
    /\ \A p \in Pusher : push[p].pc = "store" => Reached(push[p].winner)

\* A call that loads holds the stored log, one that persists the log in memory.
Holds(pc, snap) == /\ pc = "load" => ~loaded /\ snap = meta
                   /\ pc = "persist" => snap = Doc(dirty)
                   /\ pc \notin {"none", "idle", "load"} => loaded
Snapshots ==
    /\ ~meta.found => meta.log = NoLog
    /\ ~loaded => dirty = NoLog
    /\ \A n \in 1..MaxOps : Holds(track[n].pc, track[n].snap)
    /\ \A p \in Pusher : Holds(push[p].pc, push[p].snap)
    /\ Holds(pull.pc, pull.snap)

\* A push in its loop looks at the entry at index i and at the envelope in the
\* local store, and the entries it has dealt with have nothing left to push.
InLoop(p)  == push[p].pc \notin {"idle", "load", "persist"}
AtEntry(p) == push[p].pc \in {"delete", "read", "put", "fetch", "force", "store"}
PushLoop ==
    \A p \in Pusher :
        /\ push[p].pc # "forceMerged"
        /\ push[p].pc = "load" => push[p].done = {}
        /\ AtEntry(p) => dirty[push[p].rec].at = push[p].i
        /\ push[p].pc = "delete" => dirty[push[p].rec].action = "delete"
        /\ push[p].pc \in {"put", "fetch", "force"} => push[p].env = local[push[p].rec]
        /\ push[p].pc = "force" => push[p].winner = push[p].env
        /\ InLoop(p) => \A r \in Record : Logged(dirty, r) /\ dirty[r].at \in push[p].done
                                              => ~Unpushed(r)
PullLoop == pull.pc = "clear" => ~Unpushed(pull.rec)

\* A record whose entry is a delete has no write to push.
DeletesEmpty(log, stages) ==
    \A r \in Record : log[r].action = "delete" /\ ~BeingTracked(r, stages) => ~Unpushed(r)
Deletes ==
    /\ DeletesEmpty(dirty, {"load"}) /\ DeletesEmpty(meta.log, {"load", "persist"})
    /\ app.pc = "stored" /\ app.action = "delete" => ~Unpushed(app.rec)
    /\ \A n \in 1..MaxOps : track[n].pc # "none" /\ track[n].action = "delete"
                               => ~Unpushed(track[n].rec)

Tracking == /\ Alone /\ RemoteReached /\ Snapshots /\ PushLoop /\ PullLoop /\ Deletes
            /\ UnpushedTracked /\ UnpushedDurable
-----------------------------------------------------------------------------
(***************************************************************************)
(* What each push action does to the fields the invariant is about.       *)
(***************************************************************************)
Others(p) == \A q \in Pusher : q # p => push'[q] = push[q]
Stays(p)  == /\ push'[p].rec = push[p].rec /\ push'[p].i = push[p].i
             /\ push'[p].done = push[p].done
Ends(p, done) == Others(p) /\ push'[p].pc = "next" /\ push'[p].done = done
Moves(p, pc)  == Others(p) /\ push'[p].pc = pc /\ Stays(p)

\* A push that moves on leaves the other ones alone.
LEMMA ToEntryShape ==
    ASSUME push \in [Pusher -> PushType], NEW p \in Pusher, NEW x, ToEntry(p, x)
    PROVE  Others(p) /\ push'[p] = x
  BY DEF ToEntry, Others

\* A push that ends a round is at the head of the loop.
LEMMA NextRoundShape ==
    ASSUME push \in [Pusher -> PushType], NEW p \in Pusher, NEW done, NextRound(p, done)
    PROVE  Ends(p, done)
<1> DEFINE x == [PushIdle EXCEPT !.pc = "next", !.filter = push[p].filter,
                                 !.i = push[p].i + 1, !.done = done]
<1>1. x.pc = "next" /\ x.done = done
  BY DEF PushIdle
<1>2. ToEntry(p, x)
  BY DEF NextRound
<1> HIDE DEF x
<1> QED
  BY <1>1, <1>2, ToEntryShape DEF Ends

\* The fields of a push record after the changes the actions make to it.
LEMMA PushFields ==
    ASSUME NEW x \in PushType
    PROVE  /\ \A r, e, pc : LET y == [x EXCEPT !.rec = r, !.entry = e, !.pc = pc] IN
                 y.pc = pc /\ y.rec = r /\ y.i = x.i /\ y.done = x.done
           /\ \A pc, e : LET y == [x EXCEPT !.pc = pc, !.env = e] IN
                 y.pc = pc /\ y.env = e /\ y.rec = x.rec /\ y.i = x.i /\ y.done = x.done
           /\ \A pc : LET y == [x EXCEPT !.pc = pc] IN
                 /\ y.pc = pc /\ y.rec = x.rec /\ y.i = x.i /\ y.done = x.done
                 /\ y.env = x.env /\ y.winner = x.winner
           /\ \A pc, e, w : LET y == [x EXCEPT !.pc = pc, !.renv = e, !.winner = w] IN
                 /\ y.pc = pc /\ y.rec = x.rec /\ y.i = x.i /\ y.done = x.done
                 /\ y.env = x.env /\ y.winner = w
<1>1. \A r, e, pc : LET y == [x EXCEPT !.rec = r, !.entry = e, !.pc = pc] IN
          y.pc = pc /\ y.rec = r /\ y.i = x.i /\ y.done = x.done
  BY DEF PushType
<1>2. \A pc, e : LET y == [x EXCEPT !.pc = pc, !.env = e] IN
          y.pc = pc /\ y.env = e /\ y.rec = x.rec /\ y.i = x.i /\ y.done = x.done
  BY DEF PushType
<1>3. \A pc : LET y == [x EXCEPT !.pc = pc] IN
          /\ y.pc = pc /\ y.rec = x.rec /\ y.i = x.i /\ y.done = x.done
          /\ y.env = x.env /\ y.winner = x.winner
  BY DEF PushType
<1>4. \A pc, e, w : LET y == [x EXCEPT !.pc = pc, !.renv = e, !.winner = w] IN
          /\ y.pc = pc /\ y.rec = x.rec /\ y.i = x.i /\ y.done = x.done
          /\ y.env = x.env /\ y.winner = w
  BY DEF PushType
<1> QED
  BY <1>1, <1>2, <1>3, <1>4

\* A push starts at the head of the loop or by loading the log.
LEMMA PushStartShape ==
    ASSUME TypeOK, NEW p \in Pusher, NEW F, PushStart(p, F)
    PROVE  /\ Others(p) /\ push'[p].done = {}
           /\ loaded => push'[p].pc = "next"
           /\ ~loaded => push'[p].pc = "load" /\ push'[p].snap = meta
<1> DEFINE x == [PushIdle EXCEPT !.filter = F, !.pc = IF loaded THEN "next" ELSE "load",
                                 !.snap = IF loaded THEN NoDoc ELSE meta]
<1>1. /\ x.done = {} /\ x.pc = (IF loaded THEN "next" ELSE "load")
      /\ x.snap = (IF loaded THEN NoDoc ELSE meta)
  BY DEF PushIdle
<1>2. ToEntry(p, x)
  BY DEF PushStart
<1> HIDE DEF x
<1> QED
  BY <1>1, <1>2, ToEntryShape DEF TypeOK

\* A push that has loaded the log is at the head of the loop.
LEMMA PushLoadedShape ==
    ASSUME TypeOK, NEW p \in Pusher, PushLoaded(p)
    PROVE  Ends(p, push[p].done)
<1> DEFINE x == [push[p] EXCEPT !.pc = "next", !.snap = NoDoc]
<1>1. x.done = push[p].done /\ x.pc = "next"
  BY DEF TypeOK, PushType
<1>2. ToEntry(p, x)
  BY DEF PushLoaded
<1> HIDE DEF x
<1> QED
  BY <1>1, <1>2, ToEntryShape DEF TypeOK, Ends

\* A push takes up the entry at its index, or passes over it.
LEMMA PushPickShape ==
    ASSUME TypeOK, NEW p \in Pusher, NEW r \in Record, PushPick(p, r)
    PROVE  \/ Ends(p, push[p].done)
           \/ /\ Others(p) /\ push'[p].pc \in {"delete", "read"} /\ push'[p].rec = r
              /\ push'[p].i = push[p].i /\ push'[p].done = push[p].done
              /\ push'[p].pc = "delete" => dirty[r].action = "delete"
<1> DEFINE pc == IF dirty[r].action = "delete" THEN "delete" ELSE "read"
           x  == [push[p] EXCEPT !.rec = r, !.entry = dirty[r], !.pc = pc]
<1>1. x.pc = pc /\ x.rec = r /\ x.i = push[p].i /\ x.done = push[p].done
  BY PushFields DEF TypeOK
<1>2. ToEntry(p, x) \/ NextRound(p, push[p].done)
  BY DEF PushPick, NotDone
<1> HIDE DEF x
<1>3. CASE ToEntry(p, x)
  BY <1>1, <1>3, ToEntryShape DEF TypeOK
<1>4. CASE NextRound(p, push[p].done)
  BY <1>4, NextRoundShape DEF TypeOK
<1> QED
  BY <1>2, <1>3, <1>4

\* A push reads the local envelope, or finds that there is nothing to put.
LEMMA PushReadShape ==
    ASSUME TypeOK, NEW p \in Pusher, PushRead(p)
    PROVE  \/ ~Exists(local[push[p].rec]) /\ Ends(p, Done(p))
           \/ Moves(p, "put") /\ push'[p].env = local[push[p].rec]
<1> DEFINE x == [push[p] EXCEPT !.pc = "put", !.env = local[push[p].rec]]
<1>1. /\ x.pc = "put" /\ x.env = local[push[p].rec]
      /\ x.rec = push[p].rec /\ x.i = push[p].i /\ x.done = push[p].done
  BY PushFields DEF TypeOK
<1>2. /\ Exists(local[push[p].rec]) => ToEntry(p, x)
      /\ ~Exists(local[push[p].rec]) => NextRound(p, Done(p))
  BY DEF PushRead
<1> HIDE DEF x
<1>3. CASE Exists(local[push[p].rec])
  BY <1>1, <1>2, <1>3, ToEntryShape DEF TypeOK, Moves, Stays
<1>4. CASE ~Exists(local[push[p].rec])
  BY <1>2, <1>4, NextRoundShape DEF TypeOK
<1> QED
  BY <1>3, <1>4

\* The remote takes the envelope or reports a conflict.
LEMMA PushPutShape ==
    ASSUME TypeOK, NEW p \in Pusher, PushPut(p)
    PROVE  \/ /\ Ends(p, Done(p)) /\ reached' = reached \cup push[p].env.src
              /\ remote' = [remote EXCEPT ![push[p].rec] = push[p].env]
           \/ /\ Moves(p, "fetch") /\ push'[p].env = push[p].env
              /\ UNCHANGED <<remote, reached>>
<1> DEFINE x == [push[p] EXCEPT !.pc = "fetch"]
<1>1. /\ x.pc = "fetch" /\ x.env = push[p].env
      /\ x.rec = push[p].rec /\ x.i = push[p].i /\ x.done = push[p].done
  BY PushFields DEF TypeOK
<1>2. \/ ToEntry(p, x) /\ UNCHANGED <<remote, reached>>
      \/ /\ NextRound(p, Done(p)) /\ reached' = reached \cup push[p].env.src
         /\ remote' = [remote EXCEPT ![push[p].rec] = push[p].env]
  BY DEF PushPut
<1> HIDE DEF x
<1>3. CASE ToEntry(p, x) /\ UNCHANGED <<remote, reached>>
  BY <1>1, <1>3, ToEntryShape DEF TypeOK, Moves, Stays
<1>4. CASE /\ NextRound(p, Done(p)) /\ reached' = reached \cup push[p].env.src
           /\ remote' = [remote EXCEPT ![push[p].rec] = push[p].env]
  BY <1>4, NextRoundShape DEF TypeOK
<1> QED
  BY <1>2, <1>3, <1>4

\* Without a merge policy the winner of a push conflict is one of the sides.
LEMMA PushResolveShape ==
    ASSUME TypeOK, Careful, NEW p \in Pusher, NEW o \in Outcome, PushResolve(p, o)
    PROVE  \/ Ends(p, push[p].done)
           \/ Moves(p, "force") /\ push'[p].env = push[p].env /\ push'[p].winner = push[p].env
           \/ /\ Moves(p, "store") /\ push'[p].env = push[p].env
              /\ push'[p].winner = remote[push[p].rec]
<1> DEFINE x(pc, w) == [push[p] EXCEPT !.pc = pc, !.renv = remote[push[p].rec], !.winner = w]
<1>1. \A pc, w : /\ x(pc, w).pc = pc /\ x(pc, w).env = push[p].env /\ x(pc, w).winner = w
                 /\ x(pc, w).rec = push[p].rec /\ x(pc, w).i = push[p].i
                 /\ x(pc, w).done = push[p].done
  BY PushFields DEF TypeOK
<1> HIDE DEF x
<1>2. policy[push[p].rec] # "merge"
  BY DEF TypeOK, PushType, Careful
<1>3. o # "merged"
  BY <1>2 DEF PushResolve, Outcomes
<1>4. \/ NextRound(p, push[p].done)
      \/ ToEntry(p, x("force", push[p].env))
      \/ ToEntry(p, x("store", remote[push[p].rec]))
  BY <1>3 DEF PushResolve, Outcome, NotDone, x
<1>5. CASE NextRound(p, push[p].done)
  BY <1>5, NextRoundShape DEF TypeOK
<1>6. CASE ToEntry(p, x("force", push[p].env))
  BY <1>1, <1>6, ToEntryShape DEF TypeOK, Moves, Stays
<1>7. CASE ToEntry(p, x("store", remote[push[p].rec]))
  BY <1>1, <1>7, ToEntryShape DEF TypeOK, Moves, Stays
<1> QED
  BY <1>4, <1>5, <1>6, <1>7

\* The actions that end a round, and those that end a push.
LEMMA PushEndShapes ==
    ASSUME TypeOK, NEW p \in Pusher
    PROVE  /\ PushDelete(p) \/ PushStore(p) => Ends(p, Done(p))
           /\ PushForce(p) /\ push[p].pc = "force" => Ends(p, Done(p))
           /\ (\E b \in BOOLEAN : PushFail(p, b)) => Ends(p, push[p].done)
           /\ PushFinish(p) => /\ Others(p) /\ push'[p].pc = "persist"
                               /\ push'[p].snap = Doc(dirty')
           /\ PushPersist(p) => Others(p) /\ push'[p].pc = "idle"
<1>1. PushDelete(p) \/ PushStore(p) => Ends(p, Done(p))
  BY NextRoundShape DEF TypeOK, PushDelete, PushStore
<1>2. PushForce(p) /\ push[p].pc = "force" => Ends(p, Done(p))
  BY NextRoundShape DEF TypeOK, PushForce
<1>3. (\E b \in BOOLEAN : PushFail(p, b)) => Ends(p, push[p].done)
  BY NextRoundShape DEF TypeOK, PushFail, NotDone
<1>4. ASSUME PushFinish(p)
      PROVE  Others(p) /\ push'[p].pc = "persist" /\ push'[p].snap = Doc(dirty')
  <2> DEFINE x == [PushIdle EXCEPT !.pc = "persist", !.snap = Doc(dirty')]
  <2>1. x.pc = "persist" /\ x.snap = Doc(dirty')
    BY DEF PushIdle
  <2>2. ToEntry(p, x)
    BY <1>4 DEF PushFinish
  <2> HIDE DEF x
  <2> QED
    BY <2>1, <2>2, ToEntryShape DEF TypeOK
<1>5. PushPersist(p) => Others(p) /\ push'[p].pc = "idle"
  <2>1. PushIdle.pc = "idle"
    BY DEF PushIdle
  <2> QED
    BY <2>1, ToEntryShape DEF TypeOK, PushPersist
<1> QED
  BY <1>1, <1>2, <1>3, <1>4, <1>5

\* A push in flight changes nothing of the other processes.
LEMMA PushFrame ==
    ASSUME TypeOK, NEW p \in Pusher, PushStep(p) \/ \E b \in BOOLEAN : PushFail(p, b)
    PROVE  UNCHANGED <<app, track, pull, ops>> /\ push[p].pc # "idle" /\ Others(p)
<1> USE DEF counts
<1>1. \A done : NextRound(p, done) => \E x : ToEntry(p, x)
  BY DEF NextRound
<1>2. ASSUME NEW o \in Outcome, PushResolve(p, o)
      PROVE  UNCHANGED <<app, track, pull, ops>> /\ push[p].pc # "idle" /\ \E x : ToEntry(p, x)
  BY <1>1, <1>2 DEF PushResolve, Outcome
<1>3. ASSUME NEW r \in Record, PushPick(p, r)
      PROVE  UNCHANGED <<app, track, pull, ops>> /\ push[p].pc # "idle" /\ \E x : ToEntry(p, x)
  BY <1>1, <1>3 DEF PushPick
<1>4. ASSUME PushRead(p) \/ PushPut(p) \/ PushForce(p)
      PROVE  UNCHANGED <<app, track, pull, ops>> /\ push[p].pc # "idle" /\ \E x : ToEntry(p, x)
  BY <1>1, <1>4 DEF PushRead, PushPut, PushForce
<1>5. ASSUME \/ PushLoaded(p) \/ PushDelete(p) \/ PushStore(p) \/ PushFinish(p) \/ PushPersist(p)
             \/ \E b \in BOOLEAN : PushFail(p, b)
      PROVE  UNCHANGED <<app, track, pull, ops>> /\ push[p].pc # "idle" /\ \E x : ToEntry(p, x)
  BY <1>1, <1>5 DEF PushLoaded, PushDelete, PushStore, PushFinish, PushPersist, PushFail
<1>6. UNCHANGED <<app, track, pull, ops>> /\ push[p].pc # "idle" /\ \E x : ToEntry(p, x)
  BY <1>2, <1>3, <1>4, <1>5 DEF PushStep
<1> QED
  BY <1>6, ToEntryShape DEF TypeOK

\* A pull in flight changes nothing of the other processes.
LEMMA PullFrame ==
    PullStep \/ PullFail => UNCHANGED <<app, track, push, ops, remote, reached>> /\ pull.pc # "idle"
<1> USE DEF counts, history, store
<1>1. ASSUME NEW r \in Record, NEW o \in Outcome, PullDecide(r, o)
      PROVE  UNCHANGED <<app, track, push, ops, remote, reached>> /\ pull.pc # "idle"
  BY <1>1 DEF PullDecide
<1>2. ASSUME PullLoaded \/ PullFetch \/ PullFail \/ PullStore \/ PullClear
      PROVE  UNCHANGED <<app, track, push, ops, remote, reached>> /\ pull.pc # "idle"
  BY <1>2 DEF PullLoaded, PullFetch, PullFail, PullStore, PullClear
<1>3. ASSUME PullFinish \/ PullPersist
      PROVE  UNCHANGED <<app, track, push, ops, remote, reached>> /\ pull.pc # "idle"
  BY <1>3 DEF PullFinish, PullPersist
<1> QED
  BY <1>1, <1>2, <1>3 DEF PullStep

\* Calls that await each other never overlap.
LEMMA StepAlone == TypeOK /\ Careful /\ Alone /\ [Next]_vars => Alone'
<1> SUFFICES ASSUME TypeOK, Careful, Alone, [Next]_vars PROVE Alone'
  OBVIOUS
<1> USE ConstantsAssumption DEF store, memory, history, counts, NoTrack, NoPush
<1>1. MayStart => app.pc = "idle" /\ NoTrack /\ NoPush /\ pull.pc = "idle"
  BY DEF MayStart, Careful, Quiet
<1>2. ASSUME NEW r \in Record, AppPut(r) \/ AppDelete(r) PROVE Alone'
  <2>1. ops' = ops + 1 /\ ops < MaxOps
    BY <1>2 DEF AppPut, AppDelete
  <2>2. ops' \in 1..MaxOps
    BY <2>1 DEF TypeOK
  <2> QED
    BY <1>1, <1>2, <2>2 DEF Alone, AppPut, AppDelete
<1>3. CASE AppNotify
  <2>1. /\ app'.pc = "idle" /\ NoPush' /\ pull'.pc = "idle"
        /\ \A n \in 1..MaxOps : n # ops => track'[n].pc = "none"
    BY <1>3 DEF Alone, AppNotify, AppIdle, TypeOK
  <2> QED
    BY <2>1 DEF Alone
<1>4. ASSUME NEW n \in 1..MaxOps, TrackLoaded(n) \/ TrackPersist(n) PROVE Alone'
  <2>1. /\ track[n].pc # "none" /\ UNCHANGED <<app, push, pull>>
        /\ \A m \in 1..MaxOps : m # n => track'[m] = track[m]
    BY <1>4 DEF TrackLoaded, TrackPersist, TypeOK
  <2> QED
    BY <2>1 DEF Alone
<1>5. ASSUME NEW p \in Pusher, NEW F, PushStart(p, F) PROVE Alone'
  <2>1. MayStart /\ UNCHANGED <<app, track, pull>>
    BY <1>5 DEF PushStart
  <2>2. Others(p)
    BY <1>5, PushStartShape
  <2> QED
    BY <1>1, <2>1, <2>2 DEF Alone, Others
<1>6. ASSUME NEW p \in Pusher, PushStep(p) \/ \E b \in BOOLEAN : PushFail(p, b) PROVE Alone'
  BY <1>6, PushFrame DEF Alone, Others
<1>7. ASSUME NEW F, PullStart(F) PROVE Alone'
  BY <1>1, <1>7 DEF Alone, PullStart
<1>8. CASE PullStep \/ PullFail
  BY <1>8, PullFrame DEF Alone
<1>9. ASSUME NEW r \in Record, PeerPut(r) \/ PeerDelete(r) PROVE Alone'
  BY <1>9 DEF Alone, PeerPut, PeerDelete
<1>10. CASE Crash
  <2>1. TrackNone.pc = "none" /\ PushIdle.pc = "idle" /\ PullIdle.pc = "idle" /\ AppIdle.pc = "idle"
    BY DEF TrackNone, PushIdle, PullIdle, AppIdle
  <2> QED
    BY <1>10, <2>1 DEF Alone, Crash
<1>11. CASE UNCHANGED vars
  BY <1>11 DEF Alone, vars
<1> QED
  BY <1>2, <1>3, <1>4, <1>5, <1>6, <1>7, <1>8, <1>9, <1>10, <1>11 DEF Next

\* What the remote has got it never loses from the record of it.
LEMMA ReachedGrows == [Next]_vars => reached \subseteq reached'
<1> SUFFICES ASSUME [Next]_vars PROVE reached \subseteq reached'
  OBVIOUS
<1> USE DEF store, memory, history, counts
<1>1. ASSUME NEW r \in Record, AppPut(r) \/ AppDelete(r) \/ PeerPut(r) \/ PeerDelete(r)
      PROVE  reached \subseteq reached'
  BY <1>1 DEF AppPut, AppDelete, PeerPut, PeerDelete
<1>2. ASSUME AppNotify \/ Crash \/ UNCHANGED vars PROVE reached \subseteq reached'
  BY <1>2 DEF AppNotify, Crash, vars
<1>3. ASSUME NEW n \in 1..MaxOps, TrackLoaded(n) \/ TrackPersist(n) PROVE reached \subseteq reached'
  BY <1>3 DEF TrackLoaded, TrackPersist
<1>4. ASSUME NEW p \in Pusher, \/ (\E F \in Filters : PushStart(p, F)) \/ PushLoaded(p)
             \/ (\E r \in Record : PushPick(p, r)) \/ PushDelete(p) \/ PushRead(p) \/ PushStore(p)
             \/ (\E o \in Outcome : PushResolve(p, o)) \/ PushFinish(p) \/ PushPersist(p)
      PROVE  reached \subseteq reached'
  BY <1>4 DEF PushStart, PushLoaded, PushPick, PushDelete, PushRead, PushStore, PushResolve,
              PushFinish, PushPersist
<1>5. ASSUME NEW p \in Pusher, PushPut(p) \/ PushForce(p) PROVE reached \subseteq reached'
  BY <1>5 DEF PushPut, PushForce
<1>6. ASSUME NEW p \in Pusher, NEW b \in BOOLEAN, PushFail(p, b) PROVE reached \subseteq reached'
  BY <1>6 DEF PushFail
<1>7. CASE PullStep \/ PullFail
  BY <1>7, PullFrame
<1>8. ASSUME NEW F, PullStart(F) PROVE reached \subseteq reached'
  BY <1>8 DEF PullStart
<1> QED
  BY <1>1, <1>2, <1>3, <1>4, <1>5, <1>6, <1>7, <1>8 DEF Next, PushStep

\* What a step puts on the remote, it has got.
LEMMA RemoteSteps ==
    TypeOK /\ [Next]_vars => \A r \in Record : remote'[r] = remote[r] \/ Reached(remote[r])'
<1> SUFFICES ASSUME TypeOK, [Next]_vars, NEW r \in Record
             PROVE  remote'[r] = remote[r] \/ Reached(remote[r])'
  OBVIOUS
<1> USE DEF store, memory, history, counts
<1>1. Reached(Missing)'
  BY DEF Reached, Missing
<1>2. ASSUME NEW q \in Record, PeerPut(q) PROVE remote'[r] = remote[r] \/ Reached(remote[r])'
  <2>1. remote'[r] = remote[r] \/ remote'[r].src = {<<"peer", peerOps + 1>>}
    BY <1>2 DEF PeerPut, TypeOK
  <2> QED
    BY <2>1 DEF Reached
<1>3. ASSUME NEW q \in Record, PeerDelete(q) PROVE remote'[r] = remote[r] \/ Reached(remote[r])'
  BY <1>1, <1>3 DEF PeerDelete, TypeOK
<1>4. ASSUME NEW p \in Pusher, PushDelete(p) PROVE remote'[r] = remote[r] \/ Reached(remote[r])'
  BY <1>1, <1>4 DEF PushDelete, TypeOK
<1>5. ASSUME NEW p \in Pusher, PushPut(p) PROVE remote'[r] = remote[r] \/ Reached(remote[r])'
  <2>1. CASE UNCHANGED remote
    BY <2>1
  <2>2. CASE /\ reached' = reached \cup push[p].env.src
             /\ remote' = [remote EXCEPT ![push[p].rec] = push[p].env]
    BY <2>2 DEF Reached, TypeOK
  <2> QED
    BY <1>5, <2>1, <2>2, PushPutShape
<1>6. ASSUME NEW p \in Pusher, PushForce(p) PROVE remote'[r] = remote[r] \/ Reached(remote[r])'
  BY <1>6 DEF PushForce, Reached, TypeOK
<1>7. ASSUME NEW p \in Pusher, NEW b \in BOOLEAN, PushFail(p, b)
      PROVE  remote'[r] = remote[r] \/ Reached(remote[r])'
  <2>1. \/ remote' = remote
        \/ \E e : /\ remote' = [remote EXCEPT ![push[p].rec] = e]
                  /\ reached' = reached \cup e.src
    BY <1>7 DEF PushFail
  <2> QED
    BY <2>1 DEF Reached, TypeOK
<1>8. ASSUME NEW q \in Record, AppPut(q) \/ AppDelete(q) PROVE remote' = remote
  BY <1>8 DEF AppPut, AppDelete
<1>9. ASSUME AppNotify \/ Crash \/ UNCHANGED vars PROVE remote' = remote
  BY <1>9 DEF AppNotify, Crash, vars
<1>10. ASSUME NEW n \in 1..MaxOps, TrackLoaded(n) \/ TrackPersist(n) PROVE remote' = remote
  BY <1>10 DEF TrackLoaded, TrackPersist
<1>11. ASSUME NEW p \in Pusher, \/ (\E F \in Filters : PushStart(p, F))
                                \/ (\E q \in Record : PushPick(p, q))
       PROVE  remote' = remote
  BY <1>11 DEF PushStart, PushPick
<1>15. ASSUME NEW p \in Pusher, PushLoaded(p) \/ PushRead(p) PROVE remote' = remote
  BY <1>15 DEF PushLoaded, PushRead
<1>14. ASSUME NEW p \in Pusher, \/ (\E o \in Outcome : PushResolve(p, o)) \/ PushStore(p)
                                \/ PushFinish(p) \/ PushPersist(p)
       PROVE  remote' = remote
  BY <1>14 DEF PushStore, PushResolve, PushFinish, PushPersist
<1>12. ASSUME PullStep \/ PullFail PROVE remote' = remote
  BY <1>12, PullFrame
<1>13. ASSUME NEW F, PullStart(F) PROVE remote' = remote
  BY <1>13 DEF PullStart
<1> QED
  BY <1>2, <1>3, <1>4, <1>5, <1>6, <1>7, <1>8, <1>9, <1>10, <1>11, <1>12, <1>13,
     <1>14, <1>15
  DEF Next, PushStep

\* What pull holds of the remote: its snapshot and the winner of a record.
LEMMA PullHolds ==
    TypeOK /\ Careful /\ [Next]_vars =>
        /\ \A r \in Record : pull'.remote[r] \in {pull.remote[r], remote[r], Missing}
        /\ \/ pull'.winner \in {pull.winner, Missing}
           \/ \E r \in Record : pull'.winner = pull.remote[r]
<1> SUFFICES ASSUME TypeOK, Careful, [Next]_vars
             PROVE  /\ \A r \in Record : pull'.remote[r] \in {pull.remote[r], remote[r], Missing}
                    /\ \/ pull'.winner \in {pull.winner, Missing}
                       \/ \E r \in Record : pull'.winner = pull.remote[r]
  OBVIOUS
<1> USE DEF store, memory, history, counts
<1> DEFINE Holds2 == /\ \A r \in Record : pull'.remote[r] \in {pull.remote[r], remote[r], Missing}
                     /\ \/ pull'.winner \in {pull.winner, Missing}
                        \/ \E r \in Record : pull'.winner = pull.remote[r]
<1>1. pull' = pull => Holds2
  OBVIOUS
<1>2. ASSUME pull' = PullIdle PROVE Holds2
  BY <1>2 DEF PullIdle
<1>3. ASSUME NEW F, PullStart(F) PROVE Holds2
  BY <1>3 DEF PullStart, PullIdle
<1>4. CASE PullLoaded \/ PullFetch \/ PullStore \/ PullClear
  BY <1>4 DEF PullLoaded, PullFetch, PullStore, PullClear, TypeOK, PullType
<1>5. CASE PullFail \/ PullFinish \/ PullPersist
  <2> DEFINE x == [PullIdle EXCEPT !.pc = "persist", !.snap = Doc(dirty)]
  <2>1. PullIdle.remote = [r \in Record |-> Missing] /\ PullIdle.winner = Missing
    BY DEF PullIdle
  <2>2. x.remote = PullIdle.remote /\ x.winner = PullIdle.winner
    BY DEF PullIdle
  <2>3. pull' = x \/ pull' = PullIdle
    BY <1>5 DEF PullFail, PullFinish, PullPersist
  <2> HIDE DEF x
  <2> QED
    BY <2>1, <2>2, <2>3
<1>6. ASSUME NEW r \in Record, NEW o \in Outcome, PullDecide(r, o) PROVE Holds2
  <2> DEFINE x(c) == [pull EXCEPT !.pc = "store", !.todo = @ \ {r}, !.rec = r,
                                  !.env = local[r], !.winner = pull.remote[r], !.clear = c]
             y    == [pull EXCEPT !.todo = @ \ {r}]
             t    == x(TRUE)
             f    == x(FALSE)
  <2>1. /\ t.remote = pull.remote /\ t.winner = pull.remote[r]
        /\ f.remote = pull.remote /\ f.winner = pull.remote[r]
        /\ y.remote = pull.remote /\ y.winner = pull.winner
    BY DEF TypeOK, PullType
  <2>2. policy[r] # "merge"
    BY DEF TypeOK, Careful
  <2>3. o # "merged"
    BY <1>6, <2>2 DEF PullDecide, Outcomes
  <2>4. pull' = y \/ pull' = t \/ pull' = f
    BY <1>6, <2>3 DEF PullDecide
  <2> HIDE DEF t, f, y
  <2>5. pull'.remote = pull.remote /\ pull'.winner \in {pull.winner, pull.remote[r]}
    BY <2>1, <2>4
  <2> QED
    BY <2>5
<1>7. ASSUME NEW q \in Record, AppPut(q) \/ AppDelete(q) \/ PeerPut(q) \/ PeerDelete(q)
      PROVE  pull' = pull
  BY <1>7 DEF AppPut, AppDelete, PeerPut, PeerDelete
<1>8. ASSUME AppNotify \/ UNCHANGED vars PROVE pull' = pull
  BY <1>8 DEF AppNotify, vars
<1>9. ASSUME NEW n \in 1..MaxOps, TrackLoaded(n) \/ TrackPersist(n) PROVE pull' = pull
  BY <1>9 DEF TrackLoaded, TrackPersist
<1>10. ASSUME NEW p \in Pusher, NEW F, PushStart(p, F) PROVE pull' = pull
  BY <1>10 DEF PushStart
<1>11. ASSUME NEW p \in Pusher, PushStep(p) \/ \E b \in BOOLEAN : PushFail(p, b) PROVE pull' = pull
  BY <1>11, PushFrame
<1>12. Crash => pull' = PullIdle
  BY DEF Crash
<1> QED
  BY <1>1, <1>2, <1>3, <1>4, <1>5, <1>6, <1>7, <1>8, <1>9, <1>10, <1>11, <1>12 DEF Next, PullStep

\* A push comes to hold a winner for the local store from the remote.
LEMMA PushHolds ==
    TypeOK /\ Careful /\ PushLoop /\ [Next]_vars =>
        \A p \in Pusher : push'[p].pc = "store" =>
            push'[p] = push[p] \/ \E r \in Record : push'[p].winner = remote[r]
<1> SUFFICES ASSUME TypeOK, Careful, PushLoop, [Next]_vars, NEW p \in Pusher,
                    push'[p].pc = "store"
             PROVE  push'[p] = push[p] \/ \E r \in Record : push'[p].winner = remote[r]
  OBVIOUS
<1> USE DEF store, memory, history, counts
<1>1. ASSUME NEW q \in Pusher, PushStep(q) \/ \E b \in BOOLEAN : PushFail(q, b), q # p
      PROVE  push'[p] = push[p]
  BY <1>1, PushFrame DEF Others
<1>2. ASSUME NEW o \in Outcome, PushResolve(p, o)
      PROVE  \E r \in Record : push'[p].winner = remote[r]
  <2>1. push[p].rec \in Record
    BY DEF TypeOK, PushType
  <2> QED
    BY <1>2, <2>1, PushResolveShape DEF Ends, Moves
<1>3. ~PushForce(p)
  <2>1. ASSUME PushForce(p) PROVE FALSE
    <3>1. push[p].pc = "force"
      BY <2>1 DEF PushLoop, PushForce
    <3> QED
      BY <2>1, <3>1, PushEndShapes DEF Ends
  <2> QED
    BY <2>1
<1>4. ~PushDelete(p) /\ ~PushStore(p) /\ ~PushFinish(p) /\ ~PushPersist(p)
      /\ \A b \in BOOLEAN : ~PushFail(p, b)
  BY PushEndShapes DEF Ends
<1>5. ~PushLoaded(p) /\ ~PushRead(p) /\ ~PushPut(p) /\ \A r \in Record : ~PushPick(p, r)
  BY PushLoadedShape, PushReadShape, PushPutShape, PushPickShape DEF Ends, Moves
<1>6. ASSUME NEW q \in Pusher, NEW F, PushStart(q, F) PROVE push'[p] = push[p]
  BY <1>6, PushStartShape DEF Others
<1>7. ASSUME NEW q \in Record, AppPut(q) \/ AppDelete(q) \/ PeerPut(q) \/ PeerDelete(q)
      PROVE  push' = push
  BY <1>7 DEF AppPut, AppDelete, PeerPut, PeerDelete
<1>8. ASSUME AppNotify \/ UNCHANGED vars PROVE push' = push
  BY <1>8 DEF AppNotify, vars
<1>9. ASSUME NEW n \in 1..MaxOps, TrackLoaded(n) \/ TrackPersist(n) PROVE push' = push
  BY <1>9 DEF TrackLoaded, TrackPersist
<1>10. PullStep \/ PullFail => push' = push
  BY PullFrame
<1>11. ASSUME NEW F, PullStart(F) PROVE push' = push
  BY <1>11 DEF PullStart
<1>12. ~Crash
  BY DEF Crash, PushIdle
<1> QED
  BY <1>1, <1>2, <1>3, <1>4, <1>5, <1>6, <1>7, <1>8, <1>9, <1>10, <1>11, <1>12 DEF Next, PushStep

\* The remote and everything read from it stay free of writes it never got.
LEMMA StepRemoteReached ==
    TypeOK /\ Careful /\ PushLoop /\ RemoteReached /\ [Next]_vars => RemoteReached'
<1> SUFFICES ASSUME TypeOK, Careful, PushLoop, RemoteReached, [Next]_vars PROVE RemoteReached'
  OBVIOUS
<1>1. \A e : Reached(e) => Reached(e)'
  BY ReachedGrows DEF Reached
<1>2. Reached(Missing)'
  BY DEF Reached, Missing
<1>3. \A r \in Record : Reached(remote[r]) /\ Reached(pull.remote[r])
  BY DEF RemoteReached
<1>4. \A r \in Record : Reached(remote[r])'
  <2>1. ASSUME NEW r \in Record PROVE Reached(remote[r])'
    <3>1. CASE remote'[r] = remote[r]
      BY <1>1, <1>3, <3>1 DEF Reached
    <3> QED
      BY <3>1, RemoteSteps
  <2> QED
    BY <2>1
<1>5. \A r \in Record : Reached(pull.remote[r])'
  BY <1>1, <1>2, <1>3, PullHolds DEF Reached
<1>6. Reached(pull.winner)'
  BY <1>1, <1>2, <1>3, PullHolds DEF Reached, RemoteReached
<1>7. \A p \in Pusher : push'[p].pc = "store" => Reached(push[p].winner)'
  BY <1>1, <1>3, PushHolds DEF Reached, RemoteReached
<1> QED
  BY <1>4, <1>5, <1>6, <1>7 DEF RemoteReached

\* What each pull action does to the fields the invariant is about.
LEMMA PullShapes ==
    ASSUME TypeOK
    PROVE  /\ \A F : PullStart(F) => /\ loaded => pull'.pc = "fetch"
                                     /\ ~loaded => pull'.pc = "load" /\ pull'.snap = meta
           /\ PullLoaded => pull'.pc = "fetch"
           /\ PullFetch \/ PullClear => pull'.pc = "next"
           /\ \A r \in Record, o \in Outcome : PullDecide(r, o) => pull'.pc \in {"next", "store"}
           /\ PullStore => pull'.pc = "next" \/ (pull'.pc = "clear" /\ pull'.rec = pull.rec)
           /\ PullFail \/ PullFinish => pull'.pc = "persist" /\ pull'.snap = Doc(dirty)
           /\ PullPersist => pull'.pc = "idle"
<1>1. ASSUME NEW F, PullStart(F)
      PROVE  /\ loaded => pull'.pc = "fetch"
             /\ ~loaded => pull'.pc = "load" /\ pull'.snap = meta
  BY <1>1 DEF PullStart, PullIdle
<1>2. PullLoaded => pull'.pc = "fetch"
  BY DEF PullLoaded, TypeOK, PullType
<1>3. PullFetch \/ PullClear => pull'.pc = "next"
  BY DEF PullFetch, PullClear, TypeOK, PullType
<1>4. ASSUME NEW r \in Record, NEW o \in Outcome, PullDecide(r, o)
      PROVE  pull'.pc \in {"next", "store"}
  <2> DEFINE x(w, c) == [pull EXCEPT !.pc = "store", !.todo = @ \ {r}, !.rec = r,
                                     !.env = local[r], !.winner = w, !.clear = c]
             y == [pull EXCEPT !.todo = @ \ {r}]
  <2>1. (\A w, c : x(w, c).pc = "store") /\ y.pc = "next"
    BY <1>4 DEF PullDecide, TypeOK, PullType
  <2>2. pull' = y \/ \E w, c : pull' = x(w, c)
    BY <1>4 DEF PullDecide
  <2> HIDE DEF x, y
  <2> QED
    BY <2>1, <2>2
<1>5. PullStore => pull'.pc = "next" \/ (pull'.pc = "clear" /\ pull'.rec = pull.rec)
  BY DEF PullStore, TypeOK, PullType
<1>6. PullFail \/ PullFinish => pull'.pc = "persist" /\ pull'.snap = Doc(dirty)
  BY DEF PullFail, PullFinish, PullIdle
<1>7. PullPersist => pull'.pc = "idle"
  BY DEF PullPersist, PullIdle
<1> QED
  BY <1>1, <1>2, <1>3, <1>4, <1>5, <1>6, <1>7

\* Calls that load hold the stored log, calls that persist the log in memory.
LEMMA StepSnapshots ==
    TypeOK /\ Careful /\ Alone /\ PushLoop /\ Snapshots /\ [Next]_vars => Snapshots'
<1> SUFFICES ASSUME TypeOK, Careful, Alone, PushLoop, Snapshots, [Next]_vars PROVE Snapshots'
  OBVIOUS
<1> USE DEF store, memory, history, counts, NoTrack, NoPush
<1>1. ASSUME NEW r \in Record, AppPut(r) \/ AppDelete(r) \/ PeerPut(r) \/ PeerDelete(r)
      PROVE  Snapshots'
  BY <1>1 DEF Snapshots, Holds, AppPut, AppDelete, PeerPut, PeerDelete
<1>2. CASE AppNotify
  <2>1. /\ NoTrack /\ NoPush /\ pull.pc = "idle" /\ ops \in 1..MaxOps
        /\ UNCHANGED <<meta, loaded, push, pull>>
    BY <1>2 DEF AppNotify, Alone
  <2>2. \A n \in 1..MaxOps : n # ops => track'[n].pc = "none"
    BY <1>2, <2>1 DEF AppNotify, TypeOK
  <2> DEFINE x(pc, doc) == [pc |-> pc, rec |-> app.rec, action |-> app.action,
                            version |-> app.version, snap |-> doc]
             t == x("persist", Doc(dirty'))
             f == x("load", meta)
  <2>7. /\ loaded => track' = [track EXCEPT ![ops] = t]
        /\ ~loaded => track' = [track EXCEPT ![ops] = f] /\ UNCHANGED dirty
    BY <1>2 DEF AppNotify
  <2>8. t.pc = "persist" /\ t.snap = Doc(dirty') /\ f.pc = "load" /\ f.snap = meta
    OBVIOUS
  <2> HIDE DEF t, f
  <2>3. loaded => track'[ops].pc = "persist" /\ track'[ops].snap = Doc(dirty')
    BY <2>1, <2>7, <2>8 DEF TypeOK
  <2>4. ~loaded => /\ track'[ops].pc = "load" /\ track'[ops].snap = meta
                   /\ UNCHANGED dirty
    BY <2>1, <2>7, <2>8 DEF TypeOK
  <2>5. \A n \in 1..MaxOps : Holds(track[n].pc, track[n].snap)'
    BY <2>1, <2>2, <2>3, <2>4 DEF Holds
  <2>6. (\A p \in Pusher : Holds(push[p].pc, push[p].snap)') /\ Holds(pull.pc, pull.snap)'
    BY <2>1 DEF Holds
  <2> QED
    BY <2>1, <2>4, <2>5, <2>6 DEF Snapshots
<1>3. ASSUME NEW n \in 1..MaxOps, TrackLoaded(n) PROVE Snapshots'
  <2>1. /\ loaded' = TRUE /\ UNCHANGED <<meta, push, pull>> /\ NoPush /\ pull.pc = "idle"
        /\ \A m \in 1..MaxOps : m # n => track'[m] = track[m] /\ track[m].pc = "none"
    BY <1>3 DEF TrackLoaded, TypeOK, Alone
  <2>2. track'[n].pc = "persist" /\ track'[n].snap = Doc(dirty')
    <3> DEFINE x == [track[n] EXCEPT !.pc = "persist", !.snap = Doc(dirty')]
    <3>1. track' = [track EXCEPT ![n] = x]
      BY <1>3 DEF TrackLoaded
    <3>2. x.pc = "persist" /\ x.snap = Doc(dirty')
      BY DEF TypeOK, TrackType
    <3> HIDE DEF x
    <3> QED
      BY <3>1, <3>2 DEF TypeOK
  <2>3. \A m \in 1..MaxOps : Holds(track[m].pc, track[m].snap)'
    BY <2>1, <2>2 DEF Holds
  <2> QED
    BY <2>1, <2>3 DEF Snapshots, Holds
<1>4. ASSUME NEW n \in 1..MaxOps, TrackPersist(n) PROVE Snapshots'
  <2>1. /\ meta' = Doc(dirty) /\ loaded /\ UNCHANGED <<dirty, loaded, push, pull>>
    BY <1>4 DEF TrackPersist, Snapshots, Holds
  <2>2. NoPush /\ pull.pc = "idle" /\ \A m \in 1..MaxOps : track'[m].pc = "none"
    BY <1>4 DEF TrackPersist, TypeOK, Alone, TrackNone
  <2>3. meta'.found
    BY <2>1 DEF Doc
  <2> QED
    BY <2>1, <2>2, <2>3 DEF Snapshots, Holds
<1>5. ASSUME NEW p \in Pusher, UNCHANGED <<meta, dirty, loaded, track, pull>>, Others(p),
             Holds(push[p].pc, push[p].snap)'
      PROVE  Snapshots'
  BY <1>5 DEF Snapshots, Holds, Others
<1>6. ASSUME NEW p \in Pusher, NEW F, PushStart(p, F) PROVE Snapshots'
  <2>1. UNCHANGED <<meta, dirty, loaded, track, pull>>
    BY <1>6 DEF PushStart
  <2> QED
    BY <2>1, <1>5, <1>6, PushStartShape DEF Holds
<1>7. ASSUME NEW p \in Pusher, NEW r \in Record, PushPick(p, r) PROVE Snapshots'
  <2>1. UNCHANGED <<meta, dirty, loaded, track, pull>> /\ loaded
    BY <1>7 DEF PushPick, Snapshots, Holds
  <2> QED
    BY <2>1, <1>5, <1>7, PushPickShape DEF Holds, Ends
<1>8. ASSUME NEW p \in Pusher, PushDelete(p) \/ PushStore(p) PROVE Snapshots'
  <2>1. UNCHANGED <<meta, dirty, loaded, track, pull>> /\ loaded
    BY <1>8 DEF PushDelete, PushStore, Snapshots, Holds
  <2> QED
    BY <2>1, <1>5, <1>8, PushEndShapes DEF Holds, Ends
<1>9. ASSUME NEW p \in Pusher, PushRead(p) \/ PushPut(p) PROVE Snapshots'
  <2>1. UNCHANGED <<meta, dirty, loaded, track, pull>> /\ loaded
    BY <1>9 DEF PushRead, PushPut, Snapshots, Holds
  <2> QED
    BY <2>1, <1>5, <1>9, PushReadShape, PushPutShape DEF Holds, Ends, Moves
<1>10. ASSUME NEW p \in Pusher, PushForce(p), push[p].pc = "force" PROVE Snapshots'
  <2>1. UNCHANGED <<meta, dirty, loaded, track, pull>> /\ loaded
    BY <1>10 DEF PushForce, Snapshots, Holds
  <2> QED
    BY <2>1, <1>5, <1>10, PushEndShapes DEF Holds, Ends
<1>11. ASSUME NEW p \in Pusher, NEW o \in Outcome, PushResolve(p, o) PROVE Snapshots'
  <2>1. UNCHANGED <<meta, dirty, loaded, track, pull>> /\ loaded
    BY <1>11 DEF PushResolve, Snapshots, Holds
  <2> QED
    BY <2>1, <1>5, <1>11, PushResolveShape DEF Holds, Ends, Moves
<1>12. ASSUME NEW p \in Pusher, NEW b \in BOOLEAN, PushFail(p, b) PROVE Snapshots'
  <2>1. UNCHANGED <<meta, dirty, loaded, track, pull>> /\ loaded
    BY <1>12 DEF PushFail, Snapshots, Holds
  <2> QED
    BY <2>1, <1>5, <1>12, PushEndShapes DEF Holds, Ends
<1>13. ASSUME NEW p \in Pusher, PushLoaded(p) \/ PushFinish(p) \/ PushPersist(p) PROVE Snapshots'
  <2>1. /\ NoTrack /\ pull.pc = "idle" /\ UNCHANGED <<track, pull>>
        /\ \A q \in Pusher : q # p => push[q].pc = "idle"
        /\ Others(p)
    BY <1>13, PushFrame DEF Alone, PushStep
  <2>2. CASE PushLoaded(p)
    <3>1. loaded' = TRUE /\ UNCHANGED meta /\ push'[p].pc = "next"
      BY <2>2, PushLoadedShape DEF PushLoaded, Ends
    <3> QED
      BY <2>1, <3>1 DEF Snapshots, Holds, Others
  <2>3. CASE PushFinish(p)
    <3>1. loaded /\ UNCHANGED <<meta, loaded>>
      BY <2>3 DEF PushFinish, Snapshots, Holds
    <3>2. push'[p].pc = "persist" /\ push'[p].snap = Doc(dirty')
      BY <2>3, PushEndShapes
    <3> QED
      BY <2>1, <3>1, <3>2 DEF Snapshots, Holds, Others
  <2>4. CASE PushPersist(p)
    <3>1. meta' = Doc(dirty) /\ UNCHANGED <<dirty, loaded>>
      BY <2>4 DEF PushPersist, Snapshots, Holds
    <3>2. push'[p].pc = "idle" /\ meta'.found
      BY <2>4, <3>1, PushEndShapes DEF Doc
    <3> QED
      BY <2>1, <3>1, <3>2 DEF Snapshots, Holds, Others
  <2> QED
    BY <1>13, <2>2, <2>3, <2>4
<1>14. \A p \in Pusher : PushForce(p) => push[p].pc = "force"
  BY DEF PushForce, PushLoop
<1>15. ASSUME NEW F, PullStart(F) PROVE Snapshots'
  <2>1. UNCHANGED <<meta, dirty, loaded, track, push>>
    BY <1>15 DEF PullStart
  <2> QED
    BY <2>1, <1>15, PullShapes DEF Snapshots, Holds
<1>16. CASE PullStep \/ PullFail
  <2>1. NoTrack /\ NoPush /\ UNCHANGED <<track, push>>
    BY <1>16, PullFrame DEF Alone
  <2>2. CASE PullLoaded
    <3>1. loaded' = TRUE /\ UNCHANGED meta /\ pull'.pc = "fetch"
      BY <2>2, PullShapes DEF PullLoaded
    <3> QED
      BY <2>1, <3>1 DEF Snapshots, Holds
  <2>3. CASE PullClear
    <3>1. loaded /\ UNCHANGED <<meta, loaded>> /\ pull'.pc = "next"
      BY <2>3, PullShapes DEF PullClear, Snapshots, Holds
    <3> QED
      BY <2>1, <3>1 DEF Snapshots, Holds
  <2>4. CASE PullPersist
    <3>1. meta' = Doc(dirty) /\ UNCHANGED <<dirty, loaded>> /\ pull'.pc = "idle"
      BY <2>4, PullShapes DEF PullPersist, Snapshots, Holds
    <3>2. meta'.found
      BY <3>1 DEF Doc
    <3> QED
      BY <2>1, <3>1, <3>2 DEF Snapshots, Holds
  <2>5. CASE PullFetch \/ PullStore \/ \E r \in Record, o \in Outcome : PullDecide(r, o)
    <3>1. loaded /\ UNCHANGED <<meta, dirty, loaded>>
      BY <2>5 DEF PullFetch, PullStore, PullDecide, Snapshots, Holds
    <3>2. pull'.pc \in {"next", "store", "clear"}
      BY <2>5, PullShapes
    <3> QED
      BY <2>1, <3>1, <3>2 DEF Snapshots, Holds
  <2>6. CASE PullFail \/ PullFinish
    <3>1. loaded /\ UNCHANGED <<meta, dirty, loaded>>
      BY <2>6 DEF PullFail, PullFinish, Snapshots, Holds
    <3>2. pull'.pc = "persist" /\ pull'.snap = Doc(dirty)
      BY <2>6, PullShapes
    <3> QED
      BY <2>1, <3>1, <3>2 DEF Snapshots, Holds
  <2> QED
    BY <1>16, <2>2, <2>3, <2>4, <2>5, <2>6 DEF PullStep
<1>17. CASE Crash
  <2>1. TrackNone.pc = "none" /\ PushIdle.pc = "idle" /\ PullIdle.pc = "idle"
    BY DEF TrackNone, PushIdle, PullIdle
  <2>2. /\ dirty' = NoLog /\ UNCHANGED meta
        /\ track' = [n \in 1..MaxOps |-> TrackNone] /\ push' = [p \in Pusher |-> PushIdle]
        /\ pull' = PullIdle
    BY <1>17 DEF Crash
  <2> QED
    BY <2>1, <2>2 DEF Snapshots, Holds
<1>18. CASE UNCHANGED vars
  BY <1>18 DEF Snapshots, Holds, vars
<1> QED
  BY <1>1, <1>2, <1>3, <1>4, <1>6, <1>7, <1>8, <1>9, <1>10, <1>11, <1>12, <1>13, <1>14,
     <1>15, <1>16, <1>17, <1>18 DEF Next, PushStep

\* Only a write of the application makes a record unpushed.
LEMMA NoNewUnpushed ==
    ASSUME TypeOK, Careful, RemoteReached, PushLoop, [Next]_vars, NEW r \in Record, Unpushed(r)'
    PROVE  \/ Unpushed(r)
           \/ /\ app.pc = "idle" /\ NoTrack
              /\ app'.pc = "stored" /\ app'.rec = r /\ app'.action = "put"
<1> USE DEF store, memory, history, counts
<1>1. ASSUME local'[r] = local[r] PROVE Unpushed(r)
  BY <1>1, ReachedGrows DEF Unpushed
<1>2. ASSUME Reached(local[r])' PROVE FALSE
  BY <1>2 DEF Unpushed, Reached
<1>3. ASSUME NEW q \in Record, AppPut(q) \/ AppDelete(q)
      PROVE  \/ Unpushed(r)
             \/ /\ app.pc = "idle" /\ NoTrack
                /\ app'.pc = "stored" /\ app'.rec = r /\ app'.action = "put"
  <2>1. q # r => local'[r] = local[r]
    BY <1>3 DEF AppPut, AppDelete, TypeOK
  <2>2. app.pc = "idle" /\ NoTrack
    BY <1>3 DEF AppPut, AppDelete, MayStart, Quiet, Careful, NoTrack
  <2>3. q = r => ~AppDelete(q)
    BY DEF AppDelete, TypeOK, Unpushed, Missing, Exists
  <2>4. AppPut(q) => app'.pc = "stored" /\ app'.rec = q /\ app'.action = "put"
    BY DEF AppPut
  <2> QED
    BY <1>1, <1>3, <2>1, <2>2, <2>3, <2>4
<1>4. ASSUME NEW p \in Pusher, PushStore(p) PROVE Unpushed(r)
  <2>1. Reached(push[p].winner) /\ UNCHANGED reached /\ push[p].rec \in Record
    BY <1>4 DEF PushStore, RemoteReached, TypeOK, PushType
  <2>2. local'[r] = local[r] \/ local'[r] = push[p].winner
    BY <1>4, <2>1 DEF PushStore, TypeOK
  <2> QED
    BY <1>1, <1>2, <2>1, <2>2 DEF Reached
<1>5. CASE PullStore
  <2>1. Reached(pull.winner) /\ UNCHANGED reached /\ pull.rec \in Record
    BY <1>5 DEF PullStore, RemoteReached, TypeOK, PullType
  <2>2. local'[r] = local[r] \/ local'[r] = pull.winner
    BY <1>5, <2>1 DEF PullStore, TypeOK
  <2> QED
    BY <1>1, <1>2, <2>1, <2>2 DEF Reached
<1>6. ASSUME NEW q \in Record, PeerPut(q) \/ PeerDelete(q) PROVE local' = local
  BY <1>6 DEF PeerPut, PeerDelete
<1>7. ASSUME AppNotify \/ Crash \/ UNCHANGED vars PROVE local' = local
  BY <1>7 DEF AppNotify, Crash, vars
<1>8. ASSUME NEW n \in 1..MaxOps, TrackLoaded(n) \/ TrackPersist(n) PROVE local' = local
  BY <1>8 DEF TrackLoaded, TrackPersist
<1>9. ASSUME NEW p \in Pusher, NEW F, PushStart(p, F) PROVE local' = local
  BY <1>9 DEF PushStart
<1>10. ASSUME NEW p \in Pusher, NEW q \in Record, PushPick(p, q) PROVE local' = local
  BY <1>10 DEF PushPick
<1>11. ASSUME NEW p \in Pusher, NEW o \in Outcome, PushResolve(p, o) PROVE local' = local
  BY <1>11 DEF PushResolve
<1>12. ASSUME NEW p \in Pusher, NEW b \in BOOLEAN, PushFail(p, b) PROVE local' = local
  BY <1>12 DEF PushFail
<1>13. ASSUME NEW p \in Pusher, PushLoaded(p) \/ PushDelete(p) \/ PushRead(p) PROVE local' = local
  BY <1>13 DEF PushLoaded, PushDelete, PushRead
<1>14. ASSUME NEW p \in Pusher, PushPut(p) \/ PushForce(p) PROVE local' = local
  BY <1>14 DEF PushPut, PushForce
<1>15. ASSUME NEW p \in Pusher, PushFinish(p) \/ PushPersist(p) PROVE local' = local
  BY <1>15 DEF PushFinish, PushPersist
<1>16. ASSUME NEW F, PullStart(F) PROVE local' = local
  BY <1>16 DEF PullStart
<1>17. ASSUME NEW q \in Record, NEW o \in Outcome, PullDecide(q, o) PROVE local' = local
  BY <1>17 DEF PullDecide
<1>18. ASSUME PullLoaded \/ PullFetch \/ PullFail \/ PullClear PROVE local' = local
  BY <1>18 DEF PullLoaded, PullFetch, PullFail, PullClear
<1>19. ASSUME PullFinish \/ PullPersist PROVE local' = local
  BY <1>19 DEF PullFinish, PullPersist
<1> QED
  BY <1>1, <1>3, <1>4, <1>5, <1>6, <1>7, <1>8, <1>9, <1>10, <1>11, <1>12, <1>13, <1>14, <1>15,
     <1>16, <1>17, <1>18, <1>19 DEF Next, PushStep, PullStep

\* What PushLoop says of one push.
LoopOf(p) ==
    /\ push[p].pc # "forceMerged"
    /\ push[p].pc = "load" => push[p].done = {}
    /\ AtEntry(p) => dirty[push[p].rec].at = push[p].i
    /\ push[p].pc = "delete" => dirty[push[p].rec].action = "delete"
    /\ push[p].pc \in {"put", "fetch", "force"} => push[p].env = local[push[p].rec]
    /\ push[p].pc = "force" => push[p].winner = push[p].env
    /\ InLoop(p) => \A r \in Record : Logged(dirty, r) /\ dirty[r].at \in push[p].done
                                          => ~Unpushed(r)

\* A push completes an entry when its record has nothing left to push.
LEMMA CompletesEntry ==
    ASSUME TypeOK, LogsIndexed, NEW p \in Pusher, LoopOf(p), AtEntry(p), UNCHANGED dirty,
           \A r \in Record : Unpushed(r)' => Unpushed(r),
           \A r \in Record : r = push[p].rec => ~Unpushed(r)', Ends(p, Done(p))
    PROVE  LoopOf(p)'
<1>1. push'[p].pc = "next" /\ push'[p].done = push[p].done \cup {push[p].i}
  BY DEF Ends, Done
<1>2. push[p].rec \in Record /\ dirty[push[p].rec].at = push[p].i
  BY DEF LoopOf, TypeOK, PushType
<1>3. ASSUME NEW r \in Record, Logged(dirty, r), dirty[r].at = push[p].i PROVE r = push[p].rec
  BY <1>2, <1>3 DEF Logged, LogsIndexed, WellIndexed
<1>4. ASSUME NEW r \in Record, Logged(dirty, r), dirty[r].at \in push'[p].done
      PROVE  ~Unpushed(r)'
  <2>1. CASE dirty[r].at = push[p].i
    <3>1. r = push[p].rec
      BY <1>3, <1>4, <2>1
    <3> QED
      BY <3>1
  <2>2. CASE dirty[r].at \in push[p].done
    BY <1>4, <2>2 DEF LoopOf, InLoop, AtEntry
  <2> QED
    BY <1>1, <1>4, <2>1, <2>2
<1>5. \A r \in Record : Logged(dirty', r) /\ dirty'[r].at \in push'[p].done => ~Unpushed(r)'
  BY <1>4 DEF Logged
<1> QED
  BY <1>1, <1>5 DEF LoopOf, AtEntry, InLoop

\* A push goes on without having completed an entry.
LEMMA GoesOn ==
    ASSUME NEW p \in Pusher, LoopOf(p), InLoop(p), UNCHANGED <<dirty, local>>,
           \A r \in Record : Unpushed(r)' => Unpushed(r),
           \/ Ends(p, push[p].done)
           \/ AtEntry(p) /\ Moves(p, push'[p].pc) /\ push'[p].pc \in {"put", "fetch", "force", "store"},
           push'[p].pc \in {"put", "fetch", "force"} => push'[p].env = local[push[p].rec],
           push'[p].pc = "force" => push'[p].winner = push'[p].env
    PROVE  LoopOf(p)'
<1>1. push'[p].done = push[p].done
  BY DEF Ends, Moves, Stays
<1>2. \A r \in Record : Logged(dirty', r) /\ dirty'[r].at \in push'[p].done => ~Unpushed(r)'
  BY <1>1 DEF LoopOf, Logged
<1>3. CASE Ends(p, push[p].done)
  BY <1>2, <1>3 DEF LoopOf, AtEntry, InLoop, Ends
<1>4. CASE AtEntry(p) /\ Moves(p, push'[p].pc) /\ push'[p].pc \in {"put", "fetch", "force", "store"}
  BY <1>2, <1>4 DEF LoopOf, AtEntry, InLoop, Moves, Stays
<1> QED
  BY <1>3, <1>4

\* The three steps that change what the application's calls still have to do.
LEMMA Bookkeeping ==
    TypeOK /\ Careful /\ [Next]_vars =>
        \/ UNCHANGED <<app, track>>
        \/ app.pc = "idle" /\ NoTrack
        \/ AppNotify \/ \E n \in 1..MaxOps : TrackLoaded(n) \/ TrackPersist(n)
<1> SUFFICES ASSUME TypeOK, Careful, [Next]_vars,
                    ~UNCHANGED <<app, track>>, ~(app.pc = "idle" /\ NoTrack)
             PROVE  AppNotify \/ \E n \in 1..MaxOps : TrackLoaded(n) \/ TrackPersist(n)
  OBVIOUS
<1>1. \A r \in Record : ~AppPut(r) /\ ~AppDelete(r)
  BY DEF AppPut, AppDelete, MayStart, Quiet, Careful, NoTrack
<1>2. \A r \in Record : ~PeerPut(r) /\ ~PeerDelete(r)
  BY DEF PeerPut, PeerDelete
<1>3. ~Crash
  BY DEF Crash, Careful, NoTrack
<1>4. \A p \in Pusher : ~PushStep(p) /\ ~(\E b \in BOOLEAN : PushFail(p, b)) /\ \A F : ~PushStart(p, F)
  BY PushFrame DEF PushStart
<1>5. ~PullStep /\ ~PullFail /\ \A F : ~PullStart(F)
  BY PullFrame DEF PullStart
<1>6. ~UNCHANGED vars
  BY DEF vars
<1> QED
  BY <1>1, <1>2, <1>3, <1>4, <1>5, <1>6 DEF Next

\* The steps that change the log in memory or the stored one.
LEMMA LogSteps ==
    TypeOK /\ Careful /\ Alone /\ Snapshots /\ PushLoop /\ [Next]_vars =>
        \/ UNCHANGED <<dirty, loaded, meta>>
        \/ AppNotify \/ \E n \in 1..MaxOps : TrackLoaded(n)
        \/ /\ ~loaded /\ loaded' /\ dirty' = LoadedLog(meta) /\ UNCHANGED <<meta, app, track>>
           /\ app.pc = "idle" /\ NoTrack
        \/ (\E p \in Pusher : PushFinish(p)) \/ PullClear
        \/ /\ loaded /\ meta' = Doc(dirty) /\ UNCHANGED <<dirty, loaded>>
           /\ app.pc = "idle" /\ \A n \in 1..MaxOps : track[n].pc # "load"
        \/ Crash
<1> DEFINE Loads == /\ ~loaded /\ loaded' /\ dirty' = LoadedLog(meta) /\ UNCHANGED <<meta, app, track>>
                    /\ app.pc = "idle" /\ NoTrack
           Saves == /\ loaded /\ meta' = Doc(dirty) /\ UNCHANGED <<dirty, loaded>>
                    /\ app.pc = "idle" /\ \A n \in 1..MaxOps : track[n].pc # "load"
           Same == UNCHANGED <<dirty, loaded, meta>>
<1> SUFFICES ASSUME TypeOK, Careful, Alone, Snapshots, PushLoop, [Next]_vars
             PROVE  \/ Same \/ AppNotify \/ (\E n \in 1..MaxOps : TrackLoaded(n)) \/ Loads
                    \/ (\E p \in Pusher : PushFinish(p)) \/ PullClear \/ Saves \/ Crash
  OBVIOUS
<1> USE DEF store, memory, history, counts
<1>1. ASSUME NEW r \in Record, AppPut(r) \/ AppDelete(r) PROVE Same
  BY <1>1 DEF AppPut, AppDelete
<1>2. ASSUME NEW r \in Record, PeerPut(r) \/ PeerDelete(r) PROVE Same
  BY <1>2 DEF PeerPut, PeerDelete
<1>3. ASSUME NEW n \in 1..MaxOps, TrackPersist(n) PROVE Saves
  <2>1. /\ track[n].pc = "persist" /\ meta' = Doc(dirty) /\ loaded /\ UNCHANGED <<dirty, loaded>>
    BY <1>3 DEF TrackPersist, Snapshots, Holds
  <2> QED
    BY <2>1 DEF Alone
<1>4. ASSUME NEW p \in Pusher, NEW F, PushStart(p, F) PROVE Same
  BY <1>4 DEF PushStart
<1>5. ASSUME NEW p \in Pusher, PushLoaded(p) PROVE Loads
  BY <1>5 DEF PushLoaded, Snapshots, Holds, Alone
<1>6. ASSUME NEW p \in Pusher, NEW r \in Record, PushPick(p, r) PROVE Same
  BY <1>6 DEF PushPick
<1>7. ASSUME NEW p \in Pusher, NEW o \in Outcome, PushResolve(p, o) PROVE Same
  BY <1>7 DEF PushResolve
<1>8. ASSUME NEW p \in Pusher, NEW b \in BOOLEAN, PushFail(p, b) PROVE Same
  BY <1>8 DEF PushFail
<1>9. ASSUME NEW p \in Pusher, PushDelete(p) \/ PushRead(p) \/ PushPut(p) PROVE Same
  BY <1>9 DEF PushDelete, PushRead, PushPut
<1>10. ASSUME NEW p \in Pusher, PushForce(p) \/ PushStore(p) PROVE Same
  BY <1>10 DEF PushForce, PushStore
<1>11. ASSUME NEW p \in Pusher, PushPersist(p) PROVE Saves
  <2>1. push[p].pc = "persist" /\ meta' = Doc(dirty) /\ loaded /\ UNCHANGED <<dirty, loaded>>
    BY <1>11 DEF PushPersist, Snapshots, Holds
  <2> QED
    BY <2>1 DEF Alone, NoTrack
<1>12. ASSUME NEW F, PullStart(F) PROVE Same
  BY <1>12 DEF PullStart
<1>13. PullLoaded => Loads
  BY DEF PullLoaded, Snapshots, Holds, Alone
<1>14. ASSUME NEW r \in Record, NEW o \in Outcome, PullDecide(r, o) PROVE Same
  BY <1>14 DEF PullDecide
<1>15. PullFetch \/ PullFail \/ PullStore \/ PullFinish => Same
  BY DEF PullFetch, PullFail, PullStore, PullFinish
<1>16. ASSUME PullPersist PROVE Saves
  <2>1. pull.pc = "persist" /\ meta' = Doc(dirty) /\ loaded /\ UNCHANGED <<dirty, loaded>>
    BY <1>16 DEF PullPersist, Snapshots, Holds
  <2> QED
    BY <2>1 DEF Alone, NoTrack
<1>17. UNCHANGED vars => Same
  BY DEF vars
<1> HIDE DEF Same, Loads, Saves
<1> QED
  BY <1>1, <1>2, <1>3, <1>4, <1>5, <1>6, <1>7, <1>8, <1>9, <1>10, <1>11, <1>12, <1>13,
     <1>14, <1>15, <1>16, <1>17 DEF Next, PushStep, PullStep
-----------------------------------------------------------------------------
(***************************************************************************)
(* The steps keep the rest of the invariant.                              *)
(***************************************************************************)
\* What the loop of a push has seen and done stays true to its end.
LEMMA StepPushLoop ==
    TypeOK /\ LogsIndexed /\ Careful /\ Alone /\ RemoteReached /\ Deletes /\ PushLoop /\ [Next]_vars
        => PushLoop'
<1> SUFFICES ASSUME TypeOK, LogsIndexed, Careful, Alone, RemoteReached, Deletes, PushLoop,
                    [Next]_vars, NEW p \in Pusher
             PROVE  LoopOf(p)'
  BY DEF PushLoop, LoopOf, AtEntry, InLoop
<1> USE DEF store, memory, history, counts
<1>1. LoopOf(p)
  BY DEF PushLoop, LoopOf
<1>2. push'[p].pc = "idle" => LoopOf(p)'
  BY DEF LoopOf, AtEntry, InLoop
<1> SUFFICES ASSUME push'[p].pc # "idle" PROVE LoopOf(p)'
  BY <1>2
<1>3. \A r \in Record : Unpushed(r)' => Unpushed(r)
  BY StepAlone, NoNewUnpushed DEF Alone, NoPush
<1>4. ASSUME push'[p] = push[p], UNCHANGED <<dirty, local>> PROVE LoopOf(p)'
  BY <1>1, <1>3, <1>4 DEF LoopOf, AtEntry, InLoop, Logged
<1>5. ASSUME NEW q \in Pusher, PushStep(q) \/ \E b \in BOOLEAN : PushFail(q, b) PROVE q = p
  BY <1>5, PushFrame DEF Alone, Others
<1>6. push[p].pc # "idle" => app.pc = "idle" /\ NoTrack /\ pull.pc = "idle"
  BY DEF Alone
<1>7. ASSUME NEW r \in Record, AppPut(r) \/ AppDelete(r) PROVE LoopOf(p)'
  BY <1>7 DEF AppPut, AppDelete, MayStart, Quiet, Careful
<1>8. ASSUME NEW r \in Record, PeerPut(r) \/ PeerDelete(r) PROVE LoopOf(p)'
  BY <1>4, <1>8 DEF PeerPut, PeerDelete
<1>9. CASE AppNotify
  BY <1>6, <1>9 DEF AppNotify
<1>10. ASSUME NEW n \in 1..MaxOps, TrackLoaded(n) \/ TrackPersist(n) PROVE LoopOf(p)'
  BY <1>6, <1>10 DEF TrackLoaded, TrackPersist, NoTrack
<1>11. ASSUME NEW q \in Pusher, NEW F, PushStart(q, F) PROVE LoopOf(p)'
  <2>1. UNCHANGED <<dirty, local>> /\ Others(q)
    BY <1>11, PushStartShape DEF PushStart
  <2>2. q = p => push'[p].pc \in {"load", "next"} /\ push'[p].done = {}
    BY <1>11, PushStartShape DEF TypeOK
  <2>3. q = p => LoopOf(p)'
    BY <2>2 DEF LoopOf, AtEntry, InLoop
  <2> QED
    BY <1>4, <2>1, <2>3 DEF Others
<1>12. CASE PushLoaded(p)
  <2>1. push'[p].pc = "next" /\ push'[p].done = {}
    BY <1>1, <1>12, PushLoadedShape DEF PushLoaded, Ends, LoopOf
  <2> QED
    BY <2>1 DEF LoopOf, AtEntry, InLoop
<1>13. ASSUME NEW r \in Record, PushPick(p, r) PROVE LoopOf(p)'
  <2>1. push[p].pc = "next" /\ UNCHANGED <<dirty, local>> /\ dirty[r].at = push[p].i
    BY <1>13 DEF PushPick
  <2>2. CASE Ends(p, push[p].done)
    BY <1>1, <1>3, <2>1, <2>2, GoesOn DEF InLoop, Ends
  <2>3. CASE /\ push'[p].pc \in {"delete", "read"} /\ push'[p].rec = r
             /\ push'[p].i = push[p].i /\ push'[p].done = push[p].done
             /\ push'[p].pc = "delete" => dirty[r].action = "delete"
    BY <1>1, <1>3, <2>1, <2>3 DEF LoopOf, AtEntry, InLoop, Logged
  <2> QED
    BY <1>13, <2>2, <2>3, PushPickShape
<1>14. CASE PushDelete(p)
  <2>1. push[p].pc = "delete" /\ UNCHANGED <<dirty, local>> /\ push[p].rec \in Record
    BY <1>14 DEF PushDelete, TypeOK, PushType
  <2>2. ~BeingTracked(push[p].rec, {"load"})
    BY <1>6, <2>1 DEF BeingTracked, NoTrack
  <2>3. ~Unpushed(push[p].rec)
    BY <1>1, <2>1, <2>2 DEF LoopOf, Deletes, DeletesEmpty
  <2>4. \A r \in Record : r = push[p].rec => ~Unpushed(r)'
    BY <1>3, <2>3
  <2>5. AtEntry(p) /\ Ends(p, Done(p))
    BY <1>14, <2>1, PushEndShapes DEF AtEntry
  <2> QED
    BY <1>1, <1>3, <2>1, <2>4, <2>5, CompletesEntry
<1>15. CASE PushRead(p)
  <2>1. AtEntry(p) /\ InLoop(p) /\ UNCHANGED <<dirty, local>>
    BY <1>15 DEF PushRead, AtEntry, InLoop
  <2>2. CASE ~Exists(local[push[p].rec]) /\ Ends(p, Done(p))
    <3>1. \A r \in Record : r = push[p].rec => ~Unpushed(r)'
      BY <1>3, <2>2 DEF Unpushed
    <3> QED
      BY <1>1, <1>3, <2>1, <2>2, <3>1, CompletesEntry
  <2>3. CASE Moves(p, "put") /\ push'[p].env = local[push[p].rec]
    BY <1>1, <1>3, <2>1, <2>3, GoesOn DEF Moves
  <2> QED
    BY <1>15, <2>2, <2>3, PushReadShape
<1>16. CASE PushPut(p)
  <2>1. /\ AtEntry(p) /\ InLoop(p) /\ UNCHANGED <<dirty, local>>
        /\ push[p].env = local[push[p].rec]
    BY <1>1, <1>16 DEF PushPut, AtEntry, InLoop, LoopOf
  <2>2. CASE Ends(p, Done(p)) /\ reached' = reached \cup push[p].env.src
    <3>1. \A r \in Record : r = push[p].rec => ~Unpushed(r)'
      BY <2>1, <2>2 DEF Unpushed
    <3> QED
      BY <1>1, <1>3, <2>1, <2>2, <3>1, CompletesEntry
  <2>3. CASE Moves(p, "fetch") /\ push'[p].env = push[p].env
    BY <1>1, <1>3, <2>1, <2>3, GoesOn DEF Moves
  <2> QED
    BY <1>16, <2>2, <2>3, PushPutShape
<1>17. ASSUME NEW o \in Outcome, PushResolve(p, o) PROVE LoopOf(p)'
  <2>1. /\ AtEntry(p) /\ InLoop(p) /\ UNCHANGED <<dirty, local>>
        /\ push[p].env = local[push[p].rec]
    BY <1>1, <1>17 DEF PushResolve, AtEntry, InLoop, LoopOf
  <2>2. CASE Ends(p, push[p].done)
    BY <1>1, <1>3, <2>1, <2>2, GoesOn DEF Ends
  <2>3. CASE Moves(p, "force") /\ push'[p].env = push[p].env /\ push'[p].winner = push[p].env
    BY <1>1, <1>3, <2>1, <2>3, GoesOn DEF Moves
  <2>4. CASE Moves(p, "store")
    BY <1>1, <1>3, <2>1, <2>4, GoesOn DEF Moves
  <2> QED
    BY <1>17, <2>2, <2>3, <2>4, PushResolveShape
<1>18. CASE PushForce(p)
  <2>1. /\ AtEntry(p) /\ UNCHANGED <<dirty, local>> /\ push[p].pc = "force"
        /\ push[p].winner = local[push[p].rec]
    BY <1>1, <1>18 DEF PushForce, AtEntry, LoopOf
  <2>2. reached' = reached \cup push[p].winner.src
    BY <1>18 DEF PushForce
  <2>3. \A r \in Record : r = push[p].rec => ~Unpushed(r)'
    BY <2>1, <2>2 DEF Unpushed
  <2> QED
    BY <1>1, <1>3, <1>18, <2>1, <2>3, CompletesEntry, PushEndShapes
<1>19. CASE PushStore(p)
  <2>1. /\ AtEntry(p) /\ UNCHANGED <<dirty, reached>> /\ Reached(push[p].winner)
        /\ push[p].rec \in Record
        /\ local' = [local EXCEPT ![push[p].rec] = push[p].winner]
    BY <1>19 DEF PushStore, AtEntry, RemoteReached, TypeOK, PushType
  <2>2. local'[push[p].rec] = push[p].winner
    BY <2>1 DEF TypeOK
  <2>3. \A r \in Record : r = push[p].rec => ~Unpushed(r)'
    BY <2>1, <2>2 DEF Unpushed, Reached
  <2> QED
    BY <1>1, <1>3, <1>19, <2>1, <2>3, CompletesEntry, PushEndShapes
<1>20. ASSUME \E b \in BOOLEAN : PushFail(p, b) PROVE LoopOf(p)'
  <2>1. InLoop(p) /\ UNCHANGED <<dirty, local>>
    BY <1>20 DEF PushFail, InLoop
  <2>2. Ends(p, push[p].done)
    BY <1>20, PushEndShapes
  <2> QED
    BY <1>1, <1>3, <2>1, <2>2, GoesOn DEF Ends
<1>21. CASE PushFinish(p) \/ PushPersist(p)
  BY <1>21, PushEndShapes DEF LoopOf, AtEntry, InLoop
<1>22. ASSUME PullStep \/ PullFail PROVE LoopOf(p)'
  BY <1>22, PullFrame DEF Alone, NoPush
<1>23. ASSUME NEW F, PullStart(F) PROVE LoopOf(p)'
  BY <1>4, <1>23 DEF PullStart
<1>24. CASE Crash
  BY <1>24 DEF Crash, PushIdle
<1>25. CASE UNCHANGED vars
  BY <1>4, <1>25 DEF vars
<1>26. ASSUME PushStep(p) PROVE LoopOf(p)'
  BY <1>12, <1>13, <1>14, <1>15, <1>16, <1>17, <1>18, <1>19, <1>21, <1>26 DEF PushStep
<1> QED
  BY <1>5, <1>7, <1>8, <1>9, <1>10, <1>11, <1>20, <1>22, <1>23, <1>24, <1>25, <1>26 DEF Next

\* The entry that a pull drops is of a record whose content the remote has.
LEMMA StepPullLoop ==
    TypeOK /\ Careful /\ Alone /\ RemoteReached /\ PushLoop /\ PullLoop /\ [Next]_vars => PullLoop'
<1> SUFFICES ASSUME TypeOK, Careful, Alone, RemoteReached, PushLoop, PullLoop, [Next]_vars,
                    pull'.pc = "clear"
             PROVE  ~Unpushed(pull.rec)' 
  BY DEF PullLoop
<1> USE DEF store, memory, history, counts
<1>1. \A r \in Record : Unpushed(r)' => Unpushed(r)
  BY StepAlone, NoNewUnpushed DEF Alone
<1>2. CASE pull' = pull
  BY <1>1, <1>2 DEF PullLoop, TypeOK, PullType
<1>3. CASE PullStore
  <2>1. /\ pull'.rec = pull.rec /\ Reached(pull.winner) /\ UNCHANGED reached
        /\ pull.rec \in Record /\ local' = [local EXCEPT ![pull.rec] = pull.winner]
    BY <1>3, PullShapes DEF PullStore, RemoteReached, TypeOK, PullType
  <2>2. local'[pull'.rec] = pull.winner
    BY <2>1 DEF TypeOK
  <2> QED
    BY <2>1, <2>2 DEF Unpushed, Reached
<1>4. ~PullLoaded /\ ~PullFetch /\ ~PullClear /\ ~PullFail /\ ~PullFinish /\ ~PullPersist
  BY PullShapes
<1>5. \A r \in Record, o \in Outcome : ~PullDecide(r, o)
  BY PullShapes
<1>6. \A F : ~PullStart(F)
  BY PullShapes DEF TypeOK
<1>7. ASSUME NEW r \in Record, AppPut(r) \/ AppDelete(r) \/ PeerPut(r) \/ PeerDelete(r)
      PROVE  pull' = pull
  BY <1>7 DEF AppPut, AppDelete, PeerPut, PeerDelete
<1>8. ASSUME NEW n \in 1..MaxOps, TrackLoaded(n) \/ TrackPersist(n) PROVE pull' = pull
  BY <1>8 DEF TrackLoaded, TrackPersist
<1>9. ASSUME NEW p \in Pusher, PushStep(p) \/ \E b \in BOOLEAN : PushFail(p, b) PROVE pull' = pull
  BY <1>9, PushFrame
<1>10. ASSUME NEW p \in Pusher, NEW F, PushStart(p, F) PROVE pull' = pull
  BY <1>10 DEF PushStart
<1>11. ~Crash
  BY DEF Crash, PullIdle
<1>12. AppNotify \/ UNCHANGED vars => pull' = pull
  BY DEF AppNotify, vars
<1> QED
  BY <1>2, <1>3, <1>4, <1>5, <1>6, <1>7, <1>8, <1>9, <1>10, <1>11, <1>12 DEF Next, PullStep

\* What a call starts from holds every entry of the stored log.
LEMMA LoadsMeta ==
    TypeOK /\ Snapshots /\ ~loaded => \A r \in Record : LoadedLog(meta)[r] = meta.log[r]
  BY DEF Snapshots, LoadedLog, NoLog

\* splice and filter take no action but put into the log.
LEMMA WithoutDeletes ==
    ASSUME NEW log \in Log, NEW R, NEW r \in Record, Without(log, R)[r].action = "delete"
    PROVE  log[r].action = "delete"
<1>1. CASE r \in R \/ ~Logged(log, r)
  BY <1>1 DEF Without, Clean
<1>2. CASE ~(r \in R \/ ~Logged(log, r))
  BY <1>2 DEF Without
<1> QED
  BY <1>1, <1>2

\* trackChange enters the record with its action, and changes no other record.
LEMMA LogChangeEnters ==
    ASSUME NEW log \in Log, NEW r \in Record, NEW action \in {"put", "delete"}, NEW version \in Nat
    PROVE  /\ Logged(LogChange(log, r, action, version), r)
           /\ LogChange(log, r, action, version)[r].action = action
           /\ \A q \in Record \ {r} : LogChange(log, r, action, version)[q] = log[q]
<1> DEFINE new == LogChange(log, r, action, version)
<1>1. /\ \A q \in Record : Logged(new, q) <=> Logged(log, q) \/ q = r
      /\ \A q \in Record \ {r} : new[q] = log[q]
      /\ new[r].action = action
  BY LogChangeIndexed
<1> HIDE DEF new
<1>2. Logged(new, r) /\ new[r].action = action /\ \A q \in Record \ {r} : new[q] = log[q]
  BY <1>1
<1> QED
  BY <1>2 DEF new

\* trackChange of the application's call enters the record, and changes no other.
LEMMA NotifyEnters ==
    ASSUME TypeOK, AppNotify
    PROVE  /\ app.pc = "stored" /\ app'.pc = "idle" /\ app.rec \in Record
           /\ UNCHANGED <<local, reached, meta, loaded>>
           /\ loaded => /\ Logged(dirty', app.rec) /\ dirty'[app.rec].action = app.action
                        /\ \A r \in Record \ {app.rec} : dirty'[r] = dirty[r]
           /\ ~loaded => UNCHANGED dirty
           /\ ops \in 1..MaxOps => /\ track'[ops].pc = IF loaded THEN "persist" ELSE "load"
                                   /\ track'[ops].rec = app.rec /\ track'[ops].action = app.action
                                   /\ \A n \in 1..MaxOps \ {ops} : track'[n] = track[n]
<1> USE DEF store, memory, history, counts
<1>1. /\ app.rec \in Record /\ app.action \in {"put", "delete"} /\ app.version \in Nat
      /\ dirty \in Log
  BY DEF TypeOK, AppType
<1>2. app.pc = "stored" /\ app'.pc = "idle" /\ UNCHANGED <<local, reached, meta, loaded>>
  BY DEF AppNotify, AppIdle
<1>3. loaded => dirty' = LogChange(dirty, app.rec, app.action, app.version)
  BY DEF AppNotify
<1>4. LET new == LogChange(dirty, app.rec, app.action, app.version) IN
      /\ Logged(new, app.rec) /\ new[app.rec].action = app.action
      /\ \A r \in Record \ {app.rec} : new[r] = dirty[r]
  BY <1>1, LogChangeEnters
<1>5. ~loaded => UNCHANGED dirty
  BY DEF AppNotify
<1>6. \E d : track' = [track EXCEPT ![ops] = [pc |-> IF loaded THEN "persist" ELSE "load",
                  rec |-> app.rec, action |-> app.action, version |-> app.version, snap |-> d]]
  BY DEF AppNotify
<1>7. ops \in 1..MaxOps => /\ track'[ops].pc = IF loaded THEN "persist" ELSE "load"
                          /\ track'[ops].rec = app.rec /\ track'[ops].action = app.action
                          /\ \A n \in 1..MaxOps \ {ops} : track'[n] = track[n]
  BY <1>6 DEF TypeOK
<1> QED
  BY <1>1, <1>2, <1>3, <1>4, <1>5, <1>7

\* The same of a trackChange that had to load the log.
LEMMA TrackEnters ==
    ASSUME TypeOK, Alone, Snapshots, NEW n \in 1..MaxOps, TrackLoaded(n)
    PROVE  /\ track[n].pc = "load" /\ track'[n].pc = "persist" /\ track[n].rec \in Record
           /\ track'[n].rec = track[n].rec /\ track'[n].action = track[n].action
           /\ \A m \in 1..MaxOps \ {n} : track'[m] = track[m] /\ track[m].pc = "none"
           /\ UNCHANGED <<local, reached, meta, app>> /\ ~loaded /\ loaded' /\ app.pc = "idle"
           /\ Logged(dirty', track[n].rec) /\ dirty'[track[n].rec].action = track[n].action
           /\ \A r \in Record \ {track[n].rec} : dirty'[r] = meta.log[r]
<1> USE DEF store, memory, history, counts
<1> DEFINE log == LoadedLog(meta)
<1>1. /\ track[n].rec \in Record /\ track[n].action \in {"put", "delete"}
      /\ track[n].version \in Nat /\ log \in Log
  BY DEF TypeOK, TrackType, LoadedLog, Document
<1>2. /\ track[n].pc = "load" /\ ~loaded /\ track[n].snap = meta /\ loaded'
      /\ UNCHANGED <<local, reached, meta, app>> /\ app.pc = "idle"
      /\ \A m \in 1..MaxOps \ {n} : track[m].pc = "none"
  BY DEF TrackLoaded, Snapshots, Holds, Alone
<1>3. dirty' = LogChange(log, track[n].rec, track[n].action, track[n].version)
  BY <1>2 DEF TrackLoaded
<1>4. \A r \in Record : log[r] = meta.log[r]
  BY <1>2, LoadsMeta
<1> HIDE DEF log
<1>5. /\ Logged(dirty', track[n].rec) /\ dirty'[track[n].rec].action = track[n].action
      /\ \A r \in Record \ {track[n].rec} : dirty'[r] = meta.log[r]
  BY <1>1, <1>3, <1>4, LogChangeEnters
<1>6. /\ track'[n].pc = "persist" /\ track'[n].rec = track[n].rec
      /\ track'[n].action = track[n].action
      /\ \A m \in 1..MaxOps \ {n} : track'[m] = track[m]
  BY DEF TrackLoaded, TypeOK, TrackType
<1> QED
  BY <1>1, <1>2, <1>5, <1>6

\* The calls of the application that are under way stay so until they are done.
LEMMA BeingTrackedStays ==
    ASSUME TypeOK, Careful, Alone, Snapshots, [Next]_vars, NEW r \in Record,
           BeingTracked(r, {"load", "persist"})
    PROVE  \/ UNCHANGED <<app, track>>
           \/ AppNotify \/ (\E n \in 1..MaxOps : TrackLoaded(n) \/ TrackPersist(n))
<1>1. ~(app.pc = "idle" /\ NoTrack)
  BY DEF BeingTracked, NoTrack
<1> QED
  BY <1>1, Bookkeeping

\* AppNotify goes on tracking its record unless it has entered it in the log.
LEMMA NotifyTracks ==
    ASSUME TypeOK, Alone, AppNotify, NEW r \in Record, BeingTracked(r, {"load", "persist"})
    PROVE  /\ r = app.rec /\ BeingTracked(r, {"load", "persist"})'
           /\ ~loaded => BeingTracked(r, {"load"})'
<1>1. app.pc = "stored" /\ NoTrack /\ ops \in 1..MaxOps /\ r = app.rec
  BY NotifyEnters DEF Alone, BeingTracked, NoTrack
<1>2. track'[ops].rec = r /\ track'[ops].pc = IF loaded THEN "persist" ELSE "load"
  BY <1>1, NotifyEnters
<1> QED
  BY <1>1, <1>2 DEF BeingTracked

\* TrackLoaded goes on tracking its record.
LEMMA TrackTracks ==
    ASSUME TypeOK, Alone, Snapshots, NEW n \in 1..MaxOps, TrackLoaded(n), NEW r \in Record,
           BeingTracked(r, {"load", "persist"})
    PROVE  r = track[n].rec /\ BeingTracked(r, {"load", "persist"})'
<1>1. app.pc = "idle" /\ track[n].pc = "load" /\ track'[n].pc = "persist"
      /\ track'[n].rec = track[n].rec /\ \A m \in 1..MaxOps \ {n} : track[m].pc = "none"
  BY TrackEnters
<1>2. r = track[n].rec
  BY <1>1 DEF BeingTracked
<1> QED
  BY <1>1, <1>2 DEF BeingTracked

\* An unpushed write stays in the log a push works from, or on its way there.
LEMMA StepTracked ==
    TypeOK /\ Careful /\ Tracking /\ [Next]_vars => UnpushedTracked'
<1> SUFFICES ASSUME TypeOK, Careful, Tracking, [Next]_vars, NEW r \in Record, Unpushed(r)',
                    ~BeingTracked(r, {"load"})'
             PROVE  Logged(CurrentLog', r)
  BY DEF UnpushedTracked, Logged
<1> USE DEF Tracking
<1>1. Unpushed(r)
  BY NoNewUnpushed DEF BeingTracked
<1>2. BeingTracked(r, {"load"}) => BeingTracked(r, {"load", "persist"})
  BY DEF BeingTracked
<1>3. Logged(CurrentLog, r) \/ BeingTracked(r, {"load"})
  BY <1>1 DEF UnpushedTracked
<1>4. ASSUME UNCHANGED <<app, track>> PROVE Logged(CurrentLog, r)
  BY <1>3, <1>4 DEF BeingTracked
<1>5. CASE AppNotify
  <2>1. CASE r = app.rec
    <3>1. loaded
      BY <1>5, <2>1, NotifyTracks, NotifyEnters DEF BeingTracked
    <3> QED
      BY <1>5, <2>1, <3>1, NotifyEnters DEF CurrentLog
  <2>2. CASE r # app.rec
    <3>1. Logged(CurrentLog, r)
      BY <1>2, <1>3, <1>5, <2>2, NotifyTracks
    <3> QED
      BY <1>5, <2>2, <3>1, NotifyEnters DEF CurrentLog, Logged
  <2> QED
    BY <2>1, <2>2
<1>6. ASSUME NEW n \in 1..MaxOps, TrackLoaded(n) PROVE Logged(CurrentLog', r)
  <2>1. ~loaded /\ loaded' /\ Logged(dirty', track[n].rec)
        /\ \A q \in Record \ {track[n].rec} : dirty'[q] = meta.log[q]
    BY <1>6, TrackEnters
  <2>2. r # track[n].rec => Logged(CurrentLog, r)
    BY <1>2, <1>3, <1>6, TrackTracks
  <2> QED
    BY <2>1, <2>2 DEF CurrentLog, Logged
<1>7. ASSUME NEW n \in 1..MaxOps, TrackPersist(n) PROVE Logged(CurrentLog', r)
  <2>1. /\ track[n].pc = "persist" /\ loaded /\ UNCHANGED <<dirty, loaded>>
        /\ app.pc = "idle" /\ \A m \in 1..MaxOps : m # n => track[m].pc = "none"
    BY <1>7 DEF TrackPersist, Snapshots, Holds, Alone, memory
  <2> QED
    BY <1>3, <2>1 DEF CurrentLog, BeingTracked
<1> SUFFICES ASSUME ~AppNotify, \A n \in 1..MaxOps : ~TrackLoaded(n) /\ ~TrackPersist(n)
             PROVE  Logged(CurrentLog', r)
  BY <1>5, <1>6, <1>7
<1>8. Logged(CurrentLog, r)
  BY <1>2, <1>3, <1>4, BeingTrackedStays
<1>9. CASE UNCHANGED <<dirty, loaded, meta>>
  BY <1>8, <1>9 DEF CurrentLog
<1>10. CASE ~loaded /\ loaded' /\ dirty' = LoadedLog(meta)
  BY <1>8, <1>10, LoadsMeta DEF CurrentLog, Logged
<1>11. ASSUME NEW p \in Pusher, PushFinish(p) PROVE Logged(CurrentLog', r)
  <2>1. /\ push[p].pc = "next" /\ loaded /\ loaded'
        /\ dirty' = Without(dirty, At(dirty, push[p].done))
    BY <1>11 DEF PushFinish, Snapshots, Holds
  <2>2. r \notin At(dirty, push[p].done)
    BY <1>1, <2>1 DEF PushLoop, InLoop, At
  <2>3. dirty \in Log
    BY DEF TypeOK
  <2> QED
    BY <1>8, <2>1, <2>2, <2>3, WithoutIndexed DEF CurrentLog
<1>12. CASE PullClear
  <2>1. pull.pc = "clear" /\ loaded /\ loaded' /\ dirty' = Without(dirty, {pull.rec})
    BY <1>12 DEF PullClear, Snapshots, Holds
  <2>2. r \notin {pull.rec}
    BY <1>1, <2>1 DEF PullLoop
  <2>3. dirty \in Log
    BY DEF TypeOK
  <2> QED
    BY <1>8, <2>1, <2>2, <2>3, WithoutIndexed DEF CurrentLog
<1>13. CASE loaded /\ meta' = Doc(dirty) /\ UNCHANGED <<dirty, loaded>>
  BY <1>8, <1>13 DEF CurrentLog
<1>14. CASE Crash
  <2>1. app.pc = "idle" /\ NoTrack /\ ~loaded' /\ UNCHANGED meta
    BY <1>14 DEF Crash, Careful, NoTrack, store
  <2>2. Logged(meta.log, r)
    BY <1>1, <2>1 DEF UnpushedDurable, BeingTracked, NoTrack
  <2> QED
    BY <2>1, <2>2 DEF CurrentLog
<1> QED
  BY <1>9, <1>10, <1>11, <1>12, <1>13, <1>14, LogSteps

\* An unpushed write stays in the stored log, or on its way there.
LEMMA StepDurable ==
    TypeOK /\ Careful /\ Tracking /\ [Next]_vars => UnpushedDurable'
<1> SUFFICES ASSUME TypeOK, Careful, Tracking, [Next]_vars, NEW r \in Record, Unpushed(r)',
                    ~BeingTracked(r, {"load", "persist"})'
             PROVE  Logged(meta'.log, r)
  BY DEF UnpushedDurable, Logged
<1> USE DEF Tracking
<1>1. Unpushed(r)
  BY NoNewUnpushed DEF BeingTracked
<1>2. CASE meta' = Doc(dirty) /\ loaded /\ app.pc = "idle"
           /\ \A n \in 1..MaxOps : track[n].pc # "load"
  <2>1. Logged(dirty, r)
    BY <1>1, <1>2 DEF UnpushedTracked, BeingTracked, CurrentLog
  <2> QED
    BY <1>2, <2>1 DEF Doc
<1>3. CASE UNCHANGED meta
  <2>1. ~BeingTracked(r, {"load", "persist"}) => Logged(meta.log, r)
    BY <1>1 DEF UnpushedDurable
  <2>2. ~AppNotify \/ ~BeingTracked(r, {"load", "persist"})
    BY NotifyTracks
  <2>3. ASSUME NEW n \in 1..MaxOps, TrackLoaded(n)
        PROVE  ~BeingTracked(r, {"load", "persist"})
    BY <2>3, TrackTracks
  <2>4. ASSUME NEW n \in 1..MaxOps, TrackPersist(n) PROVE Logged(meta'.log, r)
    <3>1. /\ track[n].pc = "persist" /\ loaded /\ meta' = Doc(dirty)
          /\ app.pc = "idle" /\ \A m \in 1..MaxOps : track[m].pc # "load"
      BY <2>4 DEF TrackPersist, Snapshots, Holds, Alone
    <3> QED
      BY <1>2, <3>1
  <2>5. ASSUME UNCHANGED <<app, track>> PROVE ~BeingTracked(r, {"load", "persist"})
    BY <2>5 DEF BeingTracked
  <2> QED
    BY <1>3, <2>1, <2>2, <2>3, <2>4, <2>5, BeingTrackedStays
<1>4. AppNotify => UNCHANGED meta
  BY NotifyEnters
<1>5. ASSUME NEW n \in 1..MaxOps, TrackLoaded(n) PROVE UNCHANGED meta
  BY <1>5, TrackEnters
<1>6. ASSUME NEW p \in Pusher, PushFinish(p) PROVE UNCHANGED meta
  BY <1>6 DEF PushFinish, store
<1>7. PullClear \/ Crash => UNCHANGED meta
  BY DEF PullClear, Crash, store
<1> QED
  BY <1>2, <1>3, <1>4, <1>5, <1>6, <1>7, LogSteps

\* No call of the application is under way before it has written.
LEMMA NoTrackStays ==
    TypeOK /\ app.pc = "idle" /\ NoTrack /\ [Next]_vars => NoTrack'
<1> SUFFICES ASSUME TypeOK, app.pc = "idle", NoTrack, [Next]_vars PROVE NoTrack'
  OBVIOUS
<1>1. CASE UNCHANGED track
  BY <1>1 DEF NoTrack
<1>2. \A r \in Record : AppPut(r) \/ AppDelete(r) \/ PeerPut(r) \/ PeerDelete(r) => UNCHANGED track
  BY DEF AppPut, AppDelete, PeerPut, PeerDelete
<1>3. ~AppNotify /\ \A n \in 1..MaxOps : ~TrackLoaded(n) /\ ~TrackPersist(n)
  BY DEF AppNotify, TrackLoaded, TrackPersist, NoTrack
<1>4. ASSUME NEW p \in Pusher, PushStep(p) \/ \E b \in BOOLEAN : PushFail(p, b) PROVE UNCHANGED track
  BY <1>4, PushFrame
<1>5. ASSUME NEW p \in Pusher, NEW F, PushStart(p, F) PROVE UNCHANGED track
  BY <1>5 DEF PushStart
<1>6. PullStep \/ PullFail \/ (\E F : PullStart(F)) => UNCHANGED track
  BY PullFrame DEF PullStart
<1>7. Crash => NoTrack'
  BY DEF Crash, NoTrack, TrackNone
<1>8. UNCHANGED vars => UNCHANGED track
  BY DEF vars
<1> QED
  BY <1>1, <1>2, <1>3, <1>4, <1>5, <1>6, <1>7, <1>8 DEF Next

\* The record of a delete under way is not in the local store.
LEMMA StepDeleting ==
    ASSUME TypeOK, Careful, Tracking, [Next]_vars
    PROVE  /\ app'.pc = "stored" /\ app'.action = "delete" => ~Unpushed(app.rec)'
           /\ \A n \in 1..MaxOps : track'[n].pc # "none" /\ track'[n].action = "delete"
                                      => ~Unpushed(track[n].rec)'
<1> USE DEF Tracking
<1>1. ASSUME app'.pc = "stored", app'.action = "delete" PROVE ~Unpushed(app.rec)'
  <2>1. app'.rec \in Record
    BY StepTypes DEF TypeOK, AppType
  <2>2. CASE UNCHANGED app
    <3>1. ~Unpushed(app.rec)
      BY <1>1, <2>2 DEF Deletes
    <3>2. \A r \in Record : Unpushed(r)' => Unpushed(r)
      BY <1>1, NoNewUnpushed
    <3> QED
      BY <2>1, <2>2, <3>1, <3>2
  <2>3. ASSUME NEW r \in Record, AppDelete(r) PROVE ~Unpushed(app.rec)'
    <3>1. app'.rec = r /\ local'[r] = Missing
      BY <2>3 DEF AppDelete, TypeOK
    <3> QED
      BY <3>1 DEF Unpushed, Exists, Missing
  <2>4. \A r \in Record : ~AppPut(r)
    BY <1>1 DEF AppPut
  <2>5. \A r \in Record : PeerPut(r) \/ PeerDelete(r) => UNCHANGED app
    BY DEF PeerPut, PeerDelete
  <2>6. ~AppNotify /\ ~Crash
    BY <1>1 DEF AppNotify, Crash, AppIdle
  <2>7. ASSUME NEW n \in 1..MaxOps, TrackLoaded(n) \/ TrackPersist(n) PROVE UNCHANGED app
    BY <2>7 DEF TrackLoaded, TrackPersist
  <2>8. ASSUME NEW p \in Pusher, PushStep(p) \/ \E b \in BOOLEAN : PushFail(p, b) PROVE UNCHANGED app
    BY <2>8, PushFrame
  <2>9. ASSUME NEW p \in Pusher, NEW F, PushStart(p, F) PROVE UNCHANGED app
    BY <2>9 DEF PushStart
  <2>10. PullStep \/ PullFail \/ (\E F : PullStart(F)) => UNCHANGED app
    BY PullFrame DEF PullStart
  <2>11. UNCHANGED vars => UNCHANGED app
    BY DEF vars
  <2> QED
    BY <2>2, <2>3, <2>4, <2>5, <2>6, <2>7, <2>8, <2>9, <2>10, <2>11 DEF Next
<1>2. ASSUME NEW n \in 1..MaxOps, track'[n].pc # "none", track'[n].action = "delete"
      PROVE  ~Unpushed(track[n].rec)'
  <2>1. ~(app.pc = "idle" /\ NoTrack)
    BY <1>2, NoTrackStays DEF NoTrack
  <2>2. \A r \in Record : Unpushed(r)' => Unpushed(r)
    BY <2>1, NoNewUnpushed
  <2>3. track'[n].rec \in Record
    BY StepTypes DEF TypeOK, TrackType
  <2>4. CASE track'[n].rec = track[n].rec /\ track'[n].action = track[n].action
             /\ track[n].pc # "none"
    <3>1. ~Unpushed(track[n].rec)
      BY <1>2, <2>4 DEF Deletes
    <3> QED
      BY <2>2, <2>3, <2>4, <3>1
  <2>5. CASE AppNotify
    <3>1. app.pc = "stored" /\ ops \in 1..MaxOps /\ NoTrack
      BY <2>5, NotifyEnters DEF Alone
    <3>2. track'[n].rec = app.rec /\ track'[n].action = app.action
      BY <1>2, <2>5, <3>1, NotifyEnters DEF NoTrack
    <3>3. ~Unpushed(app.rec)
      BY <1>2, <3>1, <3>2 DEF Deletes
    <3> QED
      BY <2>2, <2>3, <3>2, <3>3
  <2>6. ASSUME NEW m \in 1..MaxOps, TrackLoaded(m) PROVE ~Unpushed(track[n].rec)'
    <3>1. n = m
      BY <1>2, <2>6, TrackEnters
    <3> QED
      BY <2>4, <2>6, <3>1, TrackEnters
  <2>7. ASSUME NEW m \in 1..MaxOps, TrackPersist(m) PROVE FALSE
    <3>1. track[m].pc = "persist" /\ \A k \in 1..MaxOps : k # m => track[k].pc = "none"
      BY <2>7 DEF TrackPersist, Alone
    <3>2. track' = [track EXCEPT ![m] = TrackNone]
      BY <2>7 DEF TrackPersist
    <3> QED
      BY <1>2, <3>1, <3>2 DEF TrackNone, TypeOK
  <2>8. CASE UNCHANGED <<app, track>>
    BY <1>2, <2>4, <2>8
  <2> QED
    BY <2>1, <2>5, <2>6, <2>7, <2>8, Bookkeeping
<1> QED
  BY <1>1, <1>2

\* The entries of deletes name records with nothing to push.
LEMMA StepDeletes ==
    TypeOK /\ Careful /\ Tracking /\ [Next]_vars => Deletes'
<1> SUFFICES ASSUME TypeOK, Careful, Tracking, [Next]_vars PROVE Deletes'
  OBVIOUS
<1> USE DEF Tracking
<1>1. ASSUME NEW r \in Record, Unpushed(r)', ~BeingTracked(r, {"load"})',
             dirty'[r].action = "delete"
      PROVE  FALSE
  <2>1. Unpushed(r)
    BY <1>1, NoNewUnpushed DEF BeingTracked
  <2>2. ~(dirty[r].action = "delete" /\ ~BeingTracked(r, {"load"}))
    BY <2>1 DEF Deletes, DeletesEmpty
  <2>3. ~(meta.log[r].action = "delete" /\ ~BeingTracked(r, {"load", "persist"}))
    BY <2>1 DEF Deletes, DeletesEmpty
  <2>4. BeingTracked(r, {"load"}) => BeingTracked(r, {"load", "persist"})
    BY DEF BeingTracked
  <2>5. ~loaded => dirty[r].action # "delete"
    BY DEF Snapshots, NoLog, Clean
  <2>6. ASSUME AppNotify PROVE FALSE
    <3>1. r # app.rec
      BY <1>1, <2>1, <2>5, <2>6, NotifyEnters DEF Deletes
    <3>2. dirty'[r] = dirty[r]
      BY <2>6, <3>1, NotifyEnters
    <3> QED
      BY <1>1, <2>2, <2>4, <2>6, <3>1, <3>2, NotifyTracks
  <2>7. ASSUME NEW n \in 1..MaxOps, TrackLoaded(n) PROVE FALSE
    <3>1. r # track[n].rec
      BY <1>1, <2>1, <2>7, TrackEnters DEF Deletes
    <3>2. dirty'[r] = meta.log[r]
      BY <2>7, <3>1, TrackEnters
    <3> QED
      BY <1>1, <2>3, <2>7, <3>1, <3>2, TrackTracks
  <2>8. ASSUME NEW n \in 1..MaxOps, TrackPersist(n) PROVE FALSE
    <3>1. /\ track[n].pc = "persist" /\ UNCHANGED dirty /\ app.pc = "idle"
          /\ \A m \in 1..MaxOps : m # n => track[m].pc = "none"
      BY <2>8 DEF TrackPersist, Alone, memory
    <3> QED
      BY <1>1, <2>2, <3>1 DEF BeingTracked
  <2>9. ASSUME UNCHANGED <<app, track>> PROVE ~BeingTracked(r, {"load"})
    BY <1>1, <2>9 DEF BeingTracked
  <2>10. ~BeingTracked(r, {"load"})
    BY <2>4, <2>6, <2>7, <2>8, <2>9, BeingTrackedStays
  <2>11. ASSUME NEW R, dirty' = Without(dirty, R) PROVE FALSE
    <3>1. dirty \in Log
      BY DEF TypeOK
    <3> QED
      BY <1>1, <2>2, <2>10, <2>11, <3>1, WithoutDeletes
  <2>12. \A p \in Pusher : ~PushFinish(p)
    BY <2>11 DEF PushFinish
  <2>13. ~PullClear
    BY <2>11 DEF PullClear
  <2>14. ~UNCHANGED dirty
    BY <1>1, <2>2, <2>10
  <2>15. ~(/\ ~loaded /\ dirty' = LoadedLog(meta) /\ app.pc = "idle" /\ NoTrack)
    BY <1>1, <2>3, LoadsMeta DEF BeingTracked, NoTrack
  <2>16. ~Crash
    BY <1>1 DEF Crash, NoLog, Clean
  <2> QED
    BY <2>6, <2>7, <2>12, <2>13, <2>14, <2>15, <2>16, LogSteps
<1>2. ASSUME NEW r \in Record, Unpushed(r)', ~BeingTracked(r, {"load", "persist"})',
             meta'.log[r].action = "delete"
      PROVE  FALSE
  <2>1. Unpushed(r)
    BY <1>2, NoNewUnpushed DEF BeingTracked
  <2>2. ~(dirty[r].action = "delete" /\ ~BeingTracked(r, {"load"}))
    BY <2>1 DEF Deletes, DeletesEmpty
  <2>3. ~(meta.log[r].action = "delete" /\ ~BeingTracked(r, {"load", "persist"}))
    BY <2>1 DEF Deletes, DeletesEmpty
  <2>4. ~(/\ meta' = Doc(dirty) /\ app.pc = "idle"
          /\ \A n \in 1..MaxOps : track[n].pc # "load")
    BY <1>2, <2>2 DEF Doc, BeingTracked
  <2>5. ASSUME AppNotify PROVE ~BeingTracked(r, {"load", "persist"}) /\ UNCHANGED meta
    BY <1>2, <2>5, NotifyTracks, NotifyEnters
  <2>6. ASSUME NEW n \in 1..MaxOps, TrackLoaded(n)
        PROVE  ~BeingTracked(r, {"load", "persist"}) /\ UNCHANGED meta
    BY <1>2, <2>6, TrackTracks, TrackEnters
  <2>7. ASSUME NEW n \in 1..MaxOps, TrackPersist(n) PROVE FALSE
    <3>1. /\ track[n].pc = "persist" /\ meta' = Doc(dirty)
          /\ app.pc = "idle" /\ \A m \in 1..MaxOps : m # n => track[m].pc = "none"
      BY <2>7 DEF TrackPersist, Snapshots, Holds, Alone
    <3> QED
      BY <2>4, <3>1
  <2>8. ASSUME UNCHANGED <<app, track>> PROVE ~BeingTracked(r, {"load", "persist"})
    BY <1>2, <2>8 DEF BeingTracked
  <2>9. ~BeingTracked(r, {"load", "persist"})
    BY <2>5, <2>6, <2>7, <2>8, BeingTrackedStays
  <2>10. ~UNCHANGED meta
    BY <1>2, <2>3, <2>9
  <2>11. \A p \in Pusher : ~PushFinish(p)
    BY <2>10 DEF PushFinish, store
  <2>12. ~PullClear /\ ~Crash
    BY <2>10 DEF PullClear, Crash, store
  <2> QED
    BY <2>4, <2>5, <2>6, <2>10, <2>11, <2>12, LogSteps
<1>3. (DeletesEmpty(dirty, {"load"}))'
  BY <1>1 DEF DeletesEmpty
<1>4. (DeletesEmpty(meta.log, {"load", "persist"}))'
  BY <1>2 DEF DeletesEmpty
<1>5. app'.pc = "stored" /\ app'.action = "delete" => ~Unpushed(app.rec)'
  BY StepDeleting
<1>6. \A n \in 1..MaxOps : track'[n].pc # "none" /\ track'[n].action = "delete"
                               => ~Unpushed(track[n].rec)'
  BY StepDeleting
<1> QED
  BY <1>3, <1>4, <1>5, <1>6 DEF Deletes

-----------------------------------------------------------------------------
(***************************************************************************)
(* The invariant holds from the start, and every step keeps it.           *)
(***************************************************************************)
\* At the start nothing is in flight, nothing is stored and nothing is logged.
LEMMA InitTracking == Init => Tracking
<1> SUFFICES ASSUME Init PROVE Tracking
  OBVIOUS
<1>1. /\ app.pc = "idle" /\ NoTrack /\ NoPush /\ pull.pc = "idle"
      /\ \A r \in Record : pull.remote[r] = Missing /\ remote[r] = Missing /\ local[r] = Missing
      /\ pull.winner = Missing
  BY DEF Init, AppIdle, NoTrack, TrackNone, NoPush, PushIdle, PullIdle
<1>2. Alone
  BY <1>1 DEF Alone, NoTrack, NoPush
<1>3. RemoteReached
  BY <1>1 DEF RemoteReached, Reached, Missing, NoPush
<1>4. ~meta.found /\ meta.log = NoLog /\ dirty = NoLog
  BY DEF Init, NoDoc
<1>5. Snapshots
  BY <1>1, <1>4 DEF Snapshots, Holds, NoTrack, NoPush
<1>6. PushLoop /\ PullLoop
  BY <1>1 DEF PushLoop, PullLoop, AtEntry, InLoop, NoPush
<1>7. \A r \in Record : ~Unpushed(r)
  BY <1>1 DEF Unpushed, Exists, Missing
<1>8. Deletes
  BY <1>1, <1>7 DEF Deletes, DeletesEmpty, NoTrack
<1> QED
  BY <1>2, <1>3, <1>5, <1>6, <1>7, <1>8 DEF Tracking, UnpushedTracked, UnpushedDurable

\* The invariant is inductive, given the types and the indexing of the logs.
LEMMA StepTracking ==
    TypeOK /\ LogsIndexed /\ Careful /\ Tracking /\ [Next]_vars => Tracking'
<1> SUFFICES ASSUME TypeOK, LogsIndexed, Careful, Tracking, [Next]_vars PROVE Tracking'
  OBVIOUS
<1>1. Alone' /\ RemoteReached' /\ Snapshots'
  BY StepAlone, StepRemoteReached, StepSnapshots DEF Tracking
<1>2. PushLoop' /\ PullLoop'
  BY StepPushLoop, StepPullLoop DEF Tracking
<1>3. Deletes' /\ UnpushedTracked' /\ UnpushedDurable'
  BY StepDeletes, StepTracked, StepDurable
<1> QED
  BY <1>1, <1>2, <1>3 DEF Tracking

\* When calls are awaited, crashes come between them and nothing merges, the
\* types, the indexing and the tracking invariant hold in every state.
LEMMA TrackingHolds == Careful => (Spec => [](TypeOK /\ LogsIndexed /\ Tracking))
<1> SUFFICES ASSUME Careful PROVE Spec => [](TypeOK /\ LogsIndexed /\ Tracking)
  OBVIOUS
<1>1. Init => TypeOK /\ LogsIndexed /\ Tracking
  BY InitTypes, InitTracking, IdleSnaps DEF Init, LogsIndexed
<1>2. TypeOK /\ LogsIndexed /\ Tracking /\ [Next]_vars
          => (TypeOK /\ LogsIndexed /\ Tracking)'
  BY StepTypes, StepIndexed, StepTracking
<1> QED
  BY <1>1, <1>2, PTL DEF Spec

\* Collection.put, trackChange, push and pull together never lose track of a
\* write: while the remote has not got a write that is in the local store, the
\* dirty log that the next push works from names its record.
THEOREM WritesStayTracked == Careful => (Spec => []UnpushedTracked)
<1>1. Tracking => UnpushedTracked
  BY DEF Tracking
<1> QED
  BY <1>1, TrackingHolds, PTL

\* The same holds of the _sync/meta document, from which a restarted device
\* begins: a crash between two calls loses no write.
THEOREM WritesSurviveCrash == Careful => (Spec => []UnpushedDurable)
<1>1. Tracking => UnpushedDurable
  BY DEF Tracking
<1> QED
  BY <1>1, TrackingHolds, PTL
-----------------------------------------------------------------------------
(***************************************************************************)
(* What is replaced in the local store.                                   *)
(***************************************************************************)
\* A call about to store a winner holds the envelope that winner replaces; a
\* pull that asked no policy replaces nothing the remote has not got.
ShownBy(p) == push[p].pc = "store" => push[p].env = local[push[p].rec]
ShownPull  == pull.pc = "store" =>
                  pull.env = local[pull.rec] /\ (pull.clear \/ ~Unpushed(pull.rec))
Shown      == (\A p \in Pusher : ShownBy(p)) /\ ShownPull

\* Only an operation of the application, the winner of a push conflict and what
\* a pull brings change the local store.
LEMMA LocalSteps ==
    ASSUME [Next]_vars
    PROVE  \/ local' = local
           \/ \E r \in Record : AppPut(r) \/ AppDelete(r)
           \/ \E p \in Pusher : PushStore(p)
           \/ PullStore
<1> USE DEF store, memory, history, counts
<1>1. ASSUME NEW q \in Record, PeerPut(q) \/ PeerDelete(q) PROVE local' = local
  BY <1>1 DEF PeerPut, PeerDelete
<1>2. ASSUME AppNotify \/ Crash \/ UNCHANGED vars PROVE local' = local
  BY <1>2 DEF AppNotify, Crash, vars
<1>3. ASSUME NEW n \in 1..MaxOps, TrackLoaded(n) \/ TrackPersist(n) PROVE local' = local
  BY <1>3 DEF TrackLoaded, TrackPersist
<1>4. ASSUME NEW p \in Pusher, NEW F, PushStart(p, F) PROVE local' = local
  BY <1>4 DEF PushStart
<1>5. ASSUME NEW p \in Pusher, NEW q \in Record, PushPick(p, q) PROVE local' = local
  BY <1>5 DEF PushPick
<1>6. ASSUME NEW p \in Pusher, NEW o \in Outcome, PushResolve(p, o) PROVE local' = local
  BY <1>6 DEF PushResolve
<1>7. ASSUME NEW p \in Pusher, NEW b \in BOOLEAN, PushFail(p, b) PROVE local' = local
  BY <1>7 DEF PushFail
<1>8. ASSUME NEW p \in Pusher, PushLoaded(p) \/ PushDelete(p) \/ PushRead(p) PROVE local' = local
  BY <1>8 DEF PushLoaded, PushDelete, PushRead
<1>9. ASSUME NEW p \in Pusher, PushPut(p) \/ PushForce(p) PROVE local' = local
  BY <1>9 DEF PushPut, PushForce
<1>10. ASSUME NEW p \in Pusher, PushFinish(p) \/ PushPersist(p) PROVE local' = local
  BY <1>10 DEF PushFinish, PushPersist
<1>11. ASSUME NEW F, PullStart(F) PROVE local' = local
  BY <1>11 DEF PullStart
<1>12. ASSUME NEW q \in Record, NEW o \in Outcome, PullDecide(q, o) PROVE local' = local
  BY <1>12 DEF PullDecide
<1>13. ASSUME PullLoaded \/ PullFetch \/ PullFail \/ PullClear PROVE local' = local
  BY <1>13 DEF PullLoaded, PullFetch, PullFail, PullClear
<1>14. ASSUME PullFinish \/ PullPersist PROVE local' = local
  BY <1>14 DEF PullFinish, PullPersist
<1> QED
  BY <1>1, <1>2, <1>3, <1>4, <1>5, <1>6, <1>7, <1>8, <1>9, <1>10, <1>11, <1>12, <1>13, <1>14
     DEF Next, PushStep, PullStep

\* A call in flight keeps the local store to itself.
LEMMA LocalAlone ==
    ASSUME TypeOK, Careful, Alone, [Next]_vars
    PROVE  /\ \A p \in Pusher : push[p].pc # "idle" =>
                  local' = local \/ PushStore(p)
           /\ pull.pc # "idle" => local' = local \/ PullStore
<1>1. \A r \in Record : AppPut(r) \/ AppDelete(r) => Quiet
  BY DEF AppPut, AppDelete, MayStart, Careful
<1>2. PullStore => pull.pc # "idle"
  BY DEF PullStore
<1>3. \A q \in Pusher : PushStore(q) => push[q].pc # "idle"
  BY DEF PushStore
<1>4. ASSUME NEW p \in Pusher, push[p].pc # "idle" PROVE local' = local \/ PushStore(p)
  <2>1. pull.pc = "idle" /\ \A q \in Pusher : q # p => push[q].pc = "idle"
    BY <1>4 DEF Alone
  <2>2. \A r \in Record : ~AppPut(r) /\ ~AppDelete(r)
    BY <1>1, <1>4 DEF Quiet
  <2> QED
    BY <1>2, <1>3, <2>1, <2>2, LocalSteps
<1>5. ASSUME pull.pc # "idle" PROVE local' = local \/ PullStore
  <2>1. \A q \in Pusher : push[q].pc = "idle"
    BY <1>5 DEF Alone, NoPush
  <2>2. \A r \in Record : ~AppPut(r) /\ ~AppDelete(r)
    BY <1>1, <1>5 DEF Quiet
  <2> QED
    BY <1>3, <2>1, <2>2, LocalSteps
<1> QED
  BY <1>4, <1>5

\* A push comes to store a winner only from the policy it has shown its envelope.
LEMMA EntersStore ==
    ASSUME TypeOK, Careful, [Next]_vars, PushLoop, NEW p \in Pusher, push'[p].pc = "store"
    PROVE  \/ push'[p] = push[p]
           \/ \E o \in Outcome : PushResolve(p, o)
<1> USE DEF store, memory, history, counts
<1>1. ASSUME NEW q \in Pusher, NEW F, PushStart(q, F) PROVE push'[p] = push[p]
  BY <1>1, PushStartShape DEF Others, TypeOK
<1>2. ASSUME NEW q \in Pusher, PushStep(q) \/ \E b \in BOOLEAN : PushFail(q, b)
      PROVE  q # p => push'[p] = push[p]
  BY <1>2, PushFrame DEF Others
<1>3. ~PushLoaded(p)
  BY PushLoadedShape DEF Ends
<1>4. \A r \in Record : ~PushPick(p, r)
  BY PushPickShape DEF Ends
<1>5. ~PushRead(p)
  BY PushReadShape DEF Ends, Moves
<1>6. ~PushPut(p)
  BY PushPutShape DEF Ends, Moves
<1>7. ~PushForce(p)
  <2>1. PushForce(p) => push[p].pc = "force"
    BY DEF PushForce, PushLoop
  <2> QED
    BY <2>1, PushEndShapes DEF Ends
<1>8. ~PushDelete(p) /\ ~PushStore(p) /\ ~PushFinish(p) /\ ~PushPersist(p)
  BY PushEndShapes DEF Ends
<1>9. ~\E b \in BOOLEAN : PushFail(p, b)
  BY PushEndShapes DEF Ends
<1>10. PushStep(p) => \E o \in Outcome : PushResolve(p, o)
  BY <1>3, <1>4, <1>5, <1>6, <1>7, <1>8 DEF PushStep
<1>11. ASSUME NEW r \in Record, AppPut(r) \/ AppDelete(r) \/ PeerPut(r) \/ PeerDelete(r)
       PROVE  push' = push
  BY <1>11 DEF AppPut, AppDelete, PeerPut, PeerDelete
<1>12. ASSUME NEW n \in 1..MaxOps, TrackLoaded(n) \/ TrackPersist(n) PROVE push' = push
  BY <1>12 DEF TrackLoaded, TrackPersist
<1>13. PullStep \/ PullFail => push' = push
  BY PullFrame
<1>14. ASSUME NEW F, PullStart(F) PROVE push' = push
  BY <1>14 DEF PullStart
<1>15. ~Crash
  BY DEF Crash, PushIdle
<1>16. AppNotify \/ UNCHANGED vars => push' = push
  BY DEF AppNotify, vars
<1> QED
  BY <1>1, <1>2, <1>9, <1>10, <1>11, <1>12, <1>13, <1>14, <1>15, <1>16 DEF Next

\* The envelope a push keeps through a conflict is the one in the local store.
LEMMA StepShownPush ==
    ASSUME TypeOK, Careful, Alone, PushLoop, [Next]_vars, NEW p \in Pusher, ShownBy(p)
    PROVE  ShownBy(p)'
<1> SUFFICES ASSUME push'[p].pc = "store" PROVE push'[p].env = local'[push'[p].rec]
  BY DEF ShownBy
<1>1. CASE push'[p] = push[p]
  <2>1. push[p].pc = "store"
    BY <1>1
  <2>2. ~PushStore(p)
    BY PushEndShapes DEF Ends
  <2>3. local' = local
    BY <2>1, <2>2, LocalAlone
  <2> QED
    BY <1>1, <2>1, <2>3 DEF ShownBy
<1>2. CASE \E o \in Outcome : PushResolve(p, o)
  <2>1. push[p].pc = "fetch" /\ local' = local
    BY <1>2 DEF PushResolve, store
  <2>2. push[p].env = local[push[p].rec]
    BY <2>1 DEF PushLoop
  <2>3. push'[p].env = push[p].env /\ push'[p].rec = push[p].rec
    BY <1>2, PushResolveShape DEF Ends, Moves, Stays
  <2> QED
    BY <2>1, <2>2, <2>3
<1> QED
  BY <1>1, <1>2, EntersStore

\* A pull keeps the local envelope it decides about, and asks the policy unless
\* the record is missing or has no entry in the log.
LEMMA PullDecideShape ==
    ASSUME TypeOK, NEW r \in Record, NEW o \in Outcome, PullDecide(r, o), pull'.pc = "store"
    PROVE  /\ pull'.rec = r /\ pull'.env = local[r]
           /\ pull'.clear \/ ~Exists(local[r]) \/ ~Logged(dirty, r)
<1> DEFINE x(w, c) == [pull EXCEPT !.pc = "store", !.todo = @ \ {r}, !.rec = r,
                                   !.env = local[r], !.winner = w, !.clear = c]
           y == [pull EXCEPT !.todo = @ \ {r}]
<1>1. \A w, c : x(w, c).rec = r /\ x(w, c).env = local[r] /\ x(w, c).clear = c
  BY DEF TypeOK, PullType
<1>2. y.pc = "next"
  BY DEF PullDecide, TypeOK, PullType
<1>3. \/ pull' = y
      \/ \E w, c : /\ pull' = x(w, c)
                   /\ c = TRUE \/ ~Exists(local[r]) \/ ~Logged(dirty, r)
  BY DEF PullDecide, IsDirty
<1> HIDE DEF x, y
<1>4. ASSUME NEW w, NEW c, pull' = x(w, c), c = TRUE \/ ~Exists(local[r]) \/ ~Logged(dirty, r)
      PROVE  /\ pull'.rec = r /\ pull'.env = local[r]
             /\ pull'.clear = TRUE \/ ~Exists(local[r]) \/ ~Logged(dirty, r)
  BY <1>1, <1>4
<1>5. pull' # y
  BY <1>2
<1> QED
  BY <1>3, <1>4, <1>5

\* A pull comes to store a winner only by deciding about a record.
LEMMA EntersPullStore ==
    ASSUME TypeOK, [Next]_vars, pull'.pc = "store"
    PROVE  pull' = pull \/ \E r \in Record, o \in Outcome : PullDecide(r, o)
<1> USE DEF store, memory, history, counts
<1>1. ~PullLoaded /\ ~PullFetch /\ ~PullClear /\ ~PullFail /\ ~PullFinish /\ ~PullPersist
  BY PullShapes
<1>2. ~PullStore
  BY PullShapes
<1>3. \A F : ~PullStart(F)
  BY PullShapes DEF TypeOK
<1>4. ASSUME NEW r \in Record, AppPut(r) \/ AppDelete(r) \/ PeerPut(r) \/ PeerDelete(r)
      PROVE  pull' = pull
  BY <1>4 DEF AppPut, AppDelete, PeerPut, PeerDelete
<1>5. ASSUME NEW n \in 1..MaxOps, TrackLoaded(n) \/ TrackPersist(n) PROVE pull' = pull
  BY <1>5 DEF TrackLoaded, TrackPersist
<1>6. ASSUME NEW p \in Pusher, PushStep(p) \/ \E b \in BOOLEAN : PushFail(p, b) PROVE pull' = pull
  BY <1>6, PushFrame
<1>7. ASSUME NEW p \in Pusher, NEW F, PushStart(p, F) PROVE pull' = pull
  BY <1>7 DEF PushStart
<1>8. ~Crash
  BY DEF Crash, PullIdle
<1>9. AppNotify \/ UNCHANGED vars => pull' = pull
  BY DEF AppNotify, vars
<1> QED
  BY <1>1, <1>2, <1>3, <1>4, <1>5, <1>6, <1>7, <1>8, <1>9 DEF Next, PullStep

\* What a pull is about to replace is what it read, and the remote has got it
\* unless a policy was asked: the log it trusted names every unpushed write.
LEMMA StepShownPull ==
    ASSUME TypeOK, Careful, Tracking, [Next]_vars, ShownPull
    PROVE  ShownPull'
<1> SUFFICES ASSUME pull'.pc = "store"
             PROVE  pull'.env = local'[pull'.rec] /\ (pull'.clear \/ ~Unpushed(pull.rec)')
  BY DEF ShownPull
<1> USE DEF store, memory, history, counts
<1>1. \A r \in Record : Unpushed(r)' => Unpushed(r)
  BY StepAlone, NoNewUnpushed DEF Alone, Tracking
<1>2. CASE pull' = pull
  <2>1. pull.pc = "store" /\ pull.rec \in Record /\ pull'.rec = pull.rec
    BY <1>2 DEF TypeOK, PullType
  <2>2. ~PullStore
    BY PullShapes
  <2>3. local' = local
    BY <2>1, <2>2, LocalAlone DEF Tracking
  <2>4. pull.clear \/ ~Unpushed(pull.rec)
    BY <2>1 DEF ShownPull
  <2>5. Unpushed(pull.rec)' => Unpushed(pull.rec)
    BY <1>2, <2>1, <1>1
  <2> QED
    BY <1>2, <2>1, <2>3, <2>4, <2>5 DEF ShownPull
<1>3. ASSUME NEW r \in Record, NEW o \in Outcome, PullDecide(r, o)
      PROVE  pull'.env = local'[pull'.rec] /\ (pull'.clear \/ ~Unpushed(pull.rec)')
  <2>1. pull.pc = "next" /\ local' = local /\ reached' = reached
    BY <1>3 DEF PullDecide
  <2>2. loaded /\ app.pc = "idle" /\ NoTrack
    BY <2>1 DEF Tracking, Snapshots, Holds, Alone
  <2>3. Unpushed(r) => Logged(dirty, r)
    BY <2>2 DEF Tracking, UnpushedTracked, CurrentLog, BeingTracked, NoTrack
  <2>4. /\ pull'.rec = r /\ pull'.env = local[r]
        /\ pull'.clear \/ ~Exists(local[r]) \/ ~Logged(dirty, r)
    BY <1>3, PullDecideShape
  <2>5. pull'.clear \/ ~Unpushed(r)
    BY <2>3, <2>4 DEF Unpushed
  <2> QED
    BY <2>1, <2>4, <2>5, <1>1 DEF Unpushed
<1> QED
  BY <1>2, <1>3, EntersPullStore

\* What replaces an unpushed write was decided on seeing it.
LEMMA LossShown ==
    ASSUME TypeOK, Careful, Tracking, Shown, [Next]_vars, NEW r \in Record,
           Unpushed(r), local'[r] # local[r]
    PROVE  \/ ops' # ops
           \/ \E p \in Pusher : push[p].pc = "store" /\ push[p].rec = r /\ push[p].env = local[r]
           \/ pull.pc = "store" /\ pull.clear /\ pull.rec = r /\ pull.env = local[r]
<1>1. ASSUME NEW q \in Record, AppPut(q) \/ AppDelete(q) PROVE ops' # ops
  BY <1>1 DEF AppPut, AppDelete, TypeOK
<1>2. ASSUME NEW p \in Pusher, PushStore(p)
      PROVE  push[p].pc = "store" /\ push[p].rec = r /\ push[p].env = local[r]
  <2>1. push[p].pc = "store" /\ local' = [local EXCEPT ![push[p].rec] = push[p].winner]
    BY <1>2 DEF PushStore
  <2>2. push[p].rec = r
    BY <2>1 DEF TypeOK
  <2> QED
    BY <2>1, <2>2 DEF Shown, ShownBy
<1>3. CASE PullStore
  <2>1. pull.pc = "store" /\ local' = [local EXCEPT ![pull.rec] = pull.winner]
    BY <1>3 DEF PullStore
  <2>2. pull.rec = r
    BY <2>1 DEF TypeOK
  <2> QED
    BY <2>1, <2>2 DEF Shown, ShownPull
<1> QED
  BY <1>1, <1>2, <1>3, LocalSteps

\* An unpushed write leaves the local store only by a later operation of the
\* application, or because a conflict policy that was shown that very envelope
\* chose the other side: neither pull's `isNew' and `newer, not dirty' branches
\* nor the store after a push conflict ever overwrite one behind its back.
THEOREM LossesAreDecided == Careful => (Spec => LocalLossDecided)
<1> SUFFICES ASSUME Careful PROVE Spec => LocalLossDecided
  OBVIOUS
<1> DEFINE IInv == TypeOK /\ LogsIndexed /\ Tracking
<1>1. Spec => []IInv
  BY TrackingHolds
<1>2. Init => Shown
  BY DEF Init, Shown, ShownBy, ShownPull, PushIdle, PullIdle
<1>3. IInv /\ Shown /\ [Next]_vars => Shown'
  BY StepShownPush, StepShownPull DEF Shown, Tracking
<1>4. IInv /\ Shown /\ [Next]_vars
          => [\A r \in Record : Unpushed(r) /\ local'[r] # local[r] =>
                \/ ops' # ops
                \/ \E p \in Pusher : /\ push[p].pc = "store" /\ push[p].rec = r
                                     /\ push[p].env = local[r]
                \/ /\ pull.pc = "store" /\ pull.clear /\ pull.rec = r
                   /\ pull.env = local[r]]_vars
  BY LossShown
<1> HIDE DEF IInv
<1> QED
  BY <1>1, <1>2, <1>3, <1>4, PTL DEF Spec, LocalLossDecided

=============================================================================
