------------------------- MODULE SyncTargets_proofs -------------------------
(***************************************************************************)
(* Proofs about SyncTargets, for any number of targets, whatever their    *)
(* roles and labels: each engine's log and target together have the       *)
(* application's last word on every record, a commit is on the primary    *)
(* target when it is reported, and push-only targets have no say; and     *)
(* about Presence, with which MCPeers puts them side by side.             *)
(***************************************************************************)
EXTENDS MCPeers, WellFoundedInduction, TLAPS

\* Calls wait for a log that is being loaded, the device is not restarted, and
\* no strategy lets an older version win.
Careful == "cold" \notin Allowed /\ MaxRestarts = 0 /\ "remote-wins" \notin Strategies

(***************************************************************************)
(* The types.  What the engines have read from the store is blank: the    *)
(* log is loaded before the first write or by the call that notes it.     *)
(***************************************************************************)
Envelope == [v : Nat, w : Nat]
Entry    == [action : {"none", "put", "delete"}, version : Nat, w : Nat]
Log      == [Record -> Entry]
Blank    == {NoDoc, Doc(NoLog)}
Noted    == [t : Engine, r : Record, entry : Entry, snap : Blank]
CallType ==
    [kind : {"none", "push", "pull", "sync", "commit"},
     pc : {"idle", "told", "load", "write", "pull", "push"},
     t : Engine, then : {"push", "pull"}, todo : SUBSET Record, seen : SUBSET Record,
     done : SUBSET Record, recs : SUBSET Record, writes : SUBSET Nat,
     conflict : BOOLEAN, failed : BOOLEAN, snap : Blank]

TypeOK ==
    /\ local \in [Record -> Envelope] /\ remote \in [Target -> [Record -> Envelope]]
    /\ dirty \in [Engine -> Log] /\ loaded \in [Engine -> BOOLEAN]
    /\ track \in SUBSET Noted /\ call \in CallType /\ strategy \in Strategies
    /\ latest \in [Record -> Nat] /\ reached \in [Target -> SUBSET Nat]
    /\ ops \in Nat /\ restarts = 0

(***************************************************************************)
(* One record: its envelopes l in the local store and c in a target's,    *)
(* the last operation n of the application, its entry e in a log.         *)
(***************************************************************************)
\* The entry is about the last operation, and a put has something to send.
Fits(e, l, n) == e.action # "none" => e.w = n /\ (e.action = "put" => Exists(l))

\* A copy of the last put is no newer than what the local store has.
Copied(c, l, n) == n > 0 /\ Exists(c) /\ c.w = n => Exists(l) /\ c.v <= l.v

Standing(l, n) == n > 0 /\ (l.w = n \/ ~Exists(l))

Records(lo, re, di, la, rc, tr) ==
    \A r \in Record :
        /\ \A t \in Engine : Fits(di[t][r], lo[r], la[r])
        /\ \A t \in Target : Copied(re[t][r], lo[r], la[r])
        /\ \A t \in Engine : Standing(lo[r], la[r]) =>
              \/ la[r] \in rc[t] \/ di[t][r].action # "none"
              \/ \E k \in tr : k.t = t /\ k.r = r

\* No write has the number the next one gets.
Fresh(lo, re, la, n) ==
    \A r \in Record : la[r] <= n /\ lo[r].w <= n /\ \A t \in Target : re[t][r].w <= n

\* Before the first write all logs are empty.  It is noted by every engine; the
\* next call begins when all have it.
Early(la) == \A r \in Record : la[r] = 0
Noting(lo, di, ld, tr, c, la, m) ==
    /\ Early(la) => tr = {} /\ m \in Blank /\ \A t \in Engine : di[t] = NoLog
    /\ ~Early(la) => /\ c.pc # "load"
                     /\ \A t \in Engine : ld[t] \/ \E k \in tr : k.t = t
    /\ \A t \in Engine : ~ld[t] => di[t] = NoLog
    /\ c.pc = "write" => \A t \in Engine : ld[t]
    /\ \A k \in tr :
          /\ c.pc = "idle" /\ ~ld[k.t] /\ Fits(k.entry, lo[k.r], la[k.r])
          /\ k.entry.action # "none"
          /\ la[k.r] > 0 /\ \A r \in Record \ {k.r} : la[r] = 0
          /\ \A j \in tr : j.t = k.t => j = k

\* What a push has dealt with is done, and a commit deals with all it has written.
Pushing(lo, c, la, rc) ==
    c.pc \in {"pull", "push"} => \A r \in c.done : Standing(lo[r], la[r]) => la[r] \in rc[c.t]
Committing(lo, di, c, la, rc) ==
    /\ c.pc = "write" => c.kind = "commit"
    /\ c.kind = "commit" => c.pc \in {"write", "push", "told"}
    /\ c.kind = "commit" /\ c.pc \in {"write", "push"} =>
          /\ c.todo \subseteq c.recs /\ (c.pc = "push" => c.todo = {} /\ c.t = Primary)
          /\ \A r \in c.recs \ c.todo :
                di[Primary][r].action # "none" /\ (c.conflict \/ Standing(lo[r], la[r]))
          /\ \A w \in c.writes : \E r \in c.recs \ c.todo : la[r] = w
          /\ c.failed \/ c.seen \subseteq c.done
    /\ c.pc = "told" /\ ~c.conflict /\ ~c.failed => c.writes \subseteq rc[Primary]

IInv ==
    /\ TypeOK
    /\ Fresh(local, remote, latest, ops)
    /\ Records(local, remote, dirty, latest, reached, track)
    /\ Noting(local, dirty, loaded, track, call, latest, meta)
    /\ Pushing(local, call, latest, reached)
    /\ Committing(local, dirty, call, latest, reached)

(***************************************************************************)
(* What a push-only target holds is no newer than the local store, or on  *)
(* its way to be deleted.                                                 *)
(***************************************************************************)
Doomed(di, tr, t, r) ==
    \/ di[t][r].action = "delete"
    \/ \E k \in tr : k.t = t /\ k.r = r /\ k.entry.action = "delete"
Behind(lo, re, di, tr) ==
    \A t \in Engine, r \in Record :
        ~SyncPeer(t) /\ Exists(re[t][r]) =>
            (Exists(lo[r]) /\ re[t][r].v <= lo[r].v) \/ Doomed(di, tr, t, r)
Silent(re, di, c) ==
    /\ c.pc = "pull" \/ (c.pc = "load" /\ c.then = "pull") => SyncPeer(c.t)
    /\ c.pc = "push" /\ ~SyncPeer(c.t) =>
          \A r \in c.done : di[c.t][r].action = "delete" => ~Exists(re[c.t][r])
BInv == Behind(local, remote, dirty, track) /\ Silent(remote, dirty, call)

-----------------------------------------------------------------------------
(* The targets. *)
LEMMA Least ==
    ASSUME NEW S \in SUBSET Nat, S # {}
    PROVE  \E x \in S : \A y \in S : x <= y
<1>1. PICK x \in S : \A y \in S : ~(<<y, x>> \in OpToRel(<, Nat))
  BY NatLessThanWellFounded, WFMin
<1>2. \A y \in S : ~(y < x)
  BY <1>1 DEF OpToRel
<1> QED
  BY <1>2

LEMMA TargetFacts ==
    /\ Target \in SUBSET Nat /\ Engine \subseteq Target
    /\ Primary \in Engine
    /\ (\E t \in Target : SyncPeer(t)) => SyncPeer(Primary)
<1>1. Target = 1..Len(Targets) /\ Len(Targets) \in Nat /\ 1 \in Target
  BY TargetsAssumption DEF Target
<1>2. CASE \E t \in Target : SyncPeer(t)
  <2> DEFINE S == {u \in Target : SyncPeer(u)}
  <2>b. S \in SUBSET Nat /\ S # {}
    BY <1>1, <1>2
  <2> HIDE DEF S
  <2>a. \E x \in S : \A y \in S : x <= y
    BY <2>b, Least
  <2>1. PICK t \in {u \in Target : SyncPeer(u)} : \A u \in {v \in Target : SyncPeer(v)} : t <= u
    BY <2>a DEF S
  <2>2. \A u \in 1..(t - 1) : ~SyncPeer(u)
    <3> SUFFICES ASSUME NEW u \in 1..(t - 1), SyncPeer(u) PROVE FALSE
      OBVIOUS
    <3>1. u \in Target /\ u < t
      BY <1>1
    <3> QED
      BY <2>1, <3>1
  <2>3. Primary \in Target /\ SyncPeer(Primary)
    BY <1>2, <2>1, <2>2 DEF Primary
  <2> QED
    BY <1>1, <2>3 DEF Engine
<1>3. CASE ~\E t \in Target : SyncPeer(t)
  BY <1>1, <1>3 DEF Primary, Engine
<1> QED
  BY <1>2, <1>3

LEMMA FirstIs == ASSUME NEW E \in SUBSET Engine, E # {} PROVE First(E) \in E
<1>1. \E t \in E : \A u \in E : t <= u
  BY TargetFacts, Least
<1> QED
  BY <1>1 DEF First

LEMMA CallTypes ==
    /\ NoDoc \in Blank /\ NoLog \in Log /\ \A r \in Record : NoLog[r].action = "none"
    /\ Idle \in CallType /\ Idle.pc = "idle" /\ Idle.kind = "none" /\ Idle.writes = {} /\ Idle.seen = {}
    /\ Missing \in Envelope /\ ~Exists(Missing)
<1>1. NoLog \in Log /\ \A r \in Record : NoLog[r].action = "none"
  BY DEF NoLog, Log, Clean, Entry
<1>2. /\ Idle \in CallType /\ Idle.pc = "idle" /\ Idle.kind = "none" /\ Idle.writes = {}
      /\ Idle.seen = {}
  BY TargetFacts DEF Idle, CallType, Blank
<1> QED
  BY <1>1, <1>2 DEF Blank, Missing, Envelope, Exists

LEMMA EnterIs ==
    ASSUME NEW c \in CallType, NEW t \in Engine, NEW stage \in {"push", "pull"},
           ~loaded[t] => meta \in Blank
    PROVE  LET d == Enter(c, t, stage) IN
           /\ d \in CallType /\ d.t = t /\ d.seen = {} /\ d.done = {} /\ d.then = stage
           /\ d.pc = IF loaded[t] THEN stage ELSE "load"
           /\ d.kind = c.kind /\ d.todo = c.todo /\ d.recs = c.recs /\ d.writes = c.writes
           /\ d.conflict = c.conflict /\ d.failed = c.failed
<1>1. PICK s \in Blank : s = IF loaded[t] THEN NoDoc ELSE meta
  BY CallTypes
<1>2. PICK p \in {"push", "pull", "load"} : p = IF loaded[t] THEN stage ELSE "load"
  OBVIOUS
<1>3. Enter(c, t, stage) = [c EXCEPT !.t = t, !.seen = {}, !.done = {}, !.pc = p, !.then = stage, !.snap = s]
  BY <1>1, <1>2 DEF Enter
<1> QED
  BY <1>2, <1>3, ZenonT(60) DEF CallType

(* The types of what is left of a call.                                     *)
LEMMA Steps ==
    ASSUME NEW c \in CallType
    PROVE  /\ \A p \in {"idle", "told", "load", "write", "pull", "push"} :
                 LET d == [c EXCEPT !.pc = p] IN
                 /\ d \in CallType /\ d.pc = p /\ d.t = c.t /\ d.done = c.done /\ d.then = c.then
                 /\ d.kind = c.kind /\ d.todo = c.todo /\ d.recs = c.recs /\ d.seen = c.seen
                 /\ d.writes = c.writes /\ d.conflict = c.conflict /\ d.failed = c.failed
  BY DEF CallType

(* A newer version from a target takes the place of l. *)
LEMMA Replaced ==
    ASSUME NEW l \in Envelope, NEW b \in Envelope, NEW n \in Nat,
           Exists(b), Exists(l) => b.v > l.v, Copied(b, l, n)
    PROVE  /\ ~Standing(b, n)
           /\ \A c \in Envelope : Copied(c, l, n) => Copied(c, b, n)
           /\ \A e \in Entry : Fits(e, l, n) => Fits(e, b, n)
<1>1. ~Standing(b, n)
  BY DEF Standing, Copied, Envelope, Exists
<1>2. ASSUME NEW c \in Envelope, Copied(c, l, n) PROVE Copied(c, b, n)
  BY <1>2 DEF Copied, Envelope
<1>3. ASSUME NEW e \in Entry, Fits(e, l, n) PROVE Fits(e, b, n)
  BY <1>3 DEF Fits
<1> QED
  BY <1>1, <1>2, <1>3

(* Nobody but the application's call waits for the log when it is at work.  *)
LEMMA AtWork == ASSUME IInv, call.pc # "idle" PROVE track = {}
  BY DEF IInv, Noting

LEMMA Loads ==
    ASSUME Careful, IInv, MayStart \/ call.pc \notin {"idle", "told"}
    PROVE  /\ track = {} /\ (Early(latest) => meta \in Blank)
           /\ ~Early(latest) => \A t \in Engine : loaded[t]
<1>1. track = {}
  BY AtWork DEF MayStart, Careful
<1> QED
  BY <1>1 DEF IInv, Noting

(* A call comes to an engine. *)
LEMMA Arrives ==
    ASSUME Careful, IInv, track = {},
           NEW c \in CallType, NEW t \in Engine, NEW stage \in {"push", "pull"}
    PROVE  LET d == Enter(c, t, stage) IN
           /\ d \in CallType /\ d.t = t /\ d.seen = {} /\ d.done = {} /\ d.then = stage
           /\ d.pc \in {stage, "load"} /\ (d.pc = "load" => Early(latest) /\ ~loaded[t])
           /\ d.kind = c.kind /\ d.todo = c.todo /\ d.recs = c.recs /\ d.writes = c.writes
           /\ d.conflict = c.conflict /\ d.failed = c.failed
<1>1. /\ Early(latest) => meta \in Blank
      /\ ~Early(latest) => \A u \in Engine : loaded[u]
  BY DEF IInv, Noting
<1>2. ~loaded[t] => meta \in Blank
  BY <1>1
<1>3. loaded[t] \in BOOLEAN
  BY DEF IInv, TypeOK
<1> QED
  BY <1>1, <1>2, <1>3, EnterIs

-----------------------------------------------------------------------------
(* Steps that only move the call. *)
LEMMA CallStep ==
    ASSUME IInv, NEW c \in CallType, call' = c,
           UNCHANGED <<local, remote, meta, dirty, loaded, track, strategy, latest, reached, ops, restarts>>,
           Noting(local, dirty, loaded, track, c, latest, meta),
           Pushing(local, c, latest, reached), Committing(local, dirty, c, latest, reached)
    PROVE  IInv'
<1>1. TypeOK'
  BY DEF IInv, TypeOK
<1>2. Fresh(local', remote', latest', ops') /\ Records(local', remote', dirty', latest', reached', track')
  BY DEF IInv
<1> QED
  BY <1>1, <1>2 DEF IInv

LEMMA StartKeeps ==
    ASSUME Careful, IInv, NEW kind \in {"push", "pull", "sync"}, Start(kind)
    PROVE  IInv' /\ call'.t = Primary /\ call'.done = {} /\ call'.kind = kind
<1>1. track = {} /\ UNCHANGED <<local, remote, meta, dirty, loaded, track, strategy, latest, reached, ops, restarts>>
  BY Loads DEF Start, counts
<1>2. PICK c \in CallType : c = [Idle EXCEPT !.kind = kind] /\ c.kind = kind
  <2> PICK i \in CallType : i = Idle
    BY CallTypes
  <2>1. [i EXCEPT !.kind = kind] \in CallType /\ [i EXCEPT !.kind = kind].kind = kind
    BY DEF CallType
  <2> QED
    BY <2>1
<1>3. PICK stage \in {"push", "pull"} : stage = IF kind = "push" THEN "push" ELSE "pull"
  OBVIOUS
<1>4. PICK d \in CallType : /\ d = Enter(c, Primary, stage) /\ d.t = Primary /\ d.done = {} /\ d.kind = c.kind
                            /\ d.pc \in {stage, "load"} /\ (d.pc = "load" => Early(latest))
  BY <1>1, TargetFacts, Arrives
<1>5. call' = d
  BY <1>2, <1>3, <1>4 DEF Start
<1>6. Noting(local, dirty, loaded, track, d, latest, meta)
  BY <1>1, <1>4 DEF IInv, Noting
<1>7. Pushing(local, d, latest, reached) /\ Committing(local, dirty, d, latest, reached)
  BY <1>2, <1>4 DEF Pushing, Committing
<1> QED
  BY <1>1, <1>2, <1>4, <1>5, <1>6, <1>7, CallStep

LEMMA StartCommitKeeps ==
    ASSUME Careful, IInv, NEW R \in SUBSET Record, StartCommit(R)
    PROVE  IInv' /\ call'.pc = "write"
<1>1. /\ track = {} /\ \A t \in Engine : loaded[t]
      /\ UNCHANGED <<local, remote, meta, dirty, loaded, track, strategy, latest, reached, ops, restarts>>
  BY Loads DEF StartCommit, counts, Careful
<1>2. PICK c \in CallType : /\ c = [Idle EXCEPT !.kind = "commit", !.pc = "write", !.todo = R, !.recs = R]
                            /\ c.kind = "commit" /\ c.pc = "write" /\ c.todo = R /\ c.recs = R
                            /\ c.writes = {} /\ c.seen = {}
  <2> PICK i \in CallType : i = Idle /\ i.writes = {} /\ i.seen = {}
    BY CallTypes
  <2> DEFINE d == [i EXCEPT !.kind = "commit", !.pc = "write", !.todo = R, !.recs = R]
  <2>1. /\ d \in CallType /\ d.kind = "commit" /\ d.pc = "write" /\ d.todo = R /\ d.recs = R
        /\ d.writes = i.writes /\ d.seen = i.seen
    BY DEF CallType
  <2> HIDE DEF d
  <2> QED
    BY <2>1 DEF d
<1>3. Noting(local, dirty, loaded, track, c, latest, meta)
  BY <1>1, <1>2 DEF IInv, Noting
<1>4. Pushing(local, c, latest, reached) /\ Committing(local, dirty, c, latest, reached)
  BY <1>2 DEF Pushing, Committing
<1> QED
  BY <1>1, <1>2, <1>3, <1>4, CallStep DEF StartCommit

LEMMA CommitPushKeeps ==
    ASSUME Careful, IInv, CommitPush
    PROVE  IInv' /\ call'.pc = "push" /\ call'.t = Primary /\ call'.done = {}
<1>1. /\ call.pc = "write" /\ call.todo = {} /\ track = {} /\ \A t \in Engine : loaded[t]
      /\ UNCHANGED <<local, remote, meta, dirty, loaded, track, strategy, latest, reached, ops, restarts>>
  BY AtWork DEF CommitPush, counts, IInv, Noting
<1>2. PICK c \in CallType : c = call
  BY DEF IInv, TypeOK
<1>3. PICK stage \in {"push", "pull"} : stage = "push"
  OBVIOUS
<1>4. PICK d \in CallType :
         /\ d = Enter(c, Primary, stage) /\ d.t = Primary /\ d.done = {} /\ d.kind = c.kind /\ d.seen = {}
         /\ d.pc \in {stage, "load"} /\ (d.pc = "load" => ~loaded[Primary])
         /\ d.todo = c.todo /\ d.recs = c.recs /\ d.writes = c.writes /\ d.conflict = c.conflict
         /\ d.failed = c.failed
  BY <1>1, TargetFacts, Arrives
<1>5. d.pc = "push"
  BY <1>1, <1>3, <1>4, TargetFacts
<1>6. Noting(local, dirty, loaded, track, d, latest, meta)
  BY <1>1, <1>5 DEF IInv, Noting
<1>7. Pushing(local, d, latest, reached)
  BY <1>4 DEF Pushing
<1>8. Committing(local, dirty, d, latest, reached)
  <2>1. Committing(local, dirty, c, latest, reached)
    BY <1>2 DEF IInv
  <2> QED
    BY <1>1, <1>2, <1>4, <1>5, <2>1 DEF Committing
<1> QED
  BY <1>1, <1>2, <1>3, <1>4, <1>5, <1>6, <1>7, <1>8, CallStep DEF CommitPush

LEMMA LoadedKeeps ==
    ASSUME IInv, Loaded
    PROVE  IInv' /\ dirty' = dirty /\ call'.t = call.t /\ call'.pc = call.then /\ call'.done = call.done
<1>1. /\ call.pc = "load" /\ Early(latest) /\ track = {} /\ call.t \in Engine
      /\ \A t \in Engine : dirty[t] = NoLog
      /\ UNCHANGED <<local, remote, meta, track, strategy, latest, reached, ops, restarts>>
  BY AtWork DEF Loaded, counts, IInv, Noting, TypeOK, CallType
<1>2. PICK c \in CallType : c = call
  BY DEF IInv, TypeOK
<1>3. LoadedLog(c.t, c.snap) = NoLog
  BY <1>1, <1>2 DEF CallType, Blank, LoadedLog, Doc, NoDoc
<1>4. dirty' = dirty
  BY <1>1, <1>2, <1>3 DEF Loaded, IInv, TypeOK
<1>5. PICK d \in CallType : /\ d = [c EXCEPT !.pc = c.then, !.snap = NoDoc] /\ d.t = c.t /\ d.pc = c.then
                            /\ d.done = c.done /\ d.kind = c.kind
  <2> PICK p \in {"push", "pull"} : p = c.then
    BY DEF CallType
  <2> PICK s \in Blank : s = NoDoc
    BY CallTypes
  <2> DEFINE d == [c EXCEPT !.pc = p, !.snap = s]
  <2>1. d \in CallType /\ d.t = c.t /\ d.pc = p /\ d.done = c.done /\ d.kind = c.kind
    BY DEF CallType
  <2> HIDE DEF d
  <2> QED
    BY <2>1 DEF d
<1>6. call' = d /\ loaded' \in [Engine -> BOOLEAN] /\ (\A t \in Engine : loaded[t] => loaded'[t])
  BY <1>2, <1>5 DEF Loaded, IInv, TypeOK
<1>7. c.then \in {"push", "pull"} /\ c.kind # "commit"
  BY <1>1, <1>2 DEF CallType, IInv, Committing
<1>8. TypeOK'
  BY <1>1, <1>4, <1>5, <1>6 DEF IInv, TypeOK
<1>9. Fresh(local', remote', latest', ops') /\ Records(local', remote', dirty', latest', reached', track')
  BY <1>1, <1>4 DEF IInv
<1>10. Noting(local', dirty', loaded', track', call', latest', meta')
  BY <1>1, <1>4, <1>5, <1>6, <1>7 DEF IInv, Noting
<1>11. Pushing(local', call', latest', reached')
  <2>1. \A r \in Record : ~Standing(local[r], latest[r])
    BY <1>1 DEF Early, Standing
  <2>2. d.done \in SUBSET Record
    BY DEF CallType
  <2> QED
    BY <1>1, <1>6, <2>1, <2>2 DEF Pushing
<1>12. Committing(local', dirty', call', latest', reached')
  BY <1>5, <1>6, <1>7 DEF Committing
<1> QED
  BY <1>2, <1>4, <1>5, <1>6, <1>8, <1>9, <1>10, <1>11, <1>12 DEF IInv

LEMMA TrackLoadedKeeps ==
    ASSUME IInv, NEW k \in track, TrackLoaded(k)
    PROVE  /\ IInv' /\ call.pc = "idle" /\ call' = call /\ local' = local /\ remote' = remote
           /\ track' = track \ {k} /\ k.t \in Engine /\ k.r \in Record
           /\ dirty'[k.t][k.r] = k.entry
           /\ \A t \in Engine : t # k.t => dirty'[t] = dirty[t]
           /\ dirty[k.t] = NoLog
<1>1. /\ k \in Noted /\ dirty[k.t] = NoLog /\ ~loaded[k.t] /\ call.pc = "idle"
      /\ Fits(k.entry, local[k.r], latest[k.r]) /\ k.entry.action # "none"
      /\ latest[k.r] > 0 /\ (\A r \in Record \ {k.r} : latest[r] = 0)
      /\ \A j \in track : j.t = k.t => j = k
  BY DEF IInv, TypeOK, Noting, Noted
<1>2. k.t \in Engine /\ k.r \in Record /\ k.entry \in Entry /\ k.snap \in Blank
  BY <1>1 DEF Noted
<1>3. UNCHANGED <<local, remote, call, strategy, latest, reached, ops, restarts>>
  BY DEF TrackLoaded, counts
<1>4. LoadedLog(k.t, k.snap) = NoLog
  BY <1>1, <1>2 DEF Blank, LoadedLog, Doc, NoDoc
<1>5. /\ dirty' \in [Engine -> Log]
      /\ \A t \in Engine : t # k.t => dirty'[t] = dirty[t]
      /\ \A r \in Record : dirty'[k.t][r] = IF r = k.r THEN k.entry ELSE Clean
  <2> DEFINE L == [NoLog EXCEPT ![k.r] = k.entry]
  <2>2. L \in Log /\ \A r \in Record : L[r] = IF r = k.r THEN k.entry ELSE Clean
    <3>1. NoLog \in [Record -> Entry] /\ \A r \in Record : NoLog[r] = Clean
      BY CallTypes DEF Log, NoLog
    <3> QED
      BY <1>2, <3>1 DEF Log
  <2> HIDE DEF L
  <2>1. dirty' = [dirty EXCEPT ![k.t] = L]
    BY <1>4 DEF TrackLoaded, LogChange, L
  <2> QED
    BY <1>2, <2>1, <2>2 DEF IInv, TypeOK
<1>6. /\ loaded' \in [Engine -> BOOLEAN] /\ loaded'[k.t]
      /\ \A t \in Engine : t # k.t => loaded'[t] = loaded[t]
  BY <1>2 DEF TrackLoaded, IInv, TypeOK
<1>7. track' = track \ {k}
  BY DEF TrackLoaded
<1>8. TypeOK'
  BY <1>3, <1>5, <1>6, <1>7 DEF IInv, TypeOK
<1>9. Fresh(local', remote', latest', ops')
  BY <1>3 DEF IInv
<1>10. Records(local', remote', dirty', latest', reached', track')
  <2> SUFFICES ASSUME NEW r \in Record
               PROVE  /\ \A t \in Engine : Fits(dirty'[t][r], local[r], latest[r])
                      /\ \A t \in Target : Copied(remote[t][r], local[r], latest[r])
                      /\ \A t \in Engine : Standing(local[r], latest[r]) =>
                            \/ latest[r] \in reached[t] \/ dirty'[t][r].action # "none"
                            \/ \E j \in track' : j.t = t /\ j.r = r
    BY <1>3 DEF Records
  <2>1. ASSUME NEW t \in Engine PROVE Fits(dirty'[t][r], local[r], latest[r])
    <3>1. CASE t # k.t
      BY <1>5, <3>1 DEF IInv, Records
    <3>2. CASE t = k.t /\ r = k.r
      BY <1>1, <1>5, <3>2
    <3>3. CASE t = k.t /\ r # k.r
      BY <1>5, <3>3 DEF Clean, Fits
    <3> QED
      BY <3>1, <3>2, <3>3
  <2>2. ASSUME NEW t \in Engine, Standing(local[r], latest[r])
        PROVE  \/ latest[r] \in reached[t] \/ dirty'[t][r].action # "none"
               \/ \E j \in track' : j.t = t /\ j.r = r
    <3>1. CASE t # k.t
      BY <1>5, <1>7, <2>2, <3>1 DEF IInv, Records
    <3>2. CASE t = k.t /\ r = k.r
      BY <1>1, <1>5, <3>2
    <3>3. CASE t = k.t /\ r # k.r
      BY <1>1, <2>2, <3>3 DEF Standing
    <3> QED
      BY <3>1, <3>2, <3>3
  <2>3. \A t \in Target : Copied(remote[t][r], local[r], latest[r])
    BY DEF IInv, Records
  <2> QED
    BY <2>1, <2>2, <2>3
<1>11. Noting(local', dirty', loaded', track', call', latest', meta')
  <2>1. ~Early(latest)
    BY <1>1, <1>2 DEF Early
  <2>2. ASSUME NEW t \in Engine PROVE loaded'[t] \/ \E j \in track' : j.t = t
    BY <1>6, <1>7, <2>1 DEF IInv, Noting
  <2>3. ASSUME NEW t \in Engine, ~loaded'[t] PROVE dirty'[t] = NoLog
    BY <1>5, <1>6, <2>3 DEF IInv, Noting
  <2>4. ASSUME NEW j \in track'
        PROVE  /\ ~loaded'[j.t] /\ Fits(j.entry, local[j.r], latest[j.r]) /\ j.entry.action # "none"
               /\ latest[j.r] > 0 /\ (\A r \in Record \ {j.r} : latest[r] = 0)
               /\ \A i \in track' : i.t = j.t => i = j
    <3>1. j \in track /\ j.t # k.t /\ j.t \in Engine
      BY <1>1, <1>7, <2>4 DEF IInv, TypeOK, Noted
    <3>2. /\ ~loaded[j.t] /\ Fits(j.entry, local[j.r], latest[j.r]) /\ j.entry.action # "none"
          /\ latest[j.r] > 0 /\ (\A r \in Record \ {j.r} : latest[r] = 0)
          /\ \A i \in track : i.t = j.t => i = j
      BY <3>1 DEF IInv, Noting
    <3> QED
      BY <1>6, <1>7, <3>1, <3>2
  <2> QED
    BY <1>1, <1>3, <2>1, <2>2, <2>3, <2>4 DEF Noting
<1>12. Pushing(local', call', latest', reached') /\ Committing(local', dirty', call', latest', reached')
  BY <1>1, <1>3 DEF Pushing, Committing, IInv
<1>13. IInv'
  BY <1>8, <1>9, <1>10, <1>11, <1>12 DEF IInv
<1> QED
  BY <1>1, <1>2, <1>3, <1>5, <1>7, <1>13

-----------------------------------------------------------------------------
(* A write or delete of the application: engines that have loaded their log *)
(* add the entry e, the others note it.                                     *)
Notes(t, r, e) == [t |-> t, r |-> r, entry |-> e, snap |-> meta]

Written(r, action, e) ==
    /\ e \in Entry /\ e.action = action /\ e.w = ops + 1
    /\ local' \in [Record -> Envelope] /\ latest' \in [Record -> Nat]
    /\ dirty' \in [Engine -> Log] /\ track' \in SUBSET Noted /\ ops' = ops + 1
    /\ latest'[r] = ops + 1 /\ \A q \in Record \ {r} : latest'[q] = latest[q] /\ local'[q] = local[q]
    /\ IF action = "put" THEN local'[r].w = ops + 1 /\ local'[r].v = local[r].v + 1
       ELSE ~Exists(local'[r]) /\ local'[r].w = 0
    /\ \A t \in Engine : IF loaded[t] THEN dirty'[t][r] = e ELSE dirty'[t] = dirty[t]
    /\ \A t \in Engine, q \in Record \ {r} : dirty'[t][q] = dirty[t][q]
    /\ track' = {Notes(t, r, e) : t \in {u \in Engine : ~loaded[u]}}

LEMMA WriteIs ==
    ASSUME IInv, NEW r \in Record, NEW action \in {"put", "delete"}, Write(r, action), track = {},
           \A t \in Engine : ~loaded[t] => meta \in Blank
    PROVE  \E e \in Entry : Written(r, action, e)
<1>0. /\ local \in [Record -> Envelope] /\ latest \in [Record -> Nat] /\ dirty \in [Engine -> Log]
      /\ loaded \in [Engine -> BOOLEAN] /\ ops \in Nat
  BY DEF IInv, TypeOK
<1> PICK version \in Nat : version = IF action = "put" THEN local[r].v + 1 ELSE local[r].v
  BY <1>0 DEF Envelope
<1>e. [action |-> action, version |-> version, w |-> ops + 1] \in Entry
  BY <1>0 DEF Entry
<1> PICK e \in Entry : /\ e = [action |-> action, version |-> version, w |-> ops + 1]
                       /\ e.action = action /\ e.w = ops + 1
  BY <1>e
<1>1. ops' = ops + 1 /\ latest' = [latest EXCEPT ![r] = ops + 1] /\ OnDirty(r, e)
  BY DEF Write
<1>2. local' = [local EXCEPT ![r] = IF action = "put" THEN [v |-> local[r].v + 1, w |-> ops + 1] ELSE Missing]
  BY DEF Write
<1>3. /\ local' \in [Record -> Envelope]
      /\ \A q \in Record \ {r} : local'[q] = local[q]
      /\ IF action = "put" THEN local'[r].w = ops + 1 /\ local'[r].v = local[r].v + 1
         ELSE ~Exists(local'[r]) /\ local'[r].w = 0
  <2>a. [v |-> local[r].v + 1, w |-> ops + 1] \in Envelope /\ Missing \in Envelope
    BY <1>0, CallTypes DEF Envelope
  <2> PICK l \in Envelope : l = IF action = "put" THEN [v |-> local[r].v + 1, w |-> ops + 1] ELSE Missing
    BY <2>a
  <2>1. IF action = "put" THEN l.w = ops + 1 /\ l.v = local[r].v + 1 ELSE ~Exists(l) /\ l.w = 0
    BY DEF Missing, Exists
  <2>2. local' = [local EXCEPT ![r] = l]
    BY <1>2
  <2> QED
    BY <1>0, <2>1, <2>2
<1>4. /\ latest' \in [Record -> Nat] /\ latest'[r] = ops + 1
      /\ \A q \in Record \ {r} : latest'[q] = latest[q]
  BY <1>0, <1>1
<1>5. ASSUME NEW t \in Engine
      PROVE  /\ dirty'[t] \in Log
             /\ IF loaded[t] THEN dirty'[t][r] = e ELSE dirty'[t] = dirty[t]
             /\ \A q \in Record \ {r} : dirty'[t][q] = dirty[t][q]
  <2>1. dirty'[t] = IF loaded[t] THEN [dirty[t] EXCEPT ![r] = e] ELSE dirty[t]
    BY <1>1 DEF OnDirty, Told, LogChange
  <2>2. dirty[t] \in [Record -> Entry]
    BY <1>0 DEF Log
  <2> QED
    BY <2>1, <2>2 DEF Log
<1>6. dirty' \in [Engine -> Log]
  <2>1. dirty' = [t \in Engine |-> dirty'[t]]
    BY <1>1 DEF OnDirty
  <2> QED
    BY <1>5, <2>1
<1>7. track' = {Notes(t, r, e) : t \in {u \in Engine : ~loaded[u]}}
  BY <1>1 DEF OnDirty, Told, Notes
<1>8. track' \in SUBSET Noted
  BY <1>7 DEF Noted, Notes
<1> QED
  BY <1>1, <1>3, <1>4, <1>5, <1>6, <1>7, <1>8 DEF Written

LEMMA WriteKeeps ==
    ASSUME IInv, NEW r \in Record, NEW action \in {"put", "delete"}, NEW e \in Entry,
           Written(r, action, e), track = {},
           UNCHANGED <<remote, loaded, strategy, reached, restarts>>
    PROVE  /\ Fresh(local', remote', latest', ops')
           /\ Records(local', remote', dirty', latest', reached', track')
           /\ ~Early(latest') /\ Standing(local'[r], latest'[r]) /\ Fits(e, local'[r], latest'[r])
<1>0. /\ local \in [Record -> Envelope] /\ remote \in [Target -> [Record -> Envelope]]
      /\ latest \in [Record -> Nat] /\ ops \in Nat
  BY DEF IInv, TypeOK
<1>1. Fresh(local', remote', latest', ops')
  <2> SUFFICES ASSUME NEW q \in Record
               PROVE  latest'[q] <= ops' /\ local'[q].w <= ops' /\ \A t \in Target : remote[t][q].w <= ops'
    BY DEF Fresh
  <2>1. latest[q] <= ops /\ local[q].w <= ops /\ \A t \in Target : remote[t][q].w <= ops /\ remote[t][q].w \in Nat
    BY <1>0 DEF IInv, Fresh, Envelope
  <2>2. latest[q] \in Nat /\ local[q].w \in Nat
    BY <1>0 DEF Envelope
  <2>3. CASE q = r
    BY <1>0, <2>1, <2>2, <2>3 DEF Written
  <2>4. CASE q # r
    BY <1>0, <2>1, <2>2, <2>4 DEF Written
  <2> QED
    BY <2>3, <2>4
<1>2. ~Early(latest') /\ Standing(local'[r], latest'[r])
  BY <1>0 DEF Written, Early, Standing
<1>3. Fits(e, local'[r], latest'[r])
  <2>1. action = "put" => Exists(local'[r])
    BY <1>0 DEF Written, Exists, Envelope
  <2> QED
    BY <2>1 DEF Written, Fits
<1>4. ASSUME NEW q \in Record, q # r
      PROVE  /\ \A t \in Engine : Fits(dirty'[t][q], local'[q], latest'[q])
             /\ \A t \in Target : Copied(remote'[t][q], local'[q], latest'[q])
             /\ \A t \in Engine : Standing(local'[q], latest'[q]) =>
                   \/ latest'[q] \in reached'[t] \/ dirty'[t][q].action # "none"
                   \/ \E k \in track' : k.t = t /\ k.r = q
  BY <1>4 DEF IInv, Records, Written
<1>5. \A t \in Engine : Fits(dirty'[t][r], local'[r], latest'[r])
  <2> SUFFICES ASSUME NEW t \in Engine PROVE Fits(dirty'[t][r], local'[r], latest'[r])
    OBVIOUS
  <2>1. CASE loaded[t]
    BY <1>3, <2>1 DEF Written
  <2>2. CASE ~loaded[t]
    <3>1. dirty'[t][r].action = "none"
      BY <2>2, CallTypes DEF IInv, Noting, Written
    <3> QED
      BY <3>1 DEF Fits
  <2> QED
    BY <2>1, <2>2
<1>6. \A t \in Target : Copied(remote'[t][r], local'[r], latest'[r])
  <2>1. \A t \in Target : remote[t][r].w <= ops /\ remote[t][r].w \in Nat
    BY <1>0 DEF IInv, Fresh, Envelope
  <2>2. latest'[r] = ops + 1
    BY DEF Written
  <2> QED
    BY <1>0, <2>1, <2>2 DEF Copied
<1>7. \A t \in Engine : \/ dirty'[t][r].action # "none"
                        \/ \E k \in track' : k.t = t /\ k.r = r
  <2> SUFFICES ASSUME NEW t \in Engine, ~loaded[t] PROVE \E k \in track' : k.t = t /\ k.r = r
    BY DEF Written
  <2>1. Notes(t, r, e) \in track'
    BY DEF Written
  <2> QED
    BY <2>1 DEF Notes
<1>8. Records(local', remote', dirty', latest', reached', track')
  BY <1>4, <1>5, <1>6, <1>7 DEF Records
<1> QED
  BY <1>1, <1>2, <1>3, <1>8

LEMMA AppWriteKeeps ==
    ASSUME Careful, IInv, NEW r \in Record, NEW action \in {"put", "delete"}, AppWrite(r, action)
    PROVE  IInv' /\ call' = Idle /\ remote' = remote /\ track = {} /\ \E e \in Entry : Written(r, action, e)
<1>1. /\ track = {} /\ (Early(latest) => meta \in Blank) /\ (~Early(latest) => \A t \in Engine : loaded[t])
      /\ UNCHANGED <<remote, loaded, strategy, reached, restarts>> /\ Write(r, action) /\ call' = Idle
  BY Loads DEF AppWrite
<1>2. PICK e \in Entry : Written(r, action, e)
  BY <1>1, WriteIs
<1>3. /\ Fresh(local', remote', latest', ops')
      /\ Records(local', remote', dirty', latest', reached', track')
      /\ ~Early(latest') /\ Standing(local'[r], latest'[r]) /\ Fits(e, local'[r], latest'[r])
  BY <1>1, <1>2, WriteKeeps
<1>4. TypeOK'
  BY <1>1, <1>2, CallTypes DEF IInv, TypeOK, Written
<1>5. Noting(local', dirty', loaded', track', call', latest', meta')
  <2>1. ASSUME NEW t \in Engine PROVE loaded[t] \/ \E k \in track' : k.t = t
    <3>1. loaded[t] \/ Notes(t, r, e) \in track'
      BY <1>2 DEF Written
    <3> QED
      BY <3>1 DEF Notes
  <2>2. ASSUME NEW t \in Engine, ~loaded[t] PROVE dirty'[t] = NoLog
    BY <1>2, <2>2 DEF IInv, Noting, Written
  <2>3. ASSUME NEW k \in track'
        PROVE  /\ ~loaded[k.t] /\ Fits(k.entry, local'[k.r], latest'[k.r]) /\ k.entry.action # "none"
               /\ latest'[k.r] > 0 /\ (\A q \in Record \ {k.r} : latest'[q] = 0)
               /\ \A j \in track' : j.t = k.t => j = k
    <3>1. PICK t \in Engine : ~loaded[t] /\ k = Notes(t, r, e)
      BY <1>2, <2>3 DEF Written
    <3>2. k.t = t /\ k.r = r /\ k.entry = e
      BY <3>1 DEF Notes
    <3>3. \A q \in Record \ {r} : latest'[q] = 0
      BY <1>1, <1>2, <3>1 DEF Written, Early
    <3>4. \A j \in track' : j.t = t => j = Notes(t, r, e)
      BY <1>2 DEF Written, Notes
    <3>5. latest'[r] > 0
      BY <1>3 DEF Standing
    <3>6. e.action # "none"
      BY <1>2 DEF Written
    <3> QED
      BY <1>3, <3>1, <3>2, <3>3, <3>4, <3>5, <3>6
  <2> QED
    BY <1>1, <1>3, <2>1, <2>2, <2>3, CallTypes DEF Noting
<1>6. Pushing(local', call', latest', reached') /\ Committing(local', dirty', call', latest', reached')
  BY <1>1, CallTypes DEF Pushing, Committing
<1> QED
  BY <1>1, <1>2, <1>3, <1>4, <1>5, <1>6 DEF IInv

LEMMA CommitWriteKeeps ==
    ASSUME Careful, IInv, NEW r \in Record, NEW action \in {"put", "delete"}, CommitWrite(r, action)
    PROVE  /\ IInv' /\ call'.pc = "write" /\ remote' = remote /\ track = {}
           /\ \E e \in Entry : Written(r, action, e)
<1>1. /\ track = {} /\ call.pc = "write" /\ r \in call.todo /\ (\A t \in Engine : loaded[t])
      /\ UNCHANGED <<remote, loaded, strategy, reached, restarts>> /\ Write(r, action)
  BY AtWork DEF CommitWrite, IInv, Noting
<1>2. PICK e \in Entry : Written(r, action, e)
  BY <1>1, WriteIs
<1>3. /\ Fresh(local', remote', latest', ops')
      /\ Records(local', remote', dirty', latest', reached', track')
      /\ ~Early(latest') /\ Standing(local'[r], latest'[r])
  BY <1>1, <1>2, WriteKeeps
<1>4. track' = {}
  BY <1>1, <1>2 DEF Written
<1>5. PICK c \in CallType : c = call
  BY DEF IInv, TypeOK
<1>6. PICK n \in Nat : n = ops + 1 /\ n = ops'
  BY <1>2 DEF Written, IInv, TypeOK
<1>7. PICK d \in CallType :
         /\ d = [c EXCEPT !.todo = c.todo \ {r}, !.writes = c.writes \cup {n}]
         /\ d.todo = c.todo \ {r} /\ d.writes = c.writes \cup {n} /\ d.pc = c.pc /\ d.kind = c.kind
         /\ d.recs = c.recs /\ d.seen = c.seen /\ d.done = c.done /\ d.conflict = c.conflict
         /\ d.failed = c.failed
  <2> DEFINE d == [c EXCEPT !.todo = c.todo \ {r}, !.writes = c.writes \cup {n}]
  <2>1. d \in CallType /\ d.todo = c.todo \ {r} /\ d.writes = c.writes \cup {n} /\ d.pc = c.pc
        /\ d.kind = c.kind /\ d.recs = c.recs /\ d.seen = c.seen /\ d.done = c.done
        /\ d.conflict = c.conflict /\ d.failed = c.failed
    BY DEF CallType
  <2> HIDE DEF d
  <2> QED
    BY <2>1 DEF d
<1>8. call' = d
  BY <1>5, <1>6, <1>7 DEF CommitWrite
<1>9. TypeOK'
  BY <1>1, <1>2, <1>8 DEF IInv, TypeOK, Written
<1>10. Noting(local', dirty', loaded', track', call', latest', meta')
  BY <1>1, <1>3, <1>4, <1>5, <1>7, <1>8 DEF Noting
<1>11. Pushing(local', call', latest', reached')
  BY <1>1, <1>5, <1>7, <1>8 DEF Pushing
<1>12. Committing(local', dirty', call', latest', reached')
  <2>1. /\ c.kind = "commit" /\ c.todo \subseteq c.recs
        /\ \A q \in c.recs \ c.todo :
              dirty[Primary][q].action # "none" /\ (c.conflict \/ Standing(local[q], latest[q]))
        /\ \A w \in c.writes : \E q \in c.recs \ c.todo : latest[q] = w
        /\ c.failed \/ c.seen \subseteq c.done
    BY <1>1, <1>5 DEF IInv, Committing
  <2>2. c.recs \in SUBSET Record /\ c.todo \in SUBSET Record
    BY DEF CallType
  <2>3. r \notin c.recs \ c.todo
    BY <1>1, <1>5
  <2>4. ASSUME NEW q \in d.recs \ d.todo
        PROVE  dirty'[Primary][q].action # "none" /\ (d.conflict \/ Standing(local'[q], latest'[q]))
    <3>1. CASE q = r
      BY <1>1, <1>2, <1>3, <3>1, TargetFacts DEF Written
    <3>2. CASE q # r
      <4>1. q \in c.recs \ c.todo /\ q \in Record
        BY <1>7, <2>2, <2>4, <3>2
      <4>2. dirty'[Primary][q] = dirty[Primary][q] /\ local'[q] = local[q] /\ latest'[q] = latest[q]
        BY <1>2, <3>2, <4>1, TargetFacts DEF Written
      <4> QED
        BY <1>7, <2>1, <4>1, <4>2
    <3> QED
      BY <3>1, <3>2
  <2>5. ASSUME NEW w \in d.writes PROVE \E q \in d.recs \ d.todo : latest'[q] = w
    <3>1. CASE w = n
      <4>1. r \in c.recs
        BY <1>1, <1>5, <2>1
      <4> QED
        BY <1>2, <1>6, <1>7, <3>1, <4>1 DEF Written
    <3>2. CASE w \in c.writes
      <4>1. PICK q \in c.recs \ c.todo : latest[q] = w
        BY <2>1, <3>2
      <4>2. q # r /\ q \in Record /\ q \in d.recs \ d.todo
        BY <1>7, <2>2, <2>3, <4>1
      <4> QED
        BY <1>2, <4>1, <4>2 DEF Written
    <3> QED
      BY <1>7, <2>5, <3>1, <3>2
  <2> QED
    BY <1>1, <1>5, <1>7, <1>8, <2>1, <2>4, <2>5 DEF Committing
<1> QED
  BY <1>1, <1>2, <1>3, <1>5, <1>7, <1>8, <1>9, <1>10, <1>11, <1>12 DEF IInv

-----------------------------------------------------------------------------
(* A pull: record by record, a newer envelope of the target takes the place *)
(* of the local one, or nothing happens.                                    *)
Taken(t, r) ==
    /\ Exists(remote[t][r]) /\ (Exists(local[r]) => remote[t][r].v > local[r].v)
    /\ local'[r] = remote[t][r] /\ dirty'[t][r] \in {Clean, dirty[t][r]}

LEMMA PullIs ==
    ASSUME Careful, IInv, NEW fail \in BOOLEAN, Pull(fail)
    PROVE  LET t == call.t IN
           /\ call.pc = "pull" /\ t \in Engine /\ t \in Target /\ track = {}
           /\ UNCHANGED <<remote, loaded, track, strategy, latest, reached, ops, restarts>>
           /\ local' \in [Record -> Envelope] /\ dirty' \in [Engine -> Log]
           /\ \A r \in Record : \/ local'[r] = local[r] /\ dirty'[t][r] = dirty[t][r]
                                \/ Taken(t, r)
           /\ \A u \in Engine : u # t => dirty'[u] = dirty[u]
           /\ Early(latest) => dirty' = dirty
           /\ meta' = Doc(dirty'[t])
           /\ call' = IF call.kind = "pull" THEN Idle ELSE [call EXCEPT !.pc = "push"]
<1> DEFINE t == call.t
<1>1. /\ local \in [Record -> Envelope] /\ remote \in [Target -> [Record -> Envelope]]
      /\ dirty \in [Engine -> Log] /\ t \in Engine /\ t \in Target
  BY TargetFacts DEF IInv, TypeOK, CallType
<1>2. /\ call.pc = "pull" /\ track = {}
      /\ UNCHANGED <<remote, loaded, track, strategy, latest, reached, ops, restarts>>
  BY AtWork DEF Pull
<1>3. local' = [r \in Record |-> IF ~fail /\ Takes(t, r) THEN remote[t][r] ELSE local[r]]
  BY DEF Pull
<1>4. local' \in [Record -> Envelope]
  BY <1>1, <1>3
<1> DEFINE kept == [r \in Record |-> IF Yields(t, r) THEN Clean ELSE dirty[t][r]]
<1>5. kept \in Log
  BY <1>1 DEF Log, Clean, Entry
<1>6. dirty' = IF fail THEN dirty ELSE [dirty EXCEPT ![t] = kept]
  BY DEF Pull
<1>7. dirty' \in [Engine -> Log] /\ \A u \in Engine : u # t => dirty'[u] = dirty[u]
  BY <1>1, <1>5, <1>6
<1>8. \A r \in Record : Yields(t, r) => Takes(t, r)
  BY DEF Takes
<1>9. ASSUME NEW r \in Record, Takes(t, r)
      PROVE  Exists(remote[t][r]) /\ (Exists(local[r]) => remote[t][r].v > local[r].v)
  BY <1>1, <1>9 DEF Takes, Yields, Newer, Exists, Envelope
<1>10. ASSUME NEW r \in Record
       PROVE  (local'[r] = local[r] /\ dirty'[t][r] = dirty[t][r]) \/ Taken(t, r)
  <2>1. CASE fail
    BY <1>3, <1>6, <2>1
  <2>2. CASE ~fail
    <3>1. dirty'[t][r] = IF Yields(t, r) THEN Clean ELSE dirty[t][r]
      BY <1>1, <1>6, <2>2
    <3>2. local'[r] = IF Takes(t, r) THEN remote[t][r] ELSE local[r]
      BY <1>3, <2>2
    <3> QED
      BY <1>8, <1>9, <3>1, <3>2 DEF Taken
  <2> QED
    BY <2>1, <2>2
<1>11. ASSUME Early(latest) PROVE dirty' = dirty
  <2>1. dirty[t] = NoLog
    BY <1>1, <1>11 DEF IInv, Noting
  <2>2. \A r \in Record : ~Yields(t, r)
    BY <2>1, CallTypes DEF Yields, Logged
  <2>3. kept = dirty[t]
    BY <1>1, <2>2 DEF Log
  <2> QED
    BY <1>1, <1>6, <2>3
<1> QED
  BY <1>1, <1>2, <1>4, <1>7, <1>10, <1>11 DEF Pull

LEMMA PullKeeps ==
    ASSUME Careful, IInv, NEW fail \in BOOLEAN, Pull(fail)
    PROVE  IInv'
<1> DEFINE t == call.t
<1>1. /\ call.pc = "pull" /\ t \in Engine /\ t \in Target /\ track = {}
      /\ UNCHANGED <<remote, loaded, track, strategy, latest, reached, ops, restarts>>
      /\ local' \in [Record -> Envelope] /\ dirty' \in [Engine -> Log]
      /\ \A r \in Record : (local'[r] = local[r] /\ dirty'[t][r] = dirty[t][r]) \/ Taken(t, r)
      /\ \A u \in Engine : u # t => dirty'[u] = dirty[u]
      /\ Early(latest) => dirty' = dirty
      /\ meta' = Doc(dirty'[t])
      /\ call' = IF call.kind = "pull" THEN Idle ELSE [call EXCEPT !.pc = "push"]
  BY PullIs
<1>0. /\ local \in [Record -> Envelope] /\ remote \in [Target -> [Record -> Envelope]]
      /\ dirty \in [Engine -> Log] /\ latest \in [Record -> Nat]
  BY DEF IInv, TypeOK
<1>2. PICK c \in CallType : c = call
  BY DEF IInv, TypeOK
<1>3. PICK d \in CallType :
         /\ d = call'
         /\ d = Idle \/ (d.pc = "push" /\ d.t = c.t /\ d.done = c.done /\ d.kind = c.kind)
  <2>1. [c EXCEPT !.pc = "push"] \in CallType
    BY Steps
  <2>2. LET d == [c EXCEPT !.pc = "push"] IN
        d.pc = "push" /\ d.t = c.t /\ d.done = c.done /\ d.kind = c.kind
    BY Steps
  <2> QED
    BY <1>1, <1>2, <2>1, <2>2, CallTypes
<1>4. TypeOK'
  BY <1>1, <1>3 DEF IInv, TypeOK
<1>5. ASSUME NEW r \in Record, Taken(t, r)
      PROVE  /\ ~Standing(local'[r], latest[r])
             /\ \A e \in Envelope : Copied(e, local[r], latest[r]) => Copied(e, local'[r], latest[r])
             /\ \A e \in Entry : Fits(e, local[r], latest[r]) => Fits(e, local'[r], latest[r])
  <2>1. /\ Exists(remote[t][r]) /\ (Exists(local[r]) => remote[t][r].v > local[r].v)
        /\ local'[r] = remote[t][r]
    BY <1>5 DEF Taken
  <2>2. Copied(remote[t][r], local[r], latest[r])
    BY <1>1 DEF IInv, Records
  <2>3. local[r] \in Envelope /\ remote[t][r] \in Envelope /\ latest[r] \in Nat
    BY <1>0, <1>1
  <2> QED
    BY <2>1, <2>2, <2>3, Replaced
<1>6. Fresh(local', remote', latest', ops')
  <2> SUFFICES ASSUME NEW r \in Record
               PROVE  latest[r] <= ops /\ local'[r].w <= ops /\ \A u \in Target : remote[u][r].w <= ops
    BY <1>1 DEF Fresh
  <2> QED
    BY <1>1 DEF IInv, Fresh, Taken
<1>7. Records(local', remote', dirty', latest', reached', track')
  <2> SUFFICES ASSUME NEW r \in Record
               PROVE  /\ \A u \in Engine : Fits(dirty'[u][r], local'[r], latest[r])
                      /\ \A u \in Target : Copied(remote[u][r], local'[r], latest[r])
                      /\ \A u \in Engine : Standing(local'[r], latest[r]) =>
                            \/ latest[r] \in reached[u] \/ dirty'[u][r].action # "none"
                            \/ \E k \in track : k.t = u /\ k.r = r
    BY <1>1 DEF Records
  <2>0. /\ \A u \in Engine : Fits(dirty[u][r], local[r], latest[r])
        /\ \A u \in Target : Copied(remote[u][r], local[r], latest[r])
        /\ \A u \in Engine : Standing(local[r], latest[r]) =>
              \/ latest[r] \in reached[u] \/ dirty[u][r].action # "none"
              \/ \E k \in track : k.t = u /\ k.r = r
    BY DEF IInv, Records
  <2>1. CASE local'[r] = local[r] /\ dirty'[t][r] = dirty[t][r]
    <3>1. \A u \in Engine : dirty'[u][r] = dirty[u][r]
      BY <1>1, <2>1
    <3> QED
      BY <2>0, <2>1, <3>1
  <2>2. CASE Taken(t, r)
    <3>1. \A u \in Engine : dirty[u][r] \in Entry
      BY <1>0 DEF Log
    <3>2. \A u \in Engine : dirty'[u][r] \in {Clean, dirty[u][r]}
      BY <1>1, <2>2 DEF Taken
    <3>3. Fits(Clean, local'[r], latest[r])
      BY DEF Fits, Clean
    <3>4. \A u \in Engine : Fits(dirty'[u][r], local'[r], latest[r])
      BY <1>5, <2>0, <2>2, <3>1, <3>2, <3>3
    <3>5. \A u \in Target : remote[u][r] \in Envelope
      BY <1>0
    <3>6. \A u \in Target : Copied(remote[u][r], local'[r], latest[r])
      BY <1>5, <2>0, <2>2, <3>5
    <3> QED
      BY <1>5, <2>2, <3>4, <3>6
  <2> QED
    BY <1>1, <2>1, <2>2
<1>8. Noting(local', dirty', loaded', track', call', latest', meta')
  <2>1. ASSUME Early(latest) PROVE meta' \in Blank /\ \A u \in Engine : dirty'[u] = NoLog
    BY <1>1, <2>1 DEF IInv, Noting, Blank
  <2>2. ASSUME ~Early(latest) PROVE \A u \in Engine : loaded[u]
    BY <1>1, <2>2 DEF IInv, Noting
  <2>3. call'.pc \notin {"load", "write"}
    BY <1>3, CallTypes
  <2> QED
    BY <1>1, <2>1, <2>2, <2>3 DEF Noting
<1>9. Pushing(local', call', latest', reached')
  <2> SUFFICES ASSUME NEW r \in d.done, Standing(local'[r], latest[r]), d.pc = "push"
               PROVE  latest[r] \in reached[d.t]
    BY <1>1, <1>3, CallTypes DEF Pushing
  <2>1. d.t = t /\ r \in call.done /\ r \in Record
    BY <1>2, <1>3, CallTypes DEF CallType
  <2>2. local'[r] = local[r]
    BY <1>1, <1>5, <2>1
  <2> QED
    BY <1>1, <2>1, <2>2 DEF IInv, Pushing
<1>10. Committing(local', dirty', call', latest', reached')
  <2>1. c.kind # "commit"
    BY <1>1, <1>2 DEF IInv, Committing
  <2> QED
    BY <1>3, <2>1, CallTypes DEF Committing
<1> QED
  BY <1>4, <1>6, <1>7, <1>8, <1>9, <1>10 DEF IInv

-----------------------------------------------------------------------------
(* One entry of a push. *)
Overruled(t, r) ==      \* the target's envelope wins the conflict
    /\ dirty[t][r].action = "put" /\ Exists(local[r]) /\ Exists(remote[t][r])
    /\ remote[t][r].v > local[r].v /\ local'[r] = remote[t][r] /\ remote' = remote
Sent(t, r) ==
    /\ local' = local /\ (latest[r] \in reached'[t] \/ ~Standing(local[r], latest[r]))
    /\ IF dirty[t][r].action = "put" THEN remote'[t][r] = local[r] ELSE remote'[t][r] = Missing

Pushed(t, r, fail) ==
    /\ call.pc = "push" /\ track = {}
    /\ dirty[t][r] \in Entry /\ dirty[t][r].action # "none"
    /\ UNCHANGED <<meta, dirty, loaded, track, strategy, latest, ops, restarts>>
    /\ local' \in [Record -> Envelope] /\ remote' \in [Target -> [Record -> Envelope]]
    /\ reached' \in [Target -> SUBSET Nat]
    /\ \A q \in Record \ {r} : local'[q] = local[q] /\ remote'[t][q] = remote[t][q]
    /\ \A u \in Target : (u # t => remote'[u] = remote[u]) /\ reached[u] \subseteq reached'[u]
    /\ IF fail THEN UNCHANGED <<local, remote>> ELSE Overruled(t, r) \/ Sent(t, r)

GoesOn(t, r, fail, d) ==
    /\ call' = d /\ d.kind = call.kind /\ d.pc = call.pc /\ d.t = call.t /\ d.todo = call.todo
    /\ d.recs = call.recs /\ d.writes = call.writes /\ d.seen = call.seen \cup {r}
    /\ d.done = (IF fail THEN call.done ELSE call.done \cup {r})
    /\ d.failed = (call.failed \/ fail)
    /\ call.conflict => d.conflict
    /\ ~fail /\ Overruled(t, r) /\ ~Sent(t, r) => d.conflict

LEMMA PushEntryIs ==
    ASSUME Careful, IInv, NEW r \in Record, NEW fail \in BOOLEAN, PushEntry(r, fail)
    PROVE  /\ call.t \in Engine /\ call.t \in Target
           /\ Pushed(call.t, r, fail) /\ \E d \in CallType : GoesOn(call.t, r, fail, d)
<1> DEFINE t == call.t
<1>1. /\ local \in [Record -> Envelope] /\ remote \in [Target -> [Record -> Envelope]]
      /\ dirty \in [Engine -> Log] /\ t \in Engine /\ t \in Target /\ latest \in [Record -> Nat]
      /\ reached \in [Target -> SUBSET Nat] /\ strategy \in Strategies
  BY TargetFacts DEF IInv, TypeOK, CallType
<1>2. PICK e \in Entry : e = dirty[t][r]
  BY <1>1 DEF Log
<1>3. /\ call.pc = "push" /\ track = {} /\ e.action # "none" /\ e.action \in {"put", "delete"}
      /\ UNCHANGED <<meta, dirty, loaded, track, strategy, latest, ops, restarts>>
  BY <1>2, AtWork DEF PushEntry, Logged, Entry
<1>4. Fits(e, local[r], latest[r])
  BY <1>1, <1>2 DEF IInv, Records
<1>5. PICK conflict \in BOOLEAN :
         conflict = (/\ ~fail /\ e.action = "put" /\ Exists(local[r])
                     /\ ~Accepts(remote[t][r], e.version - 1))
  OBVIOUS
<1>6. PICK lost \in BOOLEAN : lost = (conflict /\ Winner(local[r], remote[t][r]) = "remote")
  OBVIOUS
<1>7. PICK sends \in BOOLEAN : sends = (~fail /\ ~lost /\ (e.action = "put" => Exists(local[r])))
  OBVIOUS
<1>8. PICK b \in Envelope : b = IF e.action = "put" THEN local[r] ELSE Missing
  BY <1>1, CallTypes
<1>9. PICK n \in Nat : n = IF e.action = "put" THEN local[r].w ELSE e.w
  BY <1>1 DEF Envelope, Entry
<1>10. /\ remote' = IF sends THEN [remote EXCEPT ![t][r] = b] ELSE remote
       /\ local' = IF lost THEN [local EXCEPT ![r] = remote[t][r]] ELSE local
  BY <1>2, <1>5, <1>6, <1>7, <1>8 DEF PushEntry
<1>11. reached' = IF sends THEN [reached EXCEPT ![t] = reached[t] \cup {n}] ELSE reached
  BY <1>2, <1>5, <1>6, <1>7, <1>9 DEF PushEntry
<1>12. PICK c \in CallType : c = call
  BY DEF IInv, TypeOK
<1>13. PICK d \in CallType :
          /\ call' = d /\ d.kind = c.kind /\ d.pc = c.pc /\ d.t = c.t /\ d.todo = c.todo
          /\ d.recs = c.recs /\ d.writes = c.writes /\ d.seen = c.seen \cup {r}
          /\ d.done = (IF fail THEN c.done ELSE c.done \cup {r})
          /\ d.failed = (c.failed \/ fail)
          /\ d.conflict = (c.conflict \/ conflict)
  <2> PICK f \in BOOLEAN : f = (c.failed \/ fail)
    OBVIOUS
  <2> PICK o \in BOOLEAN : o = (c.conflict \/ conflict)
    OBVIOUS
  <2> PICK D \in SUBSET Record : D = IF fail THEN c.done ELSE c.done \cup {r}
    BY DEF CallType
  <2> DEFINE d == [c EXCEPT !.seen = c.seen \cup {r}, !.conflict = o, !.failed = f, !.done = D]
  <2>1. /\ d \in CallType /\ d.kind = c.kind /\ d.pc = c.pc /\ d.t = c.t /\ d.todo = c.todo
        /\ d.recs = c.recs /\ d.writes = c.writes /\ d.seen = c.seen \cup {r}
        /\ d.done = D /\ d.failed = f /\ d.conflict = o
    BY ZenonT(60) DEF CallType
  <2>2. call' = d
    BY <1>2, <1>5, <1>12 DEF PushEntry, Completed, Reported
  <2> HIDE DEF d
  <2> QED
    BY <2>1, <2>2
<1>14. ASSUME lost
       PROVE  ~fail /\ e.action = "put" /\ Exists(local[r]) /\ Exists(remote[t][r]) /\ remote[t][r].v > local[r].v
  <2>1. strategy # "remote-wins"
    BY <1>1 DEF Careful
  <2>2. ~(local[r].v >= remote[t][r].v)
    BY <1>6, <1>14, <2>1 DEF Winner
  <2>3. local[r].v \in Nat /\ remote[t][r].v \in Nat
    BY <1>1 DEF Envelope
  <2>4. ~fail /\ e.action = "put" /\ Exists(local[r])
    BY <1>5, <1>6, <1>14
  <2>5. remote[t][r].v > local[r].v
    BY <2>2, <2>3
  <2> QED
    BY <2>3, <2>4, <2>5 DEF Exists
<1>15. local' \in [Record -> Envelope] /\ \A q \in Record \ {r} : local'[q] = local[q]
  BY <1>1, <1>10
<1>16. /\ remote' \in [Target -> [Record -> Envelope]]
       /\ \A q \in Record \ {r} : remote'[t][q] = remote[t][q]
       /\ \A u \in Target : u # t => remote'[u] = remote[u]
  BY <1>1, <1>10
<1>17. reached' \in [Target -> SUBSET Nat] /\ \A u \in Target : reached[u] \subseteq reached'[u]
  BY <1>1, <1>11
<1>18. ASSUME fail PROVE UNCHANGED <<local, remote>>
  BY <1>7, <1>10, <1>14, <1>18
<1>19. ASSUME lost PROVE Overruled(t, r)
  BY <1>1, <1>2, <1>7, <1>10, <1>14, <1>19 DEF Overruled
<1>20. ASSUME ~fail, ~lost PROVE Sent(t, r)
  <2>1. sends
    BY <1>4, <1>7, <1>20, <1>3 DEF Fits
  <2>2. local' = local /\ remote'[t][r] = b /\ n \in reached'[t]
    BY <1>1, <1>10, <1>11, <1>20, <2>1
  <2>3. n = latest[r] \/ ~Standing(local[r], latest[r])
    BY <1>3, <1>4, <1>9 DEF Fits, Standing
  <2> QED
    BY <1>2, <1>8, <2>2, <2>3 DEF Sent
<1>21. ~fail /\ Overruled(t, r) /\ ~Sent(t, r) => d.conflict
  BY <1>6, <1>13, <1>20
<1>22. IF fail THEN UNCHANGED <<local, remote>> ELSE Overruled(t, r) \/ Sent(t, r)
  BY <1>18, <1>19, <1>20
<1>23. dirty[t][r] \in Entry /\ dirty[t][r].action # "none"
  BY <1>2, <1>3
<1>24. \E i \in CallType : GoesOn(t, r, fail, i)
  BY <1>12, <1>13, <1>21 DEF GoesOn
<1>25. Pushed(t, r, fail)
  BY <1>1, <1>3, <1>15, <1>16, <1>17, <1>22, <1>23 DEF Pushed
<1> QED
  BY <1>1, <1>24, <1>25

LEMMA PushEntryKeeps ==
    ASSUME Careful, IInv, NEW r \in Record, NEW fail \in BOOLEAN, PushEntry(r, fail)
    PROVE  IInv'
<1> PICK t \in Engine : t = call.t /\ t \in Target
  BY TargetFacts DEF IInv, TypeOK, CallType
<1>p. Pushed(t, r, fail) /\ \E d \in CallType : GoesOn(t, r, fail, d)
  BY PushEntryIs
<1>1. /\ call.pc = "push" /\ track = {} /\ dirty[t][r] \in Entry /\ dirty[t][r].action # "none"
      /\ UNCHANGED <<meta, dirty, loaded, track, strategy, latest, ops, restarts>>
      /\ local' \in [Record -> Envelope] /\ remote' \in [Target -> [Record -> Envelope]]
      /\ reached' \in [Target -> SUBSET Nat]
      /\ \A q \in Record \ {r} : local'[q] = local[q] /\ remote'[t][q] = remote[t][q]
      /\ \A u \in Target : (u # t => remote'[u] = remote[u]) /\ reached[u] \subseteq reached'[u]
      /\ IF fail THEN UNCHANGED <<local, remote>> ELSE Overruled(t, r) \/ Sent(t, r)
  BY <1>p DEF Pushed
<1>2. PICK d \in CallType :
         /\ call' = d /\ d.kind = call.kind /\ d.pc = call.pc /\ d.t = call.t /\ d.todo = call.todo
         /\ d.recs = call.recs /\ d.writes = call.writes /\ d.seen = call.seen \cup {r}
         /\ d.done = (IF fail THEN call.done ELSE call.done \cup {r})
         /\ d.failed = (call.failed \/ fail)
         /\ call.conflict => d.conflict
         /\ ~fail /\ Overruled(t, r) /\ ~Sent(t, r) => d.conflict
  BY <1>p DEF GoesOn
<1>0. /\ local \in [Record -> Envelope] /\ remote \in [Target -> [Record -> Envelope]]
      /\ dirty \in [Engine -> Log] /\ latest \in [Record -> Nat] /\ call \in CallType
  BY DEF IInv, TypeOK
<1>3. ~Early(latest)
  BY <1>1, CallTypes DEF IInv, Noting
<1>4. TypeOK'
  BY <1>1, <1>2 DEF IInv, TypeOK
<1>5. ASSUME NEW q \in Record
      PROVE  /\ local'[q] = local[q] \/ (q = r /\ ~fail /\ Overruled(t, r) /\ ~Sent(t, r))
             /\ \A u \in Target : \/ remote'[u][q] = remote[u][q]
                                  \/ remote'[u][q] = local[q] /\ local' = local
                                  \/ remote'[u][q] = Missing /\ local' = local
  <2>1. CASE q # r
    BY <1>1, <2>1
  <2>2. CASE q = r /\ fail
    BY <1>1, <2>2
  <2>3. CASE q = r /\ ~fail /\ Sent(t, r)
    BY <1>1, <2>3 DEF Sent
  <2>4. CASE q = r /\ ~fail /\ Overruled(t, r) /\ ~Sent(t, r)
    BY <1>1, <2>4 DEF Overruled
  <2> QED
    BY <1>1, <2>1, <2>2, <2>3, <2>4
<1>6. ASSUME Overruled(t, r)
      PROVE  /\ ~Standing(local'[r], latest[r]) /\ local'[r] = remote[t][r]
             /\ \A e \in Envelope : Copied(e, local[r], latest[r]) => Copied(e, local'[r], latest[r])
             /\ \A e \in Entry : Fits(e, local[r], latest[r]) => Fits(e, local'[r], latest[r])
  <2>1. /\ Exists(remote[t][r]) /\ (Exists(local[r]) => remote[t][r].v > local[r].v)
        /\ local'[r] = remote[t][r]
    BY <1>6 DEF Overruled
  <2>2. Copied(remote[t][r], local[r], latest[r])
    BY <1>1 DEF IInv, Records
  <2>3. local[r] \in Envelope /\ remote[t][r] \in Envelope /\ latest[r] \in Nat
    BY <1>0, <1>1
  <2> QED
    BY <2>1, <2>2, <2>3, Replaced
<1>7. Fresh(local', remote', latest', ops')
  <2> SUFFICES ASSUME NEW q \in Record
               PROVE  latest[q] <= ops /\ local'[q].w <= ops /\ \A u \in Target : remote'[u][q].w <= ops
    BY <1>1 DEF Fresh
  <2>1. latest[q] <= ops /\ local[q].w <= ops /\ \A u \in Target : remote[u][q].w <= ops
    BY DEF IInv, Fresh
  <2>2. local'[q].w <= ops
    BY <1>5, <1>6, <2>1
  <2>3. Missing.w <= ops
    BY DEF IInv, TypeOK, Missing
  <2> QED
    BY <1>5, <2>1, <2>2, <2>3
<1>8. Records(local', remote', dirty', latest', reached', track')
  <2> SUFFICES ASSUME NEW q \in Record
               PROVE  /\ \A u \in Engine : Fits(dirty[u][q], local'[q], latest[q])
                      /\ \A u \in Target : Copied(remote'[u][q], local'[q], latest[q])
                      /\ \A u \in Engine : Standing(local'[q], latest[q]) =>
                            \/ latest[q] \in reached'[u] \/ dirty[u][q].action # "none"
                            \/ \E k \in track : k.t = u /\ k.r = q
    BY <1>1 DEF Records
  <2>0. /\ \A u \in Engine : Fits(dirty[u][q], local[q], latest[q])
        /\ \A u \in Target : Copied(remote[u][q], local[q], latest[q])
        /\ \A u \in Engine : Standing(local[q], latest[q]) =>
              \/ latest[q] \in reached[u] \/ dirty[u][q].action # "none"
              \/ \E k \in track : k.t = u /\ k.r = q
    BY DEF IInv, Records
  <2>1. CASE local'[q] = local[q]
    <3>1. Copied(local[q], local[q], latest[q]) /\ Copied(Missing, local[q], latest[q])
      BY <1>0, CallTypes DEF Copied, Envelope
    <3>2. \A u \in Target : Copied(remote'[u][q], local[q], latest[q])
      BY <1>5, <2>0, <3>1
    <3>3. \A u \in Engine : reached[u] \subseteq reached'[u]
      BY <1>1, TargetFacts
    <3> QED
      BY <2>0, <2>1, <3>2, <3>3
  <2>2. CASE q = r /\ ~fail /\ Overruled(t, r) /\ ~Sent(t, r)
    <3>1. \A u \in Engine : dirty[u][r] \in Entry
      BY <1>0 DEF Log
    <3>2. \A u \in Target : remote[u][r] \in Envelope
      BY <1>0
    <3>3. remote' = remote
      BY <2>2 DEF Overruled
    <3> QED
      BY <1>6, <2>0, <2>2, <3>1, <3>2, <3>3
  <2> QED
    BY <1>5, <2>1, <2>2
<1>9. Noting(local', dirty', loaded', track', call', latest', meta')
  BY <1>1, <1>2, <1>3 DEF IInv, Noting
<1>10. Pushing(local', call', latest', reached')
  <2> SUFFICES ASSUME NEW q \in d.done, Standing(local'[q], latest[q])
               PROVE  latest[q] \in reached'[t]
    BY <1>1, <1>2 DEF Pushing
  <2>1. CASE q \in call.done
    <3>1. q \in Record
      BY <1>0, <2>1 DEF CallType
    <3>2. local'[q] = local[q]
      BY <1>5, <1>6, <3>1
    <3> QED
      BY <1>1, <2>1, <3>2 DEF IInv, Pushing
  <2>2. CASE q = r /\ ~fail
    BY <1>1, <1>6, <2>2 DEF Sent
  <2> QED
    BY <1>2, <2>1, <2>2
<1>11. Committing(local', dirty', call', latest', reached')
  <2>0. Committing(local, dirty, call, latest, reached)
    BY DEF IInv
  <2>1. CASE call.kind # "commit"
    BY <1>1, <1>2, <2>0, <2>1 DEF Committing
  <2>2. CASE call.kind = "commit"
    <3>1. /\ call.todo \subseteq call.recs /\ call.todo = {} /\ call.t = Primary
          /\ \A q \in call.recs \ call.todo :
                dirty[Primary][q].action # "none" /\ (call.conflict \/ Standing(local[q], latest[q]))
          /\ \A w \in call.writes : \E q \in call.recs \ call.todo : latest[q] = w
          /\ call.failed \/ call.seen \subseteq call.done
      BY <1>1, <2>0, <2>2 DEF Committing
    <3>2. \A q \in call.recs : q \in Record
      BY <1>0 DEF CallType
    <3>3. \A q \in d.recs \ d.todo :
             dirty[Primary][q].action # "none" /\ (d.conflict \/ Standing(local'[q], latest[q]))
      BY <1>2, <1>5, <3>1, <3>2
    <3>4. d.failed \/ d.seen \subseteq d.done
      BY <1>2, <3>1
    <3> QED
      BY <1>1, <1>2, <2>2, <3>1, <3>3, <3>4 DEF Committing
  <2> QED
    BY <2>1, <2>2
<1> QED
  BY <1>4, <1>7, <1>8, <1>9, <1>10, <1>11 DEF IInv

-----------------------------------------------------------------------------
(* The end of a push: what it has dealt with leaves the log. *)
LEMMA PushEndIs ==
    ASSUME Careful, IInv, PushEnd
    PROVE  LET t == call.t IN
           /\ call.pc = "push" /\ t \in Engine /\ track = {}
           /\ UNCHANGED <<local, remote, loaded, track, strategy, latest, reached, ops, restarts>>
           /\ dirty' \in [Engine -> Log] /\ \A u \in Engine : u # t => dirty'[u] = dirty[u]
           /\ \A r \in Record : dirty'[t][r] = IF r \in call.done THEN Clean ELSE dirty[t][r]
           /\ Early(latest) => dirty' = dirty /\ meta' \in Blank
           /\ \/ call' = Idle
              \/ /\ call.kind = "commit"
                 /\ \E c \in CallType : /\ call' = c /\ c.pc = "told" /\ c.kind = call.kind
                                        /\ c.writes = call.writes /\ c.conflict = call.conflict
                                        /\ c.failed = call.failed
              \/ /\ call.kind = "sync"
                 /\ \E c \in CallType, stage \in {"push", "pull"} :
                       /\ call' = c /\ c.kind = call.kind /\ c.done = {} /\ c.then = stage
                       /\ c.pc \in {stage, "load"} /\ (c.pc = "load" => Early(latest))
                       /\ stage = "pull" => c.t = Primary \/ SyncPeer(c.t)
<1> DEFINE t == call.t
<1>1. /\ dirty \in [Engine -> Log] /\ t \in Engine
  BY DEF IInv, TypeOK, CallType
<1>2. /\ call.pc = "push" /\ track = {}
      /\ UNCHANGED <<local, remote, loaded, track, strategy, latest, reached, ops, restarts>>
  BY AtWork DEF PushEnd, counts
<1> DEFINE L == [r \in Record |-> IF r \in call.done THEN Clean ELSE dirty[t][r]]
<1>3. L \in Log
  BY <1>1 DEF Log, Clean, Entry
<1>4. dirty' = [dirty EXCEPT ![t] = L] /\ meta' = Doc(dirty'[t])
  BY DEF PushEnd
<1>5. /\ dirty' \in [Engine -> Log] /\ \A u \in Engine : u # t => dirty'[u] = dirty[u]
      /\ \A r \in Record : dirty'[t][r] = IF r \in call.done THEN Clean ELSE dirty[t][r]
  BY <1>1, <1>3, <1>4
<1>6. ASSUME Early(latest) PROVE dirty' = dirty /\ meta' \in Blank
  <2>1. dirty[t] = NoLog
    BY <1>1, <1>6 DEF IInv, Noting
  <2>2. L = dirty[t]
    BY <2>1 DEF NoLog
  <2>3. dirty' = dirty
    BY <1>1, <1>4, <2>2
  <2> QED
    BY <1>4, <2>1, <2>3 DEF Blank
<1>7. PICK c \in CallType : c = call
  BY DEF IInv, TypeOK
<1>8. call' = NextTarget(c)
  BY <1>7 DEF PushEnd
<1>9. CASE c.kind = "sync" /\ After(c.t) # {}
  <2>1. After(c.t) \in SUBSET Engine
    BY DEF After
  <2>2. PICK u \in Engine : u = First(After(c.t))
    BY <1>9, <2>1, FirstIs
  <2>3. PICK stage \in {"push", "pull"} : stage = IF Pulls(u) THEN "pull" ELSE "push"
    OBVIOUS
  <2>4. call' = Enter(c, u, stage)
    BY <1>8, <1>9, <2>2, <2>3 DEF NextTarget, Visit
  <2>5. PICK d \in CallType :
           /\ d = Enter(c, u, stage) /\ d.t = u /\ d.done = {} /\ d.then = stage
           /\ d.pc \in {stage, "load"} /\ (d.pc = "load" => Early(latest)) /\ d.kind = c.kind
    BY <1>2, Arrives
  <2>6. stage = "pull" => d.t = Primary \/ SyncPeer(d.t)
    BY <2>3, <2>5 DEF Pulls
  <2>7. \E a \in CallType, s \in {"push", "pull"} :
           /\ call' = a /\ a.kind = call.kind /\ a.done = {} /\ a.then = s
           /\ a.pc \in {s, "load"} /\ (a.pc = "load" => Early(latest))
           /\ s = "pull" => a.t = Primary \/ SyncPeer(a.t)
    BY <1>7, <2>4, <2>5, <2>6
  <2> HIDE DEF t
  <2> QED
    BY <1>1, <1>2, <1>5, <1>6, <1>7, <1>9, <2>7 DEF t
<1>10. CASE c.kind = "commit"
  <2> DEFINE d == [c EXCEPT !.pc = "told", !.seen = {}, !.done = {}]
  <2>1. /\ d \in CallType /\ d.pc = "told" /\ d.kind = c.kind /\ d.writes = c.writes
        /\ d.conflict = c.conflict /\ d.failed = c.failed
    BY DEF CallType
  <2>2. call' = d
    BY <1>8, <1>10 DEF NextTarget
  <2> HIDE DEF d
  <2>3. \E a \in CallType : /\ call' = a /\ a.pc = "told" /\ a.kind = call.kind
                            /\ a.writes = call.writes /\ a.conflict = call.conflict
                            /\ a.failed = call.failed
    BY <1>7, <2>1, <2>2
  <2> HIDE DEF t
  <2> QED
    BY <1>1, <1>2, <1>5, <1>6, <1>7, <1>10, <2>3 DEF t
<1>11. CASE c.kind # "commit" /\ ~(c.kind = "sync" /\ After(c.t) # {})
  <2>1. call' = Idle
    BY <1>8, <1>11 DEF NextTarget
  <2> HIDE DEF t
  <2> QED
    BY <1>1, <1>2, <1>5, <1>6, <2>1 DEF t
<1> QED
  BY <1>9, <1>10, <1>11

LEMMA PushEndKeeps ==
    ASSUME Careful, IInv, PushEnd
    PROVE  IInv'
<1> PICK t \in Engine : t = call.t
  BY DEF IInv, TypeOK, CallType
<1>1. /\ call.pc = "push" /\ track = {}
      /\ UNCHANGED <<local, remote, loaded, track, strategy, latest, reached, ops, restarts>>
      /\ dirty' \in [Engine -> Log] /\ \A u \in Engine : u # t => dirty'[u] = dirty[u]
      /\ \A r \in Record : dirty'[t][r] = IF r \in call.done THEN Clean ELSE dirty[t][r]
      /\ Early(latest) => dirty' = dirty /\ meta' \in Blank
  BY PushEndIs
<1>2. \/ call' = Idle
      \/ /\ call.kind = "commit"
         /\ \E c \in CallType : /\ call' = c /\ c.pc = "told" /\ c.kind = call.kind
                                /\ c.writes = call.writes /\ c.conflict = call.conflict
                                /\ c.failed = call.failed
      \/ /\ call.kind = "sync"
         /\ \E c \in CallType, stage \in {"push", "pull"} :
               /\ call' = c /\ c.kind = call.kind /\ c.done = {} /\ c.then = stage
               /\ c.pc \in {stage, "load"} /\ (c.pc = "load" => Early(latest))
               /\ stage = "pull" => c.t = Primary \/ SyncPeer(c.t)
  BY PushEndIs
<1>3. PICK c \in CallType :
         /\ call' = c
         /\ \/ c.pc = "idle" /\ c.kind = "none"
            \/ /\ call.kind = "commit" /\ c.pc = "told" /\ c.kind = "commit" /\ c.writes = call.writes
               /\ c.conflict = call.conflict /\ c.failed = call.failed
            \/ /\ c.kind = "sync" /\ c.done = {} /\ c.pc \in {"push", "pull", "load"}
               /\ c.pc = "load" => Early(latest)
  BY <1>2, CallTypes
<1>4. TypeOK'
  BY <1>1, <1>3 DEF IInv, TypeOK
<1>5. Fresh(local', remote', latest', ops')
  BY <1>1 DEF IInv
<1>6. Records(local', remote', dirty', latest', reached', track')
  <2> SUFFICES ASSUME NEW q \in Record
               PROVE  /\ \A u \in Engine : Fits(dirty'[u][q], local[q], latest[q])
                      /\ \A u \in Target : Copied(remote[u][q], local[q], latest[q])
                      /\ \A u \in Engine : Standing(local[q], latest[q]) =>
                            \/ latest[q] \in reached[u] \/ dirty'[u][q].action # "none"
                            \/ \E k \in track : k.t = u /\ k.r = q
    BY <1>1 DEF Records
  <2>0. /\ \A u \in Engine : Fits(dirty[u][q], local[q], latest[q])
        /\ \A u \in Target : Copied(remote[u][q], local[q], latest[q])
        /\ \A u \in Engine : Standing(local[q], latest[q]) =>
              \/ latest[q] \in reached[u] \/ dirty[u][q].action # "none"
              \/ \E k \in track : k.t = u /\ k.r = q
    BY DEF IInv, Records
  <2>1. \A u \in Engine : dirty'[u][q] = dirty[u][q] \/ (u = t /\ q \in call.done /\ dirty'[u][q] = Clean)
    BY <1>1
  <2>2. Fits(Clean, local[q], latest[q])
    BY DEF Fits, Clean
  <2>3. q \in call.done /\ Standing(local[q], latest[q]) => latest[q] \in reached[t]
    BY <1>1 DEF IInv, Pushing
  <2> QED
    BY <2>0, <2>1, <2>2, <2>3
<1>7. Noting(local', dirty', loaded', track', call', latest', meta')
  <2>1. CASE Early(latest)
    BY <1>1, <1>3, <2>1 DEF IInv, Noting
  <2>2. CASE ~Early(latest)
    BY <1>1, <1>3, <2>2 DEF IInv, Noting
  <2> QED
    BY <2>1, <2>2
<1>8. Pushing(local', call', latest', reached')
  BY <1>3 DEF Pushing
<1>9. Committing(local', dirty', call', latest', reached')
  <2> SUFFICES ASSUME call.kind = "commit", ~call.conflict, ~call.failed
               PROVE  call.writes \subseteq reached[Primary]
    BY <1>1, <1>3 DEF Committing
  <2>1. /\ call.todo = {} /\ call.t = Primary
        /\ \A q \in call.recs \ call.todo :
              dirty[Primary][q].action # "none" /\ (call.conflict \/ Standing(local[q], latest[q]))
        /\ \A w \in call.writes : \E q \in call.recs \ call.todo : latest[q] = w
        /\ call.seen \subseteq call.done
    BY <1>1 DEF IInv, Committing
  <2> SUFFICES ASSUME NEW w \in call.writes PROVE w \in reached[Primary]
    OBVIOUS
  <2>2. PICK q \in call.recs : latest[q] = w /\ dirty[Primary][q].action # "none" /\ Standing(local[q], latest[q])
    BY <2>1
  <2>3. q \in call.done
    BY <2>1, <2>2 DEF PushEnd, Logged
  <2> QED
    BY <1>1, <2>1, <2>2, <2>3 DEF IInv, Pushing
<1> QED
  BY <1>4, <1>5, <1>6, <1>7, <1>8, <1>9 DEF IInv

(* Another device of a sync-peer writes. *)
LEMMA PeerPutKeeps ==
    ASSUME IInv, NEW t \in Target, NEW r \in Record, PeerPut(t, r)
    PROVE  /\ IInv' /\ UNCHANGED <<local, dirty, track, call>> /\ SyncPeer(t)
           /\ \A u \in Target : u # t => remote'[u] = remote[u]
<1>1. /\ UNCHANGED <<local, meta, dirty, loaded, track, call, strategy, latest, reached, ops, restarts>>
      /\ remote \in [Target -> [Record -> Envelope]] /\ SyncPeer(t)
  BY DEF PeerPut, IInv, TypeOK
<1>2. PICK b \in Envelope : b = [v |-> remote[t][r].v + 1, w |-> 0] /\ b.w = 0
  <2>1. [v |-> remote[t][r].v + 1, w |-> 0] \in Envelope
    BY <1>1 DEF Envelope
  <2> QED
    BY <2>1
<1>3. remote' = [remote EXCEPT ![t][r] = b]
  BY <1>2 DEF PeerPut
<1>4. /\ remote' \in [Target -> [Record -> Envelope]]
      /\ \A u \in Target : u # t => remote'[u] = remote[u]
      /\ \A u \in Target, q \in Record : remote'[u][q] = remote[u][q] \/ remote'[u][q] = b
  BY <1>1, <1>3
<1>5. TypeOK'
  BY <1>1, <1>4 DEF IInv, TypeOK
<1>6. Fresh(local', remote', latest', ops')
  <2>1. \A q \in Record : latest[q] <= ops /\ local[q].w <= ops /\ \A u \in Target : remote[u][q].w <= ops
    BY DEF IInv, Fresh
  <2>2. b.w <= ops
    BY <1>2 DEF IInv, TypeOK
  <2>3. \A u \in Target, q \in Record : remote'[u][q].w <= ops
    BY <1>4, <2>1, <2>2
  <2> QED
    BY <1>1, <2>1, <2>3 DEF Fresh
<1>7. Records(local', remote', dirty', latest', reached', track')
  <2>1. ASSUME NEW u \in Target, NEW q \in Record PROVE Copied(remote'[u][q], local[q], latest[q])
    <3>1. Copied(remote[u][q], local[q], latest[q]) /\ Copied(b, local[q], latest[q])
      BY <1>2 DEF IInv, Records, Copied
    <3> QED
      BY <1>4, <3>1
  <2> QED
    BY <1>1, <2>1 DEF IInv, Records
<1> QED
  BY <1>1, <1>4, <1>5, <1>6, <1>7 DEF IInv

-----------------------------------------------------------------------------
(* The invariant. *)
LEMMA InitKeeps == ASSUME Init PROVE IInv /\ BInv
<1> USE DEF Init
<1>1. \A t \in Engine : dirty[t] = NoLog
  OBVIOUS
<1>2. \A r \in Record : local[r] = Missing /\ latest[r] = 0 /\ \A t \in Target : remote[t][r] = Missing
  OBVIOUS
<1>3. TypeOK
  BY CallTypes DEF TypeOK
<1>4. Fresh(local, remote, latest, ops)
  BY <1>2 DEF Fresh, Missing
<1>5. Records(local, remote, dirty, latest, reached, track)
  BY <1>1, <1>2, CallTypes DEF Records, Fits, Copied, Standing
<1>6. Noting(local, dirty, loaded, track, call, latest, meta)
  BY <1>1, <1>2, CallTypes DEF Noting, Early
<1>7. Pushing(local, call, latest, reached) /\ Committing(local, dirty, call, latest, reached)
  BY CallTypes DEF Pushing, Committing
<1>8. BInv
  BY <1>2, CallTypes, TargetFacts DEF BInv, Behind, Silent
<1> QED
  BY <1>3, <1>4, <1>5, <1>6, <1>7, <1>8 DEF IInv

LEMMA Alone == ASSUME Careful, IInv PROVE ~Restart
  BY DEF Careful, IInv, TypeOK, Restart

LEMMA NextKeeps == ASSUME Careful, IInv, [Next]_vars PROVE IInv'
<1>1. ASSUME NEW r \in Record, NEW action \in {"put", "delete"}, AppWrite(r, action) PROVE IInv'
  BY <1>1, AppWriteKeeps
<1>2. ASSUME NEW r \in Record, NEW action \in {"put", "delete"}, CommitWrite(r, action) PROVE IInv'
  BY <1>2, CommitWriteKeeps
<1>3. ASSUME NEW k \in track, TrackLoaded(k) PROVE IInv'
  BY <1>3, TrackLoadedKeeps
<1>4. ASSUME NEW kind \in {"push", "pull", "sync"}, Start(kind) PROVE IInv'
  BY <1>4, StartKeeps
<1>5. ASSUME NEW R \in SUBSET Record, StartCommit(R) PROVE IInv'
  BY <1>5, StartCommitKeeps
<1>6. ASSUME CommitPush \/ Loaded \/ PushEnd PROVE IInv'
  BY <1>6, CommitPushKeeps, LoadedKeeps, PushEndKeeps
<1>7. ASSUME NEW fail \in BOOLEAN, Pull(fail) PROVE IInv'
  BY <1>7, PullKeeps
<1>8. ASSUME NEW r \in Record, NEW fail \in BOOLEAN, PushEntry(r, fail) PROVE IInv'
  BY <1>8, PushEntryKeeps
<1>9. ASSUME NEW t \in Target, NEW r \in Record, PeerPut(t, r) PROVE IInv'
  BY <1>9, PeerPutKeeps
<1>10. ASSUME UNCHANGED vars PROVE IInv'
  <2>1. UNCHANGED <<local, remote, meta, dirty, loaded, track, call, strategy, latest, reached, ops, restarts>>
    BY <1>10 DEF vars, counts
  <2>2. TypeOK'
    BY <2>1 DEF IInv, TypeOK
  <2> QED
    BY <2>1, <2>2 DEF IInv
<1> QED
  BY <1>1, <1>2, <1>3, <1>4, <1>5, <1>6, <1>7, <1>8, <1>9, <1>10, Alone DEF Next

LEMMA Reaches == ASSUME IInv PROVE WritesReachTargets
<1>1. ASSUME NEW t \in Engine, NEW r \in Record, Stands(r)
      PROVE  latest[r] \in reached[t] \/ (t \in Engine /\ (Logged(LogOf(t), r) \/ Announced(t, r)))
  <2>1. \/ latest[r] \in reached[t] \/ dirty[t][r].action # "none"
        \/ \E k \in track : k.t = t /\ k.r = r
    BY <1>1 DEF IInv, Records, Standing, Stands
  <2>2. CASE loaded[t]
    BY <2>1, <2>2 DEF LogOf, Logged, Announced
  <2>3. CASE ~loaded[t]
    <3>1. dirty[t][r].action = "none"
      BY <2>3, CallTypes DEF IInv, Noting
    <3> QED
      BY <2>1, <3>1 DEF Announced
  <2> QED
    BY <2>2, <2>3
<1>2. TargetsTracked
  BY <1>1 DEF TargetsTracked, Tracked
<1>3. CommittedReached
  BY DEF CommittedReached, IInv, Committing
<1> QED
  BY <1>2, <1>3 DEF WritesReachTargets

(* As long as the application's last word on a record stands, each target has it or    *)
(* the log of that target's engine knows (noydb.ts onDirty, sync.ts trackChange), and  *)
(* what SyncTransaction.commit reports as committed, without a conflict or a failed    *)
(* call, is on the primary target: however many targets there are and whatever their   *)
(* roles, as long as calls wait for a log that is being loaded, the device is not      *)
(* restarted, and no strategy lets an older version win.                               *)
THEOREM TargetsServed == Careful => (Spec => []WritesReachTargets)
<1> SUFFICES ASSUME Careful PROVE Spec => []WritesReachTargets
  OBVIOUS
<1>1. Init => IInv
  BY InitKeeps
<1>2. IInv /\ [Next]_vars => IInv'
  BY NextKeeps
<1>3. IInv => WritesReachTargets
  BY Reaches
<1> QED
  BY <1>1, <1>2, <1>3, PTL DEF Spec

-----------------------------------------------------------------------------
(* Push-only targets.  A deleted record is not written again as long as the *)
(* log has the delete, and the calls start at a sync-peer.                  *)
PeerFirst == "recreate" \notin Allowed /\ \E t \in Target : SyncPeer(t)

(* Steps that leave the stores and logs alone. *)
LEMMA CallBehind ==
    ASSUME BInv, UNCHANGED <<local, remote, dirty, track>>, Silent(remote, dirty, call')
    PROVE  BInv'
<1>1. Behind(local', remote', dirty', track')
  BY DEF BInv
<1> QED
  BY <1>1 DEF BInv

LEMMA StartBehind ==
    ASSUME Careful, PeerFirst, IInv, BInv, NEW kind \in {"push", "pull", "sync"}, Start(kind)
    PROVE  BInv'
<1>1. UNCHANGED <<local, remote, dirty, track>>
  BY DEF Start
<1>2. call'.t = Primary /\ call'.done = {}
  BY StartKeeps
<1>3. SyncPeer(Primary)
  BY TargetFacts DEF PeerFirst
<1> QED
  BY <1>1, <1>2, <1>3, CallBehind DEF Silent

LEMMA CommitBehind ==
    ASSUME Careful, IInv, BInv, (\E R \in SUBSET Record : StartCommit(R)) \/ CommitPush
    PROVE  BInv'
<1>1. UNCHANGED <<local, remote, dirty, track>>
  BY DEF StartCommit, CommitPush
<1>2. call'.pc = "write" \/ (call'.pc = "push" /\ call'.done = {})
  BY StartCommitKeeps, CommitPushKeeps
<1> QED
  BY <1>1, <1>2, CallBehind DEF Silent

LEMMA LoadedBehind ==
    ASSUME IInv, BInv, Loaded
    PROVE  BInv'
<1>1. UNCHANGED <<local, remote, track>> /\ call.pc = "load"
  BY DEF Loaded
<1>2. dirty' = dirty /\ call'.t = call.t /\ call'.pc = call.then /\ call.t \in Engine
  BY LoadedKeeps DEF IInv, TypeOK, CallType
<1>3. dirty[call.t] = NoLog /\ call'.done \in SUBSET Record
  BY <1>1, <1>2, LoadedKeeps DEF IInv, Noting, TypeOK, CallType
<1>4. Silent(remote, dirty, call')
  <2>1. call.then \in {"push", "pull"}
    BY DEF IInv, TypeOK, CallType
  <2>2. call'.pc = "pull" => SyncPeer(call'.t)
    BY <1>1, <1>2 DEF BInv, Silent
  <2>3. \A r \in call'.done : dirty[call'.t][r].action = "none"
    BY <1>2, <1>3, CallTypes
  <2> QED
    BY <1>2, <2>1, <2>2, <2>3 DEF Silent
<1> QED
  BY <1>1, <1>2, <1>4, CallBehind

LEMMA TrackLoadedBehind ==
    ASSUME IInv, BInv, NEW k \in track, TrackLoaded(k)
    PROVE  BInv'
<1>1. /\ call.pc = "idle" /\ call' = call /\ local' = local /\ remote' = remote
      /\ track' = track \ {k} /\ k.t \in Engine /\ k.r \in Record
      /\ dirty'[k.t][k.r] = k.entry
      /\ \A t \in Engine : t # k.t => dirty'[t] = dirty[t]
      /\ dirty[k.t] = NoLog
  BY TrackLoadedKeeps
<1>2. ASSUME NEW t \in Engine, NEW r \in Record, Doomed(dirty, track, t, r)
      PROVE  Doomed(dirty', track', t, r)
  <2>1. CASE dirty[t][r].action = "delete"
    BY <1>1, <2>1, CallTypes DEF Doomed
  <2>2. CASE \E j \in track : j.t = t /\ j.r = r /\ j.entry.action = "delete"
    <3>1. PICK j \in track : j.t = t /\ j.r = r /\ j.entry.action = "delete"
      BY <2>2
    <3>2. CASE j = k
      BY <1>1, <3>1, <3>2 DEF Doomed
    <3>3. CASE j # k
      BY <1>1, <3>1, <3>3 DEF Doomed
    <3> QED
      BY <3>2, <3>3
  <2> QED
    BY <1>2, <2>1, <2>2 DEF Doomed
<1>3. Behind(local', remote', dirty', track')
  BY <1>1, <1>2 DEF BInv, Behind
<1>4. Silent(remote', dirty', call')
  BY <1>1 DEF Silent
<1> QED
  BY <1>3, <1>4 DEF BInv

LEMMA WriteBehind ==
    ASSUME PeerFirst, IInv, BInv, NEW r \in Record, NEW action \in {"put", "delete"}, NEW e \in Entry,
           Write(r, action), Written(r, action, e), track = {}, remote' = remote,
           call'.pc \in {"idle", "write"}
    PROVE  BInv' /\ ops' # ops
<1>0. ops \in Nat /\ local \in [Record -> Envelope] /\ remote \in [Target -> [Record -> Envelope]]
  BY DEF IInv, TypeOK
<1>1. ASSUME NEW t \in Engine, NEW q \in Record, ~SyncPeer(t), Exists(remote[t][q])
      PROVE  (Exists(local'[q]) /\ remote[t][q].v <= local'[q].v) \/ Doomed(dirty', track', t, q)
  <2>1. (Exists(local[q]) /\ remote[t][q].v <= local[q].v) \/ dirty[t][q].action = "delete"
    BY <1>1 DEF BInv, Behind, Doomed
  <2>2. CASE q # r
    BY <2>1, <2>2 DEF Written, Doomed
  <2>3. CASE q = r /\ action = "put"
    <3>1. dirty[t][r].action # "delete"
      BY <2>3 DEF Write, PeerFirst
    <3>2. remote[t][q].v \in Nat /\ local[q].v \in Nat
      BY <1>0, TargetFacts DEF Envelope
    <3>3. local'[r].v = local[r].v + 1
      BY <2>3 DEF Written
    <3> QED
      BY <2>1, <2>3, <3>1, <3>2, <3>3 DEF Exists
  <2>4. CASE q = r /\ action = "delete"
    <3>1. CASE loaded[t]
      BY <2>4, <3>1 DEF Written, Doomed
    <3>2. CASE ~loaded[t]
      <4>1. Notes(t, r, e) \in track' /\ e.action = "delete"
        BY <2>4, <3>2 DEF Written
      <4>2. LET k == Notes(t, r, e) IN k.t = t /\ k.r = r /\ k.entry = e
        BY DEF Notes
      <4> QED
        BY <2>4, <4>1, <4>2 DEF Doomed
    <3> QED
      BY <3>1, <3>2
  <2> QED
    BY <2>2, <2>3, <2>4
<1>2. Behind(local', remote', dirty', track')
  BY <1>1 DEF Behind
<1>3. Silent(remote', dirty', call')
  BY DEF Silent
<1> QED
  BY <1>0, <1>2, <1>3 DEF BInv, Written

LEMMA PullBehind ==
    ASSUME Careful, IInv, BInv, NEW fail \in BOOLEAN, Pull(fail)
    PROVE  BInv' /\ SyncPeer(call.t)
<1> PICK t \in Engine : t = call.t
  BY DEF IInv, TypeOK, CallType
<1>1. /\ call.pc = "pull" /\ track = {} /\ track' = track /\ remote' = remote
      /\ \A r \in Record : (local'[r] = local[r] /\ dirty'[t][r] = dirty[t][r]) \/ Taken(t, r)
      /\ \A u \in Engine : u # t => dirty'[u] = dirty[u]
      /\ call' = IF call.kind = "pull" THEN Idle ELSE [call EXCEPT !.pc = "push"]
  BY PullIs
<1>2. SyncPeer(t)
  BY <1>1 DEF BInv, Silent
<1>0. /\ local \in [Record -> Envelope] /\ remote \in [Target -> [Record -> Envelope]] /\ call \in CallType
  BY DEF IInv, TypeOK
<1>3. ASSUME NEW u \in Engine, NEW q \in Record, ~SyncPeer(u), Exists(remote[u][q])
      PROVE  (Exists(local'[q]) /\ remote[u][q].v <= local'[q].v) \/ Doomed(dirty', track', u, q)
  <2>1. (Exists(local[q]) /\ remote[u][q].v <= local[q].v) \/ dirty[u][q].action = "delete"
    BY <1>1, <1>3 DEF BInv, Behind, Doomed
  <2>2. dirty'[u] = dirty[u]
    BY <1>1, <1>2, <1>3
  <2>3. CASE local'[q] = local[q]
    BY <2>1, <2>2, <2>3 DEF Doomed
  <2>4. CASE Taken(t, q)
    <3>1. remote[u][q].v \in Nat /\ remote[t][q].v \in Nat /\ local[q].v \in Nat
      BY <1>0, TargetFacts DEF Envelope
    <3> QED
      BY <2>1, <2>2, <2>4, <3>1 DEF Taken, Doomed
  <2> QED
    BY <1>1, <2>3, <2>4
<1>4. Behind(local', remote', dirty', track')
  BY <1>1, <1>3 DEF Behind
<1>5. Silent(remote', dirty', call')
  <2>1. call'.pc = "idle" \/ (call'.pc = "push" /\ call'.t = t)
    BY <1>0, <1>1, CallTypes, Steps
  <2> QED
    BY <1>2, <2>1 DEF Silent
<1> QED
  BY <1>2, <1>4, <1>5 DEF BInv

LEMMA PushEntryBehind ==
    ASSUME Careful, IInv, BInv, NEW r \in Record, NEW fail \in BOOLEAN, PushEntry(r, fail)
    PROVE  BInv' /\ (SyncPeer(call.t) \/ local' = local)
<1> PICK t \in Engine : t = call.t /\ t \in Target
  BY TargetFacts DEF IInv, TypeOK, CallType
<1>p. Pushed(t, r, fail) /\ \E d \in CallType : GoesOn(t, r, fail, d)
  BY PushEntryIs
<1>1. /\ call.pc = "push" /\ track = {} /\ track' = track /\ dirty' = dirty
      /\ \A q \in Record \ {r} : local'[q] = local[q] /\ remote'[t][q] = remote[t][q]
      /\ \A u \in Target : u # t => remote'[u] = remote[u]
  BY <1>p DEF Pushed
<1>2. IF fail THEN UNCHANGED <<local, remote>> ELSE Overruled(t, r) \/ Sent(t, r)
  BY <1>p DEF Pushed
<1>3. PICK d \in CallType : /\ call' = d /\ d.pc = call.pc /\ d.t = call.t
                            /\ d.done = (IF fail THEN call.done ELSE call.done \cup {r})
  BY <1>p DEF GoesOn
<1>0. /\ local \in [Record -> Envelope] /\ remote \in [Target -> [Record -> Envelope]]
      /\ call \in CallType /\ dirty \in [Engine -> Log]
  BY DEF IInv, TypeOK
<1>4. \A u \in Target, q \in Record : remote[u][q].v \in Nat /\ local[q].v \in Nat
  BY <1>0 DEF Envelope
<1>5. ASSUME Overruled(t, r) PROVE SyncPeer(t)
  <2>1. /\ Exists(remote[t][r]) /\ remote[t][r].v > local[r].v /\ dirty[t][r].action = "put"
    BY <1>5 DEF Overruled
  <2> QED
    BY <1>1, <1>4, <2>1 DEF BInv, Behind, Doomed
<1>6. SyncPeer(t) \/ local' = local
  BY <1>2, <1>5 DEF Sent
<1>7. ASSUME NEW u \in Engine, NEW q \in Record, ~SyncPeer(u), Exists(remote'[u][q])
      PROVE  (Exists(local'[q]) /\ remote'[u][q].v <= local'[q].v) \/ Doomed(dirty', track', u, q)
  <2>0. u \in Target
    BY TargetFacts
  <2>1. Exists(remote[u][q]) =>
           (Exists(local[q]) /\ remote[u][q].v <= local[q].v) \/ Doomed(dirty', track', u, q)
    BY <1>1, <1>7 DEF BInv, Behind
  <2>2. CASE q # r
    <3>1. remote'[u][q] = remote[u][q] /\ local'[q] = local[q]
      BY <1>1, <2>0, <2>2
    <3> QED
      BY <1>7, <2>1, <3>1
  <2>3. CASE q = r /\ fail
    BY <1>2, <1>7, <2>1, <2>3
  <2>4. CASE q = r /\ ~fail /\ Overruled(t, r)
    <3>1. remote' = remote /\ local'[r] = remote[t][r] /\ Exists(remote[t][r]) /\ remote[t][r].v > local[r].v
      BY <2>4 DEF Overruled
    <3> QED
      BY <1>4, <1>7, <2>0, <2>1, <2>4, <3>1
  <2>5. CASE q = r /\ ~fail /\ Sent(t, r) /\ u # t
    <3>1. remote'[u][q] = remote[u][q] /\ local' = local
      BY <1>1, <2>0, <2>5 DEF Sent
    <3> QED
      BY <1>7, <2>1, <3>1
  <2>6. CASE q = r /\ ~fail /\ Sent(t, r) /\ u = t
    <3>1. remote'[t][r] = local[r] /\ local' = local
      BY <1>7, <2>6, CallTypes DEF Sent
    <3> QED
      BY <1>4, <1>7, <2>6, <3>1
  <2> QED
    BY <1>2, <2>2, <2>3, <2>4, <2>5, <2>6
<1>8. Behind(local', remote', dirty', track')
  BY <1>7 DEF Behind
<1>9. Silent(remote', dirty', call')
  <2> SUFFICES ASSUME ~SyncPeer(t), NEW q \in d.done, dirty[t][q].action = "delete"
               PROVE  ~Exists(remote'[t][q])
    BY <1>1, <1>3 DEF Silent
  <2>1. CASE q = r /\ ~fail
    <3>1. Sent(t, r)
      BY <1>2, <1>5, <2>1
    <3> QED
      BY <2>1, <3>1, CallTypes DEF Sent
  <2>2. CASE q \in call.done /\ (q # r \/ fail)
    <3>1. ~Exists(remote[t][q]) /\ q \in Record
      BY <1>0, <1>1, <2>2 DEF BInv, Silent, CallType
    <3> QED
      BY <1>1, <1>2, <2>2, <3>1
  <2> QED
    BY <1>3, <2>1, <2>2
<1> QED
  BY <1>6, <1>8, <1>9 DEF BInv

LEMMA PushEndBehind ==
    ASSUME Careful, PeerFirst, IInv, BInv, PushEnd
    PROVE  BInv'
<1> PICK t \in Engine : t = call.t
  BY DEF IInv, TypeOK, CallType
<1>1. /\ call.pc = "push" /\ track = {} /\ UNCHANGED <<local, remote, track>>
      /\ \A u \in Engine : u # t => dirty'[u] = dirty[u]
      /\ \A r \in Record : dirty'[t][r] = IF r \in call.done THEN Clean ELSE dirty[t][r]
  BY PushEndIs
<1>2. \/ call' = Idle
      \/ /\ call.kind = "commit"
         /\ \E c \in CallType : call' = c /\ c.pc = "told"
      \/ /\ call.kind = "sync"
         /\ \E c \in CallType, stage \in {"push", "pull"} :
               /\ call' = c /\ c.done = {} /\ c.then = stage /\ c.pc \in {stage, "load"}
               /\ stage = "pull" => c.t = Primary \/ SyncPeer(c.t)
  BY PushEndIs
<1>3. SyncPeer(Primary)
  BY TargetFacts DEF PeerFirst
<1>4. Silent(remote', dirty', call')
  BY <1>2, <1>3, CallTypes DEF Silent
<1>5. ASSUME NEW u \in Engine, NEW q \in Record, ~SyncPeer(u), Exists(remote[u][q])
      PROVE  (Exists(local[q]) /\ remote[u][q].v <= local[q].v) \/ Doomed(dirty', track', u, q)
  <2>1. (Exists(local[q]) /\ remote[u][q].v <= local[q].v) \/ dirty[u][q].action = "delete"
    BY <1>1, <1>5 DEF BInv, Behind, Doomed
  <2>2. CASE u # t \/ q \notin call.done
    BY <1>1, <2>1, <2>2 DEF Doomed
  <2>3. CASE u = t /\ q \in call.done
    BY <1>1, <1>5, <2>1, <2>3 DEF BInv, Silent
  <2> QED
    BY <2>2, <2>3
<1>6. Behind(local', remote', dirty', track')
  BY <1>1, <1>5 DEF Behind
<1> QED
  BY <1>4, <1>6 DEF BInv

LEMMA PeerPutBehind ==
    ASSUME IInv, BInv, NEW t \in Target, NEW r \in Record, PeerPut(t, r)
    PROVE  BInv'
<1>1. /\ UNCHANGED <<local, dirty, track, call>>
      /\ \A u \in Engine : ~SyncPeer(u) => remote'[u] = remote[u]
  BY PeerPutKeeps, TargetFacts
<1>2. Behind(local', remote', dirty', track')
  BY <1>1 DEF BInv, Behind
<1>3. call.t \in Engine
  BY DEF IInv, TypeOK, CallType
<1>4. Silent(remote', dirty', call')
  BY <1>1, <1>3 DEF BInv, Silent
<1> QED
  BY <1>2, <1>4 DEF BInv

Quiet == ~SyncPeer(call.t) /\ ops' = ops => local' = local

LEMMA NextSilent == ASSUME Careful, PeerFirst, IInv, BInv, [Next]_vars PROVE BInv' /\ Quiet
<1>1. ASSUME NEW r \in Record, NEW action \in {"put", "delete"}, AppWrite(r, action) PROVE BInv' /\ Quiet
  <2>1. PICK e \in Entry : Written(r, action, e)
    BY <1>1, AppWriteKeeps
  <2>2. Write(r, action) /\ track = {} /\ remote' = remote /\ call'.pc \in {"idle", "write"}
    BY <1>1, AppWriteKeeps, CallTypes DEF AppWrite
  <2> QED
    BY <2>1, <2>2, WriteBehind DEF Quiet
<1>2. ASSUME NEW r \in Record, NEW action \in {"put", "delete"}, CommitWrite(r, action) PROVE BInv' /\ Quiet
  <2>1. PICK e \in Entry : Written(r, action, e)
    BY <1>2, CommitWriteKeeps
  <2>2. Write(r, action) /\ track = {} /\ remote' = remote /\ call'.pc \in {"idle", "write"}
    BY <1>2, CommitWriteKeeps DEF CommitWrite
  <2> QED
    BY <2>1, <2>2, WriteBehind DEF Quiet
<1>3. ASSUME NEW k \in track, TrackLoaded(k) PROVE BInv' /\ Quiet
  BY <1>3, TrackLoadedBehind DEF TrackLoaded, Quiet
<1>4. ASSUME NEW kind \in {"push", "pull", "sync"}, Start(kind) PROVE BInv' /\ Quiet
  BY <1>4, StartBehind DEF Start, Quiet
<1>5. ASSUME NEW R \in SUBSET Record, StartCommit(R) PROVE BInv' /\ Quiet
  BY <1>5, CommitBehind DEF StartCommit, Quiet
<1>6. ASSUME CommitPush \/ Loaded \/ PushEnd PROVE BInv' /\ Quiet
  BY <1>6, CommitBehind, LoadedBehind, PushEndBehind DEF CommitPush, Loaded, PushEnd, Quiet
<1>7. ASSUME NEW fail \in BOOLEAN, Pull(fail) PROVE BInv' /\ Quiet
  BY <1>7, PullBehind DEF Quiet
<1>8. ASSUME NEW r \in Record, NEW fail \in BOOLEAN, PushEntry(r, fail) PROVE BInv' /\ Quiet
  BY <1>8, PushEntryBehind DEF Quiet
<1>9. ASSUME NEW t \in Target, NEW r \in Record, PeerPut(t, r) PROVE BInv' /\ Quiet
  BY <1>9, PeerPutBehind DEF PeerPut, Quiet
<1>10. ASSUME UNCHANGED vars PROVE BInv' /\ Quiet
  BY <1>10 DEF vars, BInv, Quiet
<1> QED
  BY <1>1, <1>2, <1>3, <1>4, <1>5, <1>6, <1>7, <1>8, <1>9, <1>10, Alone DEF Next

(* A push-only target has no say in what the local store holds (noydb.ts, SyncTarget   *)
(* roles; sync.ts push): nothing but a write of the application changes it while a     *)
(* call is at such a target.  Besides what TargetsServed asks, there is a sync-peer    *)
(* for a call to start at, and a record is not written again while its delete waits.   *)
THEOREM PushOnlyAlways == Careful /\ PeerFirst => (Spec => PushOnlySilent)
<1> SUFFICES ASSUME Careful, PeerFirst PROVE Spec => PushOnlySilent
  OBVIOUS
<1>1. Init => IInv /\ BInv
  BY InitKeeps
<1>2. IInv /\ BInv /\ [Next]_vars => (IInv /\ BInv)'
  BY NextKeeps, NextSilent
<1>3. IInv /\ BInv /\ [Next]_vars => [(~SyncPeer(call.t) /\ ops' = ops) => local' = local]_vars
  BY NextSilent DEF Quiet
<1> QED
  BY <1>1, <1>2, <1>3, PTL DEF Spec, PushOnlySilent
-----------------------------------------------------------------------------
(***************************************************************************)
(* Presence, which MCPeers checks beside the targets.                     *)
(***************************************************************************)
\* The records of presence, and what polls and subscribers have of them.
Sighting == [by : User, n : Nat, seen : Nat]
RecType == [n : Nat, seen : Nat, iv : {"", "generated"}, sealed : {"", "encrypt's"}]
UpdateType == [pc : {"idle", "publish", "write"}, seen : Nat]
PollType == [pc : {"idle", "list", "get"}, todo : SUBSET User, cutoff : Int,
             got : SUBSET Sighting, began : [User -> Nat]]
HeardType == [got : SUBSET Sighting, cutoff : Int, began : [User -> Nat]]
PresenceTyped ==
    /\ now \in Nat
    /\ rec \in [User -> RecType]
    /\ update \in [User -> UpdateType]
    /\ poll \in [User -> [Slot -> PollType]]
    /\ heard \in [User -> HeardType]

\* What is got of the peers of u: none that is stale or older than it was at first.
Truthful(u, h) == \A e \in h.got : e.by # u /\ e.seen >= h.cutoff /\ e.n >= h.began[e.by]
\* A peer that was there and is as it was is among them, or still to be read.
Complete(u, h, todo, r) ==
    \A w \in User \ {u} : (h.began[w] > 0 /\ r[w].n = h.began[w] /\ r[w].seen >= h.cutoff)
        => w \in todo \/ \E e \in h.got : e.by = w
\* Nobody's record goes back.
Onward(h, r) == \A w \in User : h.began[w] <= r[w].n

PollFits(u, p, r) ==
    /\ Onward(p, r)
    /\ p.pc = "list" => p.got = {}
    /\ p.pc = "get" => Truthful(u, p) /\ Complete(u, p, p.todo, r) /\ u \notin p.todo
HeardFits(u, h, r) ==
    /\ Onward(h, r) /\ Truthful(u, h)
    /\ h.cutoff > 0 => Complete(u, h, {}, r)

Polling ==
    /\ PresenceTyped
    /\ \A u \in User : HeardFits(u, heard[u], rec)
    /\ \A u \in User : \A s \in Slot : PollFits(u, poll[u][s], rec)

\* A record that is written again is another one: what fitted the old records fits the new.
LEMMA StillFits ==
    ASSUME NEW r \in [User -> RecType], NEW q \in [User -> RecType],
           \A w \in User : q[w] = r[w] \/ q[w].n > r[w].n, NEW u \in User
    PROVE  /\ \A p \in PollType : PollFits(u, p, r) => PollFits(u, p, q)
           /\ \A h \in HeardType : HeardFits(u, h, r) => HeardFits(u, h, q)
<1>1. \A w \in User : r[w].n \in Nat /\ q[w].n \in Nat
  BY DEF RecType
<1>2. ASSUME NEW h, h.began \in [User -> Nat], Onward(h, r), NEW todo
      PROVE  Onward(h, q) /\ (Complete(u, h, todo, r) => Complete(u, h, todo, q))
  BY <1>1, <1>2 DEF Onward, Complete
<1>3. ASSUME NEW p \in PollType, PollFits(u, p, r) PROVE PollFits(u, p, q)
  BY <1>2, <1>3 DEF PollFits, PollType
<1>4. ASSUME NEW h \in HeardType, HeardFits(u, h, r) PROVE HeardFits(u, h, q)
  BY <1>2, <1>4 DEF HeardFits, HeardType
<1> QED BY <1>3, <1>4

NewPoll == [pc |-> "idle", todo |-> {}, cutoff |-> 0, got |-> {}, began |-> [u \in User |-> 0]]
BegunPoll(r) == [pc |-> "list", todo |-> {}, cutoff |-> 0, got |-> {}, began |-> [w \in User |-> r[w].n]]

LEMMA NothingYet ==
    ASSUME PresenceTyped, NEW u \in User
    PROVE  /\ Presence!NoPoll = NewPoll /\ NewPoll \in PollType /\ PollFits(u, NewPoll, rec)
           /\ Presence!Nothing \in HeardType /\ HeardFits(u, Presence!Nothing, rec)
<1>1. \A w \in User : rec[w].n \in Nat
  BY DEF PresenceTyped, RecType
<1>2. Presence!NoPoll = NewPoll /\ NewPoll \in PollType
  BY DEF Presence!NoPoll, NewPoll, PollType
<1>3. PollFits(u, NewPoll, rec)
  BY <1>1 DEF PollFits, NewPoll, Onward
<1>4. Presence!Nothing \in HeardType /\ HeardFits(u, Presence!Nothing, rec)
  BY <1>1 DEF HeardFits, Presence!Nothing, HeardType, Onward, Truthful
<1> QED BY <1>2, <1>3, <1>4

LEMMA BegunFits ==
    ASSUME PresenceTyped, NEW u \in User, NEW s \in Slot
    PROVE  /\ Presence!Begins(u, s) = [poll EXCEPT ![u][s] = BegunPoll(rec)]
           /\ BegunPoll(rec) \in PollType /\ PollFits(u, BegunPoll(rec), rec)
<1>1. PICK B : B = [w \in User |-> rec[w].n]
  OBVIOUS
<1>2. PICK F : F = NewPoll
  OBVIOUS
<1>a. F \in PollType /\ F.pc = "idle" /\ F.todo = {} /\ F.cutoff = 0 /\ F.got = {}
  BY <1>2, NothingYet DEF NewPoll
<1>b. B \in [User -> Nat]
  BY <1>1 DEF PresenceTyped, RecType
<1>3. PICK m : m = [F EXCEPT !.pc = "list", !.began = B]
  OBVIOUS
<1>4. PICK n : n = [pc |-> "list", todo |-> {}, cutoff |-> 0, got |-> {}, began |-> B]
  OBVIOUS
<1>5. m \in PollType /\ m.pc = "list" /\ m.todo = {} /\ m.cutoff = 0 /\ m.got = {} /\ m.began = B
  BY <1>a, <1>b, <1>3 DEF PollType
<1>6. n \in PollType
  BY <1>b, <1>4 DEF PollType
<1>c. m = n
  <2>1. m = [pc |-> m.pc, todo |-> m.todo, cutoff |-> m.cutoff, got |-> m.got, began |-> m.began]
    BY <1>5 DEF PollType
  <2> QED BY <1>4, <1>5, <2>1
<1>d. BegunPoll(rec) = [pc |-> "list", todo |-> {}, cutoff |-> 0, got |-> {}, began |-> B]
  BY <1>1 DEF BegunPoll
<1>e. Presence!Begins(u, s) = [poll EXCEPT ![u][s] = BegunPoll(rec)]
  BY <1>1, <1>2, <1>3, <1>4, <1>c, <1>d, NothingYet DEF Presence!Begins
<1>7. \A w \in User : rec[w].n \in Nat
  BY DEF PresenceTyped, RecType
<1>8. BegunPoll(rec) \in PollType
  BY <1>4, <1>6, <1>d
<1>9. PollFits(u, BegunPoll(rec), rec)
  BY <1>7 DEF PollFits, BegunPoll, Onward
<1> QED BY <1>e, <1>8, <1>9

\* A step of a poll: u's poll s becomes p.
LEMMA PollBecomes ==
    ASSUME Polling, NEW u \in User, NEW s \in Slot, NEW p \in PollType, PollFits(u, p, rec),
           poll' = [poll EXCEPT ![u][s] = p], UNCHANGED <<now, rec, update, heard>>
    PROVE  Polling'
<1>1. poll' \in [User -> [Slot -> PollType]]
  BY DEF Polling, PresenceTyped
<1>2. ASSUME NEW v \in User, NEW t \in Slot PROVE PollFits(v, poll'[v][t], rec)
  BY DEF Polling, PresenceTyped
<1> QED BY <1>1, <1>2 DEF Polling, PresenceTyped

LEMMA ListStep ==
    ASSUME Polling, PresenceAssumption, NEW u \in User, NEW s \in Slot, Presence!List(u, s)
    PROVE  Polling'
<1>1. PICK P \in PollType : P = poll[u][s] /\ P.pc = "list" /\ PollFits(u, P, rec)
  BY DEF Polling, PresenceTyped, Presence!List
<1>2. PICK T \in SUBSET User : T = {w \in User : rec[w].n > 0} \ {u}
  OBVIOUS
<1>3. PICK C \in Int : C = now - Stale
  BY DEF Polling, PresenceTyped, PresenceAssumption, Presence!PresenceAssumption
<1>4. PICK p : p = [P EXCEPT !.pc = "get", !.cutoff = C, !.todo = T]
  OBVIOUS
<1>5. p \in PollType /\ p.pc = "get" /\ p.cutoff = C /\ p.todo = T /\ p.got = P.got /\ p.began = P.began
  BY <1>4 DEF PollType
<1>6. poll' = [poll EXCEPT ![u][s].pc = "get", ![u][s].cutoff = C, ![u][s].todo = T]
  BY <1>2, <1>3 DEF Presence!List, Presence!Cutoff, Presence!Skipped
<1>7. poll' = [poll EXCEPT ![u][s] = p]
  BY <1>1, <1>4, <1>6, ZenonT(60) DEF Polling, PresenceTyped
<1>8. \A w \in User : rec[w].n \in Nat
  BY DEF Polling, PresenceTyped, RecType
<1>9. PollFits(u, p, rec)
  BY <1>1, <1>2, <1>5, <1>8 DEF PollFits, PollType, Truthful, Complete, Onward
<1> QED BY <1>5, <1>7, <1>9, PollBecomes DEF Presence!List

LEMMA GetStep ==
    ASSUME Polling, NEW u \in User, NEW s \in Slot, NEW w \in User, Presence!Get(u, s, w)
    PROVE  Polling'
<1> DEFINE P == poll[u][s]
<1>1. P \in PollType /\ P.pc = "get" /\ PollFits(u, P, rec) /\ w \in P.todo
  BY DEF Polling, PresenceTyped, Presence!Get
<1>2. \A v \in User : rec[v].n \in Nat /\ rec[v].seen \in Nat
  BY DEF Polling, PresenceTyped, RecType
<1>a. P.cutoff \in Int /\ P.began \in [User -> Nat]
  BY <1>1 DEF PollType
<1>b. /\ Presence!IsStale(rec[w], P.cutoff) => ~(rec[w].seen >= P.cutoff)
      /\ ~Presence!IsStale(rec[w], P.cutoff) => rec[w].seen >= P.cutoff
  BY <1>2, <1>a DEF Presence!IsStale
<1>c. rec[w].n >= P.began[w] /\ u # w
  BY <1>1, <1>2, <1>a DEF PollFits, Onward
<1>3. PresenceTyped
  BY DEF Polling
<1>4. CASE Presence!IsStale(rec[w], P.cutoff)
  <2> DEFINE p == [P EXCEPT !.todo = @ \ {w}]
  <2>1. p \in PollType /\ p.pc = "get" /\ p.todo = P.todo \ {w} /\ p.cutoff = P.cutoff
        /\ p.got = P.got /\ p.began = P.began
    BY <1>1 DEF PollType
  <2>2. ~(rec[w].seen >= P.cutoff)
    BY <1>4, <1>b
  <2> HIDE DEF p
  <2>3. PollFits(u, p, rec)
    BY <1>1, <2>1, <2>2 DEF PollFits, Truthful, Complete, Onward
  <2>4. poll' = [poll EXCEPT ![u][s] = p]
    BY <1>4 DEF Presence!Get, p
  <2> QED BY <2>1, <2>3, <2>4, PollBecomes DEF Presence!Get
<1>5. CASE ~Presence!IsStale(rec[w], P.cutoff) /\ Presence!Opens(u, rec[w])
  <2>1. PICK x \in Sighting : x = [by |-> w, n |-> rec[w].n, seen |-> rec[w].seen]
    BY <1>2 DEF Sighting
  <2>2. PICK Q : Q = P
    OBVIOUS
  <2>3. PICK p : p = [Q EXCEPT !.todo = @ \ {w}, !.got = @ \cup {x}]
    OBVIOUS
  <2>4. p \in PollType /\ p.pc = "get" /\ p.todo = Q.todo \ {w} /\ p.cutoff = Q.cutoff
        /\ p.got = Q.got \cup {x} /\ p.began = Q.began
    BY <1>1, <2>1, <2>2, <2>3 DEF PollType
  <2>5. x.by = w /\ x.seen >= Q.cutoff /\ x.n >= Q.began[w] /\ u # w
    BY <1>5, <1>b, <1>c, <2>1, <2>2
  <2>6. poll' = [poll EXCEPT ![u][s] = p]
    BY <1>5, <2>1, <2>2, <2>3 DEF Presence!Get
  <2>7. PollFits(u, p, rec)
    BY <1>1, <2>2, <2>4, <2>5 DEF PollFits, Truthful, Complete, Onward
  <2> QED BY <2>4, <2>6, <2>7, PollBecomes DEF Presence!Get
<1>6. CASE ~Presence!IsStale(rec[w], P.cutoff) /\ ~Presence!Opens(u, rec[w])
  <2>1. poll' = [poll EXCEPT ![u][s] = NewPoll]
    BY <1>6, <1>3, NothingYet DEF Presence!Get
  <2> QED BY <1>3, <2>1, NothingYet, PollBecomes DEF Presence!Get
<1> QED BY <1>4, <1>5, <1>6

LEMMA DeliverStep ==
    ASSUME Polling, NEW u \in User, NEW s \in Slot, Presence!Deliver(u, s)
    PROVE  Polling'
<1> DEFINE P == poll[u][s]
           h == [got |-> P.got, cutoff |-> P.cutoff, began |-> P.began]
<1>1. P \in PollType /\ P.pc = "get" /\ PollFits(u, P, rec) /\ P.todo = {}
  BY DEF Polling, PresenceTyped, Presence!Deliver
<1>2. h \in HeardType /\ HeardFits(u, h, rec)
  BY <1>1 DEF PollType, HeardType, PollFits, HeardFits, Truthful, Complete, Onward
<1>3. PresenceTyped
  BY DEF Polling
<1>4. poll' = [poll EXCEPT ![u][s] = NewPoll]
  BY <1>3, NothingYet DEF Presence!Deliver
<1>5. poll' \in [User -> [Slot -> PollType]] /\ \A v \in User : \A t \in Slot : PollFits(v, poll'[v][t], rec)
  BY <1>3, <1>4, NothingYet DEF Polling, PresenceTyped
<1>6. heard' = heard \/ heard' = [heard EXCEPT ![u] = h]
  BY DEF Presence!Deliver
<1> HIDE DEF h
<1>7. heard' \in [User -> HeardType] /\ \A v \in User : HeardFits(v, heard'[v], rec)
  BY <1>2, <1>6 DEF Polling, PresenceTyped
<1> QED BY <1>5, <1>7 DEF Polling, PresenceTyped, Presence!Deliver

\* Nothing but an update moves a record, and nothing but time the clock.
LEMMA UpdateStep ==
    ASSUME Polling, NEW u \in User, Presence!Works(u)
    PROVE  Polling'
<1>1. now' = now /\ UNCHANGED <<poll, heard>> /\ now \in Nat
  BY DEF Presence!Works, Presence!BeginUpdate, Presence!Publish, Presence!Write, Polling, PresenceTyped
<1>2. update' \in [User -> UpdateType]
  <2>1. update[u] \in UpdateType /\ update \in [User -> UpdateType]
    BY DEF Polling, PresenceTyped
  <2>2. PICK m \in UpdateType : update' = [update EXCEPT ![u] = m]
    <3>1. CASE Presence!BeginUpdate(u)
      BY <1>1, <3>1 DEF Presence!BeginUpdate, UpdateType
    <3>2. CASE Presence!Publish(u)
      BY <2>1, <3>2 DEF Presence!Publish, UpdateType
    <3>3. CASE Presence!Write(u)
      BY <3>3 DEF Presence!Write, Presence!NoUpdate, UpdateType
    <3> QED BY <3>1, <3>2, <3>3 DEF Presence!Works
  <2> QED BY <2>1, <2>2
<1>3. rec' \in [User -> RecType] /\ \A w \in User : rec'[w] = rec[w] \/ rec'[w].n > rec[w].n
  <2>1. CASE rec' = rec
    BY <2>1 DEF Polling, PresenceTyped
  <2>2. CASE rec' = [rec EXCEPT ![u] = Presence!Seal(rec[u].n + 1, update[u].seen)]
    <3>1. rec[u].n \in Nat /\ update[u].seen \in Nat
      BY DEF Polling, PresenceTyped, RecType, UpdateType
    <3>2. PICK q \in RecType : q = Presence!Seal(rec[u].n + 1, update[u].seen) /\ q.n = rec[u].n + 1
      <4>1. PICK k \in Nat : k = rec[u].n + 1
        BY <3>1
      <4>2. PICK t \in Nat : t = update[u].seen
        BY <3>1
      <4>4. Presence!Seal(k, t) \in RecType
        BY Zenon DEF Presence!Seal, RecType
      <4>5. Presence!Seal(k, t).n = k
        BY Zenon DEF Presence!Seal
      <4> QED BY <4>1, <4>2, <4>4, <4>5
    <3> QED BY <2>2, <3>1, <3>2 DEF Polling, PresenceTyped
  <2> QED BY <2>1, <2>2 DEF Presence!Works, Presence!BeginUpdate, Presence!Publish, Presence!Write,
                            Presence!writeStorageRecord
<1>4. rec \in [User -> RecType] /\ heard \in [User -> HeardType] /\ poll \in [User -> [Slot -> PollType]]
  BY DEF Polling, PresenceTyped
<1>5. \A v \in User : HeardFits(v, heard[v], rec') /\ \A s \in Slot : PollFits(v, poll[v][s], rec')
  <2> SUFFICES ASSUME NEW v \in User
               PROVE  HeardFits(v, heard[v], rec') /\ \A s \in Slot : PollFits(v, poll[v][s], rec')
    OBVIOUS
  <2>1. /\ \A p \in PollType : PollFits(v, p, rec) => PollFits(v, p, rec')
        /\ \A h \in HeardType : HeardFits(v, h, rec) => HeardFits(v, h, rec')
    BY <1>3, <1>4, StillFits
  <2> QED BY <1>4, <2>1 DEF Polling
<1> QED BY <1>1, <1>2, <1>3, <1>4, <1>5 DEF Polling, PresenceTyped

LEMMA PollingStep ==
    ASSUME Polling, PresenceAssumption, Presence!Next
    PROVE  Polling'
<1>0. PresenceTyped
  BY DEF Polling
<1>1. CASE Presence!Tick
  BY <1>1 DEF Presence!Tick, Polling, PresenceTyped
<1>2. ASSUME NEW u \in User, Presence!unsubscribe(u) \/ Presence!stop(u)
      PROVE  Polling'
  <2>1. heard' = [heard EXCEPT ![u] = Presence!Nothing] /\ UNCHANGED <<now, rec, update, poll>>
    BY <1>2 DEF Presence!unsubscribe, Presence!stop, Presence!stopListening
  <2>2. heard' \in [User -> HeardType] /\ \A v \in User : HeardFits(v, heard'[v], rec)
    BY <1>0, <2>1, NothingYet DEF Polling, PresenceTyped
  <2> QED BY <2>1, <2>2 DEF Polling, PresenceTyped
<1>3. ASSUME NEW u \in User, NEW s \in Slot,
             Presence!PollOnTime(u, s) \/ Presence!PollFails(u, s)
                \/ Presence!handlePubSubMessage(u, s) \/ Presence!subscribe(u, s)
      PROVE  Polling'
  <2>1. UNCHANGED <<now, rec, update, heard>>
    BY <1>3 DEF Presence!PollOnTime, Presence!PollFails, Presence!handlePubSubMessage, Presence!subscribe
  <2>2. \/ poll' = poll \/ poll' = Presence!Begins(u, s)
        \/ poll' = [poll EXCEPT ![u][s] = Presence!NoPoll]
    BY <1>3 DEF Presence!PollOnTime, Presence!PollFails, Presence!handlePubSubMessage, Presence!subscribe
  <2>3. CASE poll' = poll
    BY <2>1, <2>3 DEF Polling, PresenceTyped
  <2>4. CASE poll' = Presence!Begins(u, s)
    BY <1>0, <2>1, <2>4, BegunFits, PollBecomes
  <2>5. CASE poll' = [poll EXCEPT ![u][s] = Presence!NoPoll]
    BY <1>0, <2>1, <2>5, NothingYet, PollBecomes
  <2> QED BY <2>2, <2>3, <2>4, <2>5
<1> QED BY <1>1, <1>2, <1>3, UpdateStep, ListStep, GetStep, DeliverStep DEF Presence!Next, Presence!Polls

LEMMA PollingInit ==
    ASSUME PresenceAssumption, Presence!Init
    PROVE  Polling
<1>1. Stale + 1 \in Nat
  BY DEF PresenceAssumption, Presence!PresenceAssumption
<1>2. /\ Presence!NoRecord \in RecType /\ Presence!NoUpdate \in UpdateType
      /\ Presence!NoPoll \in PollType /\ Presence!Nothing \in HeardType
  <2>1. Presence!NoRecord \in RecType
    BY DEF Presence!NoRecord, RecType
  <2>2. Presence!NoUpdate \in UpdateType
    BY DEF Presence!NoUpdate, UpdateType
  <2>3. Presence!NoPoll \in PollType
    BY DEF Presence!NoPoll, PollType
  <2>4. Presence!Nothing \in HeardType
    BY DEF Presence!Nothing, HeardType
  <2> QED BY <2>1, <2>2, <2>3, <2>4
<1>3. PresenceTyped
  BY <1>1, <1>2 DEF PresenceTyped, Presence!Init
<1> QED BY <1>3, NothingYet DEF Polling, Presence!Init

(***************************************************************************)
(* A list of peers that a subscriber was given has everybody who was there *)
(* when its poll began and is as he was, nobody who is stale and not the   *)
(* subscriber, in whatever order overlapping polls, updates and messages   *)
(* come, with or without encryption and broadcasts (presence.ts:274).      *)
(***************************************************************************)
THEOREM ListsAlwaysTrue == PeersSpec => []ListsAreTrue
<1>1. PeersInit => Polling
  BY PresenceAssumption, PollingInit DEF PeersInit
<1>2. Polling /\ [PeersNext]_<<part, vars, presenceVars>> => Polling'
  <2> SUFFICES ASSUME Polling, [PeersNext]_<<part, vars, presenceVars>> PROVE Polling'
    OBVIOUS
  <2>1. CASE Presence!Next
    BY <2>1, PresenceAssumption, PollingStep
  <2>2. CASE UNCHANGED presenceVars
    BY <2>2 DEF presenceVars, Polling, PresenceTyped
  <2> QED BY <2>1, <2>2 DEF PeersNext
<1>3. Polling => ListsAreTrue
  BY DEF Polling, HeardFits, Truthful, Complete, ListsAreTrue, Presence!ListsAreTrue
<1> QED BY <1>1, <1>2, <1>3, PTL DEF PeersSpec
=============================================================================
