---------------------------- MODULE SyncTargets ----------------------------
(***************************************************************************)
(* A vault that synchronises with several targets: Noydb.openVault makes  *)
(* one SyncEngine for each (noydb.ts), a write is announced to all of     *)
(* them, Noydb.sync visits them in turn, and SyncTransaction.commit       *)
(* writes its operations and pushes only those.  All engines of a vault   *)
(* keep their dirty log in the same _sync/meta document.                  *)
(*                                                                         *)
(* SyncEngine has one engine in full, with its array of entries and every *)
(* await; here an entry is dealt with in one step, and so is a pull.      *)
(***************************************************************************)
EXTENDS Naturals, Sequences, FiniteSets

CONSTANTS
    Record,
    Targets,       \* NoydbOptions.sync, normalised: a sequence of [role, label]
    Strategies,    \* conflict strategies the vault may be opened with
    MaxOps,        \* bound: writes and deletes of the application
    MaxPeerOps,    \* bound: writes of other devices
    MaxFails,      \* bound: remote calls that fail
    MaxRestarts,   \* bound: restarts of this device
    Allowed        \* which of Behaviours the environment shows

Behaviours == {"cold",        \* a call may start while trackChange still loads the log
               "recreate"}    \* a deleted record is written again

ASSUME TargetsAssumption ==
    /\ Targets \in Seq([role : {"sync-peer", "backup", "archive"}, label : STRING])
    /\ Targets # <<>> /\ Allowed \subseteq Behaviours

Target == DOMAIN Targets
SyncPeer(t) == Targets[t].role = "sync-peer"

\* The primary engine is the first sync-peer's, or the first target's.
Primary == IF \E t \in Target : SyncPeer(t)
           THEN CHOOSE t \in Target : SyncPeer(t) /\ \A u \in 1..(t - 1) : ~SyncPeer(u)
           ELSE 1

\* The other engines are filed under their label, or else their role: of two
\* targets with one key the later takes the place of the earlier.
Key(t)  == IF Targets[t].label # "" THEN Targets[t].label ELSE Targets[t].role
Engine  == {t \in Target : t = Primary \/ \A u \in Target : u > t /\ u # Primary => Key(u) # Key(t)}
After(t) == {u \in Engine \ {Primary} : t = Primary \/ u > t}
First(E) == CHOOSE t \in E : \A u \in E : t <= u
Last     == IF Engine = {Primary} THEN Primary
            ELSE CHOOSE t \in Engine \ {Primary} : \A u \in Engine \ {Primary} : u <= t

\* An envelope is its version and the application write it holds, 0 for a
\* write of another device; an entry is its action, version and write.
Missing   == [v |-> 0, w |-> 0]
Exists(e) == e.v > 0
Clean     == [action |-> "none", version |-> 0, w |-> 0]
NoLog     == [r \in Record |-> Clean]
NoDoc     == [found |-> FALSE, log |-> NoLog]
Doc(log)  == [found |-> TRUE, log |-> log]
Logged(log, r) == log[r].action # "none"

VARIABLES
    local,      \* envelopes in the local store
    remote,     \* envelopes in each target's store
    meta,       \* the _sync/meta document of the local store
    dirty,      \* SyncEngine.dirty of each engine
    loaded,     \* SyncEngine.loaded of each engine
    track,      \* trackChange calls that wait for the stored log
    call,       \* the application's call
    strategy,   \* conflict strategy
    latest,     \* (history) the application's last write or delete of each record
    reached,    \* (history) writes and deletes carried out on each target
    ops, peerOps, fails, restarts

counts == <<ops, peerOps, fails, restarts>>
vars == <<local, remote, meta, dirty, loaded, track, call, strategy, latest, reached, counts>>

Idle == [kind |-> "none", pc |-> "idle", t |-> Primary, then |-> "push", todo |-> {},
         seen |-> {}, done |-> {}, recs |-> Record, writes |-> {}, conflict |-> FALSE,
         failed |-> FALSE, snap |-> NoDoc]

Init ==
    /\ local = [r \in Record |-> Missing]
    /\ remote = [t \in Target |-> [r \in Record |-> Missing]]
    /\ meta = NoDoc /\ dirty = [t \in Engine |-> NoLog] /\ loaded = [t \in Engine |-> FALSE]
    /\ track = {} /\ call = Idle
    /\ strategy \in Strategies
    /\ latest = [r \in Record |-> 0] /\ reached = [t \in Target |-> {}]
    /\ ops = 0 /\ peerOps = 0 /\ fails = 0 /\ restarts = 0

Resting == call.pc \in {"idle", "told"}
MayStart == Resting /\ (track = {} \/ "cold" \in Allowed)

-----------------------------------------------------------------------------
(***************************************************************************)
(* Writes: Collection.put or delete, then onDirty, which calls            *)
(* trackChange of every engine and waits for none.                        *)
(***************************************************************************)
LogChange(log, r, entry) == [log EXCEPT ![r] = entry]
LoadedLog(t, doc) == IF doc.found THEN doc.log ELSE dirty[t]

\* (Variant: only the primary engine is told.)
ToldPrimary == {Primary}
Told == Engine

\* Engines that have loaded their log add the entry and persist it, one after
\* the other; the others read the document first.
OnDirty(r, entry) ==
    /\ dirty' = [t \in Engine |-> IF t \in Told /\ loaded[t]
                                  THEN LogChange(dirty[t], r, entry) ELSE dirty[t]]
    /\ meta' = IF loaded[Last] THEN Doc(dirty'[Last])
               ELSE IF \E t \in Told : loaded[t]
                    THEN Doc(dirty'[CHOOSE t \in Told : loaded[t]]) ELSE meta
    /\ track' = track \cup {[t |-> t, r |-> r, entry |-> entry, snap |-> meta] :
                               t \in {u \in Told : ~loaded[u]}}

Write(r, action) ==
    LET version == IF action = "put" THEN local[r].v + 1 ELSE local[r].v IN
    /\ ops < MaxOps /\ ops' = ops + 1
    /\ action = "put" /\ "recreate" \notin Allowed
          => ~\E t \in Engine : dirty[t][r].action = "delete"
    /\ local' = [local EXCEPT ![r] = IF action = "put" THEN [v |-> version, w |-> ops + 1]
                                     ELSE Missing]
    /\ latest' = [latest EXCEPT ![r] = ops + 1]
    /\ OnDirty(r, [action |-> action, version |-> version, w |-> ops + 1])

AppWrite(r, action) ==
    /\ MayStart
    /\ Write(r, action)
    /\ call' = Idle
    /\ UNCHANGED <<remote, loaded, strategy, reached, peerOps, fails, restarts>>

\* ensureLoaded returns: the stored log takes the place of the one in memory.
TrackLoaded(k) ==
    /\ k \in track
    /\ track' = track \ {k}
    /\ loaded' = [loaded EXCEPT ![k.t] = TRUE]
    /\ dirty' = [dirty EXCEPT ![k.t] = LogChange(LoadedLog(k.t, k.snap), k.r, k.entry)]
    /\ meta' = Doc(dirty'[k.t])
    /\ UNCHANGED <<local, remote, call, strategy, latest, reached, counts>>

-----------------------------------------------------------------------------
(***************************************************************************)
(* Calls: push, pull and sync of Noydb, and commit of a SyncTransaction.  *)
(***************************************************************************)
Enter(c, t, stage) ==
    [c EXCEPT !.t = t, !.seen = {}, !.done = {},
              !.pc = IF loaded[t] THEN stage ELSE "load", !.then = stage,
              !.snap = IF loaded[t] THEN NoDoc ELSE meta]
\* (Variant: every target is pulled from.)
PullsAll(t) == TRUE
Pulls(t) == t = Primary \/ SyncPeer(t)
Visit(c, t) == Enter(c, t, IF Pulls(t) THEN "pull" ELSE "push")

\* Where a call goes when it is through with engine c.t.
NextTarget(c) ==
    IF c.kind = "sync" /\ After(c.t) # {} THEN Visit(c, First(After(c.t)))
    ELSE IF c.kind = "commit" THEN [c EXCEPT !.pc = "told", !.seen = {}, !.done = {}]
    ELSE Idle

Start(kind) ==
    /\ MayStart
    /\ call' = LET c == [Idle EXCEPT !.kind = kind]
               IN  IF kind = "push" THEN Enter(c, Primary, "push") ELSE Enter(c, Primary, "pull")
    /\ UNCHANGED <<local, remote, meta, dirty, loaded, track, strategy, latest, reached, counts>>

StartCommit(R) ==
    /\ MayStart /\ R # {} /\ ops + Cardinality(R) <= MaxOps
    /\ ("cold" \in Allowed \/ \A t \in Engine : loaded[t])
    /\ call' = [Idle EXCEPT !.kind = "commit", !.pc = "write", !.todo = R, !.recs = R]
    /\ UNCHANGED <<local, remote, meta, dirty, loaded, track, strategy, latest, reached, counts>>

\* Phase 1 of commit: the staged operations, through the collections.
CommitWrite(r, action) ==
    /\ call.pc = "write" /\ r \in call.todo
    /\ Write(r, action)
    /\ call' = [call EXCEPT !.todo = @ \ {r}, !.writes = @ \cup {ops'}]
    /\ UNCHANGED <<remote, loaded, strategy, reached, peerOps, fails, restarts>>

CommitPush ==
    /\ call.pc = "write" /\ call.todo = {}
    /\ call' = Enter(call, Primary, "push")
    /\ UNCHANGED <<local, remote, meta, dirty, loaded, track, strategy, latest, reached, counts>>

Loaded ==
    /\ call.pc = "load"
    /\ loaded' = [loaded EXCEPT ![call.t] = TRUE]
    /\ dirty' = [dirty EXCEPT ![call.t] = LoadedLog(call.t, call.snap)]
    /\ call' = [call EXCEPT !.pc = call.then, !.snap = NoDoc]
    /\ UNCHANGED <<local, remote, meta, track, strategy, latest, reached, counts>>

\* SyncEngine.pull: newer versions replace unchanged records, a changed one is a conflict.
Winner(l, r) == CASE strategy = "local-wins"  -> "local"
                  [] strategy = "remote-wins" -> "remote"
                  [] OTHER -> IF l.v >= r.v THEN "local" ELSE "remote"
Newer(t, r)  == Exists(local[r]) /\ remote[t][r].v > local[r].v
Yields(t, r) == /\ Newer(t, r) /\ Logged(dirty[t], r)
                /\ Winner(local[r], remote[t][r]) = "remote"
Takes(t, r)  == \/ Exists(remote[t][r]) /\ ~Exists(local[r])
                \/ Newer(t, r) /\ ~Logged(dirty[t], r)
                \/ Yields(t, r)

Pull(fail) ==
    LET t == call.t
        kept == [r \in Record |-> IF Yields(t, r) THEN Clean ELSE dirty[t][r]]
    IN
    /\ call.pc = "pull"
    /\ fail => fails < MaxFails
    /\ fails' = IF fail THEN fails + 1 ELSE fails
    /\ local' = [r \in Record |-> IF ~fail /\ Takes(t, r) THEN remote[t][r] ELSE local[r]]
    /\ dirty' = IF fail THEN dirty ELSE [dirty EXCEPT ![t] = kept]
    /\ meta' = Doc(dirty'[t])
    /\ call' = IF call.kind = "pull" THEN Idle ELSE [call EXCEPT !.pc = "push"]
    /\ UNCHANGED <<remote, loaded, track, strategy, latest, reached, ops, peerOps, restarts>>

\* SyncEngine.push and pushFiltered, one entry.
Accepts(envelope, expected) == Exists(envelope) => envelope.v = expected

Completed(fail) == ~fail

Reported(reported, conflict) == reported \/ conflict

PushEntry(r, fail) ==
    LET t == call.t
        entry == dirty[t][r]
        conflict == /\ ~fail /\ entry.action = "put" /\ Exists(local[r])
                    /\ ~Accepts(remote[t][r], entry.version - 1)
        lost == conflict /\ Winner(local[r], remote[t][r]) = "remote"
        sends == ~fail /\ ~lost /\ (entry.action = "put" => Exists(local[r]))
    IN
    /\ call.pc = "push" /\ r \in call.recs \ call.seen /\ Logged(dirty[t], r)
    /\ fail => fails < MaxFails /\ (entry.action = "put" => Exists(local[r]))
    /\ fails' = IF fail THEN fails + 1 ELSE fails
    /\ remote' = IF sends THEN [remote EXCEPT ![t][r] = IF entry.action = "put" THEN local[r]
                                                                          ELSE Missing]
                            ELSE remote
    /\ local' = IF lost THEN [local EXCEPT ![r] = remote[t][r]] ELSE local
    /\ reached' = IF sends
                  THEN [reached EXCEPT ![t] = @ \cup (IF entry.action = "put" THEN {local[r].w}
                                                      ELSE {entry.w})]
                  ELSE reached
    /\ call' = [call EXCEPT !.seen = @ \cup {r}, !.conflict = Reported(@, conflict),
                            !.failed = @ \/ fail,
                            !.done = IF Completed(fail) THEN @ \cup {r} ELSE @]
    /\ UNCHANGED <<meta, dirty, loaded, track, strategy, latest, ops, peerOps, restarts>>

PushEnd ==
    LET t == call.t IN
    /\ call.pc = "push"
    /\ \A r \in call.recs \ call.seen : ~Logged(dirty[t], r)
    /\ dirty' = [dirty EXCEPT ![t] =
                    [r \in Record |-> IF r \in call.done THEN Clean ELSE dirty[t][r]]]
    /\ meta' = Doc(dirty'[t])
    /\ call' = NextTarget(call)
    /\ UNCHANGED <<local, remote, loaded, track, strategy, latest, reached, counts>>

-----------------------------------------------------------------------------
\* Another device of a sync-peer writes.
PeerPut(t, r) ==
    /\ SyncPeer(t) /\ peerOps < MaxPeerOps
    /\ peerOps' = peerOps + 1
    /\ remote' = [remote EXCEPT ![t][r] = [v |-> @.v + 1, w |-> 0]]
    /\ UNCHANGED <<local, meta, dirty, loaded, track, call, strategy, latest, reached,
                   ops, fails, restarts>>

Restart ==
    /\ Resting /\ track = {} /\ restarts < MaxRestarts
    /\ restarts' = restarts + 1
    /\ dirty' = [t \in Engine |-> NoLog] /\ loaded' = [t \in Engine |-> FALSE]
    /\ call' = Idle
    /\ UNCHANGED <<local, remote, meta, track, strategy, latest, reached, ops, peerOps, fails>>

Next ==
    \/ \E r \in Record, action \in {"put", "delete"} : AppWrite(r, action)
    \/ \E r \in Record, action \in {"put", "delete"} : CommitWrite(r, action)
    \/ \E k \in track : TrackLoaded(k)
    \/ \E kind \in {"push", "pull", "sync"} : Start(kind)
    \/ \E R \in SUBSET Record : StartCommit(R)
    \/ CommitPush \/ Loaded \/ PushEnd
    \/ \E fail \in BOOLEAN : Pull(fail)
    \/ \E r \in Record, fail \in BOOLEAN : PushEntry(r, fail)
    \/ \E t \in Target, r \in Record : PeerPut(t, r)
    \/ Restart

Spec == Init /\ [][Next]_vars

-----------------------------------------------------------------------------
\* As long as the application's last write or delete of a record stands in the
\* local store, it has reached a target, or is in the log of that target's
\* engine or on the way to it: openVault announces it to every engine.
Stands(r) == latest[r] > 0 /\ (local[r].w = latest[r] \/ ~Exists(local[r]))
Announced(t, r) == \E k \in track : k.t = t /\ k.r = r
LogOf(t)   == IF loaded[t] THEN dirty[t] ELSE LoadedLog(t, meta)
Tracked(t) == \A r \in Record :
    Stands(r) => \/ latest[r] \in reached[t]
                 \/ t \in Engine /\ (Logged(LogOf(t), r) \/ Announced(t, r))
TargetsTracked == \A t \in Engine : Tracked(t)

\* The same of every target that was configured, with an engine or without.
AllTargetsTracked == \A t \in Target : Tracked(t)

\* What a commit reports as committed, when no remote call of it has failed,
\* is on the primary target: every write and every delete it has staged.
CommittedReached ==
    call.pc = "told" /\ ~call.conflict /\ ~call.failed => call.writes \subseteq reached[Primary]

\* The same, whatever happened to the calls: SyncTransactionResult has no errors.
CommittedMeansIt == call.pc = "told" /\ ~call.conflict => call.writes \subseteq reached[Primary]

\* What the application is told, and what the logs know, is right for every target.
WritesReachTargets == TargetsTracked /\ CommittedReached

\* A push-only target has no say in what the local store holds.
PushOnlySilent == [][(~SyncPeer(call.t) /\ ops' = ops) => local' = local]_vars
=============================================================================
