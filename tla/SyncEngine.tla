----------------------------- MODULE SyncEngine -----------------------------
(***************************************************************************)
(* One device of a noydb deployment: the SyncEngine of a vault            *)
(* (packages/hub/src/sync.ts), the local and the remote store it moves    *)
(* records between, the application that writes through Collection.put    *)
(* and Collection.delete, and the other devices, which only appear as     *)
(* writes on the remote store.                                            *)
(*                                                                         *)
(* JavaScript runs one continuation at a time, so a step of this module   *)
(* is the code between two awaits; the effect of an awaited store call    *)
(* and the code that only reads its private result share a step.          *)
(*                                                                         *)
(* A record stands for its own collection, which is what the filters of   *)
(* partial sync and the conflict resolvers are attached to.               *)
(***************************************************************************)
EXTENDS Naturals, FiniteSets

CONSTANTS
    Record,        \* the records of the vault
    Pusher,        \* push calls that may be in flight at once
    Policies,      \* the conflict policies a record may be configured with
    MaxOps,        \* bound: writes and deletes of the application
    MaxPeerOps,    \* bound: changes other devices make on the remote
    MaxFails,      \* bound: remote calls that fail
    MaxCrashes,    \* bound: crashes of the device
    Allowed        \* which of Behaviours the environment shows

Behaviours == {"overlap",         \* calls may start while others are in flight
               "midWriteCrash",   \* a crash may hit between a write and its log entry
               "appDelete",       \* the application deletes records
               "peerDelete",      \* other devices delete records
               "filter"}          \* push and pull are given a collection filter

AllPolicies == {"version", "local-wins", "remote-wins", "last-writer-wins",
                "first-writer-wins", "manual", "merge"}

ASSUME ConstantsAssumption ==
    /\ IsFiniteSet(Record) /\ Record # {}
    /\ Policies \subseteq AllPolicies
    /\ Allowed \subseteq Behaviours
    /\ MaxOps \in Nat /\ MaxPeerOps \in Nat
    /\ MaxFails \in Nat /\ MaxCrashes \in Nat

\* The application awaits every call to its end before it makes the next.
Serial == "overlap" \notin Allowed

(***************************************************************************)
(* Data.  An envelope is its version and the writes its content stems     *)
(* from: one for a plain write, several for a merged one.  Version 0      *)
(* stands for "no record", position 0 in the dirty log for "no entry".    *)
(***************************************************************************)
WriteId  == {"app", "peer"} \X Nat
Envelope == [v : Nat, src : SUBSET WriteId]
Missing  == [v |-> 0, src |-> {}]
Exists(e) == e.v > 0

Entry == [at : 0..Cardinality(Record), action : {"put", "delete"}, version : Nat]
Clean == [at |-> 0, action |-> "put", version |-> 0]
Log   == [Record -> Entry]
Logged(log, r) == log[r].at > 0
NoLog == [r \in Record |-> Clean]
LogLength(log) == Cardinality({r \in Record : Logged(log, r)})

\* The _sync/meta document of the local store, which the first persistMeta writes.
Document == [found : BOOLEAN, log : Log]
NoDoc    == [found |-> FALSE, log |-> NoLog]
Doc(log) == [found |-> TRUE, log |-> log]

VARIABLES
    local,     \* envelopes in the local store
    remote,    \* envelopes in the remote store
    meta,      \* the _sync/meta document of the local store, a persisted dirty log
    dirty,     \* SyncEngine.dirty: an entry and its array index (from 1) by record
    loaded,    \* SyncEngine.loaded
    cached,    \* version the hydrated collection caches, NotHydrated before that
    policy,    \* conflict policy of each record, fixed by the configuration
    app,       \* the application's write: stored, its bookkeeping still to come
    track,     \* trackChange calls, one for each application operation
    push,      \* push and pushFiltered calls
    pull,      \* the pull call
    reached,   \* (history) application writes that were put on the remote
    ops, peerOps, fails, crashes    \* counters the bounds cap

store   == <<local, remote, meta>>
memory  == <<dirty, loaded, cached>>
history == <<policy, reached>>
counts  == <<ops, peerOps, fails, crashes>>
vars    == <<store, memory, app, track, push, pull, history, counts>>

AnyRecord == CHOOSE r \in Record : TRUE   \* fills a field not in use

NotHydrated == [known |-> FALSE, v |-> 0]
Hydrated(n) == [known |-> TRUE, v |-> n]

AppIdle   == [pc |-> "idle", rec |-> AnyRecord, action |-> "put", version |-> 0]
TrackNone == [pc |-> "none", rec |-> AnyRecord, action |-> "put", version |-> 0, snap |-> NoDoc]
PushIdle  == [pc |-> "idle", i |-> 1, done |-> {}, filter |-> {}, rec |-> AnyRecord,
              entry |-> Clean, env |-> Missing, renv |-> Missing, winner |-> Missing,
              snap |-> NoDoc]
PullIdle  == [pc |-> "idle", todo |-> {}, rec |-> AnyRecord, env |-> Missing,
              winner |-> Missing, clear |-> FALSE,
              remote |-> [r \in Record |-> Missing], filter |-> {}, snap |-> NoDoc]

Init ==
    /\ local = [r \in Record |-> Missing] /\ remote = [r \in Record |-> Missing]
    /\ meta = NoDoc /\ dirty = NoLog /\ loaded = FALSE
    /\ cached = [r \in Record |-> NotHydrated]
    /\ policy \in [Record -> Policies]
    /\ app = AppIdle /\ track = [n \in 1..MaxOps |-> TrackNone]
    /\ push = [p \in Pusher |-> PushIdle] /\ pull = PullIdle
    /\ reached = {}
    /\ ops = 0 /\ peerOps = 0 /\ fails = 0 /\ crashes = 0

Quiet ==
    /\ app.pc = "idle" /\ pull.pc = "idle"
    /\ \A n \in 1..MaxOps : track[n].pc = "none"
    /\ \A p \in Pusher : push[p].pc = "idle"
MayStart == Serial => Quiet
Filters  == IF "filter" \in Allowed THEN SUBSET Record ELSE {Record}

-----------------------------------------------------------------------------
(***************************************************************************)
(* The dirty log.                                                         *)
(***************************************************************************)
\* trackChange: an entry of the record keeps its index, a new one goes last.
LogChange(log, r, action, version) ==
    [log EXCEPT ![r] = [at |-> IF Logged(log, r) THEN log[r].at ELSE LogLength(log) + 1,
                        action |-> action, version |-> version]]

\* (Variant: entries are deleted from the array without closing the gap.)
WithoutGaps(log, R) == [r \in Record |-> IF r \in R THEN Clean ELSE log[r]]

\* splice and filter: the entries of R leave, the ones behind them move up.
UpTo(log, R, r) == {q \in Record \ R : Logged(log, q) /\ log[q].at <= log[r].at}
Without(log, R) ==
    [r \in Record |-> IF r \in R \/ ~Logged(log, r) THEN Clean
                      ELSE [at |-> Cardinality(UpTo(log, R, r)),
                            action |-> log[r].action, version |-> log[r].version]]

\* The entries now at the indices a push has completed.
At(log, indices) == {r \in Record : Logged(log, r) /\ log[r].at \in indices}

(***************************************************************************)
(* Conflict resolution: SyncEngine.handleConflict and legacyResolve with  *)
(* the resolvers Collection registers.  Timestamps come from unrelated    *)
(* clocks, so last-writer-wins may pick either side; a manual handler may *)
(* pick a side or leave the conflict open.                                *)
(***************************************************************************)
MergeOf(l, r) == [v |-> (IF l.v >= r.v THEN l.v ELSE r.v) + 1, src |-> l.src \cup r.src]

Outcome == {"local", "remote", "merged", "deferred"}
Outcomes(pol, l, r) ==
    {o \in Outcome :
        \/ pol = "local-wins" /\ o = "local"
        \/ pol = "remote-wins" /\ o = "remote"
        \/ pol = "version" /\ o = (IF l.v >= r.v THEN "local" ELSE "remote")
        \/ pol = "first-writer-wins" /\ o = (IF l.v <= r.v THEN "local" ELSE "remote")
        \/ pol = "last-writer-wins" /\ o \in {"local", "remote"}
        \/ pol = "manual" /\ o \in {"local", "remote", "deferred"}
        \/ pol = "merge" /\ o = "merged"}

-----------------------------------------------------------------------------
(***************************************************************************)
(* The application: Collection.put and Collection.delete of an eager      *)
(* collection, then onDirty of noydb.openVault, which does not wait for   *)
(* trackChange.                                                           *)
(***************************************************************************)
Existing(r) == IF cached[r].known THEN cached[r].v ELSE local[r].v

AppPut(r) ==
    /\ MayStart /\ app.pc = "idle" /\ ops < MaxOps
    /\ ops' = ops + 1
    /\ local' = [local EXCEPT ![r] = [v |-> Existing(r) + 1, src |-> {<<"app", ops + 1>>}]]
    /\ app' = [pc |-> "stored", rec |-> r, action |-> "put", version |-> Existing(r) + 1]
    /\ UNCHANGED <<remote, meta, memory, track, push, pull, history, peerOps, fails, crashes>>

AppDelete(r) ==
    /\ MayStart /\ app.pc = "idle" /\ ops < MaxOps /\ "appDelete" \in Allowed
    /\ ops' = ops + 1
    /\ local' = [local EXCEPT ![r] = Missing]
    /\ app' = [pc |-> "stored", rec |-> r, action |-> "delete", version |-> cached[r].v]
    /\ UNCHANGED <<remote, meta, memory, track, push, pull, history, peerOps, fails, crashes>>

AppNotify ==
    /\ app.pc = "stored"
    /\ cached' = IF app.action = "put"
                 THEN [cached EXCEPT ![app.rec] = Hydrated(app.version)]
                 ELSE [cached EXCEPT ![app.rec].v = 0]
    /\ IF loaded
       THEN /\ dirty' = LogChange(dirty, app.rec, app.action, app.version)
            /\ track' = [track EXCEPT ![ops] = [pc |-> "persist", rec |-> app.rec,
                            action |-> app.action, version |-> app.version, snap |-> Doc(dirty')]]
       ELSE /\ track' = [track EXCEPT ![ops] = [pc |-> "load", rec |-> app.rec,
                            action |-> app.action, version |-> app.version, snap |-> meta]]
            /\ UNCHANGED dirty
    /\ app' = AppIdle
    /\ UNCHANGED <<store, loaded, push, pull, history, counts>>

\* ensureLoaded returns: a log read from the store replaces the one in memory.
LoadedLog(doc) == IF doc.found THEN doc.log ELSE dirty

TrackLoaded(n) ==
    /\ track[n].pc = "load"
    /\ loaded' = TRUE
    /\ dirty' = LogChange(LoadedLog(track[n].snap), track[n].rec, track[n].action, track[n].version)
    /\ track' = [track EXCEPT ![n].pc = "persist", ![n].snap = Doc(dirty')]
    /\ UNCHANGED <<store, cached, app, push, pull, history, counts>>

\* (Variant: the changed log is not written.)
TrackPersistSkipped(n) ==
    /\ track[n].pc = "persist"
    /\ track' = [track EXCEPT ![n] = TrackNone]
    /\ UNCHANGED <<store, memory, app, push, pull, history, counts>>

TrackPersist(n) ==
    /\ track[n].pc = "persist"
    /\ meta' = track[n].snap
    /\ track' = [track EXCEPT ![n] = TrackNone]
    /\ UNCHANGED <<local, remote, memory, app, push, pull, history, counts>>

-----------------------------------------------------------------------------
(***************************************************************************)
(* push and pushFiltered.  The loop reads dirty.length anew in every      *)
(* round and keeps the indices it has dealt with in `done'; the splice    *)
(* that uses them comes after the last round.                             *)
(***************************************************************************)
ToEntry(p, ps) == push' = [push EXCEPT ![p] = ps]
NextRound(p, done) ==
    ToEntry(p, [PushIdle EXCEPT !.pc = "next", !.filter = push[p].filter,
                                !.i = push[p].i + 1, !.done = done])
Done(p)    == push[p].done \cup {push[p].i}
NotDone(p) == push[p].done    \* the entry stays: filtered, failed or deferred

PushStart(p, F) ==
    /\ MayStart /\ push[p].pc = "idle"
    /\ ToEntry(p, [PushIdle EXCEPT !.filter = F, !.pc = IF loaded THEN "next" ELSE "load",
                                   !.snap = IF loaded THEN NoDoc ELSE meta])
    /\ UNCHANGED <<store, memory, app, track, pull, history, counts>>

PushLoaded(p) ==
    /\ push[p].pc = "load"
    /\ loaded' = TRUE /\ dirty' = LoadedLog(push[p].snap)
    /\ ToEntry(p, [push[p] EXCEPT !.pc = "next", !.snap = NoDoc])
    /\ UNCHANGED <<store, cached, app, track, pull, history, counts>>

\* The entry the loop looks at, when its record passes the filter.
PushPick(p, r) ==
    /\ push[p].pc = "next" /\ dirty[r].at = push[p].i
    /\ IF r \in push[p].filter
       THEN ToEntry(p, [push[p] EXCEPT !.rec = r, !.entry = dirty[r],
                !.pc = IF dirty[r].action = "delete" THEN "delete" ELSE "read"])
       ELSE NextRound(p, NotDone(p))
    /\ UNCHANGED <<store, memory, app, track, pull, history, counts>>

PushDelete(p) ==
    /\ push[p].pc = "delete"
    /\ remote' = [remote EXCEPT ![push[p].rec] = Missing]
    /\ NextRound(p, Done(p))
    /\ UNCHANGED <<local, meta, memory, app, track, pull, history, counts>>

PushRead(p) ==
    /\ push[p].pc = "read"
    /\ IF Exists(local[push[p].rec])
       THEN ToEntry(p, [push[p] EXCEPT !.pc = "put", !.env = local[push[p].rec]])
       ELSE NextRound(p, Done(p))
    /\ UNCHANGED <<store, memory, app, track, pull, history, counts>>

\* NoydbStore.put with an expected version: a missing record accepts any.
ExpectedVersion(entry) == entry.version - 1
Accepts(envelope, expected) == Exists(envelope) => envelope.v = expected

PushPut(p) ==
    LET r == push[p].rec IN
    /\ push[p].pc = "put"
    /\ IF Accepts(remote[r], ExpectedVersion(push[p].entry))
       THEN /\ remote' = [remote EXCEPT ![r] = push[p].env]
            /\ reached' = reached \cup push[p].env.src
            /\ NextRound(p, Done(p))
       ELSE /\ ToEntry(p, [push[p] EXCEPT !.pc = "fetch"])
            /\ UNCHANGED <<remote, reached>>
    /\ UNCHANGED <<local, meta, memory, app, track, pull, policy, counts>>

\* After a ConflictError: read the remote side and let the policy decide.
PushResolve(p, outcome) ==
    LET r == push[p].rec
        Keep(pc, winner) == ToEntry(p, [push[p] EXCEPT !.pc = pc, !.renv = remote[r],
                                                       !.winner = winner])
    IN
    /\ push[p].pc = "fetch"
    /\ outcome \in IF Exists(remote[r]) THEN Outcomes(policy[r], push[p].env, remote[r])
                                        ELSE {"deferred"}
    /\ CASE outcome = "local"    -> Keep("force", push[p].env)
         [] outcome = "merged"   -> Keep("forceMerged", MergeOf(push[p].env, remote[r]))
         [] outcome = "remote"   -> Keep("store", remote[r])
         [] outcome = "deferred" -> NextRound(p, NotDone(p))
    /\ UNCHANGED <<store, memory, app, track, pull, history, counts>>

\* The winner is put on the remote without an expected version.
PushForce(p) ==
    /\ push[p].pc \in {"force", "forceMerged"}
    /\ remote' = [remote EXCEPT ![push[p].rec] = push[p].winner]
    /\ reached' = reached \cup push[p].winner.src
    /\ IF push[p].pc = "force" THEN NextRound(p, Done(p))
                               ELSE ToEntry(p, [push[p] EXCEPT !.pc = "store"])
    /\ UNCHANGED <<local, meta, memory, app, track, pull, policy, counts>>

PushStore(p) ==
    /\ push[p].pc = "store"
    /\ local' = [local EXCEPT ![push[p].rec] = push[p].winner]
    /\ NextRound(p, Done(p))
    /\ UNCHANGED <<remote, meta, memory, app, track, pull, history, counts>>

\* A remote call fails, or is carried out and its answer is lost: the error
\* is collected and the entry stays in the log.
PushFail(p, applied) ==
    LET r == push[p].rec IN
    /\ push[p].pc \in {"delete", "put", "fetch", "force", "forceMerged"} /\ fails < MaxFails
    /\ fails' = fails + 1
    /\ applied => \/ push[p].pc \in {"delete", "force", "forceMerged"}
                  \/ push[p].pc = "put" /\ Accepts(remote[r], ExpectedVersion(push[p].entry))
    /\ LET sent == CASE push[p].pc = "put"    -> push[p].env
                     [] push[p].pc = "delete" -> Missing
                     [] OTHER                 -> push[p].winner
       IN  /\ remote' = IF applied THEN [remote EXCEPT ![r] = sent] ELSE remote
           /\ reached' = IF applied THEN reached \cup sent.src ELSE reached
    /\ NextRound(p, NotDone(p))
    /\ UNCHANGED <<local, meta, memory, app, track, pull, policy, ops, peerOps, crashes>>

PushFinish(p) ==
    /\ push[p].pc = "next" /\ push[p].i > LogLength(dirty)
    /\ dirty' = Without(dirty, At(dirty, push[p].done))
    /\ ToEntry(p, [PushIdle EXCEPT !.pc = "persist", !.snap = Doc(dirty')])
    /\ UNCHANGED <<store, loaded, cached, app, track, pull, history, counts>>

PushPersist(p) ==
    /\ push[p].pc = "persist"
    /\ meta' = push[p].snap
    /\ ToEntry(p, PushIdle)
    /\ UNCHANGED <<local, remote, memory, app, track, pull, history, counts>>

-----------------------------------------------------------------------------
(***************************************************************************)
(* pull.                                                                  *)
(***************************************************************************)
\* (Variants: only deletes count as local changes; the comparison is off by one.)
IsDirtyDelete(r) == Logged(dirty, r) /\ dirty[r].action = "delete"
NewerByTwo(e, f) == e.v > f.v + 1

IsDirty(r) == Logged(dirty, r)
Newer(e, f) == e.v > f.v

PullStart(F) ==
    /\ MayStart /\ pull.pc = "idle"
    /\ pull' = [PullIdle EXCEPT !.filter = F, !.pc = IF loaded THEN "fetch" ELSE "load",
                                !.snap = IF loaded THEN NoDoc ELSE meta]
    /\ UNCHANGED <<store, memory, app, track, push, history, counts>>

PullLoaded ==
    /\ pull.pc = "load"
    /\ loaded' = TRUE /\ dirty' = LoadedLog(pull.snap)
    /\ pull' = [pull EXCEPT !.pc = "fetch", !.snap = NoDoc]
    /\ UNCHANGED <<store, cached, app, track, push, history, counts>>

PullFetch ==
    /\ pull.pc = "fetch"
    /\ pull' = [pull EXCEPT !.pc = "next", !.remote = remote,
                            !.todo = {r \in pull.filter : Exists(remote[r])}]
    /\ UNCHANGED <<store, memory, app, track, push, history, counts>>

PullFail ==
    /\ pull.pc = "fetch" /\ fails < MaxFails
    /\ fails' = fails + 1
    /\ pull' = [PullIdle EXCEPT !.pc = "persist", !.snap = Doc(dirty)]
    /\ UNCHANGED <<store, memory, app, track, push, history, ops, peerOps, crashes>>

\* Read the local side of one record of the snapshot and decide about it.
PullDecide(r, outcome) ==
    LET renv  == pull.remote[r]
        newer == Exists(local[r]) /\ Newer(renv, local[r])
        Keep(winner, clear) ==
            pull' = [pull EXCEPT !.pc = "store", !.todo = @ \ {r}, !.rec = r,
                        !.env = local[r], !.winner = winner, !.clear = clear]
        Skip == pull' = [pull EXCEPT !.todo = @ \ {r}]
    IN
    /\ pull.pc = "next" /\ r \in pull.todo
    /\ \/ ~Exists(local[r]) /\ outcome = "remote" /\ Keep(renv, FALSE)
       \/ newer /\ ~IsDirty(r) /\ outcome = "remote" /\ Keep(renv, FALSE)
       \/ /\ newer /\ IsDirty(r)
          /\ outcome \in Outcomes(policy[r], local[r], renv)
          /\ CASE outcome = "remote" -> Keep(renv, TRUE)
               [] outcome = "merged" -> Keep(MergeOf(local[r], renv), TRUE)
               [] OTHER              -> Skip
       \/ Exists(local[r]) /\ ~newer /\ outcome = "local" /\ Skip
    /\ UNCHANGED <<store, memory, app, track, push, history, counts>>

PullStore ==
    /\ pull.pc = "store"
    /\ local' = [local EXCEPT ![pull.rec] = pull.winner]
    /\ pull' = [pull EXCEPT !.pc = IF pull.clear THEN "clear" ELSE "next",
                            !.rec = IF pull.clear THEN pull.rec ELSE AnyRecord,
                            !.env = Missing, !.winner = Missing]
    /\ UNCHANGED <<remote, meta, memory, app, track, push, history, counts>>

\* The local store has answered: the entry of a resolved conflict leaves the log.
PullClear ==
    /\ pull.pc = "clear"
    /\ dirty' = Without(dirty, {pull.rec})
    /\ pull' = [pull EXCEPT !.pc = "next", !.rec = AnyRecord, !.clear = FALSE]
    /\ UNCHANGED <<store, loaded, cached, app, track, push, history, counts>>

PullFinish ==
    /\ pull.pc = "next" /\ pull.todo = {}
    /\ pull' = [PullIdle EXCEPT !.pc = "persist", !.snap = Doc(dirty)]
    /\ UNCHANGED <<store, memory, app, track, push, history, counts>>

PullPersist ==
    /\ pull.pc = "persist"
    /\ meta' = pull.snap
    /\ pull' = PullIdle
    /\ UNCHANGED <<local, remote, memory, app, track, push, history, counts>>

-----------------------------------------------------------------------------
(***************************************************************************)
(* The environment: other devices change the remote (their conditional    *)
(* pushes), and the device goes down, which loses all but the stores.     *)
(***************************************************************************)
PeerPut(r) ==
    /\ peerOps < MaxPeerOps /\ peerOps' = peerOps + 1
    /\ remote' = [remote EXCEPT ![r] = [v |-> @.v + 1, src |-> {<<"peer", peerOps + 1>>}]]
    /\ UNCHANGED <<local, meta, memory, app, track, push, pull, history, ops, fails, crashes>>

PeerDelete(r) ==
    /\ peerOps < MaxPeerOps /\ "peerDelete" \in Allowed /\ Exists(remote[r])
    /\ peerOps' = peerOps + 1
    /\ remote' = [remote EXCEPT ![r] = Missing]
    /\ UNCHANGED <<local, meta, memory, app, track, push, pull, history, ops, fails, crashes>>

Crash ==
    /\ crashes < MaxCrashes /\ crashes' = crashes + 1
    /\ "midWriteCrash" \in Allowed \/ (app.pc = "idle" /\ \A n \in 1..MaxOps : track[n].pc = "none")
    /\ dirty' = NoLog /\ loaded' = FALSE /\ cached' = [r \in Record |-> NotHydrated]
    /\ app' = AppIdle /\ track' = [n \in 1..MaxOps |-> TrackNone]
    /\ push' = [p \in Pusher |-> PushIdle] /\ pull' = PullIdle
    /\ UNCHANGED <<store, history, ops, peerOps, fails>>

PushStep(p) ==
    \/ PushLoaded(p) \/ (\E r \in Record : PushPick(p, r)) \/ PushDelete(p) \/ PushRead(p)
    \/ PushPut(p) \/ (\E o \in Outcome : PushResolve(p, o))
    \/ PushForce(p) \/ PushStore(p) \/ PushFinish(p) \/ PushPersist(p)
PullStep ==
    \/ PullLoaded \/ PullFetch \/ PullStore \/ PullClear \/ PullFinish \/ PullPersist
    \/ \E r \in Record, o \in Outcome : PullDecide(r, o)

Next ==
    \/ \E r \in Record : AppPut(r) \/ AppDelete(r) \/ PeerPut(r) \/ PeerDelete(r)
    \/ AppNotify
    \/ \E n \in 1..MaxOps : TrackLoaded(n) \/ TrackPersist(n)
    \/ \E p \in Pusher : PushStep(p) \/ (\E b \in BOOLEAN : PushFail(p, b)) \/ \E F \in Filters : PushStart(p, F)
    \/ PullStep \/ PullFail \/ \E F \in Filters : PullStart(F)
    \/ Crash

Spec == Init /\ [][Next]_vars

\* The device keeps running and the application keeps calling sync (nothing in
\* noydb.ts starts the timer of startAutoSync or the scheduler): started work
\* goes on, and pull and push are called again and again.
Fairness ==
    /\ WF_vars(AppNotify)
    /\ \A n \in 1..MaxOps : WF_vars(TrackLoaded(n)) /\ WF_vars(TrackPersist(n))
    /\ \A p \in Pusher : WF_vars(PushStep(p)) /\ SF_vars(PushStart(p, Record))
    /\ WF_vars(PullStep) /\ SF_vars(PullStart(Record))
FairSpec == Spec /\ Fairness

-----------------------------------------------------------------------------
(***************************************************************************)
(* Correctness.                                                           *)
(***************************************************************************)
AppType   == [pc : {"idle", "stored"}, rec : Record, action : {"put", "delete"}, version : Nat]
TrackType == [pc : {"none", "load", "persist"}, rec : Record,
              action : {"put", "delete"}, version : Nat, snap : Document]
PushPc    == {"idle", "load", "next", "delete", "read", "put", "fetch", "force", "forceMerged",
              "store", "persist"}
PushType  == [pc : PushPc,
              i : Nat, done : SUBSET Nat, filter : SUBSET Record, rec : Record,
              entry : Entry, env : Envelope, renv : Envelope, winner : Envelope, snap : Document]
PullPc    == {"idle", "load", "fetch", "next", "store", "clear", "persist"}
PullType  == [pc : PullPc,
              todo : SUBSET Record, rec : Record, env : Envelope, winner : Envelope,
              clear : BOOLEAN, remote : [Record -> Envelope], filter : SUBSET Record,
              snap : Document]

TypeOK ==
    /\ local \in [Record -> Envelope] /\ remote \in [Record -> Envelope]
    /\ meta \in Document /\ dirty \in Log /\ loaded \in BOOLEAN
    /\ cached \in [Record -> [known : BOOLEAN, v : Nat]]
    /\ policy \in [Record -> Policies]
    /\ app \in AppType /\ track \in [1..MaxOps -> TrackType]
    /\ push \in [Pusher -> PushType] /\ pull \in PullType
    /\ reached \in SUBSET WriteId
    /\ ops \in 0..MaxOps /\ peerOps \in 0..MaxPeerOps
    /\ fails \in 0..MaxFails /\ crashes \in 0..MaxCrashes

\* trackChange, splice and filter together keep the log a gap-free array with
\* one entry per record, whatever calls are in flight: the indices the push
\* loop counts through are the ones in use.
Dense(log) == {log[r].at : r \in {q \in Record : Logged(log, q)}} = 1..LogLength(log)
LogDense == Dense(dirty) /\ Dense(meta.log)

\* A record of the local store with an application write the remote never got.
Unpushed(r) == Exists(local[r]) /\ \E w \in local[r].src : w[1] = "app" /\ w \notin reached
BeingTracked(r, stages) ==
    \/ app.pc = "stored" /\ app.rec = r
    \/ \E n \in 1..MaxOps : track[n].pc \in stages /\ track[n].rec = r

CurrentLog == IF loaded THEN dirty ELSE meta.log   \* what a push would work from

\* Dirty tracking: as long as the remote has not got a local write that is
\* still in the local store, the log a push works from names its record.
UnpushedTracked ==
    \A r \in Record : Unpushed(r) =>
        Logged(CurrentLog, r) \/ BeingTracked(r, {"load"})

\* The same of the persisted log, which is what a restart begins with.
UnpushedDurable ==
    \A r \in Record : Unpushed(r) => Logged(meta.log, r) \/ BeingTracked(r, {"load", "persist"})

\* An unpushed write leaves the local store only by a later operation of the
\* application or because a conflict policy that was shown it chose otherwise.
LocalLossDecided ==
    [][\A r \in Record : Unpushed(r) /\ local'[r] # local[r] =>
          \/ ops' # ops
          \/ \E p \in Pusher : /\ push[p].pc = "store" /\ push[p].rec = r
                               /\ push[p].env = local[r]
          \/ /\ pull.pc = "store" /\ pull.clear /\ pull.rec = r
             /\ pull.env = local[r]]_vars

\* What pull skips as newer locally is left to push: it is in the log.
NewerLocalIsLogged ==
    Quiet => \A r \in Record : Exists(remote[r]) /\ local[r].v > remote[r].v =>
                Logged(CurrentLog, r)

\* A push conflict means that the remote holds a version the device has not
\* written itself: the handler is not called about the device's own history.
ConflictIsForeign ==
    \A p \in Pusher : push[p].pc \in {"force", "forceMerged", "store"} =>
        push[p].renv.v > push[p].entry.version - 1

\* A push replaces or removes only what it expected or showed to the policy.
RemoteLossDecided ==
    [][\A p \in Pusher : LET r == push[p].rec IN
          push[p].pc \in {"force", "forceMerged"} /\ remote'[r] # remote[r] /\ peerOps' = peerOps
              => remote[r] = push[p].renv]_vars

\* The delete of a record another device has changed meanwhile is a conflict.
DeleteIsChecked ==
    [][\A p \in Pusher : LET r == push[p].rec IN
          (/\ push[p].pc = "delete" /\ push[p].entry.version > 0
           /\ remote'[r] # remote[r] /\ peerOps' = peerOps)
              => remote[r].v <= push[p].entry.version]_vars

\* What leaves the log at the end of a push has reached the remote or was
\* given up by a policy.
PushRemovesPushed ==
    [][\A p \in Pusher, r \in Record :
          (/\ push[p].pc = "next" /\ push'[p].pc = "persist"
           /\ Logged(dirty, r) /\ Unpushed(r) /\ ~BeingTracked(r, {"load"}))
              => Logged(dirty', r)]_vars

\* A record the application has deleted stays deleted until it is put again.
DeleteSticks ==
    [][\A r \in Record :
          (/\ Logged(dirty, r) /\ dirty[r].action = "delete" /\ dirty[r].version > 0
           /\ ~Exists(local[r]) /\ Exists(local'[r])) => ops' # ops]_vars

\* Once writes and failures end, the log drains, in memory and on disk, and the
\* two stores agree.
StoresConverge == <>[](dirty = NoLog /\ meta.log = NoLog /\ local = remote)
=============================================================================
