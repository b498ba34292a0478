----------------------------- MODULE RouteStore -----------------------------
(***************************************************************************)
(* routeStore (packages/hub/src/route-store.ts): one store in front of     *)
(* several.  User records live in the primary store or, once compact() has *)
(* moved them, in the cold one; blob chunks and named collections (and, by *)
(* the same rule, vaults with a routed prefix) have stores of their own; a *)
(* route can be overridden, or suspended with or without a queue of its    *)
(* writes.                                                                 *)
(*                                                                         *)
(* The version of a record doubles as its timestamp: `clock' counts the    *)
(* writes, and records up to `cutoff' are older than coldAfterDays.        *)
(* quotaExceeded is left out: nothing in the code ever sets it.            *)
(***************************************************************************)
EXTENDS Naturals, Sequences, FiniteSets

CONSTANTS
    Key, None,
    Kind,          \* Kind[k]: "record", "named", "small" or "large" (the last two: chunks)
    Topologies,    \* age tiering and blob routing: a set of [age : BOOLEAN, blobs : ...]
    MaxSize,       \* maxQueueSize
    MaxWrites, MaxFails, MaxCrashes,    \* bounds
    Allowed        \* which of Behaviours are looked at

Behaviours ==
    {"busyCompact",   \* compact moves a record that is being written
     "coldFails",     \* calls of the cold store fail
     "putFails",      \* puts of records that may be archived, or of queued writes, fail
     "suspendAged",   \* a route with records in the cold store is suspended
     "resuspend",     \* a route is suspended again while it is, or while it is replayed
     "queueFull",     \* more writes are queued than maxQueueSize
     "busyReplay",    \* a route is used while its queue is replayed
     "lateOverride"}  \* a route is overridden, or the override cleared, when it has data

RouteAssumption ==
    /\ Kind \in [Key -> {"record", "named", "small", "large"}] /\ Allowed \subseteq Behaviours
    /\ Topologies \subseteq [age : BOOLEAN, blobs : {"none", "simple", "tiered"}]
    /\ MaxSize \in Nat \ {0} /\ {MaxWrites, MaxFails, MaxCrashes} \subseteq Nat

Version == 1..MaxWrites
Store == {"primary", "cold", "blobs", "smalls", "named", "other"}
Route == {"default", "blobs", "named"}

VARIABLES
    topology,
    data,         \* what each store holds
    overridden,   \* overrides: the routes that go to the store "other"
    suspended,    \* suspended
    queue,        \* writeQueues: a sequence of writes per route, or none
    replay,       \* the resume() that is replaying a queue
    call,         \* the call in progress
    stray,        \* cold.delete calls of puts, which nobody awaits
    compacting,   \* the record compact() is moving
    clock, cutoff, fails, crashes,
    intended,     \* history: what the last acknowledged write left
    unsure        \* history: records with a later write that was not acknowledged

sources == <<topology, overridden, suspended>>
history == <<intended, unsure>>
bounds  == <<fails, crashes>>
vars == <<sources, data, queue, replay, call, stray, compacting, clock, cutoff, bounds, history>>

NoQueue == [on |-> FALSE, writes |-> <<>>]
NoReplay == [on |-> FALSE, route |-> "default", target |-> "primary", writes |-> <<>>]
NoCall == [op |-> "none", key |-> None, ver |-> None, pc |-> "idle", target |-> "null", res |-> None]
NoMove == [pc |-> "idle", key |-> None, ver |-> None]

Init ==
    /\ topology \in Topologies
    /\ data = [s \in Store |-> [k \in Key |-> None]]
    /\ overridden = {} /\ suspended = {} /\ queue = [r \in Route |-> NoQueue]
    /\ replay = NoReplay /\ call = NoCall /\ compacting = NoMove
    /\ stray = [k \in Key |-> 0] /\ clock = 0 /\ cutoff = 0 /\ fails = 0 /\ crashes = 0
    /\ intended = [k \in Key |-> None] /\ unsure = {}

-----------------------------------------------------------------------------
(***************************************************************************)
(* Routing.                                                               *)
(***************************************************************************)
Chunk(k) == Kind[k] \in {"small", "large"}
Aged(k) == topology.age /\ ~Chunk(k)

RouteName(k) ==
    CASE Kind[k] = "named"                    -> "named"
      [] Chunk(k) /\ topology.blobs # "none"  -> "blobs"
      [] OTHER                                -> "default"

Original(r) == CASE r = "blobs" -> "blobs" [] r = "named" -> "named" [] OTHER -> "primary"

StoreFor(k) ==
    LET r == RouteName(k) IN
    IF r \in suspended THEN "null" ELSE IF r \in overridden THEN "other" ELSE Original(r)

BlobStoreForSize(k) == IF Kind[k] = "small" THEN "smalls" ELSE "blobs"

\* Chunks of a tiered store go by their size, whatever is overridden or suspended.
PutStore(k) == IF Chunk(k) /\ topology.blobs = "tiered" THEN BlobStoreForSize(k) ELSE StoreFor(k)

\* What a store has under a key after an operation; the null store absorbs it.
Put(s, k, v) == IF s = "null" THEN data ELSE [data EXCEPT ![s][k] = v]
Held(s, k) == IF s = "null" THEN None ELSE data[s][k]
Other(r) == {k \in Key : RouteName(k) = r}

-----------------------------------------------------------------------------
(***************************************************************************)
(* put, delete, get.  A write is queued when its route is suspended with a *)
(* queue; the queue drops its oldest write when it is full.                *)
(***************************************************************************)
Queues(k) == RouteName(k) \in suspended /\ queue[RouteName(k)].on
Full(r) == Len(queue[r].writes) >= MaxSize
\* (Variant: the queue is a stack.)
EnqueueFirst(r, w) ==
    queue' = [queue EXCEPT ![r].writes = <<w>> \o (IF Full(r) THEN Tail(@) ELSE @)]
Enqueue(r, w) ==
    queue' = [queue EXCEPT ![r].writes = Append(IF Full(r) THEN Tail(@) ELSE @, w)]

Quiet(k) ==    \* nothing the passing runs keep apart from writes of this record
    /\ "busyCompact" \in Allowed \/ compacting.key # k
    /\ "busyReplay" \in Allowed \/ ~(replay.on /\ replay.route = RouteName(k))
    /\ "queueFull" \in Allowed \/ ~(Queues(k) /\ Full(RouteName(k)))

Acknowledge(k, v) == intended' = [intended EXCEPT ![k] = v] /\ unsure' = unsure \ {k}

BeginPut(k) ==
    LET r == RouteName(k) v == clock + 1 IN
    /\ call = NoCall /\ v <= MaxWrites /\ clock' = v /\ Quiet(k)
    /\ IF Queues(k)
       THEN /\ Enqueue(r, [key |-> k, ver |-> v]) /\ Acknowledge(k, v)
            /\ UNCHANGED <<call, stray>>
       ELSE /\ call' = [NoCall EXCEPT !.op = "put", !.key = k, !.ver = v, !.pc = "store",
                                      !.target = PutStore(k)]
            /\ stray' = IF Aged(k) THEN [stray EXCEPT ![k] = @ + 1] ELSE stray
            /\ unsure' = unsure \cup {k} /\ UNCHANGED <<queue, intended>>
    /\ UNCHANGED <<sources, data, replay, compacting, cutoff, bounds>>

\* The target has carried the put out.  A put that the null store absorbs counts for nothing.
PutStored ==
    LET k == call.key IN
    /\ call.op = "put" /\ call' = NoCall
    /\ data' = Put(call.target, k, call.ver)
    /\ IF call.target = "null" THEN unsure' = unsure \ {k} /\ UNCHANGED intended
       ELSE Acknowledge(k, call.ver)
    /\ UNCHANGED <<sources, queue, replay, stray, compacting, clock, cutoff, bounds>>

PutFails ==
    /\ call.op = "put" /\ call.target # "null" /\ fails < MaxFails
    /\ "putFails" \in Allowed \/ ~Aged(call.key)
    /\ fails' = fails + 1 /\ call' = NoCall /\ unsure' = unsure \ {call.key}
    /\ UNCHANGED <<sources, data, queue, replay, stray, compacting, clock, cutoff, crashes, intended>>

\* A cold.delete that a put did not wait for; its failure is swallowed.
ColdDelete(k) ==
    /\ stray[k] > 0 /\ stray' = [stray EXCEPT ![k] = @ - 1]
    /\ \/ data' = Put("cold", k, None) /\ UNCHANGED fails
       \/ "coldFails" \in Allowed /\ fails < MaxFails /\ fails' = fails + 1 /\ UNCHANGED data
    /\ UNCHANGED <<sources, queue, replay, call, compacting, clock, cutoff, crashes, history>>

BeginDelete(k) ==
    /\ call = NoCall /\ intended[k] # None /\ clock < MaxWrites /\ clock' = clock + 1 /\ Quiet(k)
    /\ IF Queues(k)
       THEN /\ Enqueue(RouteName(k), [key |-> k, ver |-> None]) /\ Acknowledge(k, None)
            /\ UNCHANGED call
       ELSE /\ call' = [NoCall EXCEPT !.op = "delete", !.key = k, !.pc = "store",
                                      !.target = StoreFor(k)]
            /\ unsure' = unsure \cup {k} /\ UNCHANGED <<queue, intended>>
    /\ UNCHANGED <<sources, data, replay, stray, compacting, cutoff, bounds>>

Deleted(k) ==
    /\ call' = NoCall
    /\ IF call.target = "null" THEN unsure' = unsure \ {k} /\ UNCHANGED intended
       ELSE Acknowledge(k, None)

DeleteStored ==
    LET k == call.key IN
    /\ call.op = "delete" /\ call.pc = "store" /\ data' = Put(call.target, k, None)
    /\ IF Aged(k) THEN call' = [call EXCEPT !.pc = "cold"] /\ UNCHANGED history ELSE Deleted(k)
    /\ UNCHANGED <<sources, queue, replay, stray, compacting, clock, cutoff, bounds>>

DeleteCold ==
    /\ call.op = "delete" /\ call.pc = "cold" /\ Deleted(call.key)
    /\ \/ data' = Put("cold", call.key, None) /\ UNCHANGED fails
       \/ "coldFails" \in Allowed /\ fails < MaxFails /\ fails' = fails + 1 /\ UNCHANGED data
    /\ UNCHANGED <<sources, queue, replay, stray, compacting, clock, cutoff, crashes>>

BeginGet(k) ==
    /\ call = NoCall /\ ("busyReplay" \in Allowed \/ ~(replay.on /\ replay.route = RouteName(k)))
    /\ call' = [NoCall EXCEPT !.op = "get", !.key = k, !.pc = "store", !.target = StoreFor(k)]
    /\ UNCHANGED <<sources, data, queue, replay, stray, compacting, clock, cutoff, bounds, history>>

GetStored ==
    LET v == Held(call.target, call.key) IN
    /\ call.op = "get" /\ call.pc = "store"
    /\ call' = IF v = None /\ Aged(call.key) THEN [call EXCEPT !.pc = "cold"]
               ELSE [call EXCEPT !.pc = "done", !.res = v]
    /\ UNCHANGED <<sources, data, queue, replay, stray, compacting, clock, cutoff, bounds, history>>

GetCold ==
    /\ call.op = "get" /\ call.pc = "cold"
    /\ call' = [call EXCEPT !.pc = "done", !.res = data["cold"][call.key]]
    /\ UNCHANGED <<sources, data, queue, replay, stray, compacting, clock, cutoff, bounds, history>>

GetReturns ==
    /\ call.op = "get" /\ call.pc = "done" /\ call' = NoCall
    /\ UNCHANGED <<sources, data, queue, replay, stray, compacting, clock, cutoff, bounds, history>>

\* saveAll: every store gets its share of the snapshot of the user's collections.
SaveAll ==
    LET user == {k \in Key : ~Chunk(k)} v == clock + 1 IN
    /\ call = NoCall /\ v <= MaxWrites /\ clock' = v
    /\ \A k \in user : Quiet(k) /\ RouteName(k) \notin suspended
    /\ data' = [s \in Store |-> [k \in Key |-> IF k \in user /\ s = StoreFor(k) THEN v ELSE data[s][k]]]
    /\ intended' = [k \in Key |-> IF k \in user THEN v ELSE intended[k]] /\ unsure' = unsure \ user
    /\ UNCHANGED <<sources, queue, replay, call, stray, compacting, cutoff, bounds>>

-----------------------------------------------------------------------------
(***************************************************************************)
(* compact: a record of the primary store that is old enough is copied to  *)
(* the cold store and then deleted.                                        *)
(***************************************************************************)
GrowOld ==
    /\ topology.age /\ cutoff < clock /\ cutoff' \in (cutoff + 1)..clock
    /\ UNCHANGED <<sources, data, queue, replay, call, stray, compacting, clock, bounds, history>>

CompactRead(k) ==
    /\ topology.age /\ compacting = NoMove /\ Kind[k] = "record"
    /\ data["primary"][k] \in 1..cutoff
    /\ "busyCompact" \in Allowed \/ ((call.key = k => call.op = "get") /\ stray[k] = 0)
    /\ compacting' = [pc |-> "copy", key |-> k, ver |-> data["primary"][k]]
    /\ UNCHANGED <<sources, data, queue, replay, call, stray, clock, cutoff, bounds, history>>

CompactCopy ==
    /\ compacting.pc = "copy" /\ data' = Put("cold", compacting.key, compacting.ver)
    /\ compacting' = [compacting EXCEPT !.pc = "drop"]
    /\ UNCHANGED <<sources, queue, replay, call, stray, clock, cutoff, bounds, history>>

CompactDrop ==
    /\ compacting.pc = "drop" /\ data' = Put("primary", compacting.key, None)
    /\ compacting' = NoMove
    /\ UNCHANGED <<sources, queue, replay, call, stray, clock, cutoff, bounds, history>>

-----------------------------------------------------------------------------
(***************************************************************************)
(* suspend, resume, override.                                              *)
(***************************************************************************)
Suspend(r, queued) ==
    /\ "suspendAged" \in Allowed \/ ~\E k \in Other(r) : Aged(k)
    /\ "resuspend" \in Allowed \/ (r \notin suspended /\ ~(replay.on /\ replay.route = r))
    /\ call = NoCall    \* a call under way has its store already
    /\ suspended' = suspended \cup {r}
    /\ queue' = IF queued THEN [queue EXCEPT ![r] = [on |-> TRUE, writes |-> <<>>]] ELSE queue
    /\ UNCHANGED <<topology, overridden, data, replay, call, stray, compacting, clock, cutoff, bounds,
                   history>>

BeginResume(r) ==
    /\ r \in suspended /\ ~replay.on /\ suspended' = suspended \ {r}
    /\ IF queue[r].writes = <<>>
       THEN queue' = [queue EXCEPT ![r] = NoQueue] /\ UNCHANGED replay
       ELSE /\ replay' = [on |-> TRUE, route |-> r, writes |-> queue[r].writes,
                          target |-> IF r \in overridden THEN "other" ELSE Original(r)]
            /\ UNCHANGED queue
    /\ UNCHANGED <<topology, overridden, data, call, stray, compacting, clock, cutoff, bounds, history>>

\* The oldest queued write goes to the store of the route; an error is swallowed.
ReplayNext ==
    LET w == Head(replay.writes) IN
    /\ replay.on /\ replay.writes # <<>> /\ replay' = [replay EXCEPT !.writes = Tail(@)]
    /\ \/ data' = Put(replay.target, w.key, w.ver) /\ UNCHANGED fails
       \/ "putFails" \in Allowed /\ fails < MaxFails /\ fails' = fails + 1 /\ UNCHANGED data
    /\ UNCHANGED <<sources, queue, call, stray, compacting, clock, cutoff, crashes, history>>

ReplayEnd ==
    /\ replay.on /\ replay.writes = <<>> /\ replay' = NoReplay
    /\ queue' = [queue EXCEPT ![replay.route] = NoQueue]
    /\ UNCHANGED <<sources, data, call, stray, compacting, clock, cutoff, bounds, history>>

Fresh(r, s) == "lateOverride" \in Allowed \/
    (call = NoCall /\ ~replay.on /\ \A k \in Other(r) : data[s][k] = None /\ (Aged(k) => data["cold"][k] = None))

\* override: with hydrate too, nothing is copied.
Override(r) ==
    /\ r \notin overridden /\ Fresh(r, Original(r)) /\ (r # "blobs" \/ topology.blobs # "tiered")
    /\ overridden' = overridden \cup {r}
    /\ UNCHANGED <<topology, suspended, data, queue, replay, call, stray, compacting, clock, cutoff, bounds,
                   history>>

ClearOverride(r) ==
    /\ r \in overridden /\ Fresh(r, "other") /\ overridden' = overridden \ {r}
    /\ UNCHANGED <<topology, suspended, data, queue, replay, call, stray, compacting, clock, cutoff, bounds,
                   history>>

\* The process ends: the stores stay, everything else is lost.
Crash ==
    /\ crashes < MaxCrashes /\ crashes' = crashes + 1
    /\ overridden = {} /\ \A r \in Route : queue[r] = NoQueue
    /\ suspended' = {} /\ call' = NoCall /\ compacting' = NoMove /\ replay' = NoReplay
    /\ stray' = [k \in Key |-> 0]
    /\ UNCHANGED <<topology, overridden, data, queue, clock, cutoff, fails, history>>

-----------------------------------------------------------------------------
Next ==
    \/ \E k \in Key : BeginPut(k) \/ BeginDelete(k) \/ BeginGet(k) \/ ColdDelete(k) \/ CompactRead(k)
    \/ PutStored \/ PutFails \/ DeleteStored \/ DeleteCold \/ GetStored \/ GetCold \/ GetReturns
    \/ SaveAll \/ GrowOld \/ CompactCopy \/ CompactDrop
    \/ \E r \in {RouteName(k) : k \in Key} :
          \/ Suspend(r, TRUE) \/ Suspend(r, FALSE) \/ BeginResume(r)
          \/ Override(r) \/ ClearOverride(r)
    \/ ReplayNext \/ ReplayEnd \/ Crash

Spec == Init /\ [][Next]_vars

-----------------------------------------------------------------------------
(***************************************************************************)
(* Properties.                                                            *)
(***************************************************************************)
Reachable(k) == RouteName(k) \notin suspended /\ ~(replay.on /\ replay.route = RouteName(k))

\* What a get that nothing interrupts returns.
Served(k) ==
    LET v == Held(StoreFor(k), k) IN IF v = None /\ Aged(k) THEN data["cold"][k] ELSE v

\* What is served is what the last acknowledged write left, wherever the record was put,
\* moved, queued and replayed, also in the middle of a compaction and after a crash.
ReadsBack == \A k \in Key \ unsure : Reachable(k) => Served(k) = intended[k]

\* A get that a compaction overlaps returns it too.
GetsCurrent ==
    call.op = "get" /\ call.pc = "done" /\ call.key \notin unsure /\ call.target # "null"
        => call.res = intended[call.key]

\* loadAll, which merges the stores of the vault by timestamp, agrees with get about the
\* user's records.  Overrides it does not look at.
Found(k) == {data[s][k] : s \in {"primary", "cold", "blobs", "smalls", "named"}} \ {None}
Merged(k) ==
    IF Found(k) = {} THEN None ELSE CHOOSE v \in Found(k) : \A w \in Found(k) : w <= v
LoadAllAgrees ==
    \A k \in Key \ unsure : ~Chunk(k) /\ Reachable(k) /\ RouteName(k) \notin overridden
        => Merged(k) = Served(k)

\* An acknowledged record is in some store or in a queue: no crash of compact, no pending
\* cold.delete and no suspension loses it.
NeverNowhere ==
    \A k \in Key \ unsure : intended[k] # None =>
        \/ \E s \in Store : data[s][k] = intended[k]
        \/ \E r \in Route : \E i \in DOMAIN queue[r].writes : queue[r].writes[i].ver = intended[k]
=============================================================================
