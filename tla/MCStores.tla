------------------------------ MODULE MCStores ------------------------------
(***************************************************************************)
(* The stores on small instances for TLC: the adapters, the routing store, *)
(* blobs and bundles.  The four share no state: a behaviour is one of one  *)
(* of them, the other three rest.                                          *)
(***************************************************************************)
EXTENDS StoreAdapters, TLC

CONSTANTS c1, c2, k1, k2, r1, s1, s2, e1, e2, l1

Callers == {c1, c2}
AllAdapters == {Memory, Files, IndexedDb, LocalStorage, Dynamo, S3}

Keys == {k1, k2}
RecordAndChunk == k1 :> "record" @@ k2 :> "large"
AgedOrNot == [age : BOOLEAN, blobs : {"simple"}]

OneRecord == {r1}
TwoSlots == {s1, s2}
TwoETags == {e1, e2}
OneLabel == {l1}

\* The instances of the routes, the blobs and the bundles.
CONSTANTS RouteKey, Kind, Topologies, MaxSize, MaxWrites, MaxFails, MaxCrashes, RouteAllowed
CONSTANTS Record, Slot, ETag, Label, Counts, MaxTries, MaxOps, MaxCuts, BlobAllowed
CONSTANTS Client, BundleKey, MaxCalls, AutoFlush, MaxPuts, MaxFlushes, MaxLost, MaxRestarts, BundleAllowed

VARIABLES part
VARIABLES topology, data, overridden, suspended, queue, replay, routeCall, stray, compacting,
          clock, cutoff, fails, crashes, intended, unsure
VARIABLES index, chunk, slots, published, deferred, blobCall, ops, cuts, contested
VARIABLES autoFlush, bundle, snap, known, loaded, batching, bundleCall, puts, flushes, lost, restarts,
          dropped, stored

Route == INSTANCE RouteStore WITH
    Key <- RouteKey, Allowed <- RouteAllowed, call <- routeCall
Blobs == INSTANCE BlobSet WITH Allowed <- BlobAllowed, call <- blobCall
Bundles == INSTANCE BundleStore WITH
    Key <- BundleKey, MaxFails <- MaxLost, MaxCrashes <- MaxRestarts, Allowed <- BundleAllowed,
    call <- bundleCall, clock <- puts, fails <- lost, crashes <- restarts

ASSUME RouteAssumption == Route!RouteAssumption
ASSUME BlobAssumption == Blobs!BlobAssumption

routeVars  == <<topology, data, overridden, suspended, queue, replay, routeCall, stray, compacting,
                clock, cutoff, fails, crashes, intended, unsure>>
blobVars   == <<index, chunk, slots, published, deferred, blobCall, ops, cuts, contested>>
bundleVars == <<autoFlush, bundle, snap, known, loaded, batching, bundleCall, puts, flushes, lost,
                restarts, dropped, stored>>

StoresInit ==
    /\ part \in {"adapters", "route", "blobs", "bundles"}
    /\ Init /\ Route!Init /\ Blobs!Init /\ Bundles!Init
    /\ part = "adapters" \/ adapter = Memory
    /\ part = "route" \/ ~topology.age
    /\ part = "bundles" \/ autoFlush

StoresNext ==
    \/ part = "adapters" /\ Next /\ UNCHANGED <<part, routeVars, blobVars, bundleVars>>
    \/ part = "route" /\ Route!Next /\ UNCHANGED <<part, vars, blobVars, bundleVars>>
    \/ part = "blobs" /\ Blobs!Next /\ UNCHANGED <<part, vars, routeVars, bundleVars>>
    \/ part = "bundles" /\ Bundles!Next /\ UNCHANGED <<part, vars, routeVars, blobVars>>

StoresSpec == StoresInit /\ [][StoresNext]_<<part, vars, routeVars, blobVars, bundleVars>>

\* Reading a record, or a whole collection, through the routes gives the write that was
\* acknowledged last, and a compaction leaves no moment at which a record is nowhere; a scan of
\* an adapter that has come to its end has returned every record that was there all along.
ReadsBack ==
    /\ part = "route" => Route!ReadsBack /\ Route!LoadAllAgrees /\ Route!NeverNowhere
    /\ part = "adapters" => ScanComplete

\* A blob's reference count never falls below the slots and versions that name it, and all the
\* chunks of what they name can be read.
RefCountCovers == part = "blobs" => Blobs!RefCountCovers /\ Blobs!Readable

\* Nobody's slot changes but by a call on it.
SlotsKept == Blobs!SlotsKept

\* What a client has written to the bundle stays in it.
StoredKept == part = "bundles" => Bundles!StoredKept

Symmetric == Permutations(Callers) \cup Permutations(TwoETags)
=============================================================================
