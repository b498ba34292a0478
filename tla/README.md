# noydb: a verification development

noydb is an offline-first, encrypted document store: applications work on
*collections* of a *vault*, every record is encrypted before it leaves the hub,
a *store* (memory, file, browser database, cloud) keeps the envelopes, and a
*sync engine* moves envelopes between the local store of a device and a remote
one. This directory holds TLA+ models of that code, the TLC configurations that
check them, and proofs for the TLA+ proof system.

Contents: [components](#components), [what is hard](#what-is-hard-here),
[plan](#plan), [the modules and the code](#the-modules-and-the-code),
[abstract specifications](#abstract-specifications-and-refinement),
[runs and bounds](#runs-and-bounds), [fairness](#fairness),
[what is proved](#what-is-proved), [where code and documentation differ](#where-code-and-documentation-differ),
[what is not modelled](#what-is-not-modelled).

## Components

All paths are below `packages/hub/src` unless they start with `packages/`.

| component | state it keeps | operations | module |
|---|---|---|---|
| **Sync engine** `sync.ts` | dirty log (one entry per record), `loaded`, resolvers, the persisted `_sync/meta` document | `trackChange`, `push`, `pull`, `sync`, `pushFiltered` | `SyncEngine` |
| **Sync scheduler** `sync-policy.ts` | `_state`, debounce and interval timers, last error | `start`, `stop`, `notifyChange`, `forcePush`, `forcePull`, the unload hook | `SyncScheduler` |
| **Sync targets, transactions** `noydb.ts`, `sync-transaction.ts` | the engines of a vault; operations buffered until `commit` | the fan-out of `onDirty`, `push`, `pull`, `sync`, `commit` | `SyncTargets` |
| **Presence** `presence.ts` | the records of peers, poll timers | `update`, `subscribe`, `stop` | `Presence` |
| **Collection** `collection.ts` | hydrated cache or LRU, indexes, versions | `get`, `put`, `delete`, hydration | `Collection`, and the modules below for what a `put` does besides |
| **History** `history.ts` | snapshots | `history`, `revert`, `diff`, prune, clear | `History` |
| **Ledger** `ledger/` | cached chain head, `_ledger`, `_ledger_deltas` | `append`, `verify`, `reconstruct` | `Collection`, `JsonPatch` |
| **Cache** `cache/` | records by count and bytes | `get`, `set`, `remove`, eviction | `Lru` |
| **CRDT mode** `crdt.ts`, `packages/in-yjs` | a mergeable state per record | build, resolve, merge | `Crdt` |
| **Queries** `query/` | indexes, live queries | plans, joins, groups, scans, live | `Query`, `QueryPlan` |
| **References** `refs.ts`, `vault.ts` | registry of references | strict, warn, cascade, `checkIntegrity` | `VaultRefs` |
| **Dictionaries, backups** `dictionary.ts`, `vault.ts` | dictionary entries, their cache | put, rename, delete; `dump`, `load`, `exportStream` | `Dictionary`, `VaultBackup` |
| **Translations** `i18n.ts`, `schema.ts` | translator cache and log | validation, translation, reading by locale | `Translation` |
| **Keyring** `keyring.ts` | the keyring file of each user, the keys in memory | load, create, `grant`, `revoke`, `rotateKeys`, `changeSecret` | `Keyring` |
| **Instance, sessions** `noydb.ts`, `session*.ts` | keyring and vault caches, timers, session keys | `openVault`, `close`, `queryAcross`, session calls | `Noydb` |
| **Ways to unlock** `dev-unlock.ts`, `magic-link.ts`, `packages/auth-*` | sealed keyrings | enrol, unlock, revoke, expire | `Unlock` |
| **Store contract** `types.ts` | envelopes | `get`, `put` with expected version, `delete`, bulk calls | `StoreContract` (abstract) |
| **Store adapters** `packages/to-*` | files, databases, buckets | the store contract and pages | `StoreAdapters` |
| **Store middleware** `store-middleware.ts` | circuit, cache, health | retry, breaker, cache, health check | `StoreMiddleware` |
| **Routing store** `route-store.ts` | overrides, suspensions and their queues, age tier | `override`, `suspend`, `resume`, `compact` and the contract | `RouteStore` |
| **Blob sets** `blob-set.ts` | slots, versions, chunks, reference counts | put, get, delete, publish | `BlobSet` |
| **Bundle store** `bundle-store.ts` | a snapshot per vault, its version | the contract, `flush`, `batch` | `BundleStore` |
| **Portable bundles** `bundle/` | the handle of a vault | write, read | `Container` |
| **Bindings** `packages/in-pinia`, `packages/in-vue` | lists shown to a user, persisted state | refresh, edit, hydrate | `Bindings`, `StatePlugin` |
| **Command line** `packages/create-noy-db` | the user's project files | the wizard and the commands | `CommandLine` |

What makes them correct, in a sentence each:

* *Sync*: a local write the remote has not got is named by the dirty log (in
  memory, and on disk before a restart); nothing local is replaced without a
  conflict policy having seen it; the log drains and the stores converge; each
  of several targets has every write or an entry for it.
* *Scheduler*: the state it shows is backed by work in progress; a change is
  pushed eventually under a policy that says so.
* *Presence*: a list has those who are there; who stays is seen.
* *Collection and ledger*: cache, store, history and ledger agree; one hash
  chain without gap or fork; `reconstruct` gives back what was written.
* *Values*: index and walk find the same records, live queries show the data,
  merges lose nothing, patches and bundles restore exactly, the cache keeps its
  budget.
* *References, dictionaries, backups*: no dangling strict reference, a cascade
  is complete, a key in use has labels, a reported restore is a restore.
* *Keys*: every record can be read by whoever holds a key of its collection;
  after a strict revoke none of the admins below remains; a closed instance
  holds nothing; an intact enrolment opens what it was made of.
* *Stores*: what wraps or implements a store keeps the contract: acknowledged
  writes stand, conflicts are noticed, reads do not go back; no reference count
  is below its uses.
* *Around the core*: what a user wrote is not destroyed, what is reported is
  true, what is shown is what is stored.

## What is hard here

The code is TypeScript on one event loop. Nothing is preempted, but every
`await` is a point where any other call, timer or callback may run, and most of
the state above is read before an await and used after it. Adding to this:

* calls that nobody awaits (`onDirty` starts `trackChange` and drops its
  promise; timers, unload hooks, the state plugin);
* two stores and no transaction across them, so that a crash or an error
  between two calls leaves a half-done operation (record and dirty log, record
  and ledger, keyring and re-encrypted records, slot and reference count,
  the deletes of a cascade, the files of a wizard);
* several devices that only meet at the remote store, whose single guard is the
  expected version of a `put`; answers of calls can be lost after the effect;
* retries, debounce, interval, idle and poll timers that race with late answers;
* arrays indexed across awaits, cached versions, queues and budgets with a limit.

`PROJECT.json` lists the hazards one by one, each at its line, with the
properties that cover it or the reason why none does.

## Plan

Most important first: what can lose or fork data. All modules of the plan are
written.

| # | modules | question |
|---|---|---|
| 1 | `SyncEngine` with proofs | is a local write always pushed, do the stores converge |
| 2 | `SyncScheduler` with proofs | is every change scheduled, is the state ever stuck |
| 3 | `Collection` with proofs | do cache, store, history and ledger agree |
| 4 | `StoreContract`, `StoreMiddleware`, `StoreAdapters` with proofs | do the stores and their wrappers implement the contract |
| 5 | `BlobSet`, `BundleStore` with proofs, `RouteStore` | are acknowledged writes kept, are counts covered |
| 6 | `Keyring` with proofs, `Noydb`, `Unlock` | does everything stay readable, does a close leave nothing |
| 7 | `VaultRefs`, `Dictionary`, `VaultBackup` with proofs | do references, labels and restores hold |
| 8 | `SyncTargets`, `Presence` with proofs | several targets under one vault, peers by polling |
| 9 | `Query` (with `QueryPlan`), `Crdt`, `JsonPatch`, `History`, `Lru`, `Container`, `Translation` | what is computed from records |
| 10 | `Bindings`, `StatePlugin`, `CommandLine` | what surrounds the core |

## The modules and the code

JavaScript runs one continuation at a time, so a **step** of every module is
the code between two awaits; the effect of the awaited store call and the code
that reads only its private result share the step. Where the code reads shared
memory after the await, the read is a step of its own. A call that is in
flight is a record with a program counter `pc`, named for the call it awaits.
The lines each definition stands for are in `PROJECT.json` under `map`.

Modules have a constant `Allowed` (or `Behaviours`): the set of things the
environment may do beyond careful use ("overlap", "midCallCrash", ...), so that
one module serves the careful application and the careless one. Its comment
says what each member means.

**`SyncEngine`.** One device: local store, remote store, the engine between
them, and the application that writes through `Collection.put` and `delete`; the
other devices are `PeerPut` and `PeerDelete`. `dirty` keeps with every entry its
array index, because push splices by index. `AppNotify` starts `trackChange`,
which nobody awaits (`TrackLoaded`, `TrackPersist`); `PushStart` ...
`PushPersist` are `push` and `pushFiltered`, `PullStart` ... `PullPersist` are
`pull` with its filter. An envelope is its version and the set of writes its
content stems from, so that a merged envelope has two. `reached` is a history
variable: the writes that have been on the remote.

**`SyncScheduler`.** Every timer and guard of `sync-policy.ts`. Durations are
flags: `debounce` (a timer is set), `cooling` (`minIntervalMs` has not passed).
`dirty` is the engine's log behind the callbacks, `unnotified` the changes whose
`trackChange` has not yet called `notifyChange`; a push that runs keeps in
`late` the changes that came after its snapshot; `heard` is a history variable, the
changes notified since the scheduler was started.

**`SyncTargets`.** The engines `openVault` makes for the targets of a vault,
filed under label or role as the code does (two targets of one key replace each
other), one local store and one `_sync/meta` under all of them, the fan-out of
`onDirty`, `Noydb.sync` visiting the targets by role, and transactions. An entry
is dealt with in one step here; the awaits inside are `SyncEngine`'s.

**`Presence`.** Each user's record, polls that read peer after peer (`List`,
`Get`, `Deliver`), broadcasts, the stale limit as ticks.

**`Collection`.** `put`, `get` and `delete`, split at each awaited call:
hydration (list, then one get per id), the lazy LRU, the history snapshot, the
record, and `LedgerStore.append` with its own steps (head from the cache or from
the store, delta, entry, new head). Content is the number of the operation that
wrote it. `SyncPut` is the sync engine writing below the collection. `Verifies`,
`Reconstruct` and `DataMatches` are what `LedgerStore.verify`, `.reconstruct` and
`Vault.verifyBackupIntegrity` compute.

**`StoreMiddleware`.** A call goes down a stack of layers to the base store and
its outcome comes up again (`RetryDown`, `BreakerUp`, `CacheUp`, ...); stacks
are sequences of layers chosen at the start. **`StoreAdapters`.** An adapter is
a record of traits: which operations are one step of the service, how `put`
checks the version, what `loadAll` reads, whether `saveAll` replaces, what a
page cursor counts.

**`RouteStore`.** Keys of four kinds (record, named collection, small and large
chunk), an age tier, overrides, suspension with a bounded queue, replay and
compaction in steps. **`BlobSet`.** Index entries with counts, slots documents
and versions, each updated by a load and a conditional store with retries.
**`BundleStore`.** Clients with a snapshot each, one file with a version.

**`Keyring`.** Files with role, permissions, keys, granter and passphrase; a
process works from memory (`mem`) and writes its whole file back. Grant, revoke
(walk, deletes, rotation), rotation (records, own file, the other files) and
change of secret take a step per store access; a new key is in memory (`EnsureCollectionDEK`)
before its file is written (`SaveDEK`), and any call may fail (`Fails`). **`Noydb`.** The caches of an
instance, its idle timer in ticks, `queryAcross` with its limit, tokens and
enforcers. **`Unlock`.** A sealed box is a record of its content and the key
that opens it; five ways to enrol, the keyring each gives back, and credentials
stored with it. `putCredential` makes its key in memory, saves the file (`Save`,
`SaveFails`) and puts the record; `unsaved` are the keys no file has had.

**`VaultRefs`.** Schemas of references between collections; a cascade is a
stack of frames, a step per delete. A `put` writes the store (`stored`), then the
ledger, and only then the cache (`data`), which is all that `enforceRefs` reads
(`collection.ts:841`, `:877`, `:883`; `:948`, `:955`, `:968`): the store and the cache
change in two steps, and a failure in between leaves them apart until the record is
written again or the session restarts. The history variable `unfinished` names the
records whose last write has got no further than the store. **`Dictionary`, `VaultBackup`.** Entries,
label cache, the ledger with hashes, `rename` record by record; dump and load
with damage in between. A record is written in two steps here as well: the store
(`Wrote`), then ledger entry and cache (`AccountRecord`), with a failure or restart
possible in between. `delete` of a dictionary looks for no use of the key, as in the code.
The history variables are `whole` (no load of this vault was cut short or refused, which
decides whether a dump of it is one of a whole vault), `behind` (records whose last write
of the store has not come to the ledger) and `dropped` (keys deleted by the application).

**`Query`, `QueryPlan`.** Plans are sequences of clauses with order, offset, limit
and joins (`QueryPlan`);
the index is a function from keys to buckets, kept by the same calls as in the
code; a write is split at the store, the cache and the event.
**`Crdt`, `JsonPatch`, `History`, `Lru`, `Container`, `Translation`.** The pure
parts are operators named as in the code (`BuildRga`, `ComputePatch`, `Ulid`);
the actions are the calls that use them. `QueryPlan` and `JsonPatch` use RECURSIVE
operators and hold no theorem.

In `Lru` a put or delete looks the record up, writes the store and then, with the
ledger's entry in between, changes the cache.

**`Bindings`, `StatePlugin`, `CommandLine`.** Views and stores over two
instances of a vault, whose puts and deletes may fail before the store or between the
store and the cache; a document written after every mutation; the commands
over the user's files, with the user's editor as an action. Files that `fs.writeFile`
rewrites are emptied first (`EmptyConfig`, `Dump`) and filled in a later step.

## Abstract specifications and refinement

`StoreContract` says what callers rely on: a call takes effect at one moment
between its start and its return, exactly once when it succeeds, not at all
when it fails, at most once when its caller does not live to see it; a store
that is not available may skip a call. Two modules implement it, with the
specification as a PROPERTY of their runs:

* `StoreMiddleware`: `Contract == INSTANCE StoreContract` maps the abstract
  records to those of the base store, and a call to its passage through the
  stack (`Done` says when it counts as done).
* `StoreAdapters`: the abstract records are `Settled`, in which a write of
  several steps counts from its last one.

`SyncTargets`, `RouteStore` and `BundleStore` are stated over the same contract
but promise more than a single store (several places for one record), so they
have invariants of their own.

## Runs and bounds

Modules that share no state are checked together: an MC module EXTENDS one of
them, makes the others INSTANCEs, and a variable `part` says which of them a
behaviour is about; the others rest in one initial state. The state space is the
sum of the parts, and a property of a part is guarded by it.

`CHECK_DEADLOCK` is `FALSE` throughout: when the counters are used up there is
nothing left to do.

| run | parts and instance | shows |
|---|---|---|
| `sync_log` | 2 records, 2 writes or deletes, a peer's write, filters, a failure, a crash, calls awaited | `UnpushedTracked`, `UnpushedDurable`: a write not yet on the remote is in the log, in memory and on disk; `LogDense`: the log is a gap-free array |
| `sync_converge` | 1 record, 3 writes, 2 of peers, a failure, a crash, five strategies, fairness | `LocalLossDecided`: no local write is replaced unless a policy decided; `StoresConverge`: the log drains, in memory and on disk, and the stores end up equal |
| `peers` | `SyncTargets`: a sync-peer and a backup, 2 writes, 2 elsewhere, a failure. `Presence`: two users, two polls at once, a failure | `WritesReachTargets`, `PushOnlySilent`; `ListsAreTrue`, `PeersSeen` |
| `scheduler` | on-change, debounce and interval mode, starts and stops, 2 changes, 2 pushes and a pull, a failure, fairness | `StateIsBacked`: a state that turns calls away belongs to a call; `NotifiedIsScheduled`: a notified change has a timer or a push; `ChangesPushed`: where it is not stopped, a mode that pushes later pushes every change |
| `collection` | 2 records, 4 calls, a failure, a crash in mid-call, a cold delete, a synced record | `ChainVerifies`, `AppendOnly`, `AuditSound`: what has returned stays in the ledger, unchanged and verifiable, and a record or cache that shows it agrees |
| `store_contract` | four stacks, 2 keys, 2 callers, 2 failures, fairness | `ContractKept` (refinement, coherent cache); `Recovers`: circuits close and suspensions end |
| `stores` | `StoreAdapters`: six adapters, 2 keys, 2 callers, scans. `RouteStore`: record and chunk, with and without age tier, 3 writes, failure, crash. `BlobSet`: 2 slots, 2 contents, 2 callers, 4 calls, one cut short. `BundleStore`: 2 clients, 2 keys | `KeepsContract` (refinement), `ReadsBack`; `RefCountCovers`, `SlotsKept`; `StoredKept` |
| `vault` | `VaultRefs`: 3 collections, 2 ids, three schemas (two of depth two, with both orders of strict and cascade, one of depth one), a restart or failure. `VaultBackup`: 2 keys, 2 records, 5 numbered writes (of records, entries and ledger), a damage, two loads (so that a restored vault is dumped and loaded again), a restart or failure | `StrictHolds`, `DeleteComplete`: except to and of records whose last write of the store did not come to the cache; `LabelsSound`: except for deleted keys and such records; `RestoresExactly`: what the dumped ledger accounted for |
| `access` | `Keyring`: an owner and three users, 7 calls, 2 keys, 2 passphrases, failing store calls. `Noydb`: three vaults, timers of 2 and 3 ticks | `KeysFit`, `CascadeComplete`; `InstanceSound` |
| `data` | seven parts: 2 records, 5 calls that all end, a restart (`Collection`), two devices and 3 writes (`Crdt`), all documents of two names (`JsonPatch`), 3 record values and 4 plans (`Query`), ... | `ReconstructsExactly`, `AnswersAgree`, `LiveCurrent`, `ReplicasAgree`, `PastIsExact`, `LastUsedStay`, `BundlesSound` |
| `app` | five parts: two commands and two edits (`CommandLine`), three puts in two languages (`Translation`), ... | `CommandsHonest`, `TextsTrue`, `MirrorsAgree`, `EnrolmentsHold` |
| `sync_lost_by_push` | smallest that shows it | a documented promise the code does not keep, see below |

Some properties are conjunctions: `ReconstructsExactly`
(the integrity check finds nothing, a cache is what the store holds, every
version is reconstructed), and those that an MC module puts together, `ReadsBack` (single reads, bulk reads, no moment at which
a moved record is nowhere, complete scans), `InstanceSound` (a closed instance
is empty, nothing is locked before its time, `queryAcross` ends with an outcome
for every vault), `CommandsHonest` (the user's work is kept, reports are true,
nothing is left open).

Why the bounds suffice. A conflict needs one write on each side; the case where
a device is refused its *own* write needs two local writes around one push, and
a policy that decides again needs a second peer write: 3 and 2. A splice that
goes wrong needs two records in the log and one call in between. Two crashes do
not differ from one, since a crash leaves nothing but the disk, whatever it was.
The scheduler's dangers come from two calls that share one state. A chain breaks
between two neighbours; five calls on two records reach put, delete, put again
and a restart between any of them. A retry, a threshold and a cache eviction
need one call more than their limits, which are 1 or 2 here. A cascade is
interesting at depth two, for which three collections are enough. A granter chain of owner, admin, admin and their grantee is the
shortest in which an admin below a revoked admin can be missed. A reference
count is shared by two slots of one content, and overtaken while a second
content replaces the first. Two merges of three writes are associative and
commutative or not. Where a theorem exists, it drops the bounds altogether.

Every property is shown to be able to fail: `mutants` in `PROJECT.json` lists,
for each, a plausible bug (a dropped guard, an off-by-one, a swapped order, a
forgotten persist) written as a variant operator beside the original, under
which TLC finds the property violated.

## Fairness

* *SyncEngine*: a call that has been started goes on (its awaited store call
  answers, at worst with an error), so its steps have weak fairness.
  Nothing in `noydb.ts` calls `startAutoSync` or starts a scheduler; liveness
  therefore assumes that the application keeps calling `pull` and `push`. That
  is strong fairness of the unfiltered starts, because they wait until no other
  call is in flight and so are enabled only now and then.
* *SyncScheduler*: calls end, timers fire, time passes (`Cool`), `trackChange`
  gets to `notifyChange`, and the application calls `start`.
* *StoreMiddleware*: a call goes on through its layers (weak), the breaker's
  reset time passes, the interval of a health check pings a store that answers
  again, and the application keeps reading (strong, because a read waits until
  its caller is free).
* *Presence*: an update, a poll and a message that have begun go on, and the
  interval starts the next poll. That a user stays is a hypothesis of
  `PeersSeen`, not fairness.
* Elsewhere no liveness is claimed: a call is a finite sequence of steps.

Failures are bounded, which stands for a network that works again some day.

## What is proved

For every value of the constants, by `tlapm`:

| theorem | module | says |
|---|---|---|
| `TypeCorrect`, `LogAlwaysDense` | `SyncEngine_proofs` | types; the dirty log is an array without gaps whatever overlaps |
| `WritesStayTracked`, `WritesSurviveCrash`, `LossesAreDecided` | `SyncEngine_proofs` | a write the remote has not got is in the log, in memory and on disk; it is replaced locally only by a policy that was shown it |
| `NeverLockedOut`, `NothingForgotten` | `SyncScheduler_proofs` | the scheduler's state never shuts out every call; a notified change has a timer or a push |
| `TargetsServed`, `PushOnlyAlways` | `SyncTargets_proofs` | with any number of targets each has the last word on a record or a log that knows, and a commit is where it is said to be; a push-only target never changes the local store |
| `CollectionTyped`, `AlwaysDense` | `Collection_proofs` | types; the ledger has no gap |
| `WriterKeepsChain`, `WriterOnlyAppends`, `BooksAgree` | `Collection_proofs` | a single writer's chain verifies; its entries are never changed; what has returned is in the ledger, and neither a cache nor the latest entry of a record it wrote contradicts it |
| `ReadersFindTheTruth` | `Collection_proofs` | when calls come to their end, ledger, store and caches agree, and every version of a record is reconstructed exactly |
| `StrictAlways`, `DeletesComplete` | `VaultRefs_proofs` | no strict reference dangles, and a delete that has ended left no reference it had to prevent or to cascade along, but for records whose last write has not come to its end |
| `KeysKeepLabels`, `LoadsRestoreExactly` | `VaultRefs_proofs` | every key of a record has labels unless its entry was deleted or a put of the record has failed, and joins see those that are stored; a load that reports success has restored the ledger as it was dumped, and the records that it accounted for |
| `KeysAlwaysFit`, `CascadesComplete` | `Keyring_proofs` | every record is readable, with one key per collection at rest, if no key is used before it is saved; a strict revoke leaves no admin it had to take |
| `ListsAlwaysTrue` | `SyncTargets_proofs` | a list of peers has those who were there when its poll began, nobody stale, and not the reader |
| `AdaptersKeepContract` | `StoreAdapters_proofs` | every adapter implements `StoreContract`, step by step |
| `CountsCover`, `SlotsChangeByTheirCalls` | `StoreAdapters_proofs` | until a write of slots is refused, a content's count covers the slots and versions that name it; its chunks are there; a call changes its own slot and no other |
| `PutsStayStored` | `StoreAdapters_proofs` | a put that was written stays in the bundle, or a newer one, until a client that has it deletes it |
| `ReadsFindWrites` | `StoreAdapters_proofs` | what is read or loaded through the routes is what was acknowledged last, and it is never nowhere; a scan misses no record that lasted |
| `StackKeepsContract` | `StoreMiddleware_proofs` | every stack of middleware over a store implements `StoreContract`, and its cache is coherent |

The assumptions are those named in the modules: finite non-empty sets, bounds
that are natural numbers, and for some theorems a restriction of the
environment, written as a hypothesis of the theorem:

* `WritesStayTracked`, `WritesSurviveCrash` and `LossesAreDecided` assume `Careful`: the application
  awaits its calls, no crash hits between a write and its log entry, no
  policy merges. Each condition is needed: the instances `sync_lost_by_push`,
  "overlap", "midWriteCrash" and "merge" of the table below are the
  counterexamples without it. The property is not inductive: a push works for
  many steps from a copy of the log, and the log on disk is older than the one
  in memory. The invariant `Tracking` says what holds in between: at most one
  call is in flight (`Alone`), the copies of the log that it carries name the
  same records (`Snapshots`), an index is marked done only after its record has
  reached the remote (`PushLoop`), a pull clears only a record it has
  replaced after the policy decided so (`PullLoop`), and a delete that is logged is
  a record that is gone locally (`Deletes`). `LossesAreDecided` adds that a call
  about to store a winner holds the envelope that is still in the local store
  (`Shown`); where `pull` asks no policy, the log names no entry, so by
  `WritesStayTracked` there is no unpushed write to lose.
* `NothingForgotten` has no hypothesis: it is about the changes notified since the
  scheduler was last started (`heard`), because `stop` drops the timer. Its
  invariant says which changes a running push will take and which it has missed.
* `TargetsServed` assumes `Careful`: calls wait for a log that is being loaded, the
  device is not restarted, and no strategy lets an older version win; the rows of `SyncTargets` about
  these below are the counterexamples. In the invariant an
  entry fits the last operation on its record and a put that waits still has
  something to send (`Fits`); a copy of the last put, wherever it is, is no newer
  than the local store (`Copied`), so that whatever replaces the local envelope is
  not the application's last word any more; a push has dealt only with what its
  target then has (`Pushing`), and what a commit has written is in the primary's log
  until that is so (`Committing`). `Noting` is about the first write, for which the logs are
  still being loaded. `PushOnlyAlways` also assumes `PeerFirst`: there is a sync-peer,
  and a deleted record is not written again while its delete waits ("recreate"
  below). What a push-only target holds is then no newer than the local store, or
  its log has the delete (`Behind`): it never wins a conflict.
* `LogAlwaysDense` and `AlwaysDense` have no such hypothesis. For the ledger
  the invariant is that every head, cached in some handle or held by a call in
  flight, has only written entries below it: two appends may take the same
  index and one entry is then overwritten, but neither can skip an index.
* `WriterKeepsChain` assumes `OneWriter` (one `Vault` object, calls that follow
  one another), the condition `ledger/store.ts:20` names; `WriterOnlyAppends`
  also that no ledger write that is carried out loses its answer. The
  invariant `Chain` says that every head, cached or held by a call, has the hash of
  the entry before it and nothing written beyond it, that an entry just
  written is the one its call will move the head past, and that there is room
  for the entry a call still owes; `Fresh` adds that the place after a head is
  free. Two handles, "overlap" and "answerLost" of the table below are the
  counterexamples without the conditions. `BooksAgree` needs `OneWriter` only, a lost
  answer included. Its invariant `Books` adds to `Chain` that nothing that has returned is
  where the next entry will be written (`Stock`, `Free`), that the number of a call in flight is on
  no other record (`Numbers`), that a call that has written its record finds it so, and its
  entry, until it ends (`Writes`), and that the records a hydration has still to
  read are the only ones its cache may lack (`Reads`).
* `ReadersFindTheTruth` assumes `WholeCalls`: a single writer, no failed
  store call, no synced record, no crash in the middle of a call and no delete by a
  handle that has not read the record; restarts between calls are allowed, and there
  are any number of records, handles and calls. Each condition is needed ("midCallCrash",
  "coldDelete" and the others below). The invariant `Exact` says that every delta of the
  ledger leads from a version to the one before it (`Patched`), that the entries of a record tell of
  what the store holds now (`Told`), where a call in flight may owe one entry that
  fits (`Owes`), and that a cache agrees with the store but for the record of that
  call (`Knows`, `Shown`). That the walk then gives each version is an
  induction along the ledger, carried out with a least counterexample.
* `StrictAlways` and `DeletesComplete` assume `Sequential` (calls that follow one
  another, in a session that has opened every collection) and `CascadesEnd` (no
  cycle of cascading references); the first three rows of `VaultRefs` in the table below
  are the counterexamples. A call may fail, or the session end, at any step, also when the
  store is written and the cache is not. The checks read nothing but the cache, so the code can
  promise nothing of a record whose last write has stopped there (`unfinished`), whether it
  refers or is referred to: the properties except it until it is written again, and
  `NoneDangles`, which does not, is refuted below. The invariant says that the cache differs
  from the store in such records only (`Behind`), and describes the stack of a running
  cascade: each frame deletes a record that the frame below refers to, so the
  stack is nested by the height of the collections in the schema; what is marked
  as being deleted is on the stack, once; and a rule that has been applied has left
  nothing behind (`Swept`), which stays true while the frames above it work.
* `KeysKeepLabels` and `LoadsRestoreExactly` are about `VaultBackup`, with any number of
  records, keys, writes, loads and damages. The first assumes `PlainDictionary`, the second
  `WholeBackups`: which of the behaviours of the `Dictionary` and `VaultBackup` rows below
  do not happen; failures and restarts between any two steps do, the two steps of a put
  included: the store is written, and then the ledger with the cache. Of a record whose last write has stopped
  in between (`behind`) the ledger, and the list a rename goes by, know nothing; `KeysResolve`
  excepts it, as it does keys the application has deleted (`dropped`), and `RestoresExactly`
  claims the records the ledger accounted for when they were dumped. `AllResolve` and
  `LoadsWhole`, without these exceptions, are refuted below. The invariant
  `VaultInv` has a part for each. `Labelled` says of a rename at every step of
  it which of the two entries is there, with which labels, and which records are still to be
  rewritten (`Labels`). `Restorable` says that the ledger of a whole vault is a chain of
  rising stamps in which the latest entry of a record tells what the record is (`Kept`),
  that the cached head is the end of it (`Leads`), and that a backup is such a vault from which
  things may have been lost (`Backs`, `Worn`). That a load finds every loss (`WholeAgain`) goes
  backwards along the chain: the last entry is the one whose hash the head has, each entry
  names the hash of the one before, and the latest put of every record names its content.
* `KeysAlwaysFit` assumes `Orderly`: ten of the behaviours of the `Keyring` rows
  below do not happen (a rotation cut short or overlapped, two first openings at once, a
  keyring in memory that is not the file's any more, two users who make a key
  for one collection, the only holder of a key deleted, and so on). One of them is "unsaved":
  a key is in memory before the file that is to hold it is written, so a process that does something else
  in between, or goes on after the write has failed, uses a key no file holds; the theorem is
  about processes that do neither. Calls of several
  users, and of one, still interleave in every other way: puts, grants and revokes
  with each other, openings and changes of the secret with everything. The
  invariant `IInv` has a part for each call in progress (`Local`): a rotation's records
  are under the old key exactly where it has not come to them (`Before`), and once its own
  file is written, whoever still holds an old key is yet to be stripped (`After`); a
  made key is held by nobody. A collection that nobody rotates is `Whole`.
  `CascadesComplete` also assumes `Traceable` (a revoke is not cut short or
  overlapped by a grant, an admin's file still names who granted it). Its invariant
  `CInv`: an admin granted by a revoked user is still to be deleted by some
  revoke (`Traced`), and what a revoke deletes is closed under granting
  (`Closure`), which the walk establishes because it collects the least such set.
* `AdaptersKeepContract` is the refinement of `StoreContract` under the mapping of
  `StoreAdapters` (`Settled`: a write of several steps counts from its end). It
  assumes `Uninterrupted` (an operation that an adapter carries out in several
  steps runs alone and to its end) and `OneListing` (a listing of DynamoDB or S3
  returns the whole collection), for any adapter with the traits modelled, not
  only the six; "interrupted" and `Listed` = 1 below are the counterexamples.
  The invariant says for every stage of a call what it has read or written so
  far against what was stored when it began (`Stage`), and that nobody else is in
  progress meanwhile (`Exclusive`). Each action is then shown to be one step of
  the contract or a stutter.
* `ListsAlwaysTrue` has no hypothesis: polls, updates and messages overlap in every
  order. Its invariant `Polling` relates what a poll has read so far, and whom it
  has still to ask, to what each user's record was when the poll began.
* `CountsCover` and `SlotsChangeByTheirCalls` assume `BlobsApart`: no two first
  uploads of a content, first slots of a record or publishes of one label overlap, no
  publish ends before its count, and no two callers share a `BlobSet` object. The rows of
  `BlobSet` below are the counterexamples. `CountsCover` also says nothing once a write of
  slots was refused (`contested`), because the retry may take a count down twice: it covers
  refused and retried writes of counts, and callers that stop at any step, but not this one. In the invariant
  `Books`, a content's count and the increments still owed to it are together at
  least its slots, its versions and the calls that have a count of it and do not name it,
  not yet or not any more (`Covered`), as is read off the progress of each call (`Fits`); a slots document a call has
  read and not found changed since is the stored one, so that its write replaces
  exactly what it is counted for; an entry is there, with all its chunks, as long as
  anything names it (`Whole`).
* `PutsStayStored` assumes `CallsInTurn`: the calls of one client follow one another
  ("overlap" of `BundleStore` is the counterexample); clients overlap as they like. The invariant
  `Shelved` says that as long as a client goes by the version the bundle has, what it has in memory
  covers what is stored but for what it has deleted (`ClientFits`), and that a flush whose
  version is still current carries just that memory (`CallFits`): a retry never does,
  because it keeps the version that was refused.
* `ReadsFindWrites` assumes `RoutesApart`: none of the behaviours of the `RouteStore` rows
  below happens (a compaction or a replay overlaps a write of its records, a route is overridden
  when it has data, and so on), and chunks are not tiered by size. Everything else
  overlaps: compactions, reads, suspensions and replays with writes of other records, cold
  deletes with everything, a crash with all of them. The invariant `Routed` follows one record:
  its copies are in its own store or, not newer, in the cold one (`Placed`); what is stored,
  once the writes that wait in the queue or the replay are carried out in order, is what
  was acknowledged (`Recalled`, `Latest`); a cold copy that is the only one has no delete
  pending; a call under way has the store its record belongs in (`Underway`), and a record
  being moved has no write under way (`Moved`). Per route, a queue that is replayed
  is kept until its end (`Line`), which is why a replay loses nothing that was
  acknowledged before its turn. The scans need `Paged`: by token, all that lasted up to the
  cursor has been returned; by offset, as long as nothing came or went, the first so many ids.
* `StackKeepsContract` is the refinement of `StoreContract` by a stack of any
  length and order. It assumes `Careful` (calls of one key follow one another, and a
  call that fails was not carried out) and `CacheLast` (no breaker or health check
  below a cache, and no `saveAll` above one); the four `StoreMiddleware` rows below that are
  about them are the counterexamples. The invariant says of a call in flight what its
  outcome tells about the base store as long as it has not passed the cache
  (`Served`), that a refused put would still be refused, and that between its removal
  of the entry and its outcome no write has an entry (`Cleared`). A call that
  succeeds is a step of the contract where the base store, the cache or a fallback
  answers it; one that fails, where the failure reaches the caller, since `withRetry` may
  still turn it into a success.

Only model-checked: the liveness properties (`StoresConverge`, `ChangesPushed`,
`Recovers`, `PeersSeen`), since the prover has no reasoning about fairness and
ENABLED here; `AnswersAgree`, `LiveCurrent`, `ReplicasAgree`, `PastIsExact`,
`LastUsedStay` and `BundlesSound`, because `MCData` brings in the recursive operators of
`QueryPlan` and `JsonPatch`, which the prover cannot reason about, and what these compute;
`InstanceSound` of `Noydb`, and the properties of `Translation`, `Bindings`, `StatePlugin`, `CommandLine` and `Unlock`, whose
invariants no theorem states.

## Where code and documentation differ

The run `sync_lost_by_push` checks a promise the repository writes down and
finds it broken (`sync.ts:520`, quoted under `findings` in `PROJECT.json`): two
calls find the log not loaded, and the later load puts the stored log in the
place of the one that has the new entry.

The same modules show more of this kind. Each row is a small instance that is
not among the runs: the constants named, one or two records and callers, and
the property, under which TLC finds a counterexample. Properties that no run
lists are defined in the module for this purpose.

| module | instance | property | what happens |
|---|---|---|---|
| `SyncEngine` | "overlap" | `PushRemovesPushed` | push splices by indices that a change in between has moved (`sync.ts:201`); SPEC.md:476, the log is cleared of what was pushed |
| | "overlap" | `LocalLossDecided` | a write during `pull` is overwritten by the version read before (`sync.ts:269`); SPEC.md:493 |
| | "midWriteCrash" | `UnpushedDurable` | a crash between a write and its log entry (`sync.ts:115`); SPEC.md:468, the log survives restarts |
| | policy "merge" | `NewerLocalIsLogged` | a record merged by `pull` is newer than the remote and in no log (`sync.ts:263`) |
| | 3 writes | `ConflictIsForeign` | a record edited twice between pushes conflicts with the device's own write (`sync.ts:157`); SPEC.md:478 |
| | peers | `RemoteLossDecided`, `DeleteIsChecked` | a winner's put and a delete are sent without an expected version (`sync.ts:174`, `:140`); SPEC.md:445 |
| | "appDelete" | `DeleteSticks` | a pull brings back a record whose delete waits for its push (`sync.ts:241`); SPEC.md:494 |
| `SyncScheduler` | on-change mode | `AllChangesPushed` | a change made while a push runs or within the floor is dropped (`sync-policy.ts:243`) |
| | "early", not started | `AllChangesPushed` | `sync.ts` makes a scheduler and nothing in the hub starts it; `sync.ts:76` |
| | any | `PushesDontOverlap` | a change or a pull replaces the state 'pushing', and a second push begins (`sync-policy.ts:235`) |
| | "stop", "force" | `StoppedIsSilent` | a forced push within the floor sets a timer on a stopped scheduler (`sync-policy.ts:244`); `:171` |
| `SyncTargets` | a restart | `TargetsTracked` | each engine loads the log another one has written last (`noydb.ts:227`) |
| | "cold" | `CommittedReached` | a commit pushes before `trackChange` has loaded the log and entered its writes |
| | two backups, no labels | `AllTargetsTracked` | engines filed under one role replace each other (`noydb.ts:216`) |
| | a failure | `CommittedMeansIt` | 'committed' although every remote call failed (`sync-transaction.ts:81`) |
| | "remote-wins" | `PushOnlySilent` | a backup's conflict overwrites the local store (`sync.ts:354`); `types.ts:484`, push-only |
| | "remote-wins" | `TargetsTracked` | a write that lost to an older copy on the backup comes back from the peer, and the backup's log does not know of it |
| | "recreate" | `PushOnlySilent` | a record put again after a delete has the version a backup refuses, and yields to the backup's; a backup that is the only target is pulled from |
| `Presence` | `Encrypted` | `PeersSeen` | the iv sent is a generated one, not the one `encrypt` has used: no peer can open the payload (`presence.ts:104`, `:242`); `presence.ts:92`, `:123` |
| | `PubSub` | `PeersSeen` | the broadcast goes out before the record is stored, so the poll it triggers may read the older record, and there is no interval poll (`presence.ts:112`); `:212` |
| | two polls | `NeverBack` | an older list is delivered last |
| `Collection` | "overlap" | `AuditComplete`, `AppendOnly` | overlapping appends take one index (`ledger/store.ts:209`); docs/getting-started.md:311, every put and delete appends an entry |
| | two handles | `AppendOnly` | a second `Vault` object overwrites the other's entries, although no calls overlap (`ledger/store.ts:187`) |
| | "answerLost" | `AppendOnly` | an entry whose acknowledgement was lost is overwritten by the next (`store.ts:265`); `ledger/store.ts:28` |
| | a sync, or "midCallCrash" | `IntegrityHolds` | a synced record, or a crash after the record, is reported as tampering; `vault.ts:1042` |
| | "midCallCrash" | `ReconstructSound` | after such a crash `reconstruct` answers with another version's content; `ledger/store.ts:395` |
| | "coldDelete" | `DeleteHoldsVersion` | a delete before hydration keeps no snapshot and logs version 0; `collection.ts:950` |
| `StoreMiddleware` | cache above breaker or health check | `CacheCoherent` | a fallback is cached as the record, a skipped put as written |
| | a cache, "saveAll" | `CacheCoherent` | `saveAll` leaves the cached entries as they are (`store-middleware.ts:358`) |
| | "sameKey" | `CacheCoherent` | a get that overlaps a put caches what it read before (`store-middleware.ts:341`) |
| | retry, "lostAnswer" | `KeepsContract` | a put with an expected version is retried after it was carried out and meets its own version |
| | breaker | `OpensOnlyWhenDown` | version conflicts count as failures and open the circuit |
| `StoreAdapters` | "interrupted" | `KeepsContract` | check and write are two steps in the adapters that are not one transaction |
| | S3, `Listed` = 1 | `KeepsContract` | `loadAll` reads one page of the listing |
| | "crash" | `NothingTorn` | a file is cut off in the middle of its write |
| | "scan" | `ScanCompleteAlways` | an offset cursor skips a record when another is deleted |
| `RouteStore` | "busyCompact", "busyReplay" | `ReadsBack` | a write is overwritten by the compaction, or by an older queued one (`route-store.ts:599`) |
| | "coldFails" | `ReadsBack` | a delete that could not reach the cold store lets the record come back |
| | "lateOverride" | `ReadsBack` | an overridden route starts empty: hydration is not implemented (`route-store.ts:129`, `:186`) |
| | tiered blobs | `ReadsBack` | chunks are put by their size and looked for elsewhere |
| | "resuspend" | `NeverNowhere` | a second suspension drops the queue of the first |
| `BlobSet` | "firstUpload" | `RefCountCovers`, `Readable` | two first uploads of a content set the count of one, or mix chunk sizes |
| | "firstSlot" | `SlotsKept` | two first slots of a record: one document replaces the other |
| | any | `CoversAlways` | two deletes, or puts, of one slot: the retry of a refused write of slots keeps what the first attempt noted and takes a count down twice (`blob-set.ts:510`, `:567`) |
| | "samePut" | `RefCountExact` | a slot given the content it has keeps a count too many; docs v0.12-blob-design.md:298 |
| | "publishCut" | `RefCountCovers` | a published version without its count |
| `BundleStore` | two clients | `RetrySucceeds` | a retry after a conflict sends the old bytes with the old version (`bundle-store.ts:114`); `:62` |
| | "overlap" | `StoredKept` | a put while `flush` awaits is dropped with the dirty flag |
| `Keyring` | "cutRotation", "overlapRotation" | `RecordsReadable` | records under a key no file holds (`keyring.ts:402`) |
| | "unsaved" | `RecordsReadable` | a key is in memory before its file is written (`keyring.ts:579`): after a write that failed, the next put stores under a key no file holds |
| | "split", "overlapOpen", "soleHolder" | `RecordsReadable` | two keys are made for one collection, or the only holder goes |
| | "cutRevoke", "rewritten" | `CascadeComplete` | a revoke cut short, or an admin that writes its file back; `keyring.ts:34`, `:302` |
| | "oldVault", "changeRotating" | `SecretStays` | a vault opened before `changeSecret` writes the old passphrase's file back (`noydb.ts:605`) |
| | any | `RotateKeepsAccess` | rotation takes the collection from users who hold it; docs noydb-for-ai.md:275 |
| `Noydb` | "overlap", "afterClose", "unopened" | `ClosedIsEmpty` | a call in flight, or one after `close`, fills the caches again |
| | `MaxDelay` < timeout | `LocksInTime` | a timeout above 2^31 - 1 ms fires at once |
| | "touchDead" | `LocksInTime` | `touch` on a destroyed enforcer sets its timer again |
| `Unlock` | "sameSub" | `EnrolledOpens` | two OIDC enrolments of one subject share a device secret |
| | any | `NoneStranded` | a keyring without KEK makes a key it cannot write, or the write of its file fails after the key is in memory (`keyring.ts:579`): the credential is under a key no file has |
| | "rotated" | `EnrolledReads` | an enrolment keeps the keys it was made with |
| | `Build` = "bundled" | `DevOnly` | a bundle that runs without `process` on localhost passes the check as development (`dev-unlock.ts:98`) |
| `VaultRefs` | "overlap" | `StrictHolds`, `DeleteComplete` | the check and the write of a put, with a delete in between (`vault.ts:560`) |
| | cyclic schema | `StrictHolds` | a cascade in a cycle passes over a strict reference |
| | a failure | `NoneDangles` | a record is stored and its ledger entry fails (`collection.ts:841`, `:877`): it is not in the cache, where `enforceRefs` looks, and its strict reference is left dangling |
| | "unopened" | `StrictHolds` | references of collections this session has not opened are unknown |
| `Dictionary` | "overlap", "sameKey", "undeclared" | `KeysResolve` | rename leaves a record with a key that has no labels |
| | any | `AllResolve` | `delete` promises to refuse a key in use (`dictionary.ts:348`), but the block for it is empty (`:365`) |
| | a failure | `AllResolve` | a put whose ledger entry has failed is in the store and not in the list `rename` goes by |
| | "taken" | `SnapshotSound` | rename to a key that has other labels: joins read the old labels until the old entry is removed |
| `VaultBackup` | dictionary writes | `VerifiesAtRest` | their ledger entries have an empty hash, which is reported as tampering (`vault.ts:1043`) |
| | "dictionaries" | `KeysResolve` | `dump` leaves `_dict_*` out |
| | "brokenVault" | `RestoresExactly` | a load writes before it verifies (`vault.ts:948`, `:996`): what a refused or cut-short load has left can be dumped, and no later load takes it for whole |
| | a failure | `LoadsWhole` | a put was stored and its ledger entry failed: an undamaged dump is refused on load, or the load does not notice that the record is missing |
| | "oldVault", "overlap" | `RestoresExactly` | what a vault has beyond the dump stays, or is written during the load |
| | "oldHandles" | `ChainAtRest` | a dictionary handle from before a load goes on with its old ledger head |
| `Query` | "cold" | `AnswersAgree`, `LiveCurrent` | a query or live query before hydration sees an empty cache; docs noydb-for-ai.md:322 |
| | "sameId", "scanRace", "syncPull" | `IndexAgrees` | overlapping writes, a page or a pull leave a record in an old bucket |
| | null values | `IndexAgrees` | a null is not in the index but found by a walk (`indexes.ts:35`) |
| | 1 and "1" | `IndexAgrees` | share a bucket |
| | "foreignId" | `JoinsAgree` | hash joins look at the `id` field, nested loops at the key |
| | "throwing" | `LiveCurrent` | a callback that throws keeps later ones from their event |
| `Crdt` | "readd" | `PutReadsBack` | an item added again takes the id of its tombstone and stays invisible (`crdt.ts`, buildRgaState) |
| | "rewrite", "dirtyPull", "race", "overlap", "skew" | `NothingLost` | a state built on a copy that has moved on, or an older clock, loses a write |
| | "yjsRace" | `SameVersionSameState` | a Yjs conflict is settled by version, without a merge (`collection.ts:441`): two devices may hold different states under one version |
| `JsonPatch` | `Inherited` names | `PatchRestores` | a property named like one of Object.prototype is taken for present |
| | empty array, empty object | `DiffSeesAll` | `diff` shows no difference |
| `History` | ids `a` and `a:b` | `HistoryIsExact` | prefixes of history ids collide |
| | "pruneAll" | `HistoryIsExact` | pruning without a record id keeps the N last snapshots of all records together, not of each (`history.ts:113`); `collection.ts:1230`, `types.ts:1099` |
| | "recreate" | `VersionsAreTrue` | a new life of a record mixes with the snapshots of the old |
| | two users | `AuthorTold` | a snapshot names the user who replaced the content, not its author |
| `Lru` | `Overlap` | `CachedIsStored` | a get caches what a put has replaced meanwhile (`collection.ts:584`) |
| | a failure | `CacheIsCurrent` | a put or delete whose ledger entry fails leaves the cached record as it was (`collection.ts:877`, `:955`) |
| `Container` | "algorithm" | `ReadsWhatWasWritten` | the algorithm byte is not covered by the hash |
| | "overlap" | `HandleStable` | two first bundles of a vault make two handles; `format.ts:107` |
| `Translation` | "overlap", "closing" | `AskedOnce` | a text is translated twice; a call in flight fills the cache `close` has emptied (`noydb.ts:731`) |
| | "edits" | `TranslationsTrue` | an edited source keeps its old translation |
| | "bare", "unfit" | `RequiredReadable` | a transaction opens the collection without its options and never validates; a value that is not a text |
| | a failing translator | `AuditTold` | a failed call is not in the log (`noydb.ts:736`) |
| `Bindings` | "together", "others", "unready" | `Settled` | two openings make two vaults; a store does not hear others; writes before it is ready |
| | "sameRec", "viewFails" | `Settled` | overlapping writes of one record; a failed refresh is not repeated |
| | a failure | `ShowsStore` | a put is rejected after the record was stored: no event, and the list is not refreshed (`defineNoydbStore.ts:154`) |
| `StatePlugin` | "early" | `NothingBehind` | a mutation before hydration is overwritten |
| | "reorder", "grows" | `StateKept` | puts that land out of order; a page that picks more keys than were stored |
| `CommandLine` | "midEdit" | `UserWorkKept` | an edit between the wizard's read and its write is lost |
| | "configCut" | `UserWorkKept` | `fs.writeFile` empties `nuxt.config` before it fills it (`augment.ts:237`): a kill in between destroys the user's file |
| | "diverges" | `NothingLeftOpen` | `verify` does not close the instance when it fails |
| | a kill | `BothOrNeither`, `BackupKept` | one of two files is written (`commands/add.ts:77`); a backup is cut off over the older one |

Smaller ones were seen while reading and are not stated as properties:
`minIntervalMs` is measured from the last *successful* push; `forcePush` does
nothing while a push runs; `attachPolicyEnforcer` is never called
(`noydb.ts:113`); only `openVault`, `listAccessibleVaults` and `queryAcross`
reset the idle timer, and `checkOperation` does not look at it; `close` revokes
the sessions of every instance in the process; records without an `id` field are
skipped by a cascade; `rotateKeys` passes over collections the caller has no key
of; `decryptResponse` of a blob that is not encrypted ignores what it decoded
(`blob-set.ts:788`); pulled records are not tracked for backups, so that a
backup does not receive what other devices wrote; `loadAll` of a routing store
does not look at overrides; the documentation of magic links grants with a
derived key where `grant` takes a passphrase.

## What is not modelled

* Cryptography: a key opens what it has sealed, hashes of different contents
  differ. Which key seals what is modelled.
* Clocks: timestamps take part only where something compares them; durations are
  flags or ticks. `modifiedSince` filters are covered by the set of records a
  filter names.
* `startAutoSync` and its listeners: nothing in the repository calls them, and
  the engine's calls may start at any time anyway.
* `put` in one piece: `Collection`, `Query`, `Crdt`, `History`, `Translation`
  and `VaultRefs` each have the part they are about. A schema that refuses a
  record, for instance, has no step in `Collection`.
* Queries: `contains` and `startsWith`, the order of values of different types,
  cardinality caps and warnings, dictionary joins (which live queries do not
  follow either). Translations: values that are not maps; `applyLocale` of
  `Vault`, which nothing calls; more than one field at once.
* Dictionaries: the role check. Backups: the keyring files in a dump, and
  stores whose `saveAll` merges.
* Routing: the quota (never checked by the code). In the run, routes with
  archived records are not suspended and a full queue, which drops its oldest
  write, does not occur: both lose writes by design of the code.
* Blob garbage collection: there is none in the code. Bundles: a damaged
  envelope of the handle.
* `biometric.ts`: its enrolment exports a key that was made non-extractable and
  can only fail. The encryption of transport by an OIDC token.
* `useSync`, `useNoydb`, the Nuxt module; argument parsing, messages and the
  check of a project's name in the command line; `attachments.ts`, which is not
  exported; media types, error classes, playgrounds.
