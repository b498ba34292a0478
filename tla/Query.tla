------------------------------- MODULE Query -------------------------------
(***************************************************************************)
(* Queries over the cache of a collection (packages/hub/src/query/): how  *)
(* a plan runs, the hash index that it may start from, joins, and          *)
(* aggregations, with the live queries that follow the change events of   *)
(* their collections and the pages that scan() takes from the store.      *)
(*                                                                         *)
(* The collection queried is the left one; its records may refer to those *)
(* of a right one.  A write is broken at the points where another call    *)
(* may run: before the store is written, before the cache and the index   *)
(* change together, and before the change event (collection.ts, put and   *)
(* delete).  Hydration is one step here; Collection.tla has its details.  *)
(***************************************************************************)
EXTENDS QueryPlan, Integers, FiniteSets, SequencesExt

CONSTANTS
    Id,           \* ids of the left collection
    Record,       \* the records written to it: [f, ref, n]
    RightId,      \* ids of the right collection
    Content,      \* contents of right records
    Plans,        \* the plans of live queries
    Clauses,      \* the clauses that plans to compare are made of
    Caller,       \* writes that may be in flight at once
    Allowed       \* which of Behaviours the environment shows

Behaviours == {"sameId",     \* writes of one record overlap
               "scanRace",   \* a write overlaps a page of a scan
               "syncPull",   \* a sync engine writes into the store
               "cold",       \* a delete or a live query begins before the cache is filled
               "foreignId",  \* a right record's id field is not its key
               "throwing"}   \* a Query.subscribe callback throws

Indexed == {"f"}                          \* the declared indexes

\* A number and a string that print alike have one key in an index.
stringifyKey(v) == IF v = Null THEN None ELSE v[2]
Keys == {stringifyKey(r.f) : r \in Record} \cup {None}

VARIABLES
    store,      \* the left collection in the store
    cache,      \* Collection.cache, and the order of its keys
    order,
    hydrated,
    buckets,    \* CollectionIndexes: the ids of each key, in order
    right,      \* the cache of the right collection
    untold,     \* its change is not yet announced
    call,       \* the writes in flight
    page,       \* the items of a page a scan has read, None when there is none
    live,       \* a live query
    agg,        \* a live aggregation, grouped by f
    sub         \* a subscription of a joined query was made before the live query

left == <<store, cache, order, hydrated, buckets>>
vars == <<left, right, untold, call, page, live, agg, sub>>

-----------------------------------------------------------------------------
(***************************************************************************)
(* Filtering and sorting what the cache holds.                            *)
(***************************************************************************)
filterRecords(ids, clauses) == SelectSeq(ids, LAMBDA id : Matches(cache[id], clauses))

\* A stable sort.
sortRecords(ids, by) ==
    LET before(i, j) == \/ Sooner(cache[ids[i]], cache[ids[j]], by)
                        \/ i < j /\ ~Sooner(cache[ids[j]], cache[ids[i]], by)
        rank(j) == Cardinality({i \in DOMAIN ids \ {j} : before(i, j)}) + 1
    IN  [p \in DOMAIN ids |-> ids[CHOOSE j \in DOMAIN ids : rank(j) = p]]

-----------------------------------------------------------------------------
(***************************************************************************)
(* The index, and the records a plan starts from.                         *)
(***************************************************************************)
Without(s, id) == SelectSeq(s, LAMBDA x : x # id)
With(s, id)    == IF Contains(s, id) THEN s ELSE Append(s, id)

addToIndex(b, id, r) == IF r.f = Null THEN b ELSE [b EXCEPT ![stringifyKey(r.f)] = With(@, id)]
removeFromIndex(b, id, r) ==
    IF r.f = Null THEN b ELSE [b EXCEPT ![stringifyKey(r.f)] = Without(@, id)]

\* (Variant: what the record was is not taken out.)
upsertOnly(id, new, old) == addToIndex(buckets, id, new)
upsert(id, new, old) ==
    addToIndex(IF old = None THEN buckets ELSE removeFromIndex(buckets, id, old), id, new)

NoBuckets == [k \in Keys |-> <<>>]
build(contents, ids) == FoldLeft(LAMBDA b, id : addToIndex(b, id, contents[id]), NoBuckets, ids)

\* The ids found under a key; a key no record has finds none.
Bucket(k) == IF k \in Keys THEN buckets[k] ELSE <<>>
lookupEqual(v) == Bucket(stringifyKey(v))
lookupIn(vs) == FoldLeft(LAMBDA ids, v : FoldLeft(With, ids, lookupEqual(v)), <<>>, vs)

UsesIndex(c) == c.type = "field" /\ c.field \in Indexed /\ c.op \in {"==", "in"}

candidateRecords(clauses) ==
    LET hits == {i \in DOMAIN clauses : UsesIndex(clauses[i])} IN
    IF hits = {} THEN [ids |-> order, remaining |-> clauses]
    ELSE LET i == CHOOSE i \in hits : \A j \in hits : i <= j
             c == clauses[i]
         IN  [ids |-> SelectSeq(IF c.op = "in" THEN lookupIn(c.value) ELSE lookupEqual(c.value),
                                LAMBDA id : cache[id] # None),
              remaining |-> RemoveAt(clauses, i)]

Selected(clauses) ==
    LET found == candidateRecords(clauses) IN filterRecords(found.ids, found.remaining)

\* executePlanWithSource: filter, order, skip, cap.
executePlan(p) ==
    LET found   == Selected(p.clauses)
        sorted  == IF p.orderBy = <<>> THEN found ELSE sortRecords(found, p.orderBy)
        skipped == SubSeq(sorted, p.offset + 1, Len(sorted))
    IN  IF p.limit = None \/ p.limit >= Len(skipped) THEN skipped ELSE SubSeq(skipped, 1, p.limit)

-----------------------------------------------------------------------------
(***************************************************************************)
(* Joins: one foreign key, looked up by key (nested), or by the id field  *)
(* (hash), for all rows at once or row by row while a scan streams.       *)
(***************************************************************************)
\* The id field of a right record.
IdField(q) == IF "foreignId" \in Allowed /\ right[q] # None
              THEN CHOOSE o \in RightId : Cardinality(RightId) = 1 \/ o # q ELSE q

Nested(key) == right[key]
Hashed(key) == LET hits == {q \in RightId : right[q] # None /\ IdField(q) = key}
               IN  IF hits = {} THEN None ELSE right[CHOOSE q \in hits : TRUE]

Row(id)      == [id |-> id, rec |-> cache[id], joined |-> <<>>]
RowsOf(ids)  == [i \in DOMAIN ids |-> Row(ids[i])]
Failed       == [error |-> TRUE, rows |-> <<>>]
Result(rows) == [error |-> FALSE, rows |-> rows]

Dangling(row, found) == row.rec.ref # None /\ found = None
Found(row, found)    == IF row.rec.ref = None THEN None ELSE found
attachJoin(row, mode, found) ==
    IF mode = "strict" /\ Dangling(row, found) THEN Failed
    ELSE [row EXCEPT !.joined = Append(@, found)]

ByLookup(rows, mode, Lookup(_)) ==
    LET out == [i \in DOMAIN rows |-> attachJoin(rows[i], mode, Found(rows[i], Lookup(rows[i].rec.ref)))] IN
    IF \E i \in DOMAIN out : out[i] = Failed THEN Failed ELSE Result(out)
nestedLoopJoin(rows, mode) == ByLookup(rows, mode, Nested)
hashJoin(rows, mode)       == ByLookup(rows, mode, Hashed)

\* A ceiling on the rows of either side.
RightRows == Cardinality({q \in RightId : right[q] # None})
applyOneJoin(rows, leg) ==
    IF Len(rows) > leg.maxRows \/ RightRows > leg.maxRows THEN Failed
    ELSE IF leg.strategy = "hash" THEN hashJoin(rows, leg.mode) ELSE nestedLoopJoin(rows, leg.mode)
applyJoins(rows, joins) ==
    FoldLeft(LAMBDA acc, leg : IF acc.error THEN acc ELSE applyOneJoin(acc.rows, leg),
             Result(rows), joins)

toArray(p) == applyJoins(RowsOf(executePlan(p)), p.joins)
count(p)   == Len(Selected(p.clauses))
first(p)   == LET all == toArray(limit(p, 1))
              IN  IF all.error THEN Failed
                  ELSE IF all.rows = <<>> THEN None ELSE all.rows[1]

\* A scan hands on one row after the other until one dangles.
applyOneJoinStreaming(row, leg) == attachJoin(row, leg.mode, Found(row, Nested(row.rec.ref)))
Streamed(rows, leg) ==
    LET out  == [i \in DOMAIN rows |-> applyOneJoinStreaming(rows[i], leg)]
        bad  == {i \in DOMAIN out : out[i] = Failed}
    IN  [error |-> bad # {},
         rows |-> IF bad = {} THEN out ELSE SubSeq(out, 1, (CHOOSE i \in bad : \A j \in bad : i <= j) - 1)]

-----------------------------------------------------------------------------
(***************************************************************************)
(* Reducers and groups.  The state of all the reducers of a specification *)
(* at once: count, sum, and the values min and max keep.                  *)
(***************************************************************************)
readNumber(r) == IF r.n[1] = "num" THEN r.n[2] ELSE 0
Start == [count |-> 0, sum |-> 0, values |-> <<>>]
step(s, r) == [count |-> s.count + 1, sum |-> s.sum + readNumber(r),
               values |-> Append(s.values, readNumber(r))]
remove(s, r) ==
    LET at == SelectInSeq(s.values, LAMBDA v : v = readNumber(r)) IN
    [count |-> s.count - 1, sum |-> s.sum - readNumber(r),
     values |-> IF at = 0 THEN s.values ELSE RemoveAt(s.values, at)]

\* An average is the pair of the sum and the count.
Least(vs)    == IF vs = <<>> THEN None ELSE Min(ToSet(vs))
Greatest(vs) == IF vs = <<>> THEN None ELSE Max(ToSet(vs))
finalize(s) ==
    [count |-> s.count, sum |-> s.sum, avg |-> IF s.count = 0 THEN None ELSE <<s.sum, s.count>>,
     min |-> Least(s.values), max |-> Greatest(s.values)]
reduceRecords(ids) == finalize(FoldLeft(LAMBDA s, id : step(s, cache[id]), Start, ids))

\* The groups in the order they are first seen.
groupAndReduce(ids) ==
    LET keys == FoldLeft(LAMBDA ks, id : With(ks, cache[id].f), <<>>, ids) IN
    [i \in DOMAIN keys |->
        [key |-> keys[i], row |-> reduceRecords(SelectSeq(ids, LAMBDA id : cache[id].f = keys[i]))]]

-----------------------------------------------------------------------------
Idle == [pc |-> "idle", op |-> "put", id |-> None, rec |-> None, old |-> None]
NoLive == [on |-> FALSE, plan |-> EmptyPlan, error |-> FALSE, rows |-> <<>>]
NoAgg == [on |-> FALSE, rows |-> <<>>]
Existing(f) == {x \in DOMAIN f : f[x] # None}

Init ==
    /\ store \in [Id -> Record \cup {None}] /\ right \in [RightId -> Content \cup {None}]
    /\ cache = [i \in Id |-> None] /\ order = <<>> /\ hydrated = FALSE
    /\ buckets = NoBuckets /\ untold = FALSE
    /\ call = [c \in Caller |-> Idle] /\ page = None
    /\ live = NoLive /\ agg = NoAgg /\ sub = FALSE

\* ensureHydrated: every record of the store into the cache, then the index.
Hydrate ==
    LET ids == SetToSeq(Existing(store))
        all == FoldLeft(With, order, ids)
        contents == [i \in Id |-> IF store[i] # None THEN store[i] ELSE cache[i]]
    IN  /\ ~hydrated /\ hydrated' = TRUE
        /\ cache' = contents /\ order' = all /\ buckets' = build(contents, all)
        /\ UNCHANGED <<store, right, untold, call, page, live, agg, sub>>

Free(id) == /\ \A c \in Caller : call[c].pc # "idle" /\ "sameId" \notin Allowed => call[c].id # id
            /\ page = None \/ "scanRace" \in Allowed

\* A put reads the record it replaces from the cache, which it fills first;
\* a delete takes the cache as it is.
BeginPut(c, id, r) ==
    /\ call[c].pc = "idle" /\ Free(id) /\ hydrated
    /\ call' = [call EXCEPT ![c] = [pc |-> "store", op |-> "put", id |-> id, rec |-> r, old |-> cache[id]]]
    /\ UNCHANGED <<left, right, untold, page, live, agg, sub>>
BeginDelete(c, id) ==
    /\ call[c].pc = "idle" /\ Free(id) /\ (hydrated \/ "cold" \in Allowed)
    /\ call' = [call EXCEPT ![c] = [pc |-> "store", op |-> "delete", id |-> id, rec |-> None, old |-> cache[id]]]
    /\ UNCHANGED <<left, right, untold, page, live, agg, sub>>

WriteStore(c) ==
    /\ call[c].pc = "store" /\ call' = [call EXCEPT ![c].pc = "cache"]
    /\ store' = [store EXCEPT ![call[c].id] = call[c].rec]
    /\ UNCHANGED <<cache, order, hydrated, buckets, right, untold, page, live, agg, sub>>

WriteCache(c) ==
    LET k == call[c] IN
    /\ k.pc = "cache" /\ call' = [call EXCEPT ![c].pc = "emit"]
    /\ cache' = [cache EXCEPT ![k.id] = k.rec]
    /\ order' = IF k.op = "put" THEN With(order, k.id) ELSE Without(order, k.id)
    /\ buckets' = CASE k.op = "put" -> upsert(k.id, k.rec, k.old)
                    [] k.old # None -> removeFromIndex(buckets, k.id, k.old)
                    [] OTHER        -> buckets
    /\ UNCHANGED <<store, hydrated, right, untold, page, live, agg, sub>>

\* A live query runs again; when that throws it keeps its rows.
\* (Variant: an earlier error is not cleared.)
refreshKeepsError(l) ==
    LET now == toArray(l.plan) IN
    IF ~l.on THEN l
    ELSE IF now.error THEN [l EXCEPT !.error = TRUE] ELSE [l EXCEPT !.rows = now.rows]
refresh(l) ==
    LET now == toArray(l.plan) IN
    IF ~l.on THEN l
    ELSE IF now.error THEN [l EXCEPT !.error = TRUE]
    ELSE [l EXCEPT !.error = FALSE, !.rows = now.rows]
refreshGroups(a) == IF a.on THEN [a EXCEPT !.rows = groupAndReduce(Selected(<<>>))] ELSE a

\* The subscription's callback runs a strict join: when it throws, emit
\* stops, and the handlers after it are not called.
Strict == [mode |-> "strict", strategy |-> "nested", maxRows |-> 9]
Throws == sub /\ applyOneJoin(RowsOf(order), Strict).error

Emit(c) ==
    /\ call[c].pc = "emit" /\ call' = [call EXCEPT ![c] = Idle]
    /\ live' = IF Throws THEN live ELSE refresh(live)
    /\ agg' = IF Throws THEN agg ELSE refreshGroups(agg)
    /\ UNCHANGED <<left, right, untold, page, sub>>

\* A write to the right collection, and its event: live queries with a join
\* have subscribed to it too.
WriteRight(q, x) ==
    /\ ~untold /\ right[q] # x
    /\ right' = [right EXCEPT ![q] = x] /\ untold' = TRUE
    /\ UNCHANGED <<left, call, page, live, agg, sub>>
EmitRight ==
    /\ untold /\ untold' = FALSE
    /\ live' = IF live.plan.joins = <<>> THEN live ELSE refresh(live)
    /\ UNCHANGED <<left, right, call, page, agg, sub>>

\* listPage: what the page holds and the cache does not goes into the cache.
ReadPage ==
    /\ page = None
    /\ "scanRace" \in Allowed \/ \A c \in Caller : call[c].pc = "idle"
    /\ page' = store
    /\ UNCHANGED <<left, right, untold, call, live, agg, sub>>
TakePage ==
    LET new == IF page = None THEN {} ELSE {i \in Existing(page) : cache[i] = None} IN
    /\ page # None /\ page' = None
    /\ cache' = [i \in Id |-> IF i \in new THEN page[i] ELSE cache[i]]
    /\ order' = order \o SetToSeq(new)
    /\ UNCHANGED <<store, hydrated, buckets, right, untold, call, live, agg, sub>>

SyncPut(id, r) ==
    /\ "syncPull" \in Allowed /\ store' = [store EXCEPT ![id] = r]
    /\ UNCHANGED <<cache, order, hydrated, buckets, right, untold, call, page, live, agg, sub>>

OpenLive(p) ==
    /\ ~live.on /\ (hydrated \/ "cold" \in Allowed)
    /\ live' = refresh([NoLive EXCEPT !.on = TRUE, !.plan = p])
    /\ UNCHANGED <<left, right, untold, call, page, agg, sub>>
StopLive ==
    /\ live.on /\ live' = NoLive
    /\ UNCHANGED <<left, right, untold, call, page, agg, sub>>
OpenAggregation ==
    /\ ~agg.on /\ (hydrated \/ "cold" \in Allowed)
    /\ agg' = refreshGroups([NoAgg EXCEPT !.on = TRUE])
    /\ UNCHANGED <<left, right, untold, call, page, live, sub>>
Subscribe ==
    /\ "throwing" \in Allowed /\ ~sub /\ ~live.on /\ ~agg.on /\ sub' = TRUE
    /\ UNCHANGED <<left, right, untold, call, page, live, agg>>

Next ==
    \/ Hydrate \/ EmitRight \/ ReadPage \/ TakePage \/ StopLive \/ OpenAggregation \/ Subscribe
    \/ \E c \in Caller, id \in Id :
          BeginDelete(c, id) \/ (\E r \in Record : BeginPut(c, id, r))
    \/ \E c \in Caller : WriteStore(c) \/ WriteCache(c) \/ Emit(c)
    \/ \E q \in RightId, x \in Content \cup {None} : WriteRight(q, x)
    \/ \E id \in Id, r \in Record : SyncPut(id, r)
    \/ \E p \in Plans : OpenLive(p)

Spec == Init /\ [][Next]_vars

-----------------------------------------------------------------------------
(***************************************************************************)
(* Correctness.                                                           *)
(***************************************************************************)
Conjunctions == {<<a>> : a \in Clauses} \cup {<<a, b>> : a, b \in Clauses}

\* Starting from the index finds the records a walk through the cache finds,
\* each once (query/indexes.ts, builder.ts candidateRecords).
IndexAgrees ==
    hydrated => \A cs \in Conjunctions :
        LET found  == Selected(cs)
            walked == filterRecords(order, cs)
        IN  /\ ToSet(found) = ToSet(walked) /\ Len(found) = Len(walked)

\* When every change has been announced, a live query shows what running its
\* plan gives, with the error that running it raises, and a live aggregation
\* shows the groups there are (query/live.ts, aggregate.ts, groupby.ts).
LiveCurrent ==
    ~untold /\ (\A c \in Caller : call[c].pc # "emit") =>
        /\ live.on => LET now == toArray(live.plan) IN
                      live.error = now.error /\ (~now.error => live.rows = now.rows)
        /\ agg.on => agg.rows = groupAndReduce(order)

\* The join strategies and the streaming join of a scan attach the same right
\* records and raise the same error (query/join.ts, scan-builder.ts).
JoinsAgree ==
    hydrated => \A mode \in {"strict", "warn", "cascade"} :
        LET rows == RowsOf(order)
            leg(s) == [mode |-> mode, strategy |-> s, maxRows |-> 9]
            nested == applyOneJoin(rows, leg("nested"))
            stream == Streamed(rows, leg("nested"))
        IN  /\ applyOneJoin(rows, leg("hash")) = nested
            /\ stream.error = nested.error /\ (~stream.error => stream.rows = nested.rows)

\* Groups partition the records, and taking a record out of a reduction
\* leaves the reduction of the others (query/groupby.ts, reducers.ts).
GroupsAgree ==
    LET groups == groupAndReduce(order)
        all    == FoldLeft(LAMBDA s, id : step(s, cache[id]), Start, order)
    IN  /\ FoldLeft(LAMBDA n, g : n + g.row.count, 0, groups) = Len(order)
        /\ FoldLeft(LAMBDA n, g : n + g.row.sum, 0, groups) = finalize(all).sum
        /\ \A i, j \in DOMAIN groups : groups[i].key = groups[j].key => i = j
        /\ \A id \in ToSet(order) : finalize(remove(all, cache[id])) = reduceRecords(Without(order, id))

\* Whatever way an answer is computed, it is the same: from the index or by a
\* walk, with either join, over groups or over all records.
AnswersAgree == IndexAgrees /\ JoinsAgree /\ GroupsAgree
=============================================================================
