------------------------------- MODULE MCData -------------------------------
(***************************************************************************)
(* What is computed from records, on small instances for TLC: the history  *)
(* and the integrity of records whose calls all come to their end, with    *)
(* restarts in between, queries over indexes, joins and groups, documents  *)
(* that merge, differences and history, the cache with a budget, and       *)
(* bundles.  The seven share no state: a behaviour is one of one of them,  *)
(* the others rest.                                                        *)
(***************************************************************************)
EXTENDS Collection, TLC

CONSTANTS r1, r2, h1, c1
CONSTANTS i1, i2, p1, x1, x2, w1, d1, d2, x, y, u1, k1, k2, k3, None, Rows, Plans, Clauses

TwoRecords == {r1, r2}
OneHandle  == {h1}
OneCaller  == {c1}

Lefts    == {i1, i2}
Rights   == {p1}
Contents == {x1, x2}
Writers  == {w1}

Devices == {d1, d2}
OneSlot == {1}
AllModes == {"lww-map", "rga", "yjs"}
Fields == {x, y}

Names == {<<"a", "/">>, <<"~", "1">>}      \* the property names a/ and ~1
NoNames == {}
AllKinds == {"null", "primitive", "array", "object"}

Apart == {<<"a">>, <<"b">>}
Order == [id \in Apart |-> IF id = <<"a">> THEN 1 ELSE 2]
OneUser == {u1}

CacheKeys == {k1, k2, k3}
RecordSizes == {1, 2, 4}

Dumps == {<<5>>, <<5, 6>>}
Compressions == {"auto", "gzip", "none"}
Two == {1, 2}
Hours == {1, 4}

VARIABLES part
VARIABLES rows, shown, order, filled, buckets, right, untold, writing, page, live, agg, sub
VARIABLES crdtMode, local, remote, dirty, syncCall, clock, nids, asked, written
VARIABLES prev, next, doc, todo
VARIABLES current, hist, changes, author, held, due
VARIABLES stored, entries, bytes, reading, cacheCall, uses, misses, used, behind
VARIABLES time, meta, writer, made, issued, dump, file, faults

Query == INSTANCE Query WITH
    Id <- Lefts, Record <- Rows, RightId <- Rights, Content <- Contents, Caller <- Writers,
    Allowed <- {}, store <- rows, cache <- shown, hydrated <- filled, call <- writing
Crdt == INSTANCE Crdt WITH
    Device <- Devices, Slot <- OneSlot, Modes <- AllModes, Element <- Fields, MaxOps <- 3,
    MaxLength <- 2, Allowed <- {}, mode <- crdtMode, call <- syncCall
JsonPatch == INSTANCE JsonPatch WITH
    Key <- Names, Primitive <- Fields, Inherited <- NoNames, Kinds <- AllKinds
History == INSTANCE History WITH
    Id <- Apart, Rank <- Order, User <- OneUser, MaxVersions <- 2, MaxOps <- 6, Allowed <- {},
    ops <- changes
Lru == INSTANCE Lru WITH
    Key <- CacheKeys, Sizes <- RecordSizes, MaxRecords <- 2, MaxBytes <- 3, MaxOps <- 4,
    MaxFails <- 1, Overlap <- FALSE, call <- cacheCall, ops <- uses, fails <- misses
Container == INSTANCE Container WITH
    Dump <- Dumps, Options <- Compressions, Brotli <- FALSE, Vault <- Two, Writer <- Two,
    Times <- Hours, Base <- 2, Digits <- 2, Half <- 4, MaxFaults <- 1, Allowed <- {},
    clock <- time, call <- writer

Plan == INSTANCE QueryPlan

Rec(f, ref, n) == [f |-> f, ref |-> ref, n |-> Plan!Num(n)]
MCRows == {Rec(Plan!Str(1), p1, 1), Rec(Plan!Str(2), None, 1), Rec(Plan!Null, p1, 2)}
Joined(q, strategy, n) == [mode |-> q, strategy |-> strategy, maxRows |-> n]
ByNumber == [field |-> "n", direction |-> "desc"]
ByField  == [field |-> "f", direction |-> "asc"]
IsOne    == Plan!Field("f", "==", Plan!Str(1))
UpToTwo  == Plan!Field("f", "<", Plan!Str(2))
OverOne  == Plan!Field("n", ">", Plan!Num(1))
MCPlans ==
    LET all     == Plan!EmptyPlan
        ordered == Plan!orderBy(Plan!orderBy(all, ByNumber), ByField)
    IN  {Plan!join(Plan!where(all, IsOne), Joined("strict", "nested", 9)),
         Plan!join(Plan!limit(ordered, 1), Joined("warn", "hash", 9)),
         Plan!offset(Plan!where(all, Plan!Group("or", <<UpToTwo, OverOne>>)), 1),
         Plan!join(all, Joined("cascade", "nested", 1))}
MCClauses ==
    {IsOne, Plan!Field("f", "in", <<Plan!Str(1), Plan!Str(2), Plan!Str(1)>>),
     Plan!Field("f", "<=", Plan!Str(2)), Plan!Field("n", "between", <<Plan!Num(2), Plan!Num(3)>>),
     Plan!Filter({Rec(Plan!Str(2), None, 1)})}

ASSUME Container!ContainerAssumption

queryVars     == <<rows, shown, order, filled, buckets, right, untold, writing, page, live, agg, sub>>
crdtVars      == <<crdtMode, local, remote, dirty, syncCall, clock, nids, asked, written>>
patchVars     == <<prev, next, doc, todo>>
historyVars   == <<current, hist, changes, author, held, due>>
lruVars       == <<stored, entries, bytes, reading, cacheCall, uses, misses, used, behind>>
containerVars == <<time, meta, writer, made, issued, dump, file, faults>>

DataInit ==
    /\ part \in {"ledger", "query", "crdt", "patch", "history", "lru", "container"}
    /\ Init /\ (part = "ledger" \/ mode = "eager")
    /\ Query!Init
    /\ part = "query" \/ (Query!Existing(rows) = {} /\ \A i \in Rights : right[i] = None)
    /\ Crdt!Init /\ (part = "crdt" \/ crdtMode = "rga")
    /\ IF part = "patch" THEN JsonPatch!Init
                         ELSE prev = "none" /\ next = "none" /\ doc = "none" /\ todo = <<>>
    /\ History!Init /\ Lru!Init
    /\ Container!Init /\ (part = "container" \/ time = 1)

DataNext ==
    \/ /\ part = "ledger" /\ Next
       /\ UNCHANGED <<part, queryVars, crdtVars, patchVars, historyVars, lruVars, containerVars>>
    \/ /\ part = "query" /\ Query!Next
       /\ UNCHANGED <<part, vars, crdtVars, patchVars, historyVars, lruVars, containerVars>>
    \/ /\ part = "crdt" /\ Crdt!Next
       /\ UNCHANGED <<part, vars, queryVars, patchVars, historyVars, lruVars, containerVars>>
    \/ /\ part = "patch" /\ JsonPatch!Next
       /\ UNCHANGED <<part, vars, queryVars, crdtVars, historyVars, lruVars, containerVars>>
    \/ /\ part = "history" /\ History!Next
       /\ UNCHANGED <<part, vars, queryVars, crdtVars, patchVars, lruVars, containerVars>>
    \/ /\ part = "lru" /\ Lru!Next
       /\ UNCHANGED <<part, vars, queryVars, crdtVars, patchVars, historyVars, containerVars>>
    \/ /\ part = "container" /\ Container!Next
       /\ UNCHANGED <<part, vars, queryVars, crdtVars, patchVars, historyVars, lruVars>>

DataSpec ==
    DataInit /\ [][DataNext]_<<part, vars, queryVars, crdtVars, patchVars, historyVars, lruVars,
                              containerVars>>

\* Whatever way an answer is computed, it is the same: from the index or by a walk, with either
\* join, over groups or over all records.  What live queries show changes no answer, and any
\* cache that there is beside one is there without it too: the answers are compared without.
AnswersAgree == part = "query" /\ ~live.on /\ ~agg.on => Query!AnswersAgree

\* When every change has been announced, a live query shows what running its plan gives, with
\* the error that running it raises, and a live aggregation shows the groups there are.
LiveCurrent == part = "query" => Query!LiveCurrent

\* Two devices that hold one version hold one state, which has everything that was written,
\* and a device that puts a record reads it back.
ReplicasAgree ==
    part = "crdt" => Crdt!NothingLost /\ Crdt!SameVersionSameState /\ Crdt!PutReadsBack

\* A patch restores the older record, a difference names every change, and the history gives
\* each version it owes its reader as it was.
PastIsExact ==
    /\ part = "patch" => JsonPatch!PatchRestores /\ JsonPatch!DiffSeesAll
    /\ part = "history" => History!HistoryIsExact /\ History!VersionsAreTrue

\* The cache keeps to its budget and, within it, what was used last, as it is stored but for
\* the records whose last write has failed half way.
LastUsedStay == part = "lru" => Lru!WithinBudget /\ Lru!LastUsedStay /\ Lru!CachedIsStored

\* A bundle reads back what was written or is refused, a vault keeps one handle, and handles
\* sort by the time they were made.
BundlesSound ==
    part = "container" =>
        Container!ReadsWhatWasWritten /\ Container!HandleStable /\ Container!UlidsSorted
=============================================================================
