------------------------------ MODULE Bindings ------------------------------
(***************************************************************************)
(* Lists that a user interface shows: the Pinia store of defineNoydbStore *)
(* (packages/in-pinia), which lists the collection again after each of    *)
(* its own writes, and the Vue composable useCollection (packages/in-vue),*)
(* which does so whenever the instance emits a change.  Both open the     *)
(* vault on first use; two openings at a time make two Vault objects, each*)
(* with its own collection and cache (noydb.ts openVault, collection.ts   *)
(* ensureHydrated).                                                        *)
(***************************************************************************)
EXTENDS Naturals, FiniteSets, TLC

CONSTANTS
    Rec,       \* record ids
    Pinia,     \* stores of defineNoydbStore on the collection
    View,      \* uses of useCollection on it
    Caller,    \* calls of them that may be in flight
    MaxInst,   \* bound: Vault objects
    MaxWrites, \* bound: writes
    MaxFaults, \* bound: openings, reads and writes that fail
    Allowed    \* which of BindingsBehaviours the environment shows

BindingsBehaviours == {"together",  \* two mirrors open the vault at the same time
                       "unready",   \* a store writes before all mirrors have listed
                       "sameRec",   \* two writes of one record are in flight
                       "others",    \* a store's collection is written elsewhere
                       "viewFails"} \* the first opening by a view fails

BindingsAssumption ==
    /\ Pinia \cap View = {} /\ MaxInst \in Nat /\ MaxWrites \in Nat /\ MaxFaults \in Nat
    /\ Allowed \subseteq BindingsBehaviours

Mirror == Pinia \cup View
Inst   == 1..MaxInst
Empty  == [r \in Rec |-> 0]

VARIABLES
    disk,      \* the store: 0 for no record, else the number of its write
    made,      \* how many Vault objects there are
    opened,    \* Noydb.vaultCache: the Vault object, 0 for none
    cache, hydrated,  \* of the collection of each Vault object
    handle,    \* cachedCollection of a store, compartmentPromise of a view: 0 for none
    broken,    \* views whose compartmentPromise was rejected
    items,     \* what is shown
    call,      \* calls in flight
    due,       \* views that a change event tells to refresh
    fresh,     \* (history) mirrors that have listed, or will, since the last thing that ails them
    behind,    \* (history) records whose last write of the store has not come to a cache
    writes, faults

shared == <<disk, made, opened, cache, hydrated>>
vars == <<shared, handle, broken, items, call, due, fresh, behind, writes, faults>>

-----------------------------------------------------------------------------
AnyMirror == CHOOSE m \in Mirror : TRUE
AnyRec    == CHOOSE r \in Rec : TRUE
Idle == [pc |-> "idle", m |-> AnyMirror, op |-> "list", r |-> AnyRec, val |-> 0, inst |-> 0, snap |-> Empty]

\* prefetch: every store and every view starts by listing.
Init ==
    /\ disk \in [Rec -> {0, 1}] /\ made = 0 /\ opened = 0
    /\ cache = [k \in Inst |-> Empty] /\ hydrated = [k \in Inst |-> FALSE]
    /\ handle = [m \in Mirror |-> 0] /\ broken = {} /\ items = [m \in Mirror |-> Empty]
    /\ call = [c \in Caller |-> Idle] /\ due = Mirror /\ fresh = {} /\ behind = {} /\ writes = 1 /\ faults = 0

Loaded == /\ \A m \in Mirror : handle[m] # 0 /\ hydrated[handle[m]]
          /\ \A c \in Caller : call[c].pc # "hydrate"
Opening == \E c \in Caller : call[c].pc \in {"open", "opening"}

\* getCollection: the cached collection, else the vault is opened.
Begin(c, m, op, r, val) ==
    /\ call[c] = Idle
    /\ call' = [call EXCEPT ![c] = [Idle EXCEPT !.m = m, !.op = op, !.r = r, !.val = val,
                  !.inst = handle[m], !.pc = IF handle[m] = 0 THEN "open" ELSE "run"]]

\* The first list, a list that a change event asks for, or a refresh.
\* (Variant: a view does not listen.)
ListensNot(c) == {}
Listeners(c) == View
Refresh(c, m) ==
    /\ m \in due \/ m \notin fresh \/ Loaded
    /\ "together" \notin Allowed => ~Opening
    /\ Begin(c, m, "list", AnyRec, 0)
    /\ due' = due \ {m} /\ fresh' = fresh \cup {m}
    /\ UNCHANGED <<shared, handle, broken, items, behind, writes, faults>>

\* add, update, remove of a store.
Edit(c, m, r, op) ==
    /\ ("unready" \notin Allowed => Loaded) /\ writes < MaxWrites
    /\ "sameRec" \notin Allowed => ~\E d \in Caller : call[d].op # "list" /\ call[d].r = r
    /\ writes' = writes + 1
    /\ Begin(c, m, op, r, IF op = "put" THEN writes + 1 ELSE 0)
    /\ UNCHANGED <<shared, handle, broken, items, due, fresh, behind, faults>>

\* openVault: the cached vault, or a new one once its keyring is loaded.  The
\* calls of a view share one opening.
Opened(m) == IF m \in View /\ handle[m] # 0 THEN handle[m] ELSE opened
OpenCached(c) ==
    /\ call[c].pc = "open" /\ Opened(call[c].m) # 0 /\ call[c].m \notin broken
    /\ call' = [call EXCEPT ![c].pc = "run", ![c].inst = Opened(call[c].m)]
    /\ handle' = [handle EXCEPT ![call[c].m] = Opened(call[c].m)]
    /\ UNCHANGED <<shared, broken, items, due, fresh, behind, writes, faults>>

OpenStart(c) ==
    /\ call[c].pc = "open" /\ opened = 0 /\ call[c].m \notin broken
    /\ ~\E d \in Caller : call[d].pc = "opening" /\ call[d].m = call[c].m /\ call[c].m \in View
    /\ call' = [call EXCEPT ![c].pc = "opening"]
    /\ UNCHANGED <<shared, handle, broken, items, due, fresh, behind, writes, faults>>

OpenEnd(c) ==
    /\ call[c].pc = "opening" /\ made < MaxInst
    /\ made' = made + 1 /\ opened' = made + 1
    /\ handle' = [handle EXCEPT ![call[c].m] = made + 1]
    /\ call' = [call EXCEPT ![c].pc = "run", ![c].inst = made + 1]
    /\ UNCHANGED <<disk, cache, hydrated, broken, items, due, fresh, behind, writes, faults>>

\* A rejected opening ends the call.  A store tries again at the next one; a
\* view keeps the rejected promise, and its later refreshes end in its error.
OpenFails(c) ==
    /\ call[c].pc = "opening" /\ faults < MaxFaults /\ faults' = faults + 1
    /\ call[c].m \in View => "viewFails" \in Allowed
    /\ broken' = broken \cup ({call[c].m} \cap View)
    /\ call' = [call EXCEPT ![c] = Idle] /\ fresh' = fresh \ {call[c].m}
    /\ UNCHANGED <<shared, handle, items, due, behind, writes>>

OpenBroken(c) ==
    /\ call[c].pc = "open" /\ call[c].m \in broken
    /\ call' = [call EXCEPT ![c] = Idle]
    /\ UNCHANGED <<shared, handle, broken, items, due, fresh, behind, writes, faults>>

\* ensureHydrated: the records are read, then set in the cache.  A delete does
\* not hydrate.
Hydrates(c) == ~hydrated[call[c].inst] /\ call[c].op # "delete"
HydrateRead(c) ==
    /\ call[c].pc = "run" /\ Hydrates(c)
    /\ call' = [call EXCEPT ![c].pc = "hydrate", ![c].snap = disk]
    /\ UNCHANGED <<shared, handle, broken, items, due, fresh, behind, writes, faults>>

HydrateSet(c) ==
    LET k == call[c].inst
    IN  /\ call[c].pc = "hydrate"
        /\ cache' = [cache EXCEPT ![k] = [r \in Rec |->
                       IF call[c].snap[r] # 0 THEN call[c].snap[r] ELSE @[r]]]
        /\ hydrated' = [hydrated EXCEPT ![k] = TRUE]
        /\ call' = [call EXCEPT ![c].pc = "run"]
        /\ UNCHANGED <<disk, made, opened, handle, broken, items, due, fresh, behind, writes, faults>>

\* Collection.put and delete: the store, then, with the ledger's entry written,
\* the cache and the change event; the call goes on to list.  Nothing tells the
\* other stores.
Store(c) ==
    /\ call[c].pc = "run" /\ call[c].op # "list" /\ ~Hydrates(c)
    /\ disk' = [disk EXCEPT ![call[c].r] = call[c].val] /\ behind' = behind \cup {call[c].r}
    /\ call' = [call EXCEPT ![c].pc = "stored"]
    /\ fresh' = IF "others" \in Allowed THEN fresh ELSE fresh \ (Pinia \ {call[c].m})
    /\ UNCHANGED <<made, opened, cache, hydrated, handle, broken, items, due, writes, faults>>

Emit(c) ==
    /\ call[c].pc = "stored"
    /\ cache' = [cache EXCEPT ![call[c].inst][call[c].r] = call[c].val]
    /\ behind' = behind \ {call[c].r}
    /\ due' = due \cup Listeners(c) /\ fresh' = fresh \cup {call[c].m}
    /\ call' = [call EXCEPT ![c].pc = "run", ![c].op = "list"]
    /\ UNCHANGED <<disk, made, opened, hydrated, handle, broken, items, writes, faults>>

\* A put or delete fails before the store has been written, or after it, at the
\* ledger: then neither the cache nor an event follows, and the store is not
\* listed again.  Or the read of a list that hydrates fails.
CallFails(c) ==
    /\ \/ call[c].pc \in {"hydrate", "stored"}
       \/ call[c].pc = "run" /\ call[c].op # "list"
    /\ faults < MaxFaults /\ faults' = faults + 1
    /\ call' = [call EXCEPT ![c] = Idle]
    /\ fresh' = IF call[c].op = "list" THEN fresh \ {call[c].m} ELSE fresh
    /\ UNCHANGED <<shared, handle, broken, items, due, behind, writes>>

\* list() of the hydrated collection, assigned to items or data.
Show(c) ==
    /\ call[c].pc = "run" /\ call[c].op = "list" /\ ~Hydrates(c)
    /\ items' = [items EXCEPT ![call[c].m] = cache[call[c].inst]]
    /\ call' = [call EXCEPT ![c] = Idle]
    /\ UNCHANGED <<shared, handle, broken, due, fresh, behind, writes, faults>>

Next == \E c \in Caller :
    \/ \E m \in Mirror : Refresh(c, m)
    \/ \E m \in Pinia, r \in Rec, op \in {"put", "delete"} : Edit(c, m, r, op)
    \/ OpenCached(c) \/ OpenStart(c) \/ OpenEnd(c) \/ OpenFails(c) \/ OpenBroken(c)
    \/ HydrateRead(c) \/ HydrateSet(c) \/ Store(c) \/ Emit(c) \/ CallFails(c) \/ Show(c)

Spec == Init /\ [][Next]_vars

-----------------------------------------------------------------------------
\* When nothing is under way, a list that was taken after the last write the
\* mirror could know of, and after the last failure to open or to list, shows the
\* store; but for a record whose last put or delete was rejected after it had
\* written the store, which no list shows until the record is written again.
Settled ==
    due = {} /\ (\A c \in Caller : call[c] = Idle) =>
        \A m \in fresh, r \in Rec \ behind : items[m][r] = disk[r]

\* The same with no exception.
ShowsStore ==
    due = {} /\ (\A c \in Caller : call[c] = Idle) => \A m \in fresh : items[m] = disk

=============================================================================
