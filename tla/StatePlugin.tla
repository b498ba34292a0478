----------------------------- MODULE StatePlugin -----------------------------
(***************************************************************************)
(* The Pinia plugin createNoydbPiniaPlugin (packages/in-pinia/src/        *)
(* plugin.ts): the picked keys of a store's state are one document of a   *)
(* collection, read when the page loads and put after every mutation,     *)
(* without waiting for the put before it.                                 *)
(***************************************************************************)
EXTENDS Naturals, FiniteSets, SequencesExt

CONSTANTS
    Key,         \* keys of the state
    Persists,    \* values of the option `persist`, sets of keys
    MaxMutations, MaxLoads, MaxFaults,   \* bounds
    Allowed      \* which of StatePluginBehaviours the environment shows

StatePluginBehaviours == {"early",    \* the store is mutated before $noydbReady
                          "reorder",  \* puts in flight land in any order
                          "grows"}    \* a later page persists more keys

StatePluginAssumption ==
    /\ MaxMutations \in Nat /\ MaxLoads \in Nat /\ MaxFaults \in Nat
    /\ Allowed \subseteq StatePluginBehaviours

VARIABLES
    persist,   \* the option
    state,     \* the store's state: the number of the mutation that set a key, 0 at first
    page,      \* "loading", "ready" (hydrated and subscribed) or "failed" ($noydbError)
    pending,   \* the puts in flight, in the order they were called
    stored,    \* the document, empty when there is none
    lost,      \* (history) the last put of this page failed
    touched,   \* (history) mutations before this page was ready, and after
    mutations, loads, faults

vars == <<persist, state, page, pending, stored, lost, touched, mutations, loads, faults>>

Undefined == 99   \* the value of a key that the document does not have

-----------------------------------------------------------------------------
\* pickKeys.
Pick(doc) == [k \in persist |-> IF k \in DOMAIN doc THEN doc[k] ELSE Undefined]

Initial == [k \in Key |-> 0]
Untouched == [early |-> FALSE, late |-> FALSE]
Init ==
    /\ persist \in Persists /\ state = Initial /\ page = "loading" /\ pending = <<>>
    /\ stored = <<>> /\ lost = FALSE /\ touched = Untouched
    /\ mutations = 0 /\ loads = 1 /\ faults = 0

\* Hydrate, patch the picked keys, then subscribe.
Hydrate ==
    /\ page = "loading" /\ page' = "ready"
    /\ state' = IF stored = <<>> THEN state
                ELSE [k \in Key |-> IF k \in DOMAIN Pick(stored) THEN Pick(stored)[k] ELSE state[k]]
    /\ UNCHANGED <<persist, pending, stored, lost, touched, mutations, loads, faults>>

\* The vault does not open, the read fails or the schema refuses the document.
HydrateFails ==
    /\ page = "loading" /\ faults < MaxFaults /\ faults' = faults + 1 /\ page' = "failed"
    /\ UNCHANGED <<persist, state, pending, stored, lost, touched, mutations, loads>>

\* A mutation of the state; once subscribed, the picked keys are put.
Mutate(k) ==
    /\ mutations < MaxMutations /\ mutations' = mutations + 1
    /\ page = "loading" => "early" \in Allowed
    /\ state' = [state EXCEPT ![k] = mutations + 1]
    /\ pending' = IF page = "ready" THEN Append(pending, Pick(state')) ELSE pending
    /\ touched' = [early |-> touched.early \/ page # "ready", late |-> touched.late \/ page = "ready"]
    /\ UNCHANGED <<persist, page, stored, lost, loads, faults>>

Lands(i) == i = 1 \/ "reorder" \in Allowed
PutEnds(i) ==
    /\ Lands(i) /\ stored' = pending[i] /\ pending' = RemoveAt(pending, i)
    /\ lost' = (lost /\ i # Len(pending))
    /\ UNCHANGED <<persist, state, page, touched, mutations, loads, faults>>

PutFails(i) ==
    /\ Lands(i) /\ faults < MaxFaults /\ faults' = faults + 1
    /\ pending' = RemoveAt(pending, i) /\ lost' = (i = Len(pending))
    /\ UNCHANGED <<persist, state, page, stored, touched, mutations, loads>>

\* The page is loaded again; puts still in flight are lost.
Reload ==
    /\ loads < MaxLoads /\ loads' = loads + 1
    /\ page' = "loading" /\ state' = Initial /\ pending' = <<>>
    /\ lost' = FALSE /\ touched' = Untouched
    /\ persist' \in {p \in Persists : p = persist \/ ("grows" \in Allowed /\ persist \subseteq p)}
    /\ UNCHANGED <<stored, mutations, faults>>

Next ==
    \/ Hydrate \/ HydrateFails \/ Reload
    \/ \E k \in Key : Mutate(k)
    \/ \E i \in DOMAIN pending : PutEnds(i) \/ PutFails(i)

Spec == Init /\ [][Next]_vars

-----------------------------------------------------------------------------
\* Once $noydbFlush has resolved, the document holds the persisted keys of
\* the state, unless the last put failed; a page that was not mutated shows
\* the document, and never a key without a value.
Kept(k) == k \in DOMAIN stored /\ stored[k] = state[k]
Flushed == page = "ready" /\ pending = <<>> /\ ~lost
StateKept ==
    /\ \A k \in Key : state[k] # Undefined
    /\ Flushed /\ (touched.late \/ stored # <<>>) => \A k \in persist : Kept(k)

\* A flush leaves nothing of the state behind.
NothingBehind == Flushed => \A k \in persist : Kept(k) \/ (state[k] = 0 /\ stored = <<>>)

=============================================================================
