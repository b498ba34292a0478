----------------------------- MODULE VaultRefs -----------------------------
(***************************************************************************)
(* References between the collections of a vault                          *)
(* (packages/hub/src/vault.ts, refs.ts): a strict reference is checked    *)
(* before a put and blocks the delete of its target, a cascading one has  *)
(* the records that refer to the target deleted first, from the leaves.   *)
(*                                                                         *)
(* One vault object writes all records.  What it checks is the caches of  *)
(* its collections, which hold what the store held when the session       *)
(* began, and what has been written since.  A step is what runs between   *)
(* two awaits: a check, the write of the store and, after the entry in    *)
(* the ledger, the change of the cache are separate steps, as are the     *)
(* deletes of a cascade; any of them may fail, and the session may end.   *)
(***************************************************************************)
EXTENDS Naturals, Sequences, FiniteSets

CONSTANTS
    Coll,         \* collections
    Id,           \* record ids
    Schemas,      \* the declared references: a collection's target and mode, or None
    Caller,       \* calls that may be in flight at once
    None,
    MaxFaults,    \* bound: store calls that fail, and restarts
    RefsAllowed   \* may include "overlap": calls start while others are in flight,
                  \* "unopened": a session writes that has not opened every collection

\* A collection may declare one reference: what it refers to, and the mode.
Mode == {"strict", "cascade", "warn"}
ASSUME RefsAssumption == Schemas \subseteq [Coll -> {None} \cup [to : Coll, mode : Mode]]

VARIABLES
    out,          \* the reference each collection declares when it is opened
    opened,       \* the collections this session has opened: RefRegistry knows their references
    stored,       \* the store: the reference each record holds; Absent without the record
    data,         \* the same of the caches, which is what is checked
    unfinished,   \* (history) records whose last write of the store has not come to the cache
    inProgress,   \* Vault.cascadeInProgress
    call,         \* the calls in flight
    fails, crashes

contents == <<stored, data, unfinished>>
vars == <<out, opened, contents, inProgress, call, fails, crashes>>

Absent == <<>>                        \* no such record
Record(ref) == <<ref>>                \* a record and what it refers to, perhaps None
Exists(c, i) == data[c][i] # Absent
Declares(c, mode) == out[c] # None /\ out[c].mode = mode
getInbound(c) == {d \in opened : out[d] # None /\ out[d].to = c}
Referring(d, i) == {j \in Id : data[d][j] = Record(i)}

Idle == [pc |-> "idle", c |-> None, i |-> None, ref |-> None, stack |-> <<>>]

Sessions == IF "unopened" \in RefsAllowed THEN SUBSET Coll ELSE {Coll}

Init ==
    /\ out \in Schemas /\ opened \in Sessions
    /\ data = [c \in Coll |-> [i \in Id |-> Absent]] /\ stored = data /\ unfinished = {}
    /\ inProgress = {} /\ call = [w \in Caller |-> Idle] /\ fails = 0 /\ crashes = 0

Quiet == \A w \in Caller : call[w].pc = "idle"
Starts(w) == call[w].pc = "idle" /\ (Quiet \/ "overlap" \in RefsAllowed)

-----------------------------------------------------------------------------
(***************************************************************************)
(* put: enforceRefsOnPut asks for the target of a strict reference.       *)
(***************************************************************************)
BeginPut(w, c, i, ref) ==
    /\ Starts(w) /\ c \in opened /\ (out[c] = None => ref = None)
    /\ call' = [call EXCEPT ![w] = [Idle EXCEPT !.pc = "check", !.c = c, !.i = i, !.ref = ref]]
    /\ UNCHANGED <<out, opened, contents, inProgress, fails, crashes>>

\* (Variant: a cascading reference is checked in place of a strict one.)
NeedsCheckSwapped(k) == Declares(k.c, "cascade") /\ k.ref # None
NeedsCheck(k) == Declares(k.c, "strict") /\ k.ref # None

enforceRefsOnPut(w) ==
    LET k == call[w] IN
    /\ k.pc = "check"
    /\ call' = [call EXCEPT ![w] = IF NeedsCheck(k) /\ ~Exists(out[k.c].to, k.ref)
                                   THEN Idle ELSE [k EXCEPT !.pc = "write"]]
    /\ UNCHANGED <<out, opened, contents, inProgress, fails, crashes>>

Written(k) == Record(k.ref)
WriteRecord(w) ==
    LET k == call[w] IN
    /\ k.pc = "write" /\ call' = [call EXCEPT ![w].pc = "cache"]
    /\ stored' = [stored EXCEPT ![k.c][k.i] = Written(k)]
    /\ unfinished' = unfinished \cup {<<k.c, k.i>>}
    /\ UNCHANGED <<out, opened, data, inProgress, fails, crashes>>
CacheRecord(w) ==
    LET k == call[w] IN
    /\ k.pc = "cache" /\ call' = [call EXCEPT ![w] = Idle]
    /\ data' = [data EXCEPT ![k.c][k.i] = Written(k)]
    /\ unfinished' = unfinished \ {<<k.c, k.i>>}
    /\ UNCHANGED <<out, opened, stored, inProgress, fails, crashes>>

-----------------------------------------------------------------------------
(***************************************************************************)
(* delete: a frame for each delete a cascade has entered.  A frame that   *)
(* finds its record in progress skips the rules.                          *)
(***************************************************************************)
Frame(c, i) == LET mine == <<c, i>> \notin inProgress IN
    [c |-> c, i |-> i, mine |-> mine, rules |-> IF mine THEN getInbound(c) ELSE {},
     from |-> None, todo |-> {}]
Enter(w, stack, c, i) ==
    /\ call' = [call EXCEPT ![w] = [Idle EXCEPT !.pc = "delete", !.stack = Append(stack, Frame(c, i))]]
    /\ inProgress' = inProgress \cup {<<c, i>>}

Depth(w) == Len(call[w].stack)
Top(w)   == call[w].stack[Depth(w)]
Deleting(w) == call[w].pc = "delete"
WithTop(w, f) == [call EXCEPT ![w].stack[Depth(w)] = f]

BeginDelete(w, c, i) ==
    /\ Starts(w) /\ c \in opened /\ Enter(w, <<>>, c, i)
    /\ UNCHANGED <<out, opened, contents, fails, crashes>>

\* What an error does: every frame takes its mark away, nothing is deleted.
Held(w) == {<<f.c, f.i>> : f \in {call[w].stack[n] : n \in {m \in 1..Depth(w) : call[w].stack[m].mine}}}
Unwind(w) == call' = [call EXCEPT ![w] = Idle] /\ inProgress' = inProgress \ Held(w)

\* One rule: the referring collection is listed.  (Variant: of several
\* records that refer to it one is deleted.)
MatchesOne(d, i) == IF Referring(d, i) = {} THEN {} ELSE {CHOOSE j \in Referring(d, i) : TRUE}
Matches(d, i) == Referring(d, i)

ApplyRule(w, d) ==
    LET f == Top(w)
        hits == Matches(d, f.i)
    IN  /\ Deleting(w) /\ f.todo = {} /\ d \in f.rules
        /\ IF hits # {} /\ out[d].mode = "strict" THEN Unwind(w)
           ELSE /\ call' = WithTop(w, [f EXCEPT !.rules = @ \ {d}, !.from = d,
                                          !.todo = IF out[d].mode = "cascade" THEN hits ELSE {}])
                /\ UNCHANGED inProgress
        /\ UNCHANGED <<out, opened, contents, fails, crashes>>

Cascade(w, j) ==
    LET f == Top(w)
        rest == [call[w].stack EXCEPT ![Depth(w)] = [f EXCEPT !.todo = @ \ {j}]]
    IN  /\ Deleting(w) /\ j \in f.todo /\ Enter(w, rest, f.from, j)
        /\ UNCHANGED <<out, opened, contents, fails, crashes>>

\* No rule is left: the mark goes, then the record from the store, then from the cache,
\* and with it the frame.
Finished(w) == Deleting(w) /\ Top(w).rules = {} /\ Top(w).todo = {} /\ ~Top(w).mine
EndRules(w) ==
    LET f == Top(w) IN
    /\ Deleting(w) /\ f.rules = {} /\ f.todo = {} /\ f.mine
    /\ inProgress' = inProgress \ {<<f.c, f.i>>} /\ call' = WithTop(w, [f EXCEPT !.mine = FALSE])
    /\ UNCHANGED <<out, opened, contents, fails, crashes>>
DeleteRecord(w) ==
    LET f == Top(w) IN
    /\ Finished(w) /\ call' = [call EXCEPT ![w].pc = "gone"]
    /\ stored' = [stored EXCEPT ![f.c][f.i] = Absent] /\ unfinished' = unfinished \cup {<<f.c, f.i>>}
    /\ UNCHANGED <<out, opened, data, inProgress, fails, crashes>>
Gone(w) == call[w].pc = "gone"
Uncached(f) == [data EXCEPT ![f.c][f.i] = Absent]
UncacheRecord(w) ==
    LET f == Top(w) IN
    /\ Gone(w)
    /\ data' = Uncached(f) /\ unfinished' = unfinished \ {<<f.c, f.i>>}
    /\ call' = IF Depth(w) = 1 THEN [call EXCEPT ![w] = Idle]
               ELSE [call EXCEPT ![w].pc = "delete", ![w].stack = SubSeq(@, 1, Depth(w) - 1)]
    /\ UNCHANGED <<out, opened, stored, inProgress, fails, crashes>>

\* A failure leaves the cache as it was; of a delete, a collection that has not been
\* hydrated yet will read what the store holds.
Fail(w) ==
    /\ call[w].pc # "idle" /\ crashes + fails < MaxFaults /\ fails' = fails + 1 /\ Unwind(w)
    /\ data' = data \/ (Gone(w) /\ data' = Uncached(Top(w)))
    /\ UNCHANGED <<out, opened, stored, unfinished, crashes>>
\* The caches of the next session hold what the store does.
Crash ==
    /\ crashes + fails < MaxFaults /\ crashes' = crashes + 1
    /\ inProgress' = {} /\ call' = [w \in Caller |-> Idle] /\ opened' \in Sessions
    /\ data' = stored
    /\ UNCHANGED <<out, stored, unfinished, fails>>

Next ==
    \/ Crash
    \/ \E w \in Caller :
        \/ enforceRefsOnPut(w) \/ WriteRecord(w) \/ CacheRecord(w)
        \/ EndRules(w) \/ DeleteRecord(w) \/ UncacheRecord(w) \/ Fail(w)
        \/ \E d \in Coll : ApplyRule(w, d)
        \/ \E j \in Id : Cascade(w, j)
        \/ \E c \in Coll, i \in Id :
              BeginDelete(w, c, i) \/ (\E ref \in Id \cup {None} : BeginPut(w, c, i, ref))

Spec == Init /\ [][Next]_vars

-----------------------------------------------------------------------------
(***************************************************************************)
(* Correctness.                                                           *)
(***************************************************************************)
\* checkIntegrity of a session that has read the store: the references of a mode whose
\* target is missing.
violations(mode) ==
    {x \in Coll \X Id : LET held == stored[x[1]][x[2]] IN
        /\ Declares(x[1], mode) /\ held \notin {Absent, Record(None)}
        /\ stored[out[x[1]].to][held[1]] = Absent}

\* No strict reference dangles in the store (refs.ts: strict mode): while a cascade is
\* under way, after one that failed half way, or after a restart; unless the record itself
\* or the one it refers to was written last by a put or delete that has not come to its
\* end, so that what is checked was, at a time, not what is stored.
StrictHolds ==
    \A x \in violations("strict") :
        x \in unfinished \/ <<out[x[1]].to, stored[x[1]][x[2]][1]>> \in unfinished

\* The same with no exception, between calls.
NoneDangles == Quiet => violations("strict") = {}

\* When a delete has run to its end nothing in the store refers to what it deleted by a
\* strict or cascading reference, but a record whose own last write has not come to its end.
DeleteComplete ==
    [][\A w \in Caller :
          Gone(w) /\ Depth(w) = 1 /\ call'[w] = Idle /\ crashes' = crashes /\ fails' = fails =>
              \A d \in getInbound(Top(w).c) :
                  \/ out[d].mode = "warn"
                  \/ \A j \in Id : stored'[d][j] = Record(Top(w).i) => <<d, j>> \in unfinished']_vars
=============================================================================
