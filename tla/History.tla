------------------------------ MODULE History ------------------------------
(***************************************************************************)
(* The history of the records of one collection                           *)
(* (packages/hub/src/history.ts) and the calls of Collection that write,  *)
(* read, revert, compare, prune and clear it.  The calls follow one       *)
(* another (Collection has the interleavings); the store holds one        *)
(* snapshot under each history id "<collection>:<record>:<version>".      *)
(***************************************************************************)
EXTENDS Naturals, FiniteSets, SequencesExt

CONSTANTS
    Id,           \* record ids, each the sequence of its parts between colons
    Rank,         \* the place of each id in the order of strings
    User,         \* who writes
    MaxVersions,  \* historyConfig.maxVersions, 0 when it is not set
    MaxOps,       \* bound: operations of the application
    Allowed       \* which of HistoryBehaviours the environment shows

HistoryBehaviours == {"recreate",   \* a deleted record is written again
                      "pruneAll"}   \* the history of all the records is pruned at once

VARIABLES
    current,  \* version and write of each record, version 0 for none
    hist,     \* snapshots: record, version, write, and when and by whom it was saved
    ops,      \* operations so far, also the time and the content of a write
    author,   \* (history) who made each write
    held,     \* (history) write held last under each version of each record
    due       \* (history) versions of each record the history owes its reader

vars == <<current, hist, ops, author, held, due>>

Nothing    == [v |-> 0, w |-> 0]
Exists(id) == current[id].v > 0
All     == <<>>      \* no record id is given

Init ==
    /\ current = [id \in Id |-> Nothing] /\ hist = {} /\ ops = 0
    /\ author = [n \in 1..MaxOps |-> CHOOSE u \in User : TRUE]
    /\ held = [id \in Id |-> [v \in 1..MaxOps |-> 0]]
    /\ due = [id \in Id |-> {}]

-----------------------------------------------------------------------------
(***************************************************************************)
(* history.ts.                                                            *)
(***************************************************************************)
\* The history ids a record id stands for: all that begin with it and a colon.
Matches(h, id) == IsPrefix(id, h.id)

\* Put under a history id: an earlier snapshot of the same version goes.
Saved(H, id, e, u) ==
    {h \in H : h.id # id \/ h.v # e.v} \cup {[id |-> id, v |-> e.v, w |-> e.w, ts |-> ops + 1, by |-> u]}

\* The order of history ids as strings (versions are padded with zeros).
Before(g, h) == Rank[g.id] < Rank[h.id] \/ (g.id = h.id /\ g.v < h.v)
Recent(H, n) == {h \in H : Cardinality({g \in H : Before(h, g)}) < n}

KeepRecent(H, id, keep) ==
    LET matching == {h \in H : Matches(h, id)} IN H \ (matching \ Recent(matching, keep))
DropBefore(H, id, date) == {h \in H : ~(Matches(h, id) /\ h.ts < date)}

\* getVersionEnvelope.
VersionOf(id, v) == {h \in hist : h.id = id /\ h.v = v}

-----------------------------------------------------------------------------
(***************************************************************************)
(* Collection.                                                            *)
(***************************************************************************)
Newest(V, n) == {v \in V : Cardinality({m \in V : m > v}) < n}
Op == /\ ops < MaxOps /\ ops' = ops + 1

\* put: the version that is replaced goes to the history, which is then cut.
AfterPut(id, u) ==
    LET H == Saved(hist, id, current[id], u)
    IN  IF MaxVersions > 0 THEN KeepRecent(H, id, MaxVersions) ELSE H

Write(id, u) ==
    /\ current' = [current EXCEPT ![id] = [v |-> @.v + 1, w |-> ops + 1]]
    /\ hist' = IF Exists(id) THEN AfterPut(id, u) ELSE hist
    /\ author' = [author EXCEPT ![ops + 1] = u]
    /\ held' = [held EXCEPT ![id][current[id].v + 1] = ops + 1]
    /\ due' = [due EXCEPT ![id] =
                  IF ~Exists(id) THEN @
                  ELSE Newest(@ \cup {current[id].v}, IF MaxVersions > 0 THEN MaxVersions ELSE MaxOps)]

Put(id, u) ==
    /\ Op
    /\ ("recreate" \notin Allowed /\ ~Exists(id)) => \A v \in 1..MaxOps : held[id][v] = 0
    /\ Write(id, u)

\* revert: a put of what the history has under the version (its content is
\* again a write of its own here, and held remembers what it should be).
Reverted(id, v) == CHOOSE h \in VersionOf(id, v) : TRUE
Revert(id, v, u) ==
    /\ Op /\ Exists(id) /\ VersionOf(id, v) # {}
    /\ current' = [current EXCEPT ![id] = [v |-> @.v + 1, w |-> Reverted(id, v).w]]
    /\ hist' = AfterPut(id, u)
    /\ held' = [held EXCEPT ![id][current[id].v + 1] = held[id][v]]
    /\ due' = [due EXCEPT ![id] =
                  Newest(@ \cup {current[id].v}, IF MaxVersions > 0 THEN MaxVersions ELSE MaxOps)]
    /\ UNCHANGED author

\* delete saves the last version and cuts nothing.
Delete(id, u) ==
    /\ Op /\ Exists(id)
    /\ current' = [current EXCEPT ![id] = Nothing]
    /\ hist' = Saved(hist, id, current[id], u)
    /\ due' = [due EXCEPT ![id] = @ \cup {current[id].v}]
    /\ UNCHANGED <<author, held>>

Targets == Id \cup (IF "pruneAll" \in Allowed THEN {All} ELSE {})
Of(id)  == IF id = All THEN Id ELSE {id}

PruneKeep(id, keep) ==
    /\ Op /\ hist' = KeepRecent(hist, id, keep)
    /\ due' = [r \in Id |-> IF r \in Of(id) THEN Newest(due[r], keep) ELSE due[r]]
    /\ UNCHANGED <<current, author, held>>

PruneBefore(id, date) ==
    /\ Op /\ hist' = DropBefore(hist, id, date)
    /\ due' = [r \in Id |-> IF r \in Of(id)
                            THEN {v \in due[r] : \E h \in VersionOf(r, v) : h.ts >= date} ELSE due[r]]
    /\ UNCHANGED <<current, author, held>>

Clear(id) ==
    /\ Op /\ hist' = {h \in hist : ~Matches(h, id)}
    /\ due' = [r \in Id |-> IF r \in Of(id) THEN {} ELSE due[r]]
    /\ UNCHANGED <<current, author, held>>

Next ==
    \/ \E id \in Id, u \in User :
          Put(id, u) \/ Delete(id, u) \/ \E v \in 1..MaxOps : Revert(id, v, u)
    \/ \E id \in Targets :
          Clear(id) \/ (\E keep \in 0..2 : PruneKeep(id, keep))
                    \/ (\E date \in 1..ops : PruneBefore(id, date))

Spec == Init /\ [][Next]_vars

-----------------------------------------------------------------------------
\* history(id): the snapshots a reader is shown.  resolveVersion(id, v): the
\* snapshot, or the current record when it has that version.
Shown(id) == {h \in hist : Matches(h, id)}
Resolved(id, v) ==
    IF VersionOf(id, v) # {} THEN {h.w : h \in VersionOf(id, v)}
    ELSE IF current[id].v = v THEN {current[id].w} ELSE {}

\* Whatever was pruned, cleared, reverted, deleted, with or without a limit:
\* the history of a record shows exactly the versions it owes, each once, and
\* nothing of another record.
HistoryIsExact ==
    \A id \in Id : /\ {h.v : h \in Shown(id)} = due[id]
                   /\ \A h \in Shown(id) : h.id = id

\* The version a reader compares or reverts to is what the record last held
\* under that number.
VersionsAreTrue ==
    \A id \in Id, v \in 1..MaxOps : \A w \in Resolved(id, v) : w = held[id][v]

\* An entry tells who wrote the version it shows.
AuthorTold == \A h \in hist : h.by = author[h.w]

=============================================================================
