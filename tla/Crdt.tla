-------------------------------- MODULE Crdt --------------------------------
(***************************************************************************)
(* A record of a collection in CRDT mode on several devices that share a  *)
(* remote store: the states and their merge (packages/hub/src/crdt.ts),   *)
(* the put of a CRDT collection and the resolver it registers             *)
(* (collection.ts), the push and the pull of each device that call the    *)
(* resolver (sync.ts) and the Y.Doc wrapper of packages/in-yjs.           *)
(*                                                                         *)
(* A step is the code between two awaits.  History, ledger, cache and     *)
(* indexes, which a CRDT put feeds like any other, are Collection's; the  *)
(* dirty log of one record is the flag of its entry.                      *)
(***************************************************************************)
EXTENDS Naturals, FiniteSets, SequencesExt

CONSTANTS
    Device,      \* devices with a copy of the record
    Slot,        \* calls a device may have in flight
    Modes,       \* the CRDT modes the collection may be created with
    Element,       \* fields of an lww-map record, values of an rga array
    MaxOps,      \* bound: writes of the application
    MaxLength,   \* bound: length of an array
    Allowed      \* which of CrdtBehaviours the environment shows

CrdtBehaviours == {"overlap",    \* calls of one device overlap
                   "race",       \* calls of different devices overlap
                   "rewrite",    \* a record is written again before it was pushed
                   "dirtyPull",  \* a device with unpushed writes pulls, as sync() does
                   "readd",      \* an array gets back a value it once lost
                   "skew",       \* the clocks of the devices differ
                   "yjsRace"}    \* a yjs record is written by a device that is behind

VARIABLES
    mode,        \* the CRDT mode of the collection
    local,       \* the stored envelope of each device: version and CRDT state
    remote,      \* the stored envelope of the remote store
    dirty,       \* version in the dirty log of each device, 0 for no entry
    call,        \* calls in flight
    clock,       \* latest time stamp taken
    nids,        \* item identifiers handed out
    asked,       \* (history) record put last on a device, until it is merged
    written      \* (history) what each write added to the state

vars == <<mode, local, remote, dirty, call, clock, nids, asked, written>>

-----------------------------------------------------------------------------
(***************************************************************************)
(* The states.  A register with time 0 is a field that is not there; the  *)
(* state of a yjs record is the set of the Yjs updates it holds.          *)
(***************************************************************************)
Absent  == [v |-> 0, ts |-> 0]
NoArray == [items |-> <<>>, dead |-> {}]
NoState == CASE mode = "lww-map" -> [f \in Element |-> Absent]
             [] mode = "rga"     -> NoArray
             [] OTHER            -> {}
Missing == [v |-> 0, state |-> NoState]
NoRecord == [given |-> FALSE, value |-> {}]

ResolveLww(s) == [f \in {g \in Element : s[g].ts > 0} |-> s[f].v]
ResolveRga(s) ==
    LET live == SelectSeq(s.items, LAMBDA i : i.nid \notin s.dead)
    IN  [n \in DOMAIN live |-> live[n].v]

\* Every field of the record gets the time, the others keep their register.
BuildLww(rec, old, now) ==
    [f \in Element |-> IF f \in DOMAIN rec THEN [v |-> rec[f], ts |-> now] ELSE old[f]]

\* The first item of each value, dead or not, lends its identifier to the
\* first element of that value; all the other elements get a fresh one.
FirstOf(s, v) == SelectInSeq(s, LAMBDA i : i.v = v)
FirstIn(arr, n) == \A m \in 1..(n - 1) : arr[m] # arr[n]
NewItems(arr, old, fresh) ==
    [n \in DOMAIN arr |->
        [v   |-> arr[n],
         nid |-> IF FirstIn(arr, n) /\ FirstOf(old.items, arr[n]) > 0
                 THEN old.items[FirstOf(old.items, arr[n])].nid ELSE fresh + n]]

BuildRga(arr, old, fresh) ==
    LET new  == NewItems(arr, old, fresh)
        used == {i.nid : i \in Range(new)}
        rest == SelectSeq(old.items, LAMBDA i : i.nid \notin used)
    IN  [items |-> new \o rest, dead |-> old.dead \cup {i.nid : i \in Range(rest)}]

Later(a, b) == IF a.ts >= b.ts THEN a ELSE b
MergeLww(a, b) == [f \in Element |-> Later(a[f], b[f])]
\* (Variant: the tombstones of the second state are forgotten.)
MergeRgaRevives(a, b) ==
    [items |-> a.items \o SelectSeq(b.items, LAMBDA i : \A j \in Range(a.items) : j.nid # i.nid),
     dead  |-> a.dead]
MergeRga(a, b) ==
    [items |-> a.items \o SelectSeq(b.items, LAMBDA i : \A j \in Range(a.items) : j.nid # i.nid),
     dead  |-> a.dead \cup b.dead]

\* A Y.Doc holds the updates applied to it; the wrapper stores all of them.
WithUpdate(doc, u) == doc \cup {u}

Greater(m, n) == IF m > n THEN m ELSE n
MergedVersion(l, r) == Greater(l.v, r.v) + 1

\* The resolver: a merge is a new envelope, the yjs mode takes a side.
Resolve(l, r) ==
    CASE mode = "lww-map" -> [v |-> MergedVersion(l, r), state |-> MergeLww(l.state, r.state)]
      [] mode = "rga"     -> [v |-> MergedVersion(l, r), state |-> MergeRga(l.state, r.state)]
      [] OTHER            -> IF l.v >= r.v THEN l ELSE r

-----------------------------------------------------------------------------
Idle == [op |-> "idle", pc |-> "idle", arg |-> NoRecord, now |-> 0, seen |-> Missing]
Quiet(d) == \A s \in Slot : call[d, s].op = "idle"
MayStart(d, s) ==
    /\ call[d, s].op = "idle"
    /\ "overlap" \notin Allowed => Quiet(d)
    /\ "race" \notin Allowed => \A e \in Device \ {d} : Quiet(e)

Init ==
    /\ mode \in Modes
    /\ local = [d \in Device |-> Missing] /\ remote = Missing
    /\ dirty = [d \in Device |-> 0]
    /\ call = [c \in Device \X Slot |-> Idle]
    /\ clock = 0 /\ nids = 0
    /\ asked = [d \in Device |-> NoRecord] /\ written = {}

\* The records an application puts: some fields, or an array of values.  The
\* value of a field is the number of the write.
Ops == Cardinality({w.op : w \in written})
Live(s) == Range(ResolveRga(s))
Lost(s) == {i.v : i \in Range(s.items)} \ Live(s)
Inputs(d) ==
    CASE mode = "lww-map" -> {[f \in F |-> Ops + 1] : F \in SUBSET Element \ {{}}}
      [] mode = "rga" ->
            {arr \in UNION {[1..n -> Element] : n \in 0..MaxLength} :
                "readd" \in Allowed \/ Range(arr) \cap Lost(local[d].state) = {}}
      [] OTHER -> {Ops + 1}

\* put reads the stored envelope and takes the time; applyUpdate and putYDoc
\* of the wrapper read the document their update goes into.
StartPut(d, s) ==
    /\ MayStart(d, s) /\ Ops < MaxOps
    /\ "rewrite" \notin Allowed => dirty[d] = 0
    /\ mode = "yjs" /\ "yjsRace" \notin Allowed =>
          local[d].v = remote.v /\ \A e \in Device : dirty[e] = 0 \/ e = d
    /\ \E arg \in Inputs(d), now \in IF "skew" \in Allowed THEN 1..MaxOps ELSE clock..(clock + 1) :
          /\ now > 0 /\ clock' = Greater(clock, now)
          /\ call' = [call EXCEPT ![d, s] =
                [op |-> "put", pc |-> "write", arg |-> [given |-> TRUE, value |-> arg],
                 now |-> now, seen |-> local[d]]]
    /\ UNCHANGED <<mode, local, remote, dirty, nids, asked, written>>

Built(c) ==
    CASE mode = "lww-map" -> BuildLww(c.arg.value, c.seen.state, c.now)
      [] mode = "rga"     -> BuildRga(c.arg.value, c.seen.state, nids)
      [] OTHER            -> WithUpdate(c.seen.state, c.arg.value)

\* What a write adds that no later step may lose.
Gains(d, c) ==
    LET op == Ops + 1 IN
    CASE mode = "lww-map" -> {[op |-> op, dev |-> d, at |-> <<f, c.now>>] : f \in DOMAIN c.arg.value}
      [] mode = "rga" ->
           LET new == Built(c) IN
           {[op |-> op, dev |-> d, at |-> <<"item", i.nid>>] : i \in Range(new.items)}
              \cup {[op |-> op, dev |-> d, at |-> <<"dead", n>>] : n \in new.dead}
              \cup {[op |-> op, dev |-> d, at |-> <<"item", 0>>]}
      [] OTHER -> {[op |-> op, dev |-> d, at |-> <<"update", c.arg.value>>]}

\* The state is built, stored and logged as dirty (Collection's bookkeeping is left out).
WritePut(d, s) ==
    LET c == call[d, s]
        e == [v |-> c.seen.v + 1, state |-> Built(c)]
    IN  /\ c.op = "put"
        /\ local' = [local EXCEPT ![d] = e]
        /\ dirty' = [dirty EXCEPT ![d] = e.v]
        /\ nids' = IF mode = "rga" THEN nids + Len(c.arg.value) ELSE nids
        /\ asked' = [asked EXCEPT ![d] = c.arg]
        /\ written' = written \cup Gains(d, c)
        /\ call' = [call EXCEPT ![d, s] = Idle]
        /\ UNCHANGED <<mode, remote, clock>>

-----------------------------------------------------------------------------
\* push: the put with the expected version, or the reading of the remote copy
\* after a conflict.
StartPush(d, s) ==
    /\ MayStart(d, s) /\ dirty[d] > 0
    /\ IF remote.v \in {0, dirty[d] - 1}
       THEN /\ remote' = local[d] /\ dirty' = [dirty EXCEPT ![d] = 0]
            /\ UNCHANGED call
       ELSE /\ LET winner == Resolve(local[d], remote) IN
               call' = [call EXCEPT ![d, s] = [op |-> "push", arg |-> NoRecord, now |-> 0, seen |-> winner,
                                               pc |-> IF winner = remote THEN "local" ELSE "remote"]]
            /\ UNCHANGED <<remote, dirty>>
    /\ UNCHANGED <<mode, local, clock, nids, asked, written>>

\* The winner goes to the stores that do not hold it (the local envelope of a
\* yjs record to the remote, the remote one to the local store, a merge to
\* both); then the entry leaves the log.
PushRemote(d, s) ==
    /\ call[d, s].op = "push" /\ call[d, s].pc = "remote"
    /\ remote' = call[d, s].seen
    /\ IF mode = "yjs"
       THEN call' = [call EXCEPT ![d, s] = Idle] /\ dirty' = [dirty EXCEPT ![d] = 0]
       ELSE call' = [call EXCEPT ![d, s].pc = "local"] /\ UNCHANGED dirty
    /\ UNCHANGED <<mode, local, clock, nids, asked, written>>

PushLocal(d, s) ==
    /\ call[d, s].op = "push" /\ call[d, s].pc = "local"
    /\ local' = [local EXCEPT ![d] = call[d, s].seen]
    /\ asked' = [asked EXCEPT ![d] = NoRecord]
    /\ dirty' = [dirty EXCEPT ![d] = 0]
    /\ call' = [call EXCEPT ![d, s] = Idle]
    /\ UNCHANGED <<mode, remote, clock, nids, written>>

\* pull: the snapshot of the remote, then the local copy it meets.
StartPull(d, s) ==
    /\ MayStart(d, s) /\ remote.v > 0
    /\ "dirtyPull" \notin Allowed => dirty[d] = 0
    /\ call' = [call EXCEPT ![d, s] = [op |-> "pull", pc |-> "write", arg |-> NoRecord,
                                       now |-> 0, seen |-> remote]]
    /\ UNCHANGED <<mode, local, remote, dirty, clock, nids, asked, written>>

WritePull(d, s) ==
    LET r == call[d, s].seen
        winner == IF dirty[d] = 0 \/ local[d].v = 0 THEN r ELSE Resolve(local[d], r)
    IN  /\ call[d, s].op = "pull"
        /\ IF r.v > local[d].v
           THEN /\ local' = [local EXCEPT ![d] = winner]
                /\ dirty' = [dirty EXCEPT ![d] = 0]
                /\ asked' = [asked EXCEPT ![d] = NoRecord]
           ELSE UNCHANGED <<local, dirty, asked>>
        /\ call' = [call EXCEPT ![d, s] = Idle]
        /\ UNCHANGED <<mode, remote, clock, nids, written>>

Next == \E d \in Device, s \in Slot :
    \/ StartPut(d, s)  \/ WritePut(d, s)
    \/ StartPush(d, s) \/ PushRemote(d, s) \/ PushLocal(d, s)
    \/ StartPull(d, s) \/ WritePull(d, s)

Spec == Init /\ [][Next]_vars

-----------------------------------------------------------------------------
Has(state, w) ==
    CASE mode = "lww-map" -> state[w.at[1]].ts >= w.at[2]
      [] mode = "rga" ->
            IF w.at[1] = "dead" THEN w.at[2] \in state.dead
            ELSE w.at[2] = 0 \/ \E i \in Range(state.items) : i.nid = w.at[2]
      [] OTHER -> w.at[2] \in state

\* Whatever a device writes (the newer value of a field, an element of an
\* array or its removal, a Yjs update) stays in its own copy through all later
\* puts and merges, and is on the remote once the entry has left its log.
NothingLost ==
    \A w \in written :
        /\ Has(local[w.dev].state, w)
        /\ Quiet(w.dev) /\ dirty[w.dev] = 0 => Has(remote.state, w)

\* A device without unpushed writes never holds another state than the
\* remote under the same version: pull, which compares versions alone, finds
\* every difference.
SameVersionSameState ==
    \A d \in Device : Quiet(d) /\ dirty[d] = 0 /\ local[d].v = remote.v =>
                          local[d].state = remote.state

\* What get returns after a put, before anything is merged into it: the
\* array that was put, the fields that were put.
PutReadsBack ==
    \A d \in Device : asked[d].given =>
        CASE mode = "rga" -> ResolveRga(local[d].state) = asked[d].value
          [] mode = "lww-map" -> \A f \in DOMAIN asked[d].value :
                                    ResolveLww(local[d].state)[f] = asked[d].value[f]
          [] OTHER -> asked[d].value \in local[d].state

=============================================================================
