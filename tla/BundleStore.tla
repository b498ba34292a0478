---------------------------- MODULE BundleStore ----------------------------
(***************************************************************************)
(* wrapBundleStore (packages/hub/src/bundle-store.ts): a store that keeps  *)
(* a whole vault in memory and writes it as one file, a bundle, to a       *)
(* service that refuses a write when the file is not at the version the    *)
(* writer has read.  Several clients share the bundle.                     *)
(*                                                                         *)
(* A record is the timestamp of its envelope, 0 where there is none; the   *)
(* clock counts the puts, is the same for all clients and stamps a put     *)
(* when it reaches the records in memory.  One collection of one vault is  *)
(* looked at: a delete flushes when it has records.                        *)
(***************************************************************************)
EXTENDS Naturals, FiniteSets

CONSTANTS
    Client, Key,
    MaxCalls,      \* calls in progress at once in one client
    AutoFlush,     \* the options.autoFlush to look at
    MaxPuts, MaxFlushes, MaxFails, MaxCrashes,    \* bounds
    Allowed        \* which of Behaviours are looked at

Behaviours ==
    {"overlap",    \* calls of one client overlap
     "replace"}    \* saveAll is called

MaxRetries == 3    \* MAX_CONFLICT_RETRIES

VARIABLES
    autoFlush,    \* of every client
    bundle,       \* the file: its version and its records
    snap,         \* snapshots: the records each client has in memory
    known,        \* versions: the version of the bundle each client goes by
    loaded,       \* loaded: the clients that have read the bundle
    batching,     \* batchDepth of each client
    call,         \* the calls in progress
    clock, flushes, fails, crashes,
    dropped,      \* history: what each client has deleted since it read the bundle
    stored        \* history: the newest put of each key that was written and not deleted

memory == <<snap, known, loaded, batching>>
bounds == <<clock, flushes, fails, crashes>>
vars == <<autoFlush, bundle, memory, call, bounds, dropped, stored>>

Empty == [k \in Key |-> 0]
CallSlot == Client \X (1..MaxCalls)
Idle == [op |-> "none", key |-> {}, pc |-> "idle", bytes |-> Empty, exp |-> 0, attempt |-> 0,
         read |-> 0, got |-> Empty, ts |-> 0, drops |-> {}]

Init ==
    /\ autoFlush \in AutoFlush
    /\ bundle = [version |-> 0, data |-> Empty]
    /\ snap = [c \in Client |-> Empty] /\ known = [c \in Client |-> 0]
    /\ loaded = {} /\ batching = [c \in Client |-> 0]
    /\ call = [s \in CallSlot |-> Idle]
    /\ clock = 0 /\ flushes = 0 /\ fails = 0 /\ crashes = 0
    /\ dropped = [c \in Client |-> {}] /\ stored = Empty

Goto(s, q) == call' = [call EXCEPT ![s] = q]
Busy(c) == \E i \in 1..MaxCalls : call[<<c, i>>] # Idle

-----------------------------------------------------------------------------
(***************************************************************************)
(* A call loads the bundle unless the client has it, then does its work in *)
(* memory, and writes the bundle when the call flushes.  flush serialises  *)
(* the records and takes the version once, before its first attempt.       *)
(***************************************************************************)
\* What the work of a call leaves in memory.
Worked(q, s) ==
    CASE q.op = "put"     -> [k \in Key |-> IF k \in q.key THEN q.ts ELSE s[k]]
      [] q.op = "delete"  -> [k \in Key |-> IF k \in q.key THEN 0 ELSE s[k]]
      [] q.op = "saveAll" -> [k \in Key |-> IF k \in q.key THEN q.ts ELSE 0]
      [] OTHER            -> s
Drops(q) ==
    IF q.op = "delete" THEN q.key ELSE IF q.op = "saveAll" THEN Key \ q.key ELSE {}

Flushes(q, c, s) ==
    CASE q.op = "flush"   -> TRUE
      [] q.op = "saveAll" -> TRUE
      [] q.op = "put"     -> autoFlush /\ batching[c] = 0
      [] q.op = "delete"  -> autoFlush /\ batching[c] = 0 /\ s # Empty
      [] OTHER            -> FALSE

\* s: the records in memory before the call, v: the version they go by, d: what was deleted.
Work(p, call0, s, v, d) ==
    LET c == p[1]
        q == IF call0.op \in {"put", "saveAll"} THEN [call0 EXCEPT !.ts = clock + 1] ELSE call0
        new == Worked(q, s)
        gone == (d \cup Drops(q)) \ {k \in Key : new[k] # 0} IN
    /\ snap' = [snap EXCEPT ![c] = new] /\ known' = [known EXCEPT ![c] = v]
    /\ dropped' = [dropped EXCEPT ![c] = gone]
    /\ clock' = IF q.ts > clock THEN q.ts ELSE clock
    /\ IF Flushes(q, c, s)
       THEN Goto(p, [q EXCEPT !.pc = "write", !.bytes = new, !.exp = v, !.attempt = 1,
                              !.drops = gone])
       ELSE Goto(p, Idle)

Begin(p, q) ==
    LET c == p[1] IN
    /\ call[p] = Idle /\ ("overlap" \in Allowed \/ ~Busy(c))
    /\ IF c \in loaded \/ q.op \in {"saveAll", "flush"}
       THEN /\ Work(p, q, snap[c], known[c], dropped[c])
            /\ loaded' = IF q.op = "saveAll" THEN loaded \cup {c} ELSE loaded
       ELSE Goto(p, [q EXCEPT !.pc = "load"]) /\ UNCHANGED <<snap, known, loaded, dropped, clock>>

Puts == clock + Cardinality({s \in CallSlot : call[s].op = "put" /\ call[s].ts = 0})

BeginPut(p, k) ==
    /\ Puts < MaxPuts /\ Begin(p, [Idle EXCEPT !.op = "put", !.key = {k}])
    /\ UNCHANGED <<autoFlush, bundle, batching, flushes, fails, crashes, stored>>

BeginDelete(p, k) ==
    /\ flushes < MaxFlushes /\ flushes' = flushes + 1
    /\ Begin(p, [Idle EXCEPT !.op = "delete", !.key = {k}])
    /\ UNCHANGED <<autoFlush, bundle, batching, fails, crashes, stored>>

BeginFlush(p) ==
    /\ flushes < MaxFlushes /\ flushes' = flushes + 1 /\ p[1] \in loaded
    /\ Begin(p, [Idle EXCEPT !.op = "flush"])
    /\ UNCHANGED <<autoFlush, bundle, batching, fails, crashes, stored>>

BeginSaveAll(p, ks) ==
    /\ "replace" \in Allowed /\ Puts < MaxPuts
    /\ Begin(p, [Idle EXCEPT !.op = "saveAll", !.key = ks])
    /\ UNCHANGED <<autoFlush, bundle, batching, flushes, fails, crashes, stored>>

\* get, list, loadAll, and the first step of batch.
BeginRead(p) ==
    /\ p[1] \notin loaded /\ Begin(p, [Idle EXCEPT !.op = "read"])
    /\ UNCHANGED <<autoFlush, bundle, batching, flushes, fails, crashes, stored>>

\* The service answers readBundle.
LoadRead(p) ==
    /\ call[p].pc = "load"
    /\ Goto(p, [call[p] EXCEPT !.pc = "loaded", !.read = bundle.version, !.got = bundle.data])
    /\ UNCHANGED <<autoFlush, bundle, memory, bounds, dropped, stored>>

\* The client takes the answer and goes on with the call.
Load(p) ==
    LET q == call[p] IN
    /\ q.pc = "loaded" /\ Work(p, [q EXCEPT !.read = 0, !.got = Empty], q.got, q.read, {})
    /\ loaded' = loaded \cup {p[1]}
    /\ UNCHANGED <<autoFlush, bundle, batching, flushes, fails, crashes, stored>>

BatchBegin(c) ==
    /\ c \in loaded /\ batching[c] = 0 /\ ("overlap" \in Allowed \/ ~Busy(c))
    /\ flushes < MaxFlushes /\ flushes' = flushes + 1
    /\ batching' = [batching EXCEPT ![c] = 1]
    /\ UNCHANGED <<autoFlush, bundle, snap, known, loaded, call, clock, fails, crashes, dropped, stored>>

BatchEnd(p) ==
    LET c == p[1] IN
    /\ batching[c] = 1 /\ batching' = [batching EXCEPT ![c] = 0]
    /\ Begin(p, [Idle EXCEPT !.op = "flush"])
    /\ UNCHANGED <<autoFlush, bundle, flushes, fails, crashes, stored>>

-----------------------------------------------------------------------------
(***************************************************************************)
(* writeBundle, and the retries of a flush.                                *)
(***************************************************************************)
Written(q) == [version |-> bundle.version + 1, data |-> q.bytes]

WriteBundle(p) ==
    LET q == call[p] IN
    /\ q.pc = "write" /\ q.exp = bundle.version /\ bundle' = Written(q)
    /\ Goto(p, [q EXCEPT !.pc = "answer", !.read = bundle.version + 1])
    /\ stored' = [k \in Key |-> IF k \in q.drops THEN 0
                               ELSE IF q.bytes[k] > stored[k] THEN q.bytes[k] ELSE stored[k]]
    /\ UNCHANGED <<autoFlush, memory, bounds, dropped>>

\* The answer arrives: the call is over.
WriteAnswered(p) ==
    LET q == call[p] IN
    /\ q.pc = "answer" /\ Goto(p, Idle)
    /\ known' = [known EXCEPT ![p[1]] = q.read]
    /\ UNCHANGED <<autoFlush, bundle, snap, loaded, batching, bounds, dropped, stored>>

\* The write is carried out and its answer lost, or it is not carried out.
WriteFails(p) ==
    LET q == call[p] IN
    /\ q.pc \in {"write", "answer"} /\ fails < MaxFails /\ fails' = fails + 1 /\ Goto(p, Idle)
    /\ UNCHANGED <<autoFlush, bundle, memory, clock, flushes, crashes, dropped, stored>>

Conflict(p) ==
    LET q == call[p] IN
    /\ q.pc = "write" /\ q.exp # bundle.version
    /\ Goto(p, IF q.attempt < MaxRetries THEN [q EXCEPT !.pc = "reread"] ELSE Idle)
    /\ UNCHANGED <<autoFlush, bundle, memory, bounds, dropped, stored>>

\* The newer envelope of each record; what only one side has stays.
Merge(remote, local) == [k \in Key |-> IF local[k] >= remote[k] THEN local[k] ELSE remote[k]]

\* (Variant: the retry goes by the version just read, with what it serialised before.)
RereadTakesVersion(p) ==
    LET q == call[p] c == p[1] IN
    /\ q.pc = "reread"
    /\ snap' = [snap EXCEPT ![c] = Merge(bundle.data, @)]
    /\ known' = [known EXCEPT ![c] = bundle.version]
    /\ dropped' = [dropped EXCEPT ![c] = @ \ {k \in Key : snap'[c][k] # 0}]
    /\ Goto(p, [q EXCEPT !.pc = "write", !.attempt = @ + 1, !.exp = bundle.version])
    /\ UNCHANGED <<autoFlush, bundle, loaded, batching, bounds, stored>>

Reread(p) ==
    LET q == call[p] c == p[1] IN
    /\ q.pc = "reread"
    /\ snap' = [snap EXCEPT ![c] = Merge(bundle.data, @)]
    /\ known' = [known EXCEPT ![c] = bundle.version]
    /\ dropped' = [dropped EXCEPT ![c] = @ \ {k \in Key : snap'[c][k] # 0}]
    /\ Goto(p, [q EXCEPT !.pc = "write", !.attempt = @ + 1])
    /\ UNCHANGED <<autoFlush, bundle, loaded, batching, bounds, stored>>

\* The process of a client ends; what it had in memory is lost.
Crash(c) ==
    /\ crashes < MaxCrashes /\ crashes' = crashes + 1
    /\ snap' = [snap EXCEPT ![c] = Empty] /\ known' = [known EXCEPT ![c] = 0]
    /\ loaded' = loaded \ {c} /\ batching' = [batching EXCEPT ![c] = 0]
    /\ call' = [s \in CallSlot |-> IF s[1] = c THEN Idle ELSE call[s]]
    /\ dropped' = [dropped EXCEPT ![c] = {}]
    /\ UNCHANGED <<autoFlush, bundle, clock, flushes, fails, stored>>

-----------------------------------------------------------------------------
Next ==
    \/ \E p \in CallSlot, k \in Key : BeginPut(p, k) \/ BeginDelete(p, k)
    \/ \E p \in CallSlot, ks \in SUBSET Key : BeginSaveAll(p, ks)
    \/ \E p \in CallSlot : BeginFlush(p) \/ BeginRead(p) \/ LoadRead(p) \/ Load(p) \/ BatchEnd(p)
    \/ \E p \in CallSlot : WriteBundle(p) \/ WriteAnswered(p) \/ WriteFails(p) \/ Conflict(p) \/ Reread(p)
    \/ \E c \in Client : BatchBegin(c) \/ Crash(c)

Spec == Init /\ [][Next]_vars

-----------------------------------------------------------------------------
(***************************************************************************)
(* Properties.                                                            *)
(***************************************************************************)
\* A put that has been written, by its own flush or by a later one, stays in the bundle, or
\* a newer put of the record, until a client that has read it deletes the record and writes
\* that, whichever clients write, fail, merge and crash in between.
StoredKept == \A k \in Key : bundle.data[k] >= stored[k]

\* The retry of a flush comes to an end with its write, however late, unless the bundle has
\* been written again since it was read.  (Not what the code does.)
RetrySucceeds ==
    \A p \in CallSlot : call[p].pc = "write" /\ call[p].attempt > 1 /\ known[p[1]] = bundle.version
        => call[p].exp = bundle.version
=============================================================================
