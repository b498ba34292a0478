------------------------------ MODULE Presence ------------------------------
(***************************************************************************)
(* Who is here (packages/hub/src/presence.ts): every user of a collection *)
(* puts a record of its own into _presence_<collection> of the sync store, *)
(* and a subscriber is given the list of the others, read record by record *)
(* on an interval or, with a store that can broadcast, when a message of a *)
(* peer arrives.  Polls of one handle may overlap: nothing serialises them. *)
(***************************************************************************)
EXTENDS Naturals, FiniteSets

CONSTANTS
    User,
    Watcher,      \* the users that subscribe
    Slot,         \* polls of one handle that may be in flight
    Encrypted,    \* payloads are sealed with the presence key
    PubSub,       \* the store has presencePublish and presenceSubscribe
    Stale,        \* staleMs, in ticks
    MaxTime, MaxUpdates, MaxFaults   \* bounds

PresenceAssumption == Watcher \subseteq User /\ Stale \in Nat

VARIABLES
    now,
    rec,          \* the stored record of each user
    update,       \* update() in flight
    cached,       \* the handles that have derived their presenceKey
    sub,          \* "off", "on", "stopped"
    inbox,        \* broadcasts that have not reached a subscriber yet
    poll,         \* the polls in flight
    heard,        \* what a subscriber was given last, and (ghost) what was stored when that poll began
    updates, faults

vars == <<now, rec, update, cached, sub, inbox, poll, heard, updates, faults>>

NoRecord == [n |-> 0, seen |-> 0, iv |-> "", sealed |-> ""]
NoUpdate == [pc |-> "idle", seen |-> 0]
NoPoll == [pc |-> "idle", todo |-> {}, cutoff |-> 0, got |-> {}, began |-> [u \in User |-> 0]]
Nothing == [got |-> {}, cutoff |-> 0, began |-> [u \in User |-> 0]]

Init ==
    /\ now = Stale + 1
    /\ rec = [u \in User |-> NoRecord] /\ update = [u \in User |-> NoUpdate] /\ cached = {}
    /\ sub = [u \in User |-> "off"] /\ inbox = [u \in User |-> {}]
    /\ poll = [u \in User |-> [s \in Slot |-> NoPoll]] /\ heard = [u \in User |-> Nothing]
    /\ updates = 0 /\ faults = 0

Tick == /\ now < MaxTime /\ now' = now + 1
        /\ UNCHANGED <<rec, update, cached, sub, inbox, poll, heard, updates, faults>>
Cutoff == now - Stale

-----------------------------------------------------------------------------
(***************************************************************************)
(* update: the key, the broadcast, then the record.  What is stored with  *)
(* a sealed payload is an IV made for it; encrypt uses one of its own     *)
(* (crypto.ts).                                                           *)
(***************************************************************************)
Seal(n, t) == IF Encrypted THEN [n |-> n, seen |-> t, iv |-> "generated", sealed |-> "encrypt's"]
              ELSE [n |-> n, seen |-> t, iv |-> "", sealed |-> ""]
Opens(u, r) == r.iv = r.sealed /\ (r.sealed # "" => u \in cached)

BeginUpdate(u) ==
    /\ update[u].pc = "idle" /\ sub[u] # "stopped" /\ updates < MaxUpdates
    /\ updates' = updates + 1 /\ cached' = IF Encrypted THEN cached \cup {u} ELSE cached
    /\ update' = [update EXCEPT ![u] = [pc |-> "publish", seen |-> now]]
    /\ UNCHANGED <<now, rec, sub, inbox, poll, heard, faults>>
Publish(u) ==
    /\ update[u].pc = "publish" /\ update' = [update EXCEPT ![u].pc = "write"]
    /\ inbox' = IF ~PubSub THEN inbox
                ELSE [w \in User |-> IF sub[w] = "on" THEN inbox[w] \cup {[by |-> u, is |-> Seal(0, update[u].seen)]}
                                     ELSE inbox[w]]
    /\ UNCHANGED <<now, rec, cached, sub, poll, heard, updates, faults>>
writeStorageRecord(u) == [rec EXCEPT ![u] = Seal(@.n + 1, update[u].seen)]
\* A write that fails is not heard of.
Write(u) ==
    /\ update[u].pc = "write" /\ update' = [update EXCEPT ![u] = NoUpdate]
    /\ \/ rec' = writeStorageRecord(u) /\ UNCHANGED faults
       \/ faults < MaxFaults /\ faults' = faults + 1 /\ UNCHANGED rec
    /\ UNCHANGED <<now, cached, sub, inbox, poll, heard, updates>>

(***************************************************************************)
(* pollStoragePresence: the ids, then one record after the other.  One    *)
(* that cannot be read or opened ends the poll, and nobody is told.       *)
(***************************************************************************)
\* (Variant: a user is told of itself.)
SkippedNone(u) == {}
Skipped(u) == {u}
Begins(u, s) == [poll EXCEPT ![u][s] =
    [NoPoll EXCEPT !.pc = "list", !.began = [w \in User |-> rec[w].n]]]
Listens(u) == sub[u] = "on" /\ ~PubSub
PollOnTime(u, s) ==
    /\ Listens(u) /\ poll[u][s].pc = "idle" /\ poll' = Begins(u, s)
    /\ UNCHANGED <<now, rec, update, cached, sub, inbox, heard, updates, faults>>
List(u, s) ==
    /\ poll[u][s].pc = "list"
    /\ poll' = [poll EXCEPT ![u][s].pc = "get", ![u][s].cutoff = Cutoff,
                            ![u][s].todo = {w \in User : rec[w].n > 0} \ Skipped(u)]
    /\ UNCHANGED <<now, rec, update, cached, sub, inbox, heard, updates, faults>>
\* (Variant: what was seen staleMs ago is stale already.)
IsStaleOver(r, cutoff) == r.seen <= cutoff
IsStale(r, cutoff) == r.seen < cutoff
Get(u, s, w) ==
    LET p == poll[u][s] IN
    /\ p.pc = "get" /\ w \in p.todo
    /\ poll' = [poll EXCEPT ![u][s] =
           IF IsStale(rec[w], p.cutoff) THEN [p EXCEPT !.todo = @ \ {w}]
           ELSE IF Opens(u, rec[w])
             THEN [p EXCEPT !.todo = @ \ {w}, !.got = @ \cup {[by |-> w, n |-> rec[w].n, seen |-> rec[w].seen]}]
           ELSE NoPoll]
    /\ UNCHANGED <<now, rec, update, cached, sub, inbox, heard, updates, faults>>
Deliver(u, s) ==
    LET p == poll[u][s] IN
    /\ p.pc = "get" /\ p.todo = {} /\ poll' = [poll EXCEPT ![u][s] = NoPoll]
    /\ heard' = IF sub[u] # "on" THEN heard
                ELSE [heard EXCEPT ![u] = [got |-> p.got, cutoff |-> p.cutoff, began |-> p.began]]
    /\ UNCHANGED <<now, rec, update, cached, sub, inbox, updates, faults>>
PollFails(u, s) ==
    /\ poll[u][s].pc # "idle" /\ faults < MaxFaults /\ faults' = faults + 1
    /\ poll' = [poll EXCEPT ![u][s] = NoPoll]
    /\ UNCHANGED <<now, rec, update, cached, sub, inbox, heard, updates>>

\* A broadcast that is not one's own and not old makes its receiver poll.
handlePubSubMessage(u, s) ==
    \E m \in inbox[u] :
        LET opens  == m.is.iv = m.is.sealed
            poller == sub[u] = "on" /\ opens /\ m.by # u /\ m.is.seen >= Cutoff IN
        /\ (poller => poll[u][s].pc = "idle")
        /\ inbox' = [inbox EXCEPT ![u] = @ \ {m}] /\ poll' = IF poller THEN Begins(u, s) ELSE poll
        /\ cached' = IF Encrypted THEN cached \cup {u} ELSE cached
        /\ UNCHANGED <<now, rec, update, sub, heard, updates, faults>>

-----------------------------------------------------------------------------
\* The first subscriber starts the interval and a poll at once, or listens.
subscribe(u, s) ==
    /\ u \in Watcher /\ sub[u] = "off" /\ sub' = [sub EXCEPT ![u] = "on"]
    /\ (~PubSub => poll[u][s].pc = "idle") /\ poll' = IF PubSub THEN poll ELSE Begins(u, s)
    /\ UNCHANGED <<now, rec, update, cached, inbox, heard, updates, faults>>
\* The last one has left: nothing more is delivered, polls in flight run on.
stopListening(u, to) ==
    /\ sub' = [sub EXCEPT ![u] = to] /\ inbox' = [inbox EXCEPT ![u] = {}]
    /\ heard' = [heard EXCEPT ![u] = Nothing]
    /\ UNCHANGED <<now, rec, update, cached, poll, updates, faults>>
unsubscribe(u) == sub[u] = "on" /\ stopListening(u, "off")
stop(u)        == sub[u] # "stopped" /\ stopListening(u, "stopped")

Works(u) == BeginUpdate(u) \/ Publish(u) \/ Write(u)
Polls(u, s) == List(u, s) \/ Deliver(u, s) \/ \E w \in User : Get(u, s, w)
Next ==
    \/ Tick
    \/ \E u \in User :
        \/ Works(u) \/ unsubscribe(u) \/ stop(u)
        \/ \E s \in Slot : PollOnTime(u, s) \/ Polls(u, s) \/ PollFails(u, s)
                           \/ handlePubSubMessage(u, s) \/ subscribe(u, s)

\* The interval fires, messages arrive, and calls in flight are answered.
Fairness ==
    /\ \A u \in User : WF_vars(Publish(u) \/ Write(u))
    /\ \A u \in User, s \in Slot :
        WF_vars(PollOnTime(u, s)) /\ WF_vars(Polls(u, s)) /\ WF_vars(handlePubSubMessage(u, s))
Spec == Init /\ [][Next]_vars
FairSpec == Spec /\ Fairness

-----------------------------------------------------------------------------
(***************************************************************************)
(* Correctness.                                                           *)
(***************************************************************************)
\* A list that was delivered has every peer that was there, not stale, when
\* its poll began, as it was then or later; none that is stale, and not the
\* subscriber itself.
ListsAreTrue ==
    \A u \in User :
        LET h == heard[u] IN
        /\ \A e \in h.got : e.by # u /\ e.seen >= h.cutoff /\ e.n >= h.began[e.by]
        /\ h.cutoff > 0 => \A w \in User \ {u} :
             (h.began[w] > 0 /\ rec[w].n = h.began[w] /\ rec[w].seen >= h.cutoff)
                => \E e \in h.got : e.by = w

\* A peer that is here is seen in the end by everyone who keeps listening,
\* as it is.
Here(w) == rec[w].n > 0 /\ rec[w].seen >= Cutoff
Sees(u, w) == \E e \in heard[u].got : e.by = w /\ e.n = rec[w].n
PeersSeen ==
    \A u, w \in User : u # w => (<>[](sub[u] = "on" /\ Here(w)) => <>[](Sees(u, w)))

\* A subscriber is never told an older state of a peer than before.
NeverBack ==
    [][\A u \in User : \A e \in heard[u].got, f \in heard'[u].got : e.by = f.by => e.n <= f.n]_heard
=============================================================================
