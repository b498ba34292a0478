--------------------------- MODULE SyncScheduler ---------------------------
(***************************************************************************)
(* The SyncScheduler of a sync engine (packages/hub/src/sync-policy.ts):  *)
(* it turns changes, timers and page events into calls of the engine's    *)
(* push and pull.                                                         *)
(*                                                                         *)
(* Durations are left out: a timer that is set may fire at any later      *)
(* moment, and the floor between two pushes is a flag, `cooling', that    *)
(* the end of a push sets and the passing of time clears.  The engine is  *)
(* seen through its three callbacks: push takes out of the dirty log what *)
(* was in it when the call began and some of what came later.             *)
(***************************************************************************)
EXTENDS Naturals

CONSTANTS
    Pusher,       \* push calls that may be in flight at once
    Puller,       \* pull calls that may be in flight at once
    Policies,     \* the configurations to look at, a subset of Policy
    MaxChanges,   \* bound: local writes
    MaxFails,     \* bound: push and pull calls that fail
    Allowed       \* which of Behaviours the environment shows

Behaviours == {"start",      \* somebody calls startScheduler
               "stop",       \* and somebody stops it
               "early",      \* changes are made while it is not started
               "force",      \* the application calls forcePush and forcePull
               "unload"}     \* the page is hidden or left while it stays alive

\* SyncPolicy; `floor' says whether minIntervalMs is above zero.
Policy == [push : {"on-change", "debounce", "interval"},
           pull : {"manual", "interval", "on-focus"},
           floor : BOOLEAN, onUnload : BOOLEAN]

ASSUME SchedulerAssumption ==
    /\ Pusher # {} /\ Policies \subseteq Policy /\ Allowed \subseteq Behaviours
    /\ MaxChanges \in Nat /\ MaxFails \in Nat

Change == 1..MaxChanges

VARIABLES
    policy,       \* SyncScheduler.policy
    started,      \* SyncScheduler.started
    state,        \* SyncScheduler._state
    debounce,     \* debounceTimer is set
    cooling,      \* less than minIntervalMs has passed since _lastPushTime
    dirty,        \* changes in the engine's dirty log
    unnotified,   \* changes whose trackChange has not called notifyChange yet
    push,         \* calls of callbacks.push and the changes made since they began
    pull,         \* calls of executePull and the state each of them found
    heard,        \* (history) changes notified since the scheduler was started
    changes, fails    \* counters the bounds cap

timing == <<debounce, cooling>>
log    == <<dirty, unnotified, heard, changes>>
vars   == <<policy, started, state, timing, log, push, pull, fails>>

PushIdle == [pc |-> "idle", late |-> {}]
PullIdle == [pc |-> "idle", previous |-> "idle"]

Init ==
    /\ policy \in Policies /\ started = FALSE /\ state = "idle"
    /\ debounce = FALSE /\ cooling = FALSE
    /\ dirty = {} /\ unnotified = {} /\ heard = {} /\ changes = 0 /\ fails = 0
    /\ push = [p \in Pusher |-> PushIdle] /\ pull = [q \in Puller |-> PullIdle]

-----------------------------------------------------------------------------
(***************************************************************************)
(* executePush up to its await.  `timer' is what the caller leaves in     *)
(* debounceTimer.                                                         *)
(***************************************************************************)
BeginPush(p, kind) ==
    /\ push[p].pc = "idle"
    /\ push' = [push EXCEPT ![p] = [pc |-> kind, late |-> {}]]

\* (Variant: a push that comes too early is dropped in debounce mode too.)
ExecutePushDropped(timer) ==
    \/ (state = "pushing" \/ cooling) /\ debounce' = timer /\ UNCHANGED <<state, push>>
    \/ /\ state # "pushing" /\ ~cooling /\ dirty = {}
       /\ state' = "idle" /\ debounce' = timer /\ UNCHANGED push
    \/ /\ state # "pushing" /\ ~cooling /\ dirty # {}
       /\ state' = "pushing" /\ debounce' = timer /\ \E p \in Pusher : BeginPush(p, "exec")

ExecutePush(timer) ==
    \/ state = "pushing" /\ debounce' = timer /\ UNCHANGED <<state, push>>
    \/ /\ state # "pushing" /\ cooling
       /\ debounce' = (timer \/ policy.push = "debounce") /\ UNCHANGED <<state, push>>
    \/ /\ state # "pushing" /\ ~cooling /\ dirty = {}
       /\ state' = "idle" /\ debounce' = timer /\ UNCHANGED push
    \/ /\ state # "pushing" /\ ~cooling /\ dirty # {}
       /\ state' = "pushing" /\ debounce' = timer /\ \E p \in Pusher : BeginPush(p, "exec")

\* What a push leaves in the log: the changes in R made after it began.
\* (Variant: the state is left at "pushing".)
PushedStuck(p, R) ==
    /\ push[p].pc = "exec" /\ R \subseteq push[p].late \cap dirty
    /\ dirty' = R
    /\ push' = [push EXCEPT ![p] = PushIdle]
    /\ cooling' = policy.floor
    /\ UNCHANGED <<policy, started, state, debounce, unnotified, heard, changes, pull, fails>>

Pushed(p, R) ==
    /\ push[p].pc = "exec" /\ R \subseteq push[p].late \cap dirty
    /\ dirty' = R
    /\ push' = [push EXCEPT ![p] = PushIdle]
    /\ state' = IF R # {} THEN "pending" ELSE "idle"
    /\ cooling' = policy.floor
    /\ UNCHANGED <<policy, started, debounce, unnotified, heard, changes, pull, fails>>

\* SyncEngine.push collects the errors of the remote and resolves all the same.
PushedInPart(p, R) ==
    /\ push[p].pc = "exec" /\ fails < MaxFails /\ fails' = fails + 1
    /\ R \subseteq dirty /\ dirty' = R
    /\ push' = [push EXCEPT ![p] = PushIdle]
    /\ state' = IF R # {} THEN "pending" ELSE "idle"
    /\ cooling' = policy.floor
    /\ UNCHANGED <<policy, started, debounce, unnotified, heard, changes, pull>>

\* The call rejects: the local store failed.
PushFailed(p) ==
    /\ push[p].pc = "exec" /\ fails < MaxFails /\ fails' = fails + 1
    /\ push' = [push EXCEPT ![p] = PushIdle]
    /\ state' = "error"
    /\ UNCHANGED <<policy, started, debounce, cooling, log, pull>>

-----------------------------------------------------------------------------
(***************************************************************************)
(* executePull.                                                           *)
(***************************************************************************)
ExecutePull ==
    \/ state = "pulling" /\ UNCHANGED <<state, pull>>
    \/ /\ state # "pulling" /\ state' = "pulling"
       /\ \E q \in Puller :
            /\ pull[q].pc = "idle"
            /\ pull' = [pull EXCEPT ![q] = [pc |-> "running", previous |-> state]]

Pulled(q) ==
    /\ pull[q].pc = "running"
    /\ pull' = [pull EXCEPT ![q] = PullIdle]
    /\ state' = IF pull[q].previous = "pending" THEN "pending" ELSE "idle"
    /\ UNCHANGED <<policy, started, timing, log, push, fails>>

PullFailed(q) ==
    /\ pull[q].pc = "running" /\ fails < MaxFails /\ fails' = fails + 1
    /\ pull' = [pull EXCEPT ![q] = PullIdle]
    /\ state' = "error"
    /\ UNCHANGED <<policy, started, timing, log, push>>

-----------------------------------------------------------------------------
(***************************************************************************)
(* What calls them: the engine, timers, the application and page events.  *)
(***************************************************************************)
\* trackChange enters a change in the log and notifies when it is persisted.
EngineChange ==
    /\ started \/ "early" \in Allowed
    /\ changes < MaxChanges /\ changes' = changes + 1
    /\ dirty' = dirty \cup {changes + 1} /\ unnotified' = unnotified \cup {changes + 1}
    /\ push' = [p \in Pusher |-> IF push[p].pc = "idle" THEN PushIdle
                                 ELSE [pc |-> push[p].pc, late |-> push[p].late \cup {changes + 1}]]
    /\ UNCHANGED <<policy, started, state, timing, heard, pull, fails>>

\* (Variant: a change while a push is running sets no timer.)
NotifyChangeIgnored(c) ==
    /\ c \in unnotified /\ unnotified' = unnotified \ {c}
    /\ heard' = IF started THEN heard \cup {c} ELSE heard
    /\ \/ /\ started /\ policy.push = "on-change"
          /\ ExecutePush(debounce)
       \/ /\ started /\ policy.push = "debounce" /\ state # "pushing"
          /\ state' = "pending" /\ debounce' = TRUE /\ UNCHANGED push
       \/ /\ ~started \/ policy.push = "interval" \/ state = "pushing"
          /\ UNCHANGED <<state, debounce, push>>
    /\ UNCHANGED <<policy, started, cooling, dirty, changes, pull, fails>>

NotifyChange(c) ==
    /\ c \in unnotified /\ unnotified' = unnotified \ {c}
    /\ heard' = IF started THEN heard \cup {c} ELSE heard
    /\ \/ /\ started /\ policy.push = "on-change"
          /\ ExecutePush(debounce)
       \/ /\ started /\ policy.push = "debounce"
          /\ state' = "pending" /\ debounce' = TRUE /\ UNCHANGED push
       \/ /\ ~started \/ policy.push = "interval"
          /\ UNCHANGED <<state, debounce, push>>
    /\ UNCHANGED <<policy, started, cooling, dirty, changes, pull, fails>>

DebounceFires ==
    /\ debounce /\ ExecutePush(FALSE)
    /\ UNCHANGED <<policy, started, cooling, log, pull, fails>>

PushIntervalFires ==
    /\ started /\ policy.push = "interval" /\ ExecutePush(debounce)
    /\ UNCHANGED <<policy, started, cooling, log, pull, fails>>

\* The pull interval, and a page that comes into focus.
PullFires ==
    /\ started /\ policy.pull \in {"interval", "on-focus"} /\ ExecutePull
    /\ UNCHANGED <<policy, started, timing, log, push, fails>>

ForcePush ==
    /\ "force" \in Allowed /\ ExecutePush(debounce)
    /\ UNCHANGED <<policy, started, cooling, log, pull, fails>>

ForcePull ==
    /\ "force" \in Allowed /\ ExecutePull
    /\ UNCHANGED <<policy, started, timing, log, push, fails>>

\* fireUnloadPush: a push beside the state, whose outcome nobody looks at.
UnloadPush ==
    /\ "unload" \in Allowed /\ started /\ policy.onUnload /\ dirty # {}
    /\ \E p \in Pusher : BeginPush(p, "unload")
    /\ UNCHANGED <<policy, started, state, timing, log, pull, fails>>

UnloadPushEnds(p, R) ==
    /\ push[p].pc = "unload"
    /\ R \subseteq push[p].late \cap dirty /\ dirty' = R
    /\ push' = [push EXCEPT ![p] = PushIdle]
    /\ UNCHANGED <<policy, started, state, debounce, cooling, unnotified, heard, changes, pull, fails>>

UnloadPushFails(p, R) ==
    /\ push[p].pc = "unload" /\ fails < MaxFails /\ fails' = fails + 1
    /\ R \subseteq dirty /\ dirty' = R
    /\ push' = [push EXCEPT ![p] = PushIdle]
    /\ UNCHANGED <<policy, started, state, debounce, cooling, unnotified, heard, changes, pull>>

Cool ==
    /\ cooling /\ cooling' = FALSE
    /\ UNCHANGED <<policy, started, state, debounce, log, push, pull, fails>>

Start ==
    /\ "start" \in Allowed /\ ~started
    /\ started' = TRUE
    /\ UNCHANGED <<policy, state, timing, log, push, pull, fails>>

Stop ==
    /\ "stop" \in Allowed /\ started
    /\ started' = FALSE /\ debounce' = FALSE /\ heard' = {}
    /\ UNCHANGED <<policy, state, cooling, dirty, unnotified, changes, push, pull, fails>>

PushEnds(p) == \E R \in SUBSET Change : Pushed(p, R) \/ UnloadPushEnds(p, R)

Next ==
    \/ EngineChange \/ \E c \in Change : NotifyChange(c)
    \/ DebounceFires \/ PushIntervalFires \/ PullFires \/ ForcePush \/ ForcePull \/ UnloadPush
    \/ \E p \in Pusher : PushEnds(p) \/ PushFailed(p)
    \/ \E p \in Pusher, R \in SUBSET Change : PushedInPart(p, R) \/ UnloadPushFails(p, R)
    \/ \E q \in Puller : Pulled(q) \/ PullFailed(q)
    \/ Cool \/ Start \/ Stop

Spec == Init /\ [][Next]_vars

\* Calls end, timers fire, time passes, and trackChange goes on to notify.
Fairness ==
    /\ WF_vars(\E c \in Change : NotifyChange(c))
    /\ WF_vars(DebounceFires) /\ WF_vars(PushIntervalFires)
    /\ \A p \in Pusher : WF_vars(PushEnds(p))
    /\ \A q \in Puller : WF_vars(Pulled(q))
    /\ WF_vars(Cool) /\ WF_vars(Start)
FairSpec == Spec /\ Fairness

-----------------------------------------------------------------------------
(***************************************************************************)
(* Correctness.                                                           *)
(***************************************************************************)
State == {"idle", "pending", "pushing", "pulling", "error"}

TypeOK ==
    /\ policy \in Policies /\ started \in BOOLEAN /\ state \in State
    /\ debounce \in BOOLEAN /\ cooling \in BOOLEAN
    /\ dirty \in SUBSET Change /\ unnotified \in SUBSET Change /\ heard \in SUBSET Change
    /\ push \in [Pusher -> [pc : {"idle", "exec", "unload"}, late : SUBSET Change]]
    /\ pull \in [Puller -> [pc : {"idle", "running"}, previous : State]]
    /\ changes \in 0..MaxChanges /\ fails \in 0..MaxFails

Running(p) == push[p].pc = "exec"

\* The guards of executePush and executePull never lock the scheduler out:
\* a state that turns calls away belongs to a call that will still end.
StateIsBacked ==
    /\ state = "pushing" => \E p \in Pusher : Running(p)
    /\ state = "pulling" => \E q \in Puller : pull[q].pc = "running"

\* In debounce mode a change the running scheduler has been notified of is never
\* forgotten: a timer is set, or a push that began after the change is still
\* running.  (As long as no call fails.)
NotifiedIsScheduled ==
    policy.push = "debounce" /\ fails = 0 =>
        \A c \in dirty \cap heard :
            debounce \/ \E p \in Pusher : Running(p) /\ c \notin push[p].late

\* Every change leaves the log in the end.  (Only interval mode tries again
\* by itself what a failed call has left.)
GivenUp == fails > 0 /\ policy.push # "interval"
AllChangesPushed == \A c \in Change : c \in dirty ~> c \notin dirty \/ GivenUp

\* The same for the modes that push later, of a scheduler that is started
\* before the first change and not stopped after it.
ChangesPushed ==
    policy.push # "on-change" /\ [](changes > 0 => started) => AllChangesPushed

\* executePush returns when a push is "already in progress".
PushesDontOverlap ==
    \A p, q \in Pusher : Running(p) /\ Running(q) => p = q

\* A stopped scheduler has no timer left.
StoppedIsSilent == ~started => ~debounce
=============================================================================
