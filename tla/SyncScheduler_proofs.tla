----------------------- MODULE SyncScheduler_proofs -----------------------
(***************************************************************************)
(* Proofs about SyncScheduler: the state that guards executePush and      *)
(* executePull always belongs to a call in flight, and in debounce mode   *)
(* no change that was notified is forgotten.                              *)
(***************************************************************************)
EXTENDS SyncScheduler, TLAPS

(* executePush keeps the types of what it writes. *)
LEMMA ExecutePushType ==
    ASSUME TypeOK, NEW timer \in BOOLEAN, ExecutePush(timer)
    PROVE  /\ state' \in State /\ debounce' \in BOOLEAN
           /\ push' \in [Pusher -> [pc : {"idle", "exec", "unload"}, late : SUBSET Change]]
<1>1. state' \in State /\ debounce' \in BOOLEAN
  BY Zenon DEF TypeOK, ExecutePush, State
<1>2. push' \in [Pusher -> [pc : {"idle", "exec", "unload"}, late : SUBSET Change]]
  BY DEF TypeOK, ExecutePush, BeginPush
<1> QED
  BY <1>1, <1>2

(* Every variable keeps its type. *)
LEMMA TypeInvariant == Spec => []TypeOK
<1>1. Init => TypeOK
  <2> SUFFICES ASSUME Init PROVE TypeOK
    OBVIOUS
  <2>1. 0 \in 0..MaxChanges /\ 0 \in 0..MaxFails
    BY SchedulerAssumption
  <2>2. push \in [Pusher -> [pc : {"idle", "exec", "unload"}, late : SUBSET Change]]
    BY DEF Init, PushIdle
  <2>3. pull \in [Puller -> [pc : {"idle", "running"}, previous : State]]
    BY DEF Init, PullIdle, State
  <2> QED
    BY <2>1, <2>2, <2>3 DEF Init, TypeOK, State
<1>2. TypeOK /\ [Next]_vars => TypeOK'
  <2> SUFFICES ASSUME TypeOK, [Next]_vars PROVE TypeOK'
    OBVIOUS
  <2> USE DEF TypeOK, PushIdle, PullIdle, State
  <2>1. CASE EngineChange
    <3>1. changes + 1 \in Change /\ changes' \in 0..MaxChanges
      BY <2>1, SchedulerAssumption DEF EngineChange, Change
    <3>2. push' \in [Pusher -> [pc : {"idle", "exec", "unload"}, late : SUBSET Change]]
      BY <2>1, <3>1 DEF EngineChange
    <3> QED
      BY <2>1, <3>1, <3>2 DEF EngineChange, timing
  <2>2. CASE \E c \in Change : NotifyChange(c)
    <3>1. PICK c \in Change : NotifyChange(c)
      BY <2>2
    <3>2. CASE ExecutePush(debounce)
      BY <3>1, <3>2, ExecutePushType DEF NotifyChange
    <3>3. CASE ~ExecutePush(debounce)
      BY <3>1, <3>3 DEF NotifyChange
    <3> QED
      BY <3>2, <3>3
  <2>3. CASE DebounceFires \/ PushIntervalFires
    BY <2>3, ExecutePushType DEF DebounceFires, PushIntervalFires, log
  <2>4. CASE ForcePush
    BY <2>4, ExecutePushType DEF ForcePush, log
  <2>5. CASE PullFires \/ ForcePull
    BY <2>5 DEF PullFires, ForcePull, ExecutePull, log, timing
  <2>6. CASE UnloadPush
    BY <2>6 DEF UnloadPush, BeginPush, log, timing
  <2>7. ASSUME NEW p \in Pusher, PushEnds(p) \/ PushFailed(p)
        PROVE  TypeOK'
    BY <2>7, SchedulerAssumption DEF PushEnds, Pushed, UnloadPushEnds, PushFailed, log, Policy
  <2>8. ASSUME NEW p \in Pusher, NEW R \in SUBSET Change, PushedInPart(p, R) \/ UnloadPushFails(p, R)
        PROVE  TypeOK'
    BY <2>8, SchedulerAssumption DEF PushedInPart, UnloadPushFails, Policy
  <2>9. ASSUME NEW q \in Puller, Pulled(q) \/ PullFailed(q)
        PROVE  TypeOK'
    BY <2>9, SchedulerAssumption DEF Pulled, PullFailed, timing, log
  <2>10. CASE Cool \/ Start \/ Stop \/ UNCHANGED vars
    BY <2>10 DEF Cool, Start, Stop, vars, timing, log
  <2> QED
    BY <2>1, <2>2, <2>3, <2>4, <2>5, <2>6, <2>7, <2>8, <2>9, <2>10 DEF Next
<1> QED
  BY <1>1, <1>2, PTL DEF Spec

(* A state that turns calls away was set by a call that is still in       *)
(* flight, because the end of any call of executePush or executePull      *)
(* sets another state.                                                    *)
LEMMA BackedStep == TypeOK /\ StateIsBacked /\ [Next]_vars => StateIsBacked'
<1> SUFFICES ASSUME TypeOK, StateIsBacked, [Next]_vars PROVE StateIsBacked'
  OBVIOUS
<1> USE DEF TypeOK, StateIsBacked, Running, PushIdle, PullIdle
<1>1. CASE EngineChange
  BY <1>1 DEF EngineChange
<1>2. CASE \E c \in Change : NotifyChange(c)
  BY <1>2 DEF NotifyChange, ExecutePush, BeginPush
<1>3. CASE DebounceFires \/ PushIntervalFires \/ ForcePush
  BY <1>3 DEF DebounceFires, PushIntervalFires, ForcePush, ExecutePush, BeginPush
<1>4. CASE PullFires \/ ForcePull
  BY <1>4 DEF PullFires, ForcePull, ExecutePull
<1>5. CASE UnloadPush
  BY <1>5 DEF UnloadPush, BeginPush
<1>6. ASSUME NEW p \in Pusher, PushEnds(p) \/ PushFailed(p)
      PROVE  StateIsBacked'
  BY <1>6 DEF PushEnds, Pushed, UnloadPushEnds, PushFailed
<1>7. ASSUME NEW p \in Pusher, NEW R \in SUBSET Change, PushedInPart(p, R) \/ UnloadPushFails(p, R)
      PROVE  StateIsBacked'
  BY <1>7 DEF PushedInPart, UnloadPushFails
<1>8. ASSUME NEW q \in Puller, Pulled(q) \/ PullFailed(q)
      PROVE  StateIsBacked'
  BY <1>8 DEF Pulled, PullFailed
<1>9. CASE Cool \/ Start \/ Stop \/ UNCHANGED vars
  BY <1>9 DEF Cool, Start, Stop, vars
<1> QED
  BY <1>1, <1>2, <1>3, <1>4, <1>5, <1>6, <1>7, <1>8, <1>9 DEF Next

(* executePush and executePull turn calls away only while a call is in    *)
(* flight that will set the state anew (sync-policy.ts:235, 270): the     *)
(* scheduler never locks itself out.                                      *)
THEOREM NeverLockedOut == Spec => []StateIsBacked
<1>1. Init => StateIsBacked
  BY DEF Init, StateIsBacked
<1> QED
  BY <1>1, TypeInvariant, BackedStep, PTL DEF Spec

-----------------------------------------------------------------------------
(* A push that holds the state at 'pushing' is late for no change that    *)
(* was notified: the notification would have changed the state.           *)
HolderIsCurrent ==
    policy.push = "debounce" /\ state = "pushing" =>
        \E p \in Pusher : Running(p) /\ push[p].late \cap dirty \cap heard = {}

Forgetting ==
    /\ unnotified \subseteq 1..changes /\ heard \subseteq 1..changes
    /\ HolderIsCurrent
    /\ NotifiedIsScheduled

(* Steps that leave the log and the pushes alone and do not claim the state. *)
LEMMA ForgettingFrame ==
    ASSUME Forgetting, UNCHANGED <<policy, debounce, dirty, unnotified, heard, changes, push>>,
           fails' = fails \/ fails' # 0, state' = state \/ state' # "pushing"
    PROVE  Forgetting'
<1>1. HolderIsCurrent'
  BY DEF Forgetting, HolderIsCurrent, Running
<1>2. NotifiedIsScheduled'
  BY DEF Forgetting, NotifiedIsScheduled, Running
<1> QED
  BY <1>1, <1>2 DEF Forgetting

LEMMA ForgettingStep == TypeOK /\ Forgetting /\ [Next]_vars => Forgetting'
<1> SUFFICES ASSUME TypeOK, Forgetting, [Next]_vars PROVE Forgetting'
  OBVIOUS
<1> USE DEF TypeOK, Forgetting, HolderIsCurrent, NotifiedIsScheduled, Running, PushIdle
<1>1. CASE EngineChange
  <2> DEFINE c == changes + 1
  <2>1. c \notin heard /\ changes \in Nat
    OBVIOUS
  <2>2. \A p \in Pusher : /\ Running(p)' <=> Running(p)
                          /\ Running(p) => push'[p].late = push[p].late \cup {c}
    BY <1>1 DEF EngineChange
  <2>3. dirty' = dirty \cup {c} /\ unnotified' = unnotified \cup {c} /\ changes' = c
    BY <1>1 DEF EngineChange
  <2>4. UNCHANGED <<policy, state, debounce, heard, fails>>
    BY <1>1 DEF EngineChange, timing
  <2>5. unnotified' \subseteq 1..changes' /\ heard' \subseteq 1..changes'
    BY <2>1, <2>3, <2>4
  <2>6. HolderIsCurrent'
    BY <2>1, <2>2, <2>3, <2>4
  <2>7. ASSUME policy'.push = "debounce", fails' = 0, NEW d \in dirty' \cap heard'
        PROVE  debounce' \/ \E p \in Pusher : Running(p)' /\ d \notin push'[p].late
    <3>1. d \in dirty \cap heard /\ d # c
      BY <2>1, <2>3, <2>4, <2>7
    <3>2. debounce \/ \E p \in Pusher : Running(p) /\ d \notin push[p].late
      BY <2>4, <2>7, <3>1
    <3> QED
      BY <2>2, <2>4, <3>1, <3>2
  <2> QED
    BY <2>5, <2>6, <2>7
<1>2. ASSUME NEW d \in Change, NotifyChange(d)
      PROVE  Forgetting'
  <2>1. CASE ~started
    BY <1>2, <2>1 DEF NotifyChange
  <2>2. CASE started /\ policy.push = "debounce"
    BY <1>2, <2>2 DEF NotifyChange
  <2>3. CASE started /\ policy.push # "debounce"
    BY <1>2, <2>3 DEF NotifyChange
  <2> QED
    BY <2>1, <2>2, <2>3
<1>3. ASSUME NEW timer \in BOOLEAN, timer => debounce, ExecutePush(timer),
             timer = debounce \/ timer = FALSE,
             UNCHANGED <<policy, dirty, unnotified, heard, changes, fails>>
      PROVE  Forgetting'
  <2>1. CASE state = "pushing" /\ debounce' = timer /\ UNCHANGED <<state, push>>
    BY <1>3, <2>1
  <2>2. CASE /\ state # "pushing" /\ cooling
             /\ debounce' = (timer \/ policy.push = "debounce") /\ UNCHANGED <<state, push>>
    BY <1>3, <2>2
  <2>3. CASE /\ state # "pushing" /\ ~cooling /\ dirty = {}
             /\ state' = "idle" /\ debounce' = timer /\ UNCHANGED push
    BY <1>3, <2>3
  <2>4. ASSUME state # "pushing", dirty # {}, state' = "pushing",
               NEW p \in Pusher, BeginPush(p, "exec")
        PROVE  Forgetting'
    <3>1. Running(p)' /\ push'[p].late = {}
      BY <2>4 DEF BeginPush
    <3> QED
      BY <1>3, <2>4, <3>1
  <2> QED
    BY <1>3, <2>1, <2>2, <2>3, <2>4 DEF ExecutePush
<1>4. CASE DebounceFires \/ PushIntervalFires \/ ForcePush
  BY <1>3, <1>4 DEF DebounceFires, PushIntervalFires, ForcePush, log
<1>5. CASE PullFires \/ ForcePull
  BY <1>5, ForgettingFrame DEF PullFires, ForcePull, ExecutePull, log, timing
<1>6. CASE UnloadPush
  BY <1>6 DEF UnloadPush, BeginPush, log, timing
<1>7. ASSUME NEW p \in Pusher, PushEnds(p) \/ PushFailed(p)
      PROVE  Forgetting'
  <2>1. ASSUME NEW R \in SUBSET Change, Pushed(p, R)
        PROVE  Forgetting'
    BY <2>1 DEF Pushed
  <2>2. ASSUME NEW R \in SUBSET Change, UnloadPushEnds(p, R)
        PROVE  Forgetting'
    BY <2>2 DEF UnloadPushEnds
  <2>3. CASE PushFailed(p)
    BY <2>3 DEF PushFailed, log
  <2> QED
    BY <1>7, <2>1, <2>2, <2>3 DEF PushEnds
<1>8. ASSUME NEW p \in Pusher, NEW R \in SUBSET Change, PushedInPart(p, R) \/ UnloadPushFails(p, R)
      PROVE  Forgetting'
  <2>1. fails' # 0 /\ UNCHANGED <<policy, unnotified, heard, changes>> /\ dirty' \subseteq dirty
    <3>1. fails' # 0
      BY <1>8, SchedulerAssumption DEF PushedInPart, UnloadPushFails
    <3>2. CASE PushedInPart(p, R)
      BY <3>1, <3>2 DEF PushedInPart
    <3>3. CASE UnloadPushFails(p, R)
      BY <3>1, <3>3 DEF UnloadPushFails
    <3> QED
      BY <1>8, <3>2, <3>3
  <2>2. HolderIsCurrent'
    BY <1>8, <2>1 DEF PushedInPart, UnloadPushFails
  <2> QED
    BY <2>1, <2>2
<1>9. ASSUME NEW q \in Puller, Pulled(q) \/ PullFailed(q)
      PROVE  Forgetting'
  <2>1. fails' = fails \/ fails' # 0
    BY <1>9 DEF Pulled, PullFailed
  <2> QED
    BY <1>9, <2>1, ForgettingFrame DEF Pulled, PullFailed, log, timing
<1>10. CASE Cool \/ UNCHANGED vars
  BY <1>10, ForgettingFrame DEF Cool, vars, log, timing
<1>11. CASE Start
  BY <1>11, ForgettingFrame DEF Start, log, timing
<1>12. CASE Stop
  <2>1. UNCHANGED <<policy, state, push, dirty, unnotified, changes, fails>> /\ heard' = {}
    BY <1>12 DEF Stop
  <2> QED
    BY <2>1
<1> QED
  BY <1>1, <1>2, <1>4, <1>5, <1>6, <1>7, <1>8, <1>9, <1>10, <1>11, <1>12 DEF Next

(* In debounce mode, as long as no call fails, a change that was notified *)
(* since the scheduler was started has a timer or a running push that     *)
(* will take it, however starts, stops, pushes, pulls, forced and unload  *)
(* pushes follow each other and overlap.                                  *)
THEOREM NothingForgotten == Spec => []NotifiedIsScheduled
<1>1. Init => Forgetting
  BY DEF Init, Forgetting, HolderIsCurrent, NotifiedIsScheduled
<1>2. Forgetting => NotifiedIsScheduled
  BY DEF Forgetting
<1> QED
  BY <1>1, <1>2, ForgettingStep, TypeInvariant, PTL DEF Spec
=============================================================================
