------------------------------- MODULE Noydb -------------------------------
(***************************************************************************)
(* An instance and its sessions (packages/hub/src/noydb.ts, session.ts,   *)
(* session-policy.ts): the instance caches the keyrings it has unlocked   *)
(* and the vaults it has opened, and closes itself when it has not been   *)
(* used for a while; a session token opens a vault again while its key,   *)
(* which only this process has, lives; an enforcer ends a session that is *)
(* idle or old.                                                           *)
(*                                                                         *)
(* Time passes in ticks.  A timer fires at its time or later, at once when *)
(* its delay is more than a timer can count.                              *)
(***************************************************************************)
EXTENDS Naturals, FiniteSets

CONSTANTS
    Vault,        \* vault names
    Caller,       \* calls that may be in flight at once
    Session,      \* session ids
    None,
    IdleTimeout,  \* sessionPolicy.idleTimeoutMs, in ticks; 0: none
    AbsoluteTimeout,   \* sessionPolicy.absoluteTimeoutMs
    Ttl,          \* life of a token
    MaxDelay,     \* the longest delay a timer can count (2^31 - 1 ms)
    Concurrency,  \* of queryAcross
    MaxTime,      \* bound: ticks
    Behaviours
    \* what may also happen:
    \*   "overlap":      a call starts, or the instance closes, while one is in flight
    \*   "afterClose":   a grant, revoke, rotate or changeSecret is called on a closed instance
    \*   "unopened":     vault() is called of a vault that was listed, not opened
    \*   "touchDead":    an enforcer that was destroyed is touched

NoydbAssumption ==
    /\ {IdleTimeout, AbsoluteTimeout, Ttl, MaxDelay, MaxTime} \subseteq Nat
    /\ Concurrency \in Nat \ {0}
    /\ 0 \in {IdleTimeout, AbsoluteTimeout} \/ IdleTimeout < AbsoluteTimeout   \* validateSessionPolicy

VARIABLES
    now,
    closed,       \* Noydb.closed
    timer,        \* when sessionTimer fires, 0 when it is not set
    touched,      \* when it was set last
    owned,        \* the vaults that have a keyring of the user in the store
    keyringCache, vaultCache,     \* the vaults in them; a vault that is tracked, or not
    syncEngines,  \* the vaults that have a sync engine
    call,         \* the calls in flight
    across,       \* queryAcross: vaults to launch, running, settled, and with a result
    token,        \* the session tokens handed out
    sessionKeys,  \* sessionKeyStore
    enforcer      \* the PolicyEnforcer of each session

instance == <<closed, timer, touched, keyringCache, vaultCache, syncEngines>>
sessions == <<token, sessionKeys, enforcer>>
vars == <<now, owned, instance, call, across, sessions>>

May(b) == b \in Behaviours
Delay(n) == IF n > MaxDelay THEN 0 ELSE n
Idle == [pc |-> "idle", op |-> None, v |-> None]
NoQuery == [todo |-> {}, running |-> {}, settled |-> {}, done |-> {}, of |-> {}, woken |-> FALSE]
NoToken == [made |-> FALSE, v |-> None, expires |-> 0]
NoEnforcer == [is |-> "none", created |-> 0, used |-> 0, idle |-> 0, absolute |-> 0, hidden |-> FALSE]
Unset == 0                                  \* a timer that is not set: time starts at 1

Init ==
    /\ now = 1 /\ closed = FALSE /\ owned \in SUBSET Vault
    /\ timer = (IF IdleTimeout = 0 THEN Unset ELSE 1 + Delay(IdleTimeout)) /\ touched = 1
    /\ keyringCache = {} /\ vaultCache = [v \in Vault |-> "none"] /\ syncEngines = {}
    /\ call = [c \in Caller |-> Idle] /\ across = NoQuery
    /\ token = [s \in Session |-> NoToken] /\ sessionKeys = {}
    /\ enforcer = [s \in Session |-> NoEnforcer]

Quiet == (\A c \in Caller : call[c].pc = "idle") /\ across = NoQuery
Starts(c) == call[c].pc = "idle" /\ (Quiet \/ May("overlap"))
Goes(c, op, v, pc) == call' = [call EXCEPT ![c] = [op |-> op, v |-> v, pc |-> pc]]
Returns(c) == call' = [call EXCEPT ![c] = Idle]

Tick ==
    /\ now < MaxTime /\ now' = now + 1
    /\ UNCHANGED <<owned, instance, call, across, sessions>>

-----------------------------------------------------------------------------
(***************************************************************************)
(* The idle timer of the instance.  Only openVault, listAccessibleVaults  *)
(* and queryAcross set it again.                                          *)
(***************************************************************************)
TimerAgain == now + Delay(IdleTimeout)
resetSessionTimer ==
    /\ timer' = IF IdleTimeout = 0 THEN timer ELSE TimerAgain
    /\ touched' = now

Expired == timer # Unset /\ timer <= now
\* Everything is dropped, and with it the keys of all sessions in the process.
Left == {}
Close ==
    /\ closed' = TRUE /\ timer' = Unset /\ keyringCache' = {}
    /\ vaultCache' = [v \in Vault |-> "none"] /\ sessionKeys' = {} /\ syncEngines' = Left
    /\ UNCHANGED <<touched, now, owned, call, across, token, enforcer>>
close      == (Quiet \/ May("overlap")) /\ Close
TimerCloses == Expired /\ (Quiet \/ May("overlap")) /\ Close

(***************************************************************************)
(* openVault: what the cache has; else the keyring, which is made for a   *)
(* vault the user has none of, the sync engine and the vault.             *)
(***************************************************************************)
openVault(c, v) ==
    /\ Starts(c) /\ ~closed /\ resetSessionTimer
    /\ IF vaultCache[v] # "none" THEN UNCHANGED call ELSE Goes(c, "open", v, "keyring")
    /\ UNCHANGED <<now, closed, owned, keyringCache, vaultCache, syncEngines, across, sessions>>

getKeyring(v) ==
    /\ keyringCache' = keyringCache \cup {v} /\ owned' = owned \cup {v}
GetKeyring(c) ==
    LET k == call[c] IN
    /\ k.pc = "keyring" /\ getKeyring(k.v)
    /\ IF k.op = "open" THEN Goes(c, k.op, k.v, "vault") ELSE Returns(c)
    /\ UNCHANGED <<now, closed, timer, touched, vaultCache, syncEngines, across, sessions>>
MakeVault(c) ==
    LET v == call[c].v IN
    /\ call[c].pc = "vault" /\ Returns(c)
    /\ vaultCache' = [vaultCache EXCEPT ![v] = "tracked"] /\ syncEngines' = syncEngines \cup {v}
    /\ UNCHANGED <<now, closed, timer, touched, owned, keyringCache, across, sessions>>

\* vault(name): the vault in the cache; else one for a keyring that is cached,
\* without onDirty.
vault(v) ==
    /\ v \in keyringCache /\ (vaultCache[v] = "none" => May("unopened"))
    /\ vaultCache' = [vaultCache EXCEPT ![v] = IF @ = "none" THEN "untracked" ELSE @]
    /\ UNCHANGED <<now, owned, closed, timer, touched, keyringCache, syncEngines, call, across, sessions>>

\* grant, revoke, rotate, changeSecret: the cached keyring or that of the store.
Administer(c, v) ==
    /\ Starts(c) /\ v \in owned /\ (~closed \/ May("afterClose"))
    /\ IF v \in keyringCache THEN UNCHANGED call ELSE Goes(c, "administer", v, "keyring")
    /\ UNCHANGED <<now, owned, instance, across, sessions>>

\* listAccessibleVaults caches the keyrings it could unlock.
listAccessibleVaults(V) ==
    /\ ~closed /\ (Quiet \/ May("overlap")) /\ resetSessionTimer
    /\ V \subseteq owned /\ keyringCache' = keyringCache \cup V
    /\ UNCHANGED <<now, owned, closed, vaultCache, syncEngines, call, across, sessions>>

(***************************************************************************)
(* queryAcross: up to Concurrency vaults at once are opened and queried.  *)
(* The loop waits until a task in flight has settled, then fills up; a    *)
(* settled task leaves inFlight some time after.                          *)
(***************************************************************************)
inFlight == across.running \cup across.settled
Room == IF Cardinality(inFlight) < Concurrency THEN Concurrency - Cardinality(inFlight) ELSE 0
Launched(V) == [across EXCEPT !.todo = @ \ V, !.running = @ \cup V, !.woken = across.settled # {}]
Fills(V) == V \subseteq across.todo
            /\ Cardinality(V) = IF Cardinality(across.todo) < Room THEN Cardinality(across.todo) ELSE Room

queryAcross(V) ==
    /\ V # {} /\ ~closed /\ across = NoQuery /\ (Quiet \/ May("overlap")) /\ resetSessionTimer
    /\ across' = [NoQuery EXCEPT !.todo = V, !.of = V, !.woken = TRUE]
    /\ UNCHANGED <<now, owned, closed, keyringCache, vaultCache, syncEngines, call, sessions>>
\* A task that is launched calls openVault, which sets the timer again, at once.
Resume(V) ==
    /\ across # NoQuery /\ across.woken /\ Fills(V)
    /\ across' = IF inFlight \cup V = {} THEN NoQuery ELSE Launched(V)
    /\ IF V = {} \/ closed THEN UNCHANGED <<timer, touched>> ELSE resetSessionTimer
    /\ UNCHANGED <<now, owned, closed, keyringCache, vaultCache, syncEngines, call, sessions>>
\* The query of one vault is over, whatever came of it; its vault was opened.
Settle(v) ==
    /\ v \in across.running
    /\ across' = [across EXCEPT !.running = @ \ {v}, !.settled = @ \cup {v}, !.done = @ \cup {v}, !.woken = TRUE]
    /\ IF closed \/ vaultCache[v] # "none" THEN UNCHANGED <<keyringCache, owned, vaultCache, syncEngines>>
       ELSE /\ getKeyring(v) /\ syncEngines' = syncEngines \cup {v}
            /\ vaultCache' = [vaultCache EXCEPT ![v] = "tracked"]
    /\ UNCHANGED <<now, closed, timer, touched, call, sessions>>
Finally(v) ==
    /\ v \in across.settled /\ across' = [across EXCEPT !.settled = @ \ {v}]
    /\ UNCHANGED <<now, owned, instance, call, sessions>>

-----------------------------------------------------------------------------
(***************************************************************************)
(* Session tokens.                                                        *)
(***************************************************************************)
createSession(s, v) ==
    /\ ~token[s].made /\ v \in keyringCache
    /\ token' = [token EXCEPT ![s] = [made |-> TRUE, v |-> v, expires |-> now + Ttl]]
    /\ sessionKeys' = sessionKeys \cup {s}
    /\ UNCHANGED <<now, owned, instance, call, across, enforcer>>
\* A token that is too old takes the key with it.
resolveSession(s) ==
    /\ token[s].made /\ now > token[s].expires /\ sessionKeys' = sessionKeys \ {s}
    /\ UNCHANGED <<now, owned, instance, call, across, token, enforcer>>
revokeSession(s) ==
    /\ s \in sessionKeys /\ sessionKeys' = sessionKeys \ {s}
    /\ UNCHANGED <<now, owned, instance, call, across, token, enforcer>>

(***************************************************************************)
(* PolicyEnforcer: timers for idleness and age, a lock when the page goes *)
(* to the background.                                                     *)
(***************************************************************************)
\* (Variant: touch notes the time and leaves the timer.)
AtKept(n) == IF n = 0 THEN Unset ELSE 1 + Delay(n)
At(n) == IF n = 0 THEN Unset ELSE now + Delay(n)
createEnforcer(s) ==
    /\ s \in sessionKeys /\ enforcer[s].is = "none"
    /\ enforcer' = [enforcer EXCEPT ![s] =
           [is |-> "live", created |-> now, used |-> now, idle |-> At(IdleTimeout),
            absolute |-> At(AbsoluteTimeout), hidden |-> TRUE]]
    /\ UNCHANGED <<now, owned, instance, call, across, token, sessionKeys>>
touch(s) ==
    /\ enforcer[s].is = "live" \/ (enforcer[s].is = "destroyed" /\ May("touchDead"))
    /\ enforcer' = [enforcer EXCEPT ![s].used = now, ![s].idle = At(IdleTimeout)]
    /\ UNCHANGED <<now, owned, instance, call, across, token, sessionKeys>>
Destroyed(e) == [e EXCEPT !.is = "destroyed", !.idle = Unset, !.absolute = Unset, !.hidden = FALSE]
destroy(s) ==
    /\ enforcer[s].is = "live" /\ enforcer' = [enforcer EXCEPT ![s] = Destroyed(@)]
    /\ UNCHANGED <<now, owned, instance, call, across, token, sessionKeys>>
expire(s) ==
    /\ enforcer' = [enforcer EXCEPT ![s] = Destroyed(@)] /\ sessionKeys' = sessionKeys \ {s}
    /\ UNCHANGED <<now, owned, instance, call, across, token>>
Due(t) == t # Unset /\ t <= now
IdleFires(s)     == Due(enforcer[s].idle) /\ expire(s)
AbsoluteFires(s) == Due(enforcer[s].absolute) /\ expire(s)
Background(s)    == enforcer[s].hidden /\ expire(s)
\* checkOperation looks at the age itself: the timer may be late.
TooOld(e) == AbsoluteTimeout # 0 /\ now - e.created >= AbsoluteTimeout
checkOperation(s) == enforcer[s].is = "live" /\ TooOld(enforcer[s]) /\ expire(s)

Next ==
    \/ Tick \/ close \/ TimerCloses
    \/ \E V \in SUBSET Vault : listAccessibleVaults(V) \/ queryAcross(V) \/ Resume(V)
    \/ \E v \in Vault : vault(v) \/ Settle(v) \/ Finally(v)
    \/ \E c \in Caller :
        \/ GetKeyring(c) \/ MakeVault(c)
        \/ \E v \in Vault : openVault(c, v) \/ Administer(c, v)
    \/ \E s \in Session :
        \/ resolveSession(s) \/ revokeSession(s) \/ createEnforcer(s) \/ touch(s) \/ destroy(s)
        \/ IdleFires(s) \/ AbsoluteFires(s) \/ Background(s) \/ checkOperation(s)
        \/ \E v \in Vault : createSession(s, v)

Spec == Init /\ [][Next]_vars

-----------------------------------------------------------------------------
(***************************************************************************)
(* Correctness.                                                           *)
(***************************************************************************)
\* A closed instance holds no key, no vault, no engine and no timer; a vault
\* in use is tracked by an engine that is there.
ClosedIsEmpty ==
    /\ closed => /\ keyringCache = {} /\ syncEngines = {} /\ timer = Unset
                 /\ \A v \in Vault : vaultCache[v] = "none"
    /\ \A v \in Vault : vaultCache[v] # "none" => vaultCache[v] = "tracked" /\ v \in syncEngines

\* Nothing is locked before its time: a timer is due only when its session,
\* which was not ended before, has been idle, or has lived, as long as the
\* policy says; that of the instance when the instance was not used that long.
LocksInTime ==
    /\ \A s \in Session :
        LET e == enforcer[s] IN
        /\ Due(e.idle) => e.is = "live" /\ now - e.used >= IdleTimeout
        /\ Due(e.absolute) => e.is = "live" /\ now - e.created >= AbsoluteTimeout
    /\ Expired => ~closed /\ now - touched >= IdleTimeout

\* queryAcross never has more than Concurrency vaults open at once, never
\* waits for nothing, and returns with an outcome for each of them.
AcrossComplete ==
    /\ [](across # NoQuery => Cardinality(across.running) <= Concurrency /\ (inFlight # {} \/ across.woken))
    /\ [][across # NoQuery /\ across' = NoQuery => across.done = across.of]_vars
=============================================================================
