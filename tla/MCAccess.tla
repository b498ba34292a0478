----------------------------- MODULE MCAccess -----------------------------
(***************************************************************************)
(* Who gets at a vault, on small instances for TLC: the keyrings of its    *)
(* users, and the Noydb instance of one user with its vaults, timers and   *)
(* sessions.  The two share no state: a behaviour is one of the one or of  *)
(* the other.                                                              *)
(***************************************************************************)
EXTENDS Keyring, TLC

CONSTANTS
    Vault, Caller, Session,          \* of the instance
    IdleTimeout, AbsoluteTimeout, Ttl, MaxDelay, Concurrency, MaxTime,
    InstanceAllowed                  \* which of the Behaviours of Noydb are looked at

VARIABLES part
VARIABLES now, closed, timer, touched, owned, keyringCache, vaultCache, syncEngines, noydbCall,
          across, token, sessionKeys, enforcer

Noydb == INSTANCE Noydb WITH Behaviours <- InstanceAllowed, call <- noydbCall

ASSUME InstanceAssumption == Noydb!NoydbAssumption

noydbVars == <<now, closed, timer, touched, owned, keyringCache, vaultCache, syncEngines, noydbCall,
               across, token, sessionKeys, enforcer>>

AccessInit ==
    /\ part \in {"keys", "noydb"}
    /\ Init /\ Noydb!Init
    /\ part = "noydb" \/ owned = {}

AccessNext ==
    \/ part = "keys" /\ Next /\ UNCHANGED <<part, noydbVars>>
    \/ part = "noydb" /\ Noydb!Next /\ UNCHANGED <<part, vars>>

AccessSpec == AccessInit /\ [][AccessNext]_<<part, vars, noydbVars>>

\* A closed instance of Noydb holds no key, vault or engine, nothing is locked before its time,
\* and queryAcross keeps to its limit and returns with an outcome for every vault.
InstanceSound ==
    [](part = "noydb" => Noydb!ClosedIsEmpty /\ Noydb!LocksInTime) /\ Noydb!AcrossComplete

\* The vaults of the instance have the names of the users that come after the owner.
Symmetric == Permutations(Vault)
=============================================================================
