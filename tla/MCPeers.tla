------------------------------ MODULE MCPeers ------------------------------
(***************************************************************************)
(* What stands around the sync engine, on small instances for TLC: the     *)
(* several targets of a vault, and presence.  The two share no state: a    *)
(* behaviour is one of one of them, the other rests.                       *)
(***************************************************************************)
EXTENDS SyncTargets, TLC

CONSTANTS q1, q2, r1, r2, u1, u2
CONSTANTS User, Watcher, Slot, Encrypted, PubSub, Stale, MaxTime, MaxUpdates, MaxFaults

TwoRecords == {r1, r2}
PeerAndBackup == <<[role |-> "backup", label |-> ""], [role |-> "sync-peer", label |-> ""]>>
Decided == {"version", "local-wins"}

TwoUsers == {u1, u2}
OneWatcher == {u1}
TwoPolls == {q1, q2}

VARIABLES part
VARIABLES now, rec, update, cached, sub, inbox, poll, heard, updates, faults

Presence == INSTANCE Presence

ASSUME PresenceAssumption == Presence!PresenceAssumption

presenceVars == <<now, rec, update, cached, sub, inbox, poll, heard, updates, faults>>

PeersInit ==
    /\ part \in {"targets", "presence"}
    /\ Init /\ Presence!Init
    /\ part = "targets" \/ strategy = "version"

PeersNext ==
    \/ part = "targets" /\ Next /\ UNCHANGED <<part, presenceVars>>
    \/ part = "presence" /\ Presence!Next /\ UNCHANGED <<part, vars>>

PeersSpec ==
    /\ PeersInit /\ [][PeersNext]_<<part, vars, presenceVars>>
    /\ part = "presence" => Presence!Fairness

\* A list of peers that was delivered has those who were there, and nobody else.
ListsAreTrue == part = "presence" => Presence!ListsAreTrue

\* A peer that is here is seen in the end by everyone who keeps listening.
PeersSeen == part = "presence" => Presence!PeersSeen
=============================================================================
