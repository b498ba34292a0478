------------------------------ MODULE MCVault ------------------------------
(***************************************************************************)
(* The records of a vault on small instances for TLC: the references       *)
(* between them, and their dictionary, ledger and backups.  The two share  *)
(* no state: a behaviour is one of the one or of the other.                *)
(***************************************************************************)
EXTENDS VaultRefs, TLC

CONSTANTS A, B, C, i1, i2, k1, k2, w1

To(col, mode) == [to |-> col, mode |-> mode]
Of(ofA, ofB, ofC) == A :> ofA @@ B :> ofB @@ C :> ofC
OneChain == Of(None, To(A, "cascade"), To(B, "strict"))
Chains == {OneChain, Of(None, To(A, "strict"), To(A, "cascade")), Of(To(A, "cascade"), None, None)}

Keys == {k1, k2}

\* The instance of the backups.
CONSTANTS DictKey, MaxWrites, MaxLoads, MaxDamages, BackupAllowed

VARIABLES part
VARIABLES records, held, behind, dict, dropped, ledger, syncCache, declared, head, oldHead, handle, dictCall, writes,
          restarts, lost, backup, report, exported, loads, damages, whole

Backup == INSTANCE VaultBackup WITH
    Key <- DictKey, Behaviours <- BackupAllowed,
    data <- records, cache <- held, call <- dictCall, crashes <- restarts, fails <- lost

ASSUME BackupAssumption == Backup!DictAssumption

backupVars == <<records, held, behind, dict, dropped, ledger, syncCache, declared, head, oldHead, handle, dictCall, writes,
                restarts, lost, backup, report, exported, loads, damages, whole>>

VaultInit ==
    /\ part \in {"refs", "backup"}
    /\ Init /\ Backup!Init
    /\ part = "refs" \/ out = OneChain

VaultNext ==
    \/ part = "refs" /\ Next /\ UNCHANGED <<part, backupVars>>
    \/ part = "backup" /\ Backup!Next /\ UNCHANGED <<part, vars>>

VaultSpec == VaultInit /\ [][VaultNext]_<<part, vars, backupVars>>

\* Every dictionary key in use has labels, in the vault and in an export, and what joins read
\* synchronously is what is stored.
LabelsSound == part = "backup" => Backup!LabelsFound /\ Backup!SnapshotSound

\* A load that reports success has put back what the dump has read.
RestoresExactly == Backup!RestoresExactly

Symmetric == Permutations(Id) \cup Permutations(Keys)
=============================================================================
