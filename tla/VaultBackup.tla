---------------------------- MODULE VaultBackup ----------------------------
(***************************************************************************)
(* Dump, load, verification and export of a vault                         *)
(* (packages/hub/src/vault.ts dump, load, verifyBackupIntegrity,          *)
(* exportStream), over the records, the dictionary and the ledger of      *)
(* Dictionary.  A dump holds the records, the ledger and the ledger's     *)
(* head; a load writes them, forgets the caches and verifies the result.  *)
(***************************************************************************)
EXTENDS Dictionary

CONSTANTS
    MaxLoads,     \* bound: loads
    MaxDamages    \* bound: losses in a stored backup

VARIABLES
    backup,       \* the last dump: what it holds, and what a reader should know of it
    report,       \* what the last load said
    exported,     \* the keys the export in flight has labels for, and its records with theirs
    loads, damages,
    whole         \* history: no load of this vault was cut short or refused

backupVars == <<backup, report, exported, loads, damages, whole>>
vars == <<dictVars, backupVars>>

NoBackup == [made |-> FALSE]
\* was: what the dump has read, and the records that its ledger did not account for (not in
\* the file).
NewBackup(table, rows, h) ==
    [made |-> TRUE, collections |-> table, internal |-> rows, ledgerHead |-> h,
     was |-> <<table, rows, behind>>, damaged |-> FALSE]
NoExport == [labels |-> {}, used |-> {}]

Init ==
    /\ InitDict
    /\ backup = NoBackup /\ report = "none" /\ exported = NoExport /\ loads = 0 /\ damages = 0
    /\ whole = TRUE

Ids(table) == {i \in Id : Exists(table[i])}
WithoutDictionary(rows) == \A n \in DOMAIN rows : rows[n].c = "records"

-----------------------------------------------------------------------------
(***************************************************************************)
(* verify, verifyBackupIntegrity: the chain, then the last put of every   *)
(* record against what the store holds.                                   *)
(***************************************************************************)
ChainHolds(rows) ==
    \A n \in DOMAIN rows : rows[n].prev = IF n = 1 THEN None ELSE rows[n - 1].stamp
LatestOps(rows) ==
    {n \in DOMAIN rows :
        \A m \in DOMAIN rows : m > n => <<rows[m].c, rows[m].id>> # <<rows[n].c, rows[n].id>>}
\* A dictionary entry is in the store, but no hash is ever empty.
HashOf(table, e) ==
    IF e.c = "records" /\ Exists(table[e.id]) THEN table[e.id][2] ELSE None
DataMatches(table, rows) ==
    \A n \in LatestOps(rows) : rows[n].op = "put" => HashOf(table, rows[n]) = rows[n].hash
verifyBackupIntegrity == ChainHolds(ledger) /\ DataMatches(data, ledger)

(***************************************************************************)
(* dump: loadAll, which has no reserved collection in it; the ledger's    *)
(* entries; the head as the ledger object knows it.                       *)
(***************************************************************************)
Begin(w, op, pc) ==
    /\ Starts(w)
    /\ call' = [call EXCEPT ![w] = [Idle EXCEPT !.op = op, !.pc = pc, !.snapshot = data,
                                                !.todo = Ids(data)]]
\* loadAll leaves the dictionary out, so that a load would leave keys without one.
WithoutKeys == \A i \in Ids(data) : KeyOf(i) = None
Dumpable == (WithoutDictionary(ledger) /\ WithoutKeys) \/ May("dictionaries")
dump(w) ==
    /\ Dumpable /\ (whole \/ May("brokenVault")) /\ Begin(w, "dump", "ledger")
    /\ UNCHANGED <<contents, syncCache, declared, head, oldHead, handle, writes, counts, backupVars>>
DumpLedger(w) ==
    LET k == call[w]
        h == getCachedHead(head)
    IN  /\ k.pc = "ledger"
        /\ backup' = NewBackup(k.snapshot, ledger, h) /\ head' = h /\ Returns(w)
        /\ UNCHANGED <<contents, syncCache, declared, oldHead, handle, writes, counts,
                       report, exported, loads, damages, whole>>

Empty == data = [i \in Id |-> Absent] /\ ledger = <<>> /\ dict = [k \in Key |-> Absent]

\* A stored backup loses or changes something.
Losses(b) ==
    {[b EXCEPT !.collections[i] = Absent] : i \in Ids(b.collections)}
    \cup {[b EXCEPT !.collections[i] = Record(None, 0)] : i \in Ids(b.collections)}
    \cup {[b EXCEPT !.internal = SubSeq(@, 1, Len(@) - 1)] : n \in 1..(IF b.internal = <<>> THEN 0 ELSE 1)}
    \cup {[b EXCEPT !.internal[n].hash = 0, !.internal[n].stamp = 0]
             : n \in {m \in DOMAIN b.internal : b.internal[m].op = "put"}}

Damage ==
    /\ backup.made /\ Empty /\ Quiet /\ damages < MaxDamages /\ damages' = damages + 1
    /\ \E b \in Losses(backup) : backup' = [b EXCEPT !.damaged = TRUE]
    /\ UNCHANGED <<dictVars, report, exported, loads, whole>>

(***************************************************************************)
(* load: saveAll, the ledger's entries, then the caches are forgotten     *)
(* (collections and ledger; not the dictionaries) and the result is       *)
(* verified against the head the backup carries.                          *)
(***************************************************************************)
\* Another vault, and a session on it.
NewVault ==
    /\ backup.made /\ loads < MaxLoads /\ Quiet /\ NewSession
    /\ data' = [i \in Id |-> Absent] /\ cache' = data' /\ behind' = {}
    /\ dict' = [k \in Key |-> Absent] /\ dropped' = {} /\ ledger' = <<>>
    /\ report' = "none" /\ whole' = TRUE
    /\ UNCHANGED <<writes, counts, backup, exported, loads, damages>>

\* The records a saveAll writes or removes.
Saved(table) == {i \in Id : Exists(table[i]) \/ ~May("addingStore")}
saveAll(table) == [i \in Id |-> IF i \in Saved(table) THEN table[i] ELSE data[i]]
load(w) ==
    /\ backup.made /\ loads < MaxLoads /\ loads' = loads + 1
    /\ Starts(w) /\ (Empty \/ May("oldVault"))
    /\ data' = saveAll(backup.collections) /\ behind' = behind \cup backup.was[3]
    /\ call' = [call EXCEPT ![w] = [Idle EXCEPT !.op = "load", !.pc = "entries"]]
    /\ report' = "none" /\ whole' = FALSE
    /\ UNCHANGED <<cache, entries, ledgers, syncCache, declared, handle, writes, counts, backup, exported,
                   damages>>
LoadEntries(w) ==
    LET new == backup.internal IN
    /\ call[w].pc = "entries" /\ Goes(w, "verify")
    /\ ledger' = [n \in 1..(IF Len(new) > Len(ledger) THEN Len(new) ELSE Len(ledger)) |->
                     IF n <= Len(new) THEN new[n] ELSE ledger[n]]
    /\ cache' = data /\ behind' = backup.was[3] \cup (behind \ Saved(backup.collections))
    /\ head' = Unread /\ oldHead' = head /\ handle' = IF handle = "none" THEN "none" ELSE "old"
    /\ UNCHANGED <<data, entries, syncCache, declared, writes, counts, backup, exported, loads,
                   damages, report, whole>>
\* (Variant: only the chain and the records are checked.)
LoadVerdictHeadless == IF verifyBackupIntegrity THEN "ok" ELSE "broken"
LoadVerdict ==
    IF backup.ledgerHead.n = 0 THEN "unchecked"           \* no ledgerHead in the file
    ELSE IF verifyBackupIntegrity /\ getCachedHead(Unread).stamp = backup.ledgerHead.stamp
    THEN "ok" ELSE "broken"
LoadVerify(w) ==
    /\ call[w].pc = "verify" /\ report' = LoadVerdict /\ Returns(w)
    /\ whole' = (report' # "broken")
    /\ UNCHANGED <<contents, syncCache, declared, head, oldHead, handle, writes, counts,
                   backup, exported, loads, damages>>

(***************************************************************************)
(* exportStream: the ids of loadAll, the labels of the dictionary, then a *)
(* get of each record, from the cache.                                    *)
(***************************************************************************)
exportStream(w) ==
    /\ Begin(w, "export", "labels") /\ exported' = NoExport
    /\ UNCHANGED <<contents, syncCache, declared, head, oldHead, handle, writes, counts,
                   backup, report, loads, damages, whole>>
ExportLabels(w) ==
    /\ call[w].pc = "labels" /\ Goes(w, "export")
    /\ exported' = [NoExport EXCEPT !.labels = Usable]
    /\ UNCHANGED <<contents, syncCache, declared, head, oldHead, handle, writes, counts,
                   backup, report, loads, damages, whole>>
ExportRecord(w, i) ==
    LET k == call[w] IN
    /\ k.pc = "export" /\ i \in k.todo
    /\ call' = [call EXCEPT ![w].todo = @ \ {i}]
    /\ exported' = IF Exists(cache[i]) THEN [exported EXCEPT !.used = @ \cup {<<i, cache[i][1]>>}] ELSE exported
    /\ UNCHANGED <<contents, syncCache, declared, head, oldHead, handle, writes, counts,
                   backup, report, loads, damages, whole>>
ExportDone(w) ==
    /\ call[w].pc = "export" /\ call[w].todo = {} /\ Returns(w) /\ exported' = NoExport
    /\ UNCHANGED <<contents, syncCache, declared, head, oldHead, handle, writes, counts,
                   backup, report, loads, damages, whole>>

-----------------------------------------------------------------------------
Next ==
    \/ DictNext /\ UNCHANGED backupVars
    \/ Damage \/ NewVault
    \/ \E w \in Caller :
        \/ dump(w) \/ DumpLedger(w) \/ load(w) \/ LoadEntries(w) \/ LoadVerify(w)
        \/ exportStream(w) \/ ExportLabels(w) \/ ExportDone(w)
        \/ \E i \in Id : ExportRecord(w, i)

Spec == Init /\ [][Next]_vars

-----------------------------------------------------------------------------
(***************************************************************************)
(* Correctness.                                                           *)
(***************************************************************************)
\* A load that reports success has put back the records and the ledger as the
\* dump has read them, whatever the file has lost since; but for a record whose
\* last put or delete had not come to the ledger when it was dumped.  A load of
\* an undamaged dump of a vault that had no such record, and no dictionary,
\* reports success.
RestoresExactly ==
    [][\A w \in Caller : LoadVerify(w) =>
          LET table == backup.was[1]
              rows  == backup.was[2]
              lost  == backup.was[3] IN
          /\ report' = "ok" => ledger = rows /\ \A i \in Id \ lost : data[i] = table[i]
          /\ ~backup.damaged /\ WithoutDictionary(backup.internal) /\ lost = {} => report' # "broken"]_vars

\* The same with no exception for records that the ledger did not account for.
LoadsWhole ==
    [][\A w \in Caller : LoadVerify(w) =>
          /\ report' = "ok" => data = backup.was[1]
          /\ ~backup.damaged /\ WithoutDictionary(backup.internal) => report' # "broken"]_vars

\* The vault's ledger accounts for what its store holds whenever nothing is in
\* flight and every put and delete has come to its end.
VerifiesAtRest == Quiet /\ behind = {} => verifyBackupIntegrity

\* The ledger is one chain whenever nothing is in flight.
ChainAtRest == Quiet => ChainHolds(ledger)

\* Every key has labels: of a record in the vault and of one in an export,
\* between the steps of a rename and after one that was cut short, but for what
\* KeysResolve excuses.
LabelsFound ==
    /\ KeysResolve
    /\ \A w \in Caller : call[w].pc = "export" =>
          \A x \in exported.used : x[2] \in exported.labels \/ Excused(x[1], x[2])
=============================================================================
