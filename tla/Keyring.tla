------------------------------ MODULE Keyring ------------------------------
(***************************************************************************)
(* The keyrings of a vault (packages/hub/src/keyring.ts) and their use by  *)
(* Noydb and Vault.  Each collection has a key (DEK); the keyring file of  *)
(* a user holds the DEKs of the user, wrapped with a key derived from the  *)
(* user's passphrase, and says who has granted it.  A process of a user    *)
(* unlocks the file once and works with what it has in memory; it makes    *)
(* the DEK of a collection it finds none for, and writes the whole file    *)
(* back from memory.                                                       *)
(*                                                                         *)
(* A DEK is a number, 0 where there is none; a record is the DEK it is     *)
(* encrypted with; a passphrase is a number.  Every access to the store is *)
(* a step of its own, except that a rotation reads and writes a record in  *)
(* one step, and the walk over the keyrings to find the admins somebody    *)
(* has granted is one step.                                                *)
(***************************************************************************)
EXTENDS Naturals, FiniteSets

CONSTANTS
    User, Coll, Id, None,
    Owner,         \* the user that creates the vault
    System,        \* the collections whose name starts with _
    Roles,         \* the roles that are granted
    MaxCalls,      \* calls in progress at once in one process
    MaxDeks, MaxOps, MaxSecrets, MaxCloses,    \* bounds
    Allowed        \* which of Behaviours are looked at

Behaviours ==
    {"cutRotation",    \* a process ends, or a call of the store fails, during a rotation
     "cutRevoke",      \* the same between the deletes of a revoke
     "overlapRotation",   \* a put, a grant or a revoke overlaps a rotation
     "overlapOpen",    \* two calls of a process open the vault for the first time
     "stale",          \* a process goes on with a keyring that is not its user's file any more
     "unsaved",        \* a process does something else while it makes a DEK, or goes on with
                       \* one it has failed to write
     "split",          \* a user without the DEK of a collection makes one where others have one
     "soleHolder",     \* the file of the only holder of a DEK is deleted or replaced
     "changedRole",    \* a grant gives an owner or an admin another role
     "unheld",         \* a collection is rotated by a user that has no DEK of it
     "uninvited",      \* a user other than the first opens the vault without a keyring
     "rewritten",      \* a strict revoke finds an admin that has written its own file back
     "oldVault",       \* a vault opened before changeSecret makes a DEK
     "changeRotating", \* a file is written between the reads and the writes of a rotation
     "grantRevoking"}  \* a grant overlaps a revoke

ASSUME KeyringAssumption ==
    Owner \in User /\ Roles \subseteq {"owner", "admin", "operator", "viewer", "client"}

Record == Coll \X Id
ToNone == [c \in Coll |-> 0]
NoFile == [role |-> "none", perms |-> {}, deks |-> ToNone, by |-> None, secret |-> 0]

VARIABLES
    file,      \* _keyring: the keyring file of each user
    rec,       \* the DEK each record is encrypted with
    mem,       \* the process of each user: its keyring in memory
    call,      \* the calls in progress
    next,      \* the next DEK
    secrets,   \* the passphrases so far
    ops, closes,
    wanted,    \* history: the passphrase each user has chosen or was given last
    granter,   \* history: who granted each user
    gone       \* history: the users a strict revoke has revoked, not granted again since

bounds == <<ops, closes>>
history == <<wanted, granter, gone>>
vars == <<file, rec, mem, call, next, secrets, bounds, history>>

\* secret is that of the keyring in Noydb's cache, vault that of the keyring the Vault holds.
Closed == [role |-> "none", perms |-> {}, deks |-> ToNone, secret |-> 0, vault |-> 0]
Slot == User \X (1..MaxCalls)
Idle == [op |-> "none", pc |-> "idle", coll |-> None, id |-> None, dek |-> 0, user |-> None,
         file |-> NoFile, strict |-> FALSE, rotate |-> FALSE, del |-> {}, cols |-> {}, list |-> {},
         todo |-> {}, new |-> ToNone, users |-> {}]

Init ==
    /\ file = [u \in User |-> NoFile] /\ rec = [r \in Record |-> 0]
    /\ mem = [u \in User |-> Closed] /\ call = [s \in Slot |-> Idle]
    /\ next = 1 /\ secrets = 1 /\ ops = 0 /\ closes = 0
    /\ wanted = [u \in User |-> 1] /\ granter = [u \in User |-> None] /\ gone = {}

Goto(s, q) == call' = [call EXCEPT ![s] = q]
Ends(s) == Goto(s, Idle)
Held(f) == {c \in Coll : f.deks[c] # 0}
Open(u) == mem[u].role # "none"

CanGrant(role, target) ==
    \/ role = "owner"
    \/ role = "admin" /\ target \in {"operator", "viewer", "client", "admin"}
CanRevoke(role, target) == target # "owner" /\ CanGrant(role, target)
HasWritePermission(m, c) ==
    \/ m.role \in {"owner", "admin"}
    \/ m.role = "operator" /\ c \in m.perms

\* What persistKeyring writes: the keyring in memory, as granted by its user.  (Variant: the
\* DEKs that were in memory before the change.)
PersistedBefore(u, m, secret) ==
    [role |-> m.role, perms |-> m.perms, deks |-> mem[u].deks, by |-> u, secret |-> secret]
Persisted(u, m, secret) ==
    [role |-> m.role, perms |-> m.perms, deks |-> m.deks, by |-> u, secret |-> secret]

-----------------------------------------------------------------------------
(***************************************************************************)
(* The behaviours that are looked at.                                      *)
(***************************************************************************)
Rotating(s) == call[s].pc \in {"list", "record", "own", "others", "strip"}
Fresh(u) ==
    /\ file[u].role # "none" /\ file[u].role = mem[u].role
    /\ file[u].secret = mem[u].secret
    /\ \A c \in Coll : \/ file[u].deks[c] = mem[u].deks[c]
                      \/ ("unsaved" \in Allowed /\ \A v \in User : file[v].deks[c] = 0)
Busy(u) == \E i \in 1..MaxCalls : call[<<u, i>>] # Idle
SoleHolder(u, others) ==
    \E c \in Coll : file[u].deks[c] # 0 /\ \A v \in others \ {u} : file[v].deks[c] # file[u].deks[c]
Quiet(pcs) == \A s \in Slot : call[s].pc \notin pcs

\* A call of the process makes a DEK, or another is in progress.
Making(u) == \E i \in 1..MaxCalls : call[<<u, i>>].pc \in {"made", "save"}
Else(s)   == \E i \in 1..MaxCalls : <<s[1], i>> # s /\ call[<<s[1], i>>] # Idle

\* A process acts.
Acts(s, q) ==
    /\ call[s] = Idle /\ ops < MaxOps /\ ops' = ops + 1 /\ Goto(s, q)
    /\ Open(s[1]) /\ ("stale" \in Allowed \/ Fresh(s[1])) /\ ("unsaved" \in Allowed \/ ~Making(s[1]))
    /\ "overlapRotation" \in Allowed \/ \A t \in Slot : ~Rotating(t)

-----------------------------------------------------------------------------
(***************************************************************************)
(* Noydb.getKeyring: the file is loaded, or an owner's is created where    *)
(* there is none.  A file without DEKs opens with any passphrase.          *)
(***************************************************************************)
LoadKeyring(s) ==
    LET u == s[1] f == file[u] IN
    /\ ~Open(u) /\ call[s] = Idle /\ ops < MaxOps /\ ops' = ops + 1
    /\ IF f.role = "none"
       THEN /\ "uninvited" \in Allowed \/ (u = Owner /\ \A v \in User : file[v].role = "none")
            /\ "overlapOpen" \in Allowed \/ Quiet({"create"})
            /\ Goto(s, [Idle EXCEPT !.op = "open", !.pc = "create"]) /\ UNCHANGED mem
       ELSE /\ f.secret = wanted[u] \/ Held(f) = {}
            /\ mem' = [mem EXCEPT ![u] = [role |-> f.role, perms |-> f.perms, deks |-> f.deks,
                                         secret |-> wanted[u], vault |-> wanted[u]]]
            /\ UNCHANGED call
    /\ UNCHANGED <<file, rec, next, secrets, closes, history>>

CreateOwnerKeyring(s) ==
    LET u == s[1] m == [Closed EXCEPT !.role = "owner", !.secret = wanted[u], !.vault = wanted[u]] IN
    /\ call[s].pc = "create" /\ Ends(s)
    /\ mem' = [mem EXCEPT ![u] = m] /\ file' = [file EXCEPT ![u] = Persisted(u, m, m.secret)]
    /\ granter' = [granter EXCEPT ![u] = u]
    /\ UNCHANGED <<rec, next, secrets, bounds, wanted, gone>>

\* The keyrings in memory are dropped (close, lock), or the process ends.
Close(u) ==
    /\ Open(u) /\ closes < MaxCloses /\ closes' = closes + 1
    /\ "cutRotation" \in Allowed \/ \A s \in Slot : s[1] = u => ~Rotating(s)
    /\ "cutRevoke" \in Allowed \/ \A s \in Slot : s[1] = u => call[s].pc # "delete"
    /\ mem' = [mem EXCEPT ![u] = Closed]
    /\ call' = [s \in Slot |-> IF s[1] = u THEN Idle ELSE call[s]]
    /\ UNCHANGED <<file, rec, next, secrets, ops, history>>

\* A call of the store fails, and the call of Noydb with it.
Fails(s) ==
    /\ call[s] # Idle /\ Ends(s)
    /\ "cutRotation" \in Allowed \/ ~Rotating(s)
    /\ "cutRevoke" \in Allowed \/ call[s].pc # "delete"
    /\ UNCHANGED <<file, rec, mem, next, secrets, bounds, history>>

-----------------------------------------------------------------------------
(***************************************************************************)
(* Collection.put, as far as keys go: the DEK, made and written to the     *)
(* file where the keyring has none (ensureCollectionDEK), then the record. *)
(***************************************************************************)
BeginPut(s, c, i) ==
    /\ HasWritePermission(mem[s[1]], c)
    /\ Acts(s, [Idle EXCEPT !.op = "put", !.pc = "dek", !.coll = c, !.id = i])
    /\ UNCHANGED <<file, rec, mem, next, secrets, closes, history>>

\* generateDEK is awaited: what the keyring held before it was called is not looked at again.
GetDEK(s) ==
    LET q == call[s] d == mem[s[1]].deks[q.coll] IN
    /\ q.pc = "dek"
    /\ IF d # 0 THEN Goto(s, [q EXCEPT !.pc = "put", !.dek = d]) /\ UNCHANGED next
       ELSE /\ "split" \in Allowed
               \/ /\ \A v \in User : file[v].deks[q.coll] = 0 /\ mem[v].deks[q.coll] = 0
                  /\ \A t \in Slot \ {s} : call[t].coll # q.coll
            /\ "unsaved" \in Allowed \/ ~Else(s)
            /\ next <= MaxDeks /\ next' = next + 1 /\ Goto(s, [q EXCEPT !.pc = "made", !.dek = next])
    /\ UNCHANGED <<file, rec, mem, secrets, bounds, history>>

\* The map in memory has the DEK before the file is written, from what the map holds then.
EnsureCollectionDEK(s) ==
    LET q == call[s] u == s[1] m == [mem[u] EXCEPT !.deks[q.coll] = q.dek] IN
    /\ q.pc = "made" /\ ("oldVault" \in Allowed \/ m.vault = m.secret) /\ mem' = [mem EXCEPT ![u] = m]
    /\ Goto(s, [q EXCEPT !.pc = "save", !.file = Persisted(u, m, m.vault)])
    /\ UNCHANGED <<file, rec, next, secrets, bounds, history>>

SaveDEK(s) ==
    LET q == call[s] IN
    /\ q.pc = "save" /\ ("changeRotating" \in Allowed \/ Quiet({"strip"})) /\ file' = [file EXCEPT ![s[1]] = q.file]
    /\ Goto(s, [q EXCEPT !.pc = "put", !.file = NoFile])
    /\ UNCHANGED <<rec, mem, next, secrets, bounds, history>>

PutRecord(s) ==
    LET q == call[s] IN
    /\ q.pc = "put" /\ rec' = [rec EXCEPT ![<<q.coll, q.id>>] = q.dek] /\ Ends(s)
    /\ UNCHANGED <<file, mem, next, secrets, bounds, history>>

-----------------------------------------------------------------------------
(***************************************************************************)
(* grant: a new file from the DEKs in the caller's memory, in place of the *)
(* user's file if there is one.                                            *)
(***************************************************************************)
GrantedColls(role, perms) ==
    IF role \in {"owner", "admin", "viewer"} THEN Coll ELSE perms \cup System

BeginGrant(s, u, role, perms) ==
    LET m == mem[s[1]] p == IF role \in {"owner", "admin", "viewer"} THEN {} ELSE perms IN
    /\ CanGrant(m.role, role) /\ u # s[1]
    /\ "changedRole" \in Allowed \/ file[u].role \notin {"owner", "admin"} \ {role}
    /\ "grantRevoking" \in Allowed \/ \A t \in Slot : call[t].op # "revoke"
    /\ Acts(s, [Idle EXCEPT !.op = "grant", !.pc = "store", !.user = u, !.file =
           [role |-> role, perms |-> p, by |-> s[1], secret |-> 1,
            deks |-> [c \in Coll |-> IF c \in GrantedColls(role, perms) THEN m.deks[c] ELSE 0]]])
    /\ UNCHANGED <<file, rec, mem, next, secrets, closes, history>>

Grant(s) ==
    LET q == call[s] IN
    /\ q.pc = "store" /\ file' = [file EXCEPT ![q.user] = q.file] /\ Ends(s)
    /\ "soleHolder" \in Allowed \/ ~SoleHolder(q.user, User)
    /\ "stale" \in Allowed \/ ~Busy(q.user)
    /\ wanted' = [wanted EXCEPT ![q.user] = q.file.secret]
    /\ granter' = [granter EXCEPT ![q.user] = s[1]] /\ gone' = gone \ {q.user}
    /\ UNCHANGED <<rec, mem, next, secrets, bounds>>

-----------------------------------------------------------------------------
(***************************************************************************)
(* revoke: with cascade 'strict' the admins that an admin has granted,     *)
(* directly or not, are revoked too; then the collections they could read  *)
(* are rotated, unless that is switched off.                               *)
(***************************************************************************)
\* (Variant: only those granted by the user itself.)
ChildrenOnly(u) == {v \in User \ {u} : file[v].role = "admin" /\ file[v].by = u}

FindAdminDescendants(u) ==
    LET Complete(S) == \A v \in User \ {u} : file[v].role = "admin" /\ file[v].by \in S => v \in S
    IN {v \in User \ {u} : \A S \in SUBSET User : u \in S /\ Complete(S) => v \in S}

BeginRevoke(s, u, strict, rotate) ==
    LET f == file[u] IN
    /\ CanRevoke(mem[s[1]].role, f.role) /\ f.role # "none" /\ u # s[1]
    /\ "grantRevoking" \in Allowed \/ \A t \in Slot : call[t].op # "grant"
    /\ Acts(s, [Idle EXCEPT !.op = "revoke", !.pc = "walk", !.user = u, !.strict = strict /\ f.role = "admin",
                            !.rotate = rotate, !.del = {u}, !.cols = Held(f)])
    /\ UNCHANGED <<file, rec, mem, next, secrets, closes, history>>

RevokeWalk(s) ==
    LET q == call[s]
        desc == IF q.strict THEN FindAdminDescendants(q.user) ELSE {}
        del == q.del \cup desc IN
    /\ q.pc = "walk"
    /\ "rewritten" \in Allowed \/ ~q.strict \/ \A v \in User : file[v].role = "admin" => file[v].by = granter[v]
    /\ Goto(s, [q EXCEPT !.pc = "delete", !.del = del,
                         !.cols = @ \cup UNION {Held(file[v]) : v \in desc}])
    /\ UNCHANGED <<file, rec, mem, next, secrets, bounds, history>>

RotateWith(s, q, cols) ==
    /\ next <= MaxDeks /\ next' = next + 1
    /\ "overlapRotation" \in Allowed \/ \A t \in Slot \ {s} : call[t] = Idle
    /\ "unheld" \in Allowed \/ cols \subseteq Held(mem[s[1]])
    /\ Goto(s, [q EXCEPT !.pc = "list", !.cols = cols, !.list = cols, !.user = None, !.del = {},
                         !.new = [c \in Coll |-> IF c \in cols THEN next ELSE 0]])

RevokeDelete(s) ==
    LET q == call[s] IN
    /\ q.pc = "delete"
    /\ IF q.del # {}
       THEN \E v \in q.del :
              /\ "soleHolder" \in Allowed \/ ~SoleHolder(v, User)
              /\ "stale" \in Allowed \/ ~Busy(v)
              /\ q.user \in q.del => v = q.user
              /\ file' = [file EXCEPT ![v] = NoFile] /\ Goto(s, [q EXCEPT !.del = @ \ {v}])
              /\ gone' = IF q.strict THEN gone \cup {v} ELSE gone
              /\ UNCHANGED next
       ELSE /\ IF q.rotate /\ q.cols # {} THEN RotateWith(s, q, q.cols) ELSE Ends(s) /\ UNCHANGED next
            /\ UNCHANGED <<file, gone>>
    /\ UNCHANGED <<rec, mem, secrets, bounds, wanted, granter>>

-----------------------------------------------------------------------------
(***************************************************************************)
(* rotateKeys: the records of each collection are encrypted anew one by    *)
(* one, then the new DEKs go to the caller's memory and file, then the     *)
(* DEKs and permissions of the collections are taken out of every other    *)
(* file.                                                                   *)
(***************************************************************************)
BeginRotate(s, cols) ==
    /\ call[s] = Idle /\ ops < MaxOps /\ ops' = ops + 1 /\ Open(s[1])
    /\ "stale" \in Allowed \/ Fresh(s[1])
    /\ RotateWith(s, [Idle EXCEPT !.op = "rotate"], cols)
    /\ UNCHANGED <<file, rec, mem, secrets, closes, history>>

\* A collection the caller has no DEK of is not encrypted anew.
RotateList(s) ==
    LET q == call[s] IN
    /\ q.pc = "list"
    /\ IF q.list = {} THEN Goto(s, [q EXCEPT !.pc = "own"])
       ELSE \E c \in q.list :
              Goto(s, [q EXCEPT !.list = @ \ {c},
                                !.pc = IF mem[s[1]].deks[c] = 0 THEN "list" ELSE "record",
                                !.coll = c,
                                !.todo = IF mem[s[1]].deks[c] = 0 THEN {}
                                         ELSE {i \in Id : rec[<<c, i>>] # 0}])
    /\ UNCHANGED <<file, rec, mem, next, secrets, bounds, history>>

\* A record that the caller's DEK does not decrypt ends the rotation with an error.
RotateRecord(s) ==
    LET q == call[s] IN
    /\ q.pc = "record"
    /\ IF q.todo = {} THEN Goto(s, [q EXCEPT !.pc = "list", !.coll = None]) /\ UNCHANGED rec
       ELSE \E i \in q.todo :
              IF rec[<<q.coll, i>>] = mem[s[1]].deks[q.coll]
              THEN /\ rec' = [rec EXCEPT ![<<q.coll, i>>] = q.new[q.coll]]
                   /\ Goto(s, [q EXCEPT !.todo = @ \ {i}])
              ELSE Ends(s) /\ UNCHANGED rec
    /\ UNCHANGED <<file, mem, next, secrets, bounds, history>>

\* The memory changes before the file is written; a write that fails is a rotation cut short.
RotateOwn(s) ==
    LET q == call[s] u == s[1]
        m == [mem[u] EXCEPT !.deks = [c \in Coll |-> IF c \in q.cols THEN q.new[c] ELSE mem[u].deks[c]]]
    IN
    /\ q.pc = "own" /\ mem' = [mem EXCEPT ![u] = m]
    /\ file' = [file EXCEPT ![u] = Persisted(u, m, m.secret)]
    /\ Goto(s, [q EXCEPT !.pc = "others", !.users = {v \in User \ {u} : file[v].role # "none"}])
    /\ UNCHANGED <<rec, next, secrets, bounds, history>>

Stripped(f, cols) ==
    [f EXCEPT !.deks = [c \in Coll |-> IF c \in cols THEN 0 ELSE f.deks[c]], !.perms = @ \ cols]

RotateRead(s) ==
    LET q == call[s] IN
    /\ q.pc = "others"
    /\ IF q.users = {} THEN Ends(s)
       ELSE \E v \in q.users :
              Goto(s, IF file[v].role = "none" THEN [q EXCEPT !.users = @ \ {v}]
                      ELSE [q EXCEPT !.pc = "strip", !.user = v, !.users = @ \ {v},
                                     !.file = Stripped(file[v], q.cols)])
    /\ UNCHANGED <<file, rec, mem, next, secrets, bounds, history>>

RotateStrip(s) ==
    LET q == call[s] IN
    /\ q.pc = "strip" /\ file' = [file EXCEPT ![q.user] = q.file]
    /\ Goto(s, [q EXCEPT !.pc = "others", !.user = None, !.file = NoFile])
    /\ UNCHANGED <<rec, mem, next, secrets, bounds, history>>

-----------------------------------------------------------------------------
\* changeSecret: the vault that is open keeps the keyring it has.
ChangeSecret(s) ==
    LET u == s[1] n == secrets + 1 IN
    /\ call[s] = Idle /\ Open(u) /\ ops < MaxOps /\ ops' = ops + 1
    /\ "stale" \in Allowed \/ Fresh(u)
    /\ "unsaved" \in Allowed \/ ~Making(u)
    /\ "changeRotating" \in Allowed \/ Quiet({"strip"})
    /\ secrets < MaxSecrets /\ secrets' = n
    /\ file' = [file EXCEPT ![u] = Persisted(u, mem[u], n)]
    /\ mem' = [mem EXCEPT ![u].secret = n] /\ wanted' = [wanted EXCEPT ![u] = n]
    /\ UNCHANGED <<rec, call, next, closes, granter, gone>>

-----------------------------------------------------------------------------
Next ==
    \/ \E s \in Slot : LoadKeyring(s) \/ CreateOwnerKeyring(s) \/ ChangeSecret(s)
    \/ \E u \in User : Close(u)
    \/ \E s \in Slot, c \in Coll, i \in Id : BeginPut(s, c, i)
    \/ \E s \in Slot : GetDEK(s) \/ EnsureCollectionDEK(s) \/ SaveDEK(s) \/ PutRecord(s) \/ Fails(s)
    \/ \E s \in Slot, u \in User, role \in Roles, perms \in SUBSET Coll : BeginGrant(s, u, role, perms)
    \/ \E s \in Slot : Grant(s)
    \/ \E s \in Slot, u \in User, strict, rotate \in BOOLEAN : BeginRevoke(s, u, strict, rotate)
    \/ \E s \in Slot : RevokeWalk(s) \/ RevokeDelete(s)
    \/ \E s \in Slot, cols \in SUBSET Coll : BeginRotate(s, cols)
    \/ \E s \in Slot : RotateList(s) \/ RotateRecord(s) \/ RotateOwn(s) \/ RotateRead(s) \/ RotateStrip(s)

Spec == Init /\ [][Next]_vars

-----------------------------------------------------------------------------
(***************************************************************************)
(* Properties.                                                            *)
(***************************************************************************)
\* Every record can be decrypted with a DEK that some user's file holds, or that a rotation in
\* progress will put there.
RecordsReadable ==
    \A r \in Record : rec[r] # 0 =>
        \/ \E u \in User : file[u].deks[r[1]] = rec[r]
        \/ \E s \in Slot : Rotating(s) /\ call[s].new[r[1]] = rec[r]

\* Whoever holds a DEK of a collection can read all of it: at rest, there is one DEK and the
\* records are encrypted with it.
OneDEK ==
    (\A s \in Slot : call[s] = Idle) =>
        \A u \in User, c \in Coll : file[u].deks[c] # 0 =>
            /\ \A v \in User : file[v].deks[c] \in {0, file[u].deks[c]}
            /\ \A i \in Id : rec[<<c, i>>] \in {0, file[u].deks[c]}

\* After a strict revoke no admin is left that was granted by a user it has revoked.
CascadeComplete ==
    (\A s \in Slot : call[s].op # "revoke") =>
        \A v \in User : file[v].role = "admin" => granter[v] \notin gone

\* The passphrase a user has chosen last unlocks the user's file.
SecretStays ==
    \A u \in User : file[u].role # "none" /\ Held(file[u]) # {} => file[u].secret = wanted[u]

\* Keys and records fit: nothing is unreadable, nobody holds a key that reads only half, and
\* every file opens with the passphrase its user believes in.
KeysFit == RecordsReadable /\ OneDEK /\ SecretStays

\* Nobody but revoke takes a collection from a user (noydb.ts, rotate: "does NOT remove").
RotateKeepsAccess ==
    [][\A u \in User : Held(file[u]) \subseteq Held(file'[u])
          \/ \E s \in Slot : call[s].op # "rotate" /\ call'[s] # call[s]]_vars
=============================================================================
