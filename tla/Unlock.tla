------------------------------- MODULE Unlock -------------------------------
(***************************************************************************)
(* Ways into a vault other than the passphrase (packages/auth-webauthn,   *)
(* packages/auth-oidc, and magic-link.ts, dev-unlock.ts, session.ts of    *)
(* packages/hub): an unlocked keyring is summarised, its keys in the      *)
(* clear, and the summary sealed with what the method can produce again.  *)
(* What comes back has the keys, and no KEK to wrap another one with.     *)
(* sync-credentials.ts, whose functions take such a keyring, stands for   *)
(* what is done with it.                                                  *)
(*                                                                         *)
(* A sealed box is a record of its content and of the key that opens it;  *)
(* a derived key is the tuple of what it is derived from.  One user.      *)
(***************************************************************************)
EXTENDS Naturals, FiniteSets

CONSTANTS
    Vault, Collection, Sub,
    Enrollment,   \* tokens, enrollments and links that are handed out
    Handle,       \* unlocked keyrings in memory
    Authenticator,
    None,
    Build,        \* "development" on localhost; "production"; "bundled": a production build of a bundler, on localhost
    MaxKeys,      \* bound: keys that are generated
    Behaviours
    \* what may also happen:
    \*   "sameSub":   a second OIDC enrollment is made for a subject, or one fails half way
    \*   "outdated":  a keyring is used that has not all the keys of the file
    \*   "rotated":   keys are rotated after an enrollment

VARIABLES
    file,         \* the keyring file of the user in each vault: its keys, and the secret they are wrapped with
    keyring,      \* the keyrings in memory
    credential,   \* the record of _sync_credentials (any collection) of each vault: its version and its key
    call,         \* putCredential in flight
    keys,         \* how many keys were generated
    unsaved,      \* (history) those of them that no keyring file has had
    enrolled,     \* the enrollments, with (ghost) the summary each was made of
    sessionKeys,  \* the sessions whose key lives
    expired,      \* tokens, ID tokens and links whose time has passed
    device, server, secrets,   \* the device secret of a subject, what the key connector has for it, how many were made
    devStore,     \* dev-unlock: a summary in sessionStorage or localStorage
    machine       \* what the authenticators do: PRF output at creation, at assertion; backup-eligible

vault  == <<file, credential, keys, unsaved>>
oidc   == <<device, server, secrets>>
vars   == <<vault, keyring, call, enrolled, sessionKeys, expired, oidc, devStore, machine>>

May(b) == b \in Behaviours
NoKeys == [c \in Collection |-> 0]
NoKeyring == [v |-> None, deks |-> NoKeys, kek |-> 0, role |-> None]
NoEnrollment == [by |-> "none", v |-> None, box |-> None, prf |-> FALSE, a |-> None, sub |-> None, scope |-> None,
                 single |-> FALSE, is |-> NoKeyring]
NoCall == [pc |-> "idle", c |-> None, found |-> 0]
Scope == {"sessionStorage", "localStorage"}

Init ==
    /\ file = [v \in Vault |-> [deks |-> NoKeys, secret |-> 1]] /\ keys = 0 /\ unsaved = {}
    /\ keyring = [h \in Handle |-> NoKeyring] /\ call = [h \in Handle |-> NoCall]
    /\ credential = [v \in Vault |-> [c \in Collection |-> [ver |-> 0, key |-> 0]]]
    /\ enrolled = [e \in Enrollment |-> NoEnrollment] /\ sessionKeys = {} /\ expired = {}
    /\ device = [s \in Sub |-> 0] /\ server = [s \in Sub |-> None] /\ secrets = 0
    /\ devStore = [x \in Scope \X Vault |-> None]
    /\ machine \in [prf : [Authenticator -> {"none", "get", "both"}], eligible : SUBSET Authenticator]

-----------------------------------------------------------------------------
(***************************************************************************)
(* Keyrings and what is done with them.                                   *)
(***************************************************************************)
Has(h) == keyring[h] # NoKeyring
Outdated(h, c) == LET k == keyring[h] IN file[k.v].deks[c] \notin {0, k.deks[c]}
Usable(h) == (\E c \in Collection : Outdated(h, c)) => May("outdated")
Enrolled(v) == \E e \in Enrollment : enrolled[e].by # "none" /\ enrolled[e].v = v

loadKeyring(h, v) ==
    /\ ~Has(h)
    /\ keyring' = [keyring EXCEPT ![h] = [v |-> v, deks |-> file[v].deks, kek |-> file[v].secret, role |-> "owner"]]
    /\ UNCHANGED <<vault, call, enrolled, sessionKeys, expired, oidc, devStore, machine>>
Forget(h) ==
    /\ Has(h) /\ call[h] = NoCall /\ keyring' = [keyring EXCEPT ![h] = NoKeyring]
    /\ UNCHANGED <<vault, call, enrolled, sessionKeys, expired, oidc, devStore, machine>>

(***************************************************************************)
(* ensureCollectionDEK: the key of the keyring; else a new one, put into  *)
(* the keyring before it is wrapped and stored.  There is nothing to wrap *)
(* it with in a keyring that has no KEK, and the write of the file may    *)
(* fail: that call fails, the next finds the key.                         *)
(***************************************************************************)
persistKeyring(v, k) ==
    /\ file' = [file EXCEPT ![v] = [deks |-> k.deks, secret |-> k.kek]]
    /\ unsaved' = unsaved \ {k.deks[c] : c \in Collection}
Goes(h, c) == call' = [call EXCEPT ![h] = [pc |-> "put", c |-> c, found |-> credential[keyring[h].v][c].ver]]
putCredential(h, c) ==
    LET k == keyring[h] IN
    /\ Has(h) /\ call[h] = NoCall /\ k.role \in {"owner", "admin"}
    /\ Usable(h)
    /\ IF k.deks[c] # 0 THEN Goes(h, c) /\ UNCHANGED <<keyring, keys, unsaved>>
       ELSE /\ keys < MaxKeys /\ keys' = keys + 1 /\ keyring' = [keyring EXCEPT ![h].deks[c] = keys + 1]
            /\ unsaved' = unsaved \cup {keys + 1}
            /\ call' = IF k.kek = 0 THEN call ELSE [call EXCEPT ![h] = [pc |-> "save", c |-> c, found |-> 0]]
    /\ UNCHANGED <<file, credential, enrolled, sessionKeys, expired, oidc, devStore, machine>>
Save(h) ==
    /\ call[h].pc = "save" /\ Usable(h) /\ Goes(h, call[h].c)
    /\ persistKeyring(keyring[h].v, keyring[h])
    /\ UNCHANGED <<keyring, credential, keys, enrolled, sessionKeys, expired, oidc, devStore, machine>>
SaveFails(h) ==
    /\ call[h].pc = "save" /\ call' = [call EXCEPT ![h] = NoCall]
    /\ UNCHANGED <<vault, keyring, enrolled, sessionKeys, expired, oidc, devStore, machine>>
\* A put of an id that was there expects the version that was there.
Put(h) ==
    LET k == keyring[h]
        c == call[h].c
        was == credential[k.v][c] IN
    /\ call[h].pc = "put" /\ call' = [call EXCEPT ![h] = NoCall]
    /\ Usable(h)
    /\ credential' = IF call[h].found \notin {0, was.ver} \/ was.ver = 2 THEN credential
                     ELSE [credential EXCEPT ![k.v][c] = [ver |-> call[h].found + 1, key |-> k.deks[c]]]
    /\ UNCHANGED <<file, keys, unsaved, keyring, enrolled, sessionKeys, expired, oidc, devStore, machine>>
deleteCredential(h, c) ==
    LET k == keyring[h] IN
    /\ Has(h) /\ k.role \in {"owner", "admin"} /\ credential[k.v][c].ver > 0
    /\ credential' = [credential EXCEPT ![k.v][c] = [ver |-> 0, key |-> 0]]
    /\ UNCHANGED <<file, keys, unsaved, keyring, call, enrolled, sessionKeys, expired, oidc, devStore, machine>>
\* getCredential, credentialStatus: who can read it.
Reads(k, c) == credential[k.v][c].ver > 0 => credential[k.v][c].key = k.deks[c]

\* rotateKeys of a collection, with the records opened and sealed again (Keyring.tla has its
\* steps).
Resealed(v, c) == [credential EXCEPT ![v][c].key = IF @ = 0 THEN 0 ELSE keys + 1]
rotate(h, c) ==
    LET k == keyring[h]
        next == [k EXCEPT !.deks[c] = keys + 1] IN
    /\ Has(h) /\ k.kek # 0 /\ k.role = "owner" /\ k.deks[c] # 0 /\ Usable(h) /\ keys < MaxKeys
    /\ Reads(k, c)
    /\ Enrolled(k.v) => May("rotated")
    /\ \A g \in Handle : keyring[g].v = k.v => call[g] = NoCall
    /\ keys' = keys + 1 /\ keyring' = [keyring EXCEPT ![h] = next] /\ persistKeyring(k.v, next)
    /\ credential' = Resealed(k.v, c)
    /\ UNCHANGED <<call, enrolled, sessionKeys, expired, oidc, devStore, machine>>

-----------------------------------------------------------------------------
(***************************************************************************)
(* The summary of a keyring, and the ways to seal it.                     *)
(***************************************************************************)
Summary(k) == [k EXCEPT !.kek = 0]
Seal(k, key) == [under |-> key, is |-> Summary(k)]
Fails == NoKeyring
Open(box, key) == IF box.under = key THEN box.is ELSE Fails
\* Masked twice with the same half is the content again; with another, nothing that parses.
xorBytes(masked, half) == Open(masked, half)

Made(e, r) == enrolled' = [enrolled EXCEPT ![e] = r]
Fresh(e, h) == enrolled[e].by = "none" /\ Has(h)

\* session.ts: a key that only this process has.
SessionKey(e) == <<"session", e>>
createSession(e, h) ==
    /\ Fresh(e, h) /\ sessionKeys' = sessionKeys \cup {e}
    /\ Made(e, [NoEnrollment EXCEPT !.by = "session", !.v = keyring[h].v, !.box = Seal(keyring[h], SessionKey(e)),
                                    !.is = Summary(keyring[h])])
    /\ UNCHANGED <<vault, keyring, call, expired, oidc, devStore, machine>>
\* revokeSession, or the end of the process.
revokeSession(e) ==
    /\ e \in sessionKeys /\ sessionKeys' = sessionKeys \ {e}
    /\ UNCHANGED <<vault, keyring, call, enrolled, expired, oidc, devStore, machine>>

\* auth-webauthn: a key from the PRF output, or from the id of the credential.
deriveKeyFromPRF(a)   == <<"prf", a>>
deriveKeyFromRawId(a) == <<"rawId", a>>
PrfAtCreation(a)  == machine.prf[a] = "both"
PrfAtAssertion(a) == machine.prf[a] \in {"get", "both"}
EnrollKey(a) == IF PrfAtCreation(a) THEN deriveKeyFromPRF(a) ELSE deriveKeyFromRawId(a)
\* (Variant: the PRF output is taken when there is one.)
UnlockKeyBest(r) == IF PrfAtAssertion(r.a) THEN deriveKeyFromPRF(r.a) ELSE deriveKeyFromRawId(r.a)
UnlockKey(r) == IF r.prf THEN (IF PrfAtAssertion(r.a) THEN deriveKeyFromPRF(r.a) ELSE None)
                ELSE deriveKeyFromRawId(r.a)
enrollWebAuthn(e, h, a, single) ==
    /\ Fresh(e, h) /\ (single => a \notin machine.eligible)
    /\ Made(e, [NoEnrollment EXCEPT !.by = "webauthn", !.v = keyring[h].v, !.a = a, !.prf = PrfAtCreation(a),
                    !.single = single, !.box = Seal(keyring[h], EnrollKey(a)),
                    !.is = Summary(keyring[h])])
    /\ UNCHANGED <<vault, keyring, call, sessionKeys, expired, oidc, devStore, machine>>

(***************************************************************************)
(* auth-oidc: the summary is masked with a stream that the device derives *)
(* from its secret for the subject and the vault; the key connector keeps *)
(* the result, for the subject.  The secret is stored first, in the place *)
(* of the subject's last one.                                             *)
(***************************************************************************)
deriveDeviceHalf(secret, sub, v) == <<"half", secret, sub, v>>
\* saveDeviceSecret
saved(sub) == [device EXCEPT ![sub] = secrets + 1]
EnrollsOnce(sub) == device[sub] = 0 \/ May("sameSub")
enrollOidc(e, h, sub) ==
    /\ Fresh(e, h) /\ EnrollsOnce(sub) /\ secrets < 2 /\ secrets' = secrets + 1
    /\ device' = saved(sub)
    /\ server' = [server EXCEPT ![sub] =
                    Seal(keyring[h], deriveDeviceHalf(secrets + 1, sub, keyring[h].v))]
    /\ Made(e, [NoEnrollment EXCEPT !.by = "oidc", !.v = keyring[h].v, !.sub = sub, !.is = Summary(keyring[h])])
    /\ UNCHANGED <<vault, keyring, call, sessionKeys, expired, devStore, machine>>
\* The key connector does not answer.
EnrollOidcFails(h, sub) ==
    /\ Has(h) /\ EnrollsOnce(sub) /\ secrets < 2 /\ secrets' = secrets + 1
    /\ device' = saved(sub)
    /\ UNCHANGED <<vault, keyring, call, enrolled, sessionKeys, expired, server, devStore, machine>>

\* magic-link.ts: a KEK for the link and the vault, and a viewer's keyring wrapped with it.
deriveMagicLinkKEK(e, v) == <<"link", e, v>>
LinkKek == 2                    \* not a secret of any keyring file
buildMagicLinkKeyring(k) == [k EXCEPT !.role = "viewer", !.kek = LinkKek]
\* createMagicLinkToken; the keyring is stored for the viewer by the application.
createMagicLink(e, h) ==
    LET k == [keyring[h] EXCEPT !.role = "viewer"] IN
    /\ Fresh(e, h)
    /\ Made(e, [NoEnrollment EXCEPT !.by = "link", !.v = k.v, !.box = Seal(k, deriveMagicLinkKEK(e, k.v)),
                                    !.is = buildMagicLinkKeyring(Summary(k))])
    /\ UNCHANGED <<vault, keyring, call, sessionKeys, expired, oidc, devStore, machine>>

(***************************************************************************)
(* dev-unlock.ts: the summary in the clear in the storage of the browser. *)
(***************************************************************************)
assertDevEnvironment == Build # "production"
enableDevUnlock(e, h, scope) ==
    LET v == keyring[h].v IN
    /\ Fresh(e, h) /\ assertDevEnvironment
    /\ devStore' = [devStore EXCEPT ![<<scope, v>>] = Summary(keyring[h])]
    /\ enrolled' = [x \in Enrollment |->
           IF x = e THEN [NoEnrollment EXCEPT !.by = "dev", !.v = v, !.scope = scope, !.is = Summary(keyring[h])]
           ELSE IF enrolled[x].by = "dev" /\ enrolled[x].v = v /\ enrolled[x].scope = scope THEN NoEnrollment
           ELSE enrolled[x]]
    /\ UNCHANGED <<vault, keyring, call, sessionKeys, expired, oidc, machine>>
Cleared(gone(_, _)) ==
    /\ devStore' = [x \in Scope \X Vault |-> IF gone(x[1], x[2]) THEN None ELSE devStore[x]]
    /\ enrolled' = [x \in Enrollment |-> IF enrolled[x].by = "dev" /\ gone(enrolled[x].scope, enrolled[x].v)
                                         THEN NoEnrollment ELSE enrolled[x]]
    /\ UNCHANGED <<vault, keyring, call, sessionKeys, expired, oidc, machine>>
clearDevUnlock(v, scope) ==
    devStore[<<scope, v>>] # None /\ Cleared(LAMBDA s, w : s = scope /\ w = v)
\* The tab is closed: sessionStorage, and the keys of its sessions, are gone.
CloseTab ==
    /\ \E v \in Vault : devStore[<<"sessionStorage", v>>] # None
    /\ Cleared(LAMBDA s, w : s = "sessionStorage")

-----------------------------------------------------------------------------
(***************************************************************************)
(* Unlocking.                                                             *)
(***************************************************************************)
resolveSession(e) ==
    IF e \in expired \/ e \notin sessionKeys THEN Fails ELSE Open(enrolled[e].box, SessionKey(e))
unlockWebAuthn(r) == IF r.single /\ r.a \in machine.eligible THEN Fails ELSE Open(r.box, UnlockKey(r))
unlockOidc(e) ==
    LET r == enrolled[e] IN
    IF e \in expired \/ device[r.sub] = 0 \/ server[r.sub] = None THEN Fails
    ELSE xorBytes(server[r.sub], deriveDeviceHalf(device[r.sub], r.sub, r.v))
resolveMagicLink(e) ==
    IF e \in expired THEN Fails
    ELSE buildMagicLinkKeyring(Open(enrolled[e].box, deriveMagicLinkKEK(e, enrolled[e].v)))
loadDevUnlock(v, scope) == IF devStore[<<scope, v>>] = None THEN Fails ELSE devStore[<<scope, v>>]
Unlocks(e) ==
    LET r == enrolled[e] IN
    CASE r.by = "session"  -> resolveSession(e)
      [] r.by = "webauthn" -> unlockWebAuthn(r)
      [] r.by = "oidc"     -> unlockOidc(e)
      [] r.by = "link"     -> resolveMagicLink(e)
      [] r.by = "dev"      -> loadDevUnlock(r.v, r.scope)
      [] OTHER             -> Fails
unlock(e, h) ==
    /\ ~Has(h) /\ Unlocks(e) # Fails
    /\ keyring' = [keyring EXCEPT ![h] = Unlocks(e)]
    /\ UNCHANGED <<vault, call, enrolled, sessionKeys, expired, oidc, devStore, machine>>
\* The time of a token is over; a session that is too old takes its key with it.
Expire(e) ==
    /\ enrolled[e].by \in {"session", "link", "oidc"} /\ e \notin expired /\ expired' = expired \cup {e}
    /\ sessionKeys' = sessionKeys \ {e}
    /\ UNCHANGED <<vault, keyring, call, enrolled, oidc, devStore, machine>>

Next ==
    \/ CloseTab
    \/ \E h \in Handle :
        \/ Forget(h) \/ Save(h) \/ SaveFails(h) \/ Put(h)
        \/ \E v \in Vault : loadKeyring(h, v)
        \/ \E c \in Collection : putCredential(h, c) \/ deleteCredential(h, c) \/ rotate(h, c)
        \/ \E s \in Sub : EnrollOidcFails(h, s)
    \/ \E e \in Enrollment, h \in Handle :
        \/ createSession(e, h) \/ createMagicLink(e, h) \/ unlock(e, h)
        \/ \E a \in Authenticator, single \in BOOLEAN : enrollWebAuthn(e, h, a, single)
        \/ \E s \in Sub : enrollOidc(e, h, s)
        \/ \E scope \in Scope : enableDevUnlock(e, h, scope)
    \/ \E e \in Enrollment : revokeSession(e) \/ Expire(e)
    \/ \E v \in Vault, scope \in Scope : clearDevUnlock(v, scope)

Spec == Init /\ [][Next]_vars

-----------------------------------------------------------------------------
(***************************************************************************)
(* Correctness.                                                           *)
(***************************************************************************)
\* What was enrolled opens what it was made of, as long as what the method
\* needs is there: the session's key, an authenticator that still does what it
\* did, the token's time.
Intact(e) ==
    LET r == enrolled[e] IN
    /\ r.by # "none" /\ e \notin expired
    /\ r.by = "session" => e \in sessionKeys
EnrolledOpens == \A e \in Enrollment : Intact(e) => Unlocks(e) = enrolled[e].is

\* A credential is stored under the key that the keyring file has, or under one that no file
\* has had: its keyring has no KEK, or the write of the file has failed.
NothingStranded ==
    \A v \in Vault, c \in Collection :
        credential[v][c].ver > 0 => credential[v][c].key \in {file[v].deks[c]} \cup unsaved

\* The same with no exception.
NoneStranded ==
    \A v \in Vault, c \in Collection :
        credential[v][c].ver > 0 => credential[v][c].key = file[v].deks[c]

\* What an enrollment opens reads what is in the vault, of the collections it has keys of.
EnrolledReads ==
    \A e \in Enrollment : Intact(e) =>
        \A c \in Collection : Unlocks(e).deks[c] # 0 => Reads(Unlocks(e), c)

\* A production build has no keys in the clear in the storage of its browser.
DevOnly == \A x \in Scope \X Vault : devStore[x] # None => Build = "development"
=============================================================================
