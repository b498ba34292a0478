------------------------------- MODULE MCApp -------------------------------
(***************************************************************************)
(* What surrounds the core, on small instances for TLC: the command line,  *)
(* translations, the bindings of user interfaces, the state plugin and the *)
(* ways to unlock.  The five share no state: a behaviour is one of one of  *)
(* them, the others rest.                                                  *)
(***************************************************************************)
EXTENDS CommandLine, TLC

CONSTANTS None, v1, k1, e1, e2, h1, a1, s1

Fields == {"title"}
Locales == {"en", "th"}
InLanguages == <<"en", "th">>
Words == {"a", "b"}
Requires == {[kind |-> "all", list |-> {}], [kind |-> "any", list |-> {}], [kind |-> "list", list |-> {"th"}]}
Records == {"r1", "r2"}
OneCaller == {"c1"}

Recs == {1, 2}
Stores == {"p"}
Views == {"v"}
TwoCallers == {"c1", "c2"}

StateKeys == 1..3
Persisted == {{1}, {1, 2}}

Vaults == {v1}
Collections == {k1}
Enrollments == {e1, e2}
Handles == {h1}
Authenticators == {a1}
Subjects == {s1}

VARIABLES part
VARIABLES desc, bare, hook, store, putCall, cache, log, asked, again, isOpen, puts
VARIABLES disks, made, opened, shown, hydrated, handle, broken, items, call, due, fresh, behind, writes, faults
VARIABLES persist, state, page, pending, stored, lost, touched, mutations, loads, failures
VARIABLES file, keyring, credential, putting, keys, unsaved, enrolled, sessionKeys, expired, device, server,
          secrets, devStore, machine

Translation == INSTANCE Translation WITH
    Field <- Fields, Locale <- Locales, Languages <- InLanguages, Word <- Words,
    Requireds <- Requires, Id <- Records, Caller <- OneCaller, MaxPuts <- 3, Allowed <- {},
    call <- putCall, open <- isOpen
Bindings == INSTANCE Bindings WITH
    Rec <- Recs, Pinia <- Stores, View <- Views, Caller <- TwoCallers, MaxInst <- 1,
    MaxWrites <- 4, MaxFaults <- 1, Allowed <- {}, disk <- disks, cache <- shown
StatePlugin == INSTANCE StatePlugin WITH
    Key <- StateKeys, Persists <- Persisted, MaxMutations <- 4, MaxLoads <- 3, MaxFaults <- 1,
    Allowed <- {}, faults <- failures
Unlock == INSTANCE Unlock WITH
    Vault <- Vaults, Collection <- Collections, Sub <- Subjects, Authenticator <- Authenticators,
    Enrollment <- Enrollments, Handle <- Handles, Build <- "development", MaxKeys <- 2,
    Behaviours <- {}, call <- putting

ASSUME /\ Translation!TranslationAssumption /\ Bindings!BindingsAssumption
       /\ StatePlugin!StatePluginAssumption

translationVars == <<desc, bare, hook, store, putCall, cache, log, asked, again, isOpen, puts>>
bindingVars == <<disks, made, opened, shown, hydrated, handle, broken, items, call, due, fresh,
                 behind, writes, faults>>
pluginVars  == <<persist, state, page, pending, stored, lost, touched, mutations, loads, failures>>
unlockVars  == <<file, keyring, credential, putting, keys, unsaved, enrolled, sessionKeys, expired, device,
                 server, secrets, devStore, machine>>

AppInit ==
    /\ part \in {"cli", "translation", "bindings", "plugin", "unlock"}
    /\ Init /\ Translation!Init /\ Bindings!Init /\ StatePlugin!Init /\ Unlock!Init
    /\ part = "cli" \/ (deps = "none" /\ ~vault.collections)
    /\ part = "translation" \/ (~hook /\ desc["title"] = [required |-> [kind |-> "any", list |-> {}], auto |-> FALSE])
    /\ part = "bindings" \/ \A r \in Recs : disks[r] = 0
    /\ part = "plugin" \/ persist = {1}
    /\ part = "unlock" \/ machine = [prf |-> [a \in Authenticators |-> "none"], eligible |-> {}]

AppNext ==
    \/ part = "cli" /\ Next /\ UNCHANGED <<part, translationVars, bindingVars, pluginVars, unlockVars>>
    \/ /\ part = "translation" /\ Translation!Next
       /\ UNCHANGED <<part, vars, bindingVars, pluginVars, unlockVars>>
    \/ /\ part = "bindings" /\ Bindings!Next
       /\ UNCHANGED <<part, vars, translationVars, pluginVars, unlockVars>>
    \/ /\ part = "plugin" /\ StatePlugin!Next
       /\ UNCHANGED <<part, vars, translationVars, bindingVars, unlockVars>>
    \/ /\ part = "unlock" /\ Unlock!Next
       /\ UNCHANGED <<part, vars, translationVars, bindingVars, pluginVars>>

AppSpec ==
    AppInit /\ [][AppNext]_<<part, vars, translationVars, bindingVars, pluginVars, unlockVars>>

\* Stored texts satisfy the field's demands, stored translations are translations of a
\* text beside them, and the translator is asked for each of them once.
TextsTrue ==
    part = "translation" =>
        Translation!RequiredReadable /\ Translation!TranslationsTrue /\ Translation!AskedOnce

\* What a store or a view shows, and what the plugin has stored, agrees with the other side
\* when nothing is under way.
MirrorsAgree ==
    /\ part = "bindings" => Bindings!Settled
    /\ part = "plugin" => StatePlugin!StateKept

\* An enrolment whose means are intact gives back the keyring it was made of, and no
\* credential is stored under a key that no keyring file has.
EnrolmentsHold == part = "unlock" => Unlock!EnrolledOpens /\ Unlock!NothingStranded

Symmetric == Permutations(Enrollments)
=============================================================================
