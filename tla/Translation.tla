---------------------------- MODULE Translation ----------------------------
(***************************************************************************)
(* Multi-language fields (packages/hub/src/i18n.ts): the put of a record  *)
(* checks it against the schema (schema.ts), has missing texts translated *)
(* by the application's plaintextTranslator (noydb.ts invokeTranslator),  *)
(* validates what is required and stores it; a read resolves a locale.    *)
(* A text is what the user wrote, or a translation of it made for one     *)
(* field and one locale.                                                  *)
(***************************************************************************)
EXTENDS Naturals, FiniteSets, SequencesExt, TLC

CONSTANTS
    Field, Locale,
    Languages,   \* the declared languages of every field, in order
    Word,        \* what a user writes
    Requireds,   \* the option `required`: [kind |-> "all", "any" or "list", list |-> locales]
    Id, Caller,
    MaxPuts,     \* bound: puts
    Allowed      \* which of TranslationBehaviours the environment shows

TranslationBehaviours == {"overlap",  \* puts run at the same time
                          "closing",  \* close() while a put is in flight
                          "edits",    \* one text of a stored record is replaced
                          "bare",     \* the collection was first opened without options
                          "unfit"}    \* a translation need not satisfy the schema

TranslationAssumption ==
    /\ Len(Languages) > 0 /\ ToSet(Languages) \subseteq Locale /\ MaxPuts \in Nat
    /\ Allowed \subseteq TranslationBehaviours

VARIABLES
    desc,    \* i18nText options of each field: [required, auto]
    bare,    \* whether the collection knows no options
    hook,    \* whether a translator is configured
    store,   \* the records
    call,    \* the puts in flight
    cache,   \* Noydb.translatorCache
    log,     \* keys of Noydb._translatorAuditLog
    asked,   \* (history) keys the translator was asked for since the last close
    again,   \* (history) keys it was asked for after it had answered or while it did
    open, puts

vars == <<desc, bare, hook, store, call, cache, log, asked, again, open, puts>>

-----------------------------------------------------------------------------
Written(w)      == [word |-> w, field |-> "", to |-> ""]
Made(w, f, l)   == [word |-> w, field |-> f, to |-> l]
Blank   == Written("")         \* the empty string
NoText  == Written("absent")   \* the locale is not in the map
HasText(m, l) == m[l] \notin {Blank, NoText}
Nothing == [l \in Locale |-> NoText]
NoFields == [f \in Field |-> Nothing]   \* Nothing: no such field (never an empty map)
IsUnfit(t) == "unfit" \in Allowed /\ t.field # ""

(***************************************************************************)
(* schema.ts: a schema that drops the undeclared locales and may refuse.  *)
(***************************************************************************)
Parse(rec)   == [f \in Field |-> [l \in Locale |-> IF l \in ToSet(Languages) THEN rec[f][l] ELSE NoText]]
Accepts(rec) == \A f \in Field, l \in Locale : HasText(rec[f], l) => ~IsUnfit(rec[f][l])

(***************************************************************************)
(* Which texts a put has translated: <<field, from, to>> in order.        *)
(***************************************************************************)
Missing(m) == SelectSeq(Languages, LAMBDA l : ~HasText(m, l))
Sources(m) == SelectSeq(Languages, LAMBDA l : HasText(m, l))
Wanted(m, required) ==
    CASE required.kind = "any" -> <<>>
      [] required.kind = "all" -> Missing(m)
      [] OTHER -> SelectSeq(Missing(m), LAMBDA l : l \in required.list)
Needs(rec, f) ==
    ~bare /\ desc[f].auto /\ rec[f] # Nothing /\ Missing(rec[f]) # <<>> /\ Sources(rec[f]) # <<>>
Jobs(rec, f) ==
    IF ~Needs(rec, f) THEN <<>>
    ELSE LET wanted == Wanted(rec[f], desc[f].required)
         IN  [i \in DOMAIN wanted |-> <<f, Sources(rec[f])[1], wanted[i]>>]
AllJobs(rec) == FlattenSeq([i \in 1..Cardinality(Field) |-> Jobs(rec, SetToSeq(Field)[i])])

\* The key of the cache.
Key(rec, job) == <<job[1], job[2], job[3], rec[job[1]][job[2]]>>

(***************************************************************************)
(* validateI18nTextValue.                                                 *)
(***************************************************************************)
Valid(m, required) ==
    CASE required.kind = "all" -> \A l \in ToSet(Languages) : HasText(m, l)
      [] required.kind = "any" -> \E l \in ToSet(Languages) : HasText(m, l)
      [] OTHER -> \A l \in required.list : HasText(m, l)
MayStore(rec) == bare \/ \A f \in Field : rec[f] = Nothing \/ Valid(rec[f], desc[f].required)

(***************************************************************************)
(* resolveI18nText: the texts it may return, none when it throws.         *)
(***************************************************************************)
Resolve(m, locale, chain) ==
    IF HasText(m, locale) THEN {m[locale]}
    ELSE LET Serves(c) == IF c = "any" THEN \E l \in Locale : HasText(m, l) ELSE HasText(m, c)
             found == SelectSeq(chain, Serves)
         IN  CASE found = <<>> -> {}
               [] found # <<>> /\ found[1] = "any" -> {m[l] : l \in {k \in Locale : HasText(m, k)}}
               [] OTHER -> {m[found[1]]}

\* get and list with a locale: one record without a text fails the whole list.
FieldThrows(m, locale, chain) == m # Nothing /\ Resolve(m, locale, chain) = {}
ReadThrows(rec, locale, chain) == ~bare /\ \E f \in Field : FieldThrows(rec[f], locale, chain)
ListThrows(locale, chain) == \E i \in Id : ReadThrows(store[i], locale, chain)

-----------------------------------------------------------------------------
Idle == [pc |-> "idle", id |-> CHOOSE i \in Id : TRUE, rec |-> NoFields, new |-> NoFields, jobs |-> <<>>]

Maps == {m \in [Locale -> {Written(w) : w \in Word} \cup {Blank, NoText}] :
            \A l \in Locale \ ToSet(Languages) : m[l] = NoText}
Inputs(i) == [Field -> Maps] \cup
    IF "edits" \notin Allowed THEN {}
    ELSE {[store[i] EXCEPT ![f][l] = Written(w)] : f \in Field, l \in ToSet(Languages), w \in Word}

Init ==
    /\ desc \in [Field -> [required : Requireds, auto : BOOLEAN]] /\ hook \in BOOLEAN
    /\ bare \in (IF "bare" \in Allowed THEN BOOLEAN ELSE {FALSE})
    /\ store = [i \in Id |-> NoFields] /\ call = [c \in Caller |-> Idle] /\ cache = <<>>
    /\ log = {} /\ asked = {} /\ again = {} /\ open = TRUE /\ puts = 0

\* A put starts: the schema is the first thing it awaits.
Put(c, i, rec) ==
    /\ call[c] = Idle /\ open /\ puts < MaxPuts /\ puts' = puts + 1
    /\ "overlap" \notin Allowed => \A d \in Caller : call[d] = Idle
    /\ call' = [call EXCEPT ![c] = [Idle EXCEPT !.pc = "schema", !.id = i, !.rec = rec]]
    /\ UNCHANGED <<desc, bare, hook, store, cache, log, asked, again, open>>

\* Refused by the schema, or a field needs a translator and there is none.
Translate(c) ==
    LET rec == Parse(call[c].rec)
    IN  /\ call[c].pc = "schema"
        /\ call' = [call EXCEPT ![c] =
              IF Accepts(rec) /\ (hook \/ \A f \in Field : ~Needs(rec, f))
              THEN [@ EXCEPT !.pc = "jobs", !.rec = rec, !.new = rec, !.jobs = AllJobs(rec)]
              ELSE Idle]
        /\ UNCHANGED <<desc, bare, hook, store, cache, log, asked, again, open, puts>>

Translated(c, text) ==
    LET job == Head(call[c].jobs)
    IN  call' = [call EXCEPT ![c].pc = "jobs", ![c].jobs = Tail(@), ![c].new[job[1]][job[3]] = text]

\* invokeTranslator: from the cache, or the application is asked.
Cached(c) ==
    LET key == Key(call[c].rec, Head(call[c].jobs))
    IN  /\ call[c].pc = "jobs" /\ call[c].jobs # <<>> /\ key \in DOMAIN cache
        /\ log' = log \cup {key}
        /\ Translated(c, cache[key])
        /\ UNCHANGED <<desc, bare, hook, store, cache, asked, again, open, puts>>

Pending == {Key(call[c].rec, Head(call[c].jobs)) : c \in {d \in Caller : call[d].pc = "asked"}}

Ask(c) ==
    LET key == Key(call[c].rec, Head(call[c].jobs))
    IN  /\ call[c].pc = "jobs" /\ call[c].jobs # <<>> /\ key \notin DOMAIN cache
        /\ again' = IF key \in log \cup Pending THEN again \cup {key} ELSE again
        /\ asked' = asked \cup {key}
        /\ call' = [call EXCEPT ![c].pc = "asked"]
        /\ UNCHANGED <<desc, bare, hook, store, cache, log, open, puts>>

\* The answer is cached, and only then written to the audit log.
\* (Variant: it is not cached.)
RememberedNot(key, text) == cache
Remembered(key, text) == (key :> text) @@ cache
Answer(c) ==
    LET job == Head(call[c].jobs)
        key == Key(call[c].rec, job)
        text == Made(call[c].rec[job[1]][job[2]].word, job[1], job[3])
    IN  /\ call[c].pc = "asked"
        /\ cache' = Remembered(key, text) /\ log' = log \cup {key}
        /\ Translated(c, text)
        /\ UNCHANGED <<desc, bare, hook, store, asked, again, open, puts>>

AnswerFails(c) ==
    /\ call[c].pc = "asked"
    /\ call' = [call EXCEPT ![c] = Idle]
    /\ UNCHANGED <<desc, bare, hook, store, cache, log, asked, again, open, puts>>

\* The required texts are checked after the translation, then the record is written.
Write(c) ==
    /\ call[c].pc = "jobs" /\ call[c].jobs = <<>>
    /\ store' = IF MayStore(call[c].new) THEN [store EXCEPT ![call[c].id] = call[c].new] ELSE store
    /\ call' = [call EXCEPT ![c] = Idle]
    /\ UNCHANGED <<desc, bare, hook, cache, log, asked, again, open, puts>>

\* Noydb.close(): the cache and the log go.
Close ==
    /\ open /\ open' = FALSE
    /\ "closing" \notin Allowed => \A c \in Caller : call[c] = Idle
    /\ cache' = <<>> /\ log' = {} /\ asked' = {} /\ again' = {}
    /\ UNCHANGED <<desc, bare, hook, store, call, puts>>

Next ==
    \/ \E c \in Caller :
          \/ \E i \in Id : \E rec \in Inputs(i) : Put(c, i, rec)
          \/ Translate(c) \/ Cached(c) \/ Ask(c) \/ Answer(c) \/ AnswerFails(c) \/ Write(c)
    \/ Close

Spec == Init /\ [][Next]_vars

-----------------------------------------------------------------------------
\* Every record in the store reads back: the schema still accepts it, a list
\* in a locale that every field requires needs no fallback and does not throw,
\* and a read answers with the locale asked, else with the fallback.
AnswersOf(m, locale, fb) ==
    IF HasText(m, locale) THEN {m[locale]} ELSE IF HasText(m, fb) THEN {m[fb]} ELSE {}
Demanded(required) ==
    CASE required.kind = "all" -> ToSet(Languages) [] required.kind = "any" -> {} [] OTHER -> required.list
RequiredReadable ==
    /\ \A i \in Id : Accepts(store[i])
    /\ \A l \in Locale :
          (\A f \in Field : l \in Demanded(desc[f].required)) => ~ListThrows(l, <<>>)
    /\ ~ListThrows(Languages[1], <<"any">>)
    /\ \A i \in Id, f \in Field, l, fb \in ToSet(Languages) :
          store[i][f] # Nothing => Resolve(store[i][f], l, <<fb>>) = AnswersOf(store[i][f], l, fb)

\* A stored translation is a translation, for its own field and locale, of
\* a text that stands beside it.
TranslationsTrue ==
    \A i \in Id, f \in Field, l \in Locale :
        LET t == store[i][f][l]
        IN  t.field # "" => /\ t.field = f /\ t.to = l
                            /\ \E k \in Locale \ {l} : store[i][f][k] = Written(t.word)

\* The translator is not asked for what it has answered or is answering,
\* and a closed instance keeps no text.
AskedOnce == again = {} /\ (~open => cache = <<>> /\ log = {})

\* Every text the translator was handed is in the audit log, or on its way there.
AuditTold == asked \subseteq log \cup Pending

=============================================================================
