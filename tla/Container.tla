----------------------------- MODULE Container -----------------------------
(***************************************************************************)
(* The portable .noydb file: writeNoydbBundle and readNoydbBundle         *)
(* (packages/hub/src/bundle/bundle.ts) over the layout of format.ts, the  *)
(* handle a vault keeps for its bundles (vault.ts) and the ULID it is     *)
(* made of (ulid.ts).  A file is written, may be damaged on its way, and  *)
(* is read.                                                               *)
(*                                                                         *)
(* A file is a sequence of numbers: the four of the magic, the flags, the *)
(* algorithm, the length of the header in digits, then one for each       *)
(* member of the header, then the body.  The hash of a body is its value  *)
(* in base Byte, so that different bodies have different hashes.          *)
(***************************************************************************)
EXTENDS Naturals, FiniteSets, SequencesExt

CONSTANTS
    Dump,        \* the dumps a vault may have, sequences over 0..9
    Options,     \* the compression option of a write
    Brotli,      \* whether the runtime supports it
    Vault,       \* vaults that bundles are made of
    Writer,      \* calls of writeNoydbBundle
    Times,       \* values of the clock
    Base, Digits, \* of the time part of a ULID: each half has Digits digits
    Half,        \* the low half of a time is below it
    MaxFaults,   \* bound: damages to a file
    Allowed      \* which of ContainerBehaviours the environment shows

ContainerBehaviours == {"overlap",    \* bundles are written at the same time
                        "algorithm"}  \* a damage hits the byte of the algorithm

\* The first half of a time must fit its digits, and the low half too.
ContainerAssumption ==
    /\ Base \in Nat \ {0, 1} /\ Digits \in Nat \ {0} /\ Half \in Nat \ {0}
    /\ Half <= Base ^ Digits /\ \A t \in Times : t \in Nat /\ t \div Half < Base ^ Digits
    /\ MaxFaults \in Nat /\ Options \subseteq {"auto", "brotli", "gzip", "none"}

VARIABLES
    clock,    \* the present time
    meta,     \* the _meta/handle document of each vault: 0 for none, else a handle
    call,     \* writers: the vault and the handle each is about to store
    made,     \* (history) handles the bundles of each vault bear
    issued,   \* (history) the ULIDs handed out, with their time
    dump,     \* (history) the dump in the file
    file,     \* the file, empty when there is none
    faults

vars == <<clock, meta, call, made, issued, dump, file, faults>>

-----------------------------------------------------------------------------
(***************************************************************************)
(* ulid.ts: the digits of the time and a random part that is never drawn  *)
(* twice (its value is the number of ULIDs so far).                       *)
(***************************************************************************)
Encode(value, length) == [i \in 1..length |-> (value \div (Base ^ (length - i))) % Base]
TimePart(now) == Encode(now \div Half, Digits) \o Encode(now % Half, Digits)
Ulid(now) == [time |-> TimePart(now), rand |-> Cardinality(issued) + 1]

Less(s, t) == \E i \in DOMAIN s : s[i] < t[i] /\ \A j \in 1..(i - 1) : s[j] = t[j]

(***************************************************************************)
(* format.ts and the writer.                                              *)
(***************************************************************************)
Byte      == 8
Magic     == <<1, 2, 3, 4>>
Version   == 1
Algorithm == [none |-> 0, gzip |-> 1, brotli |-> 2]
PrefixLength == 10
WriteUint(n) == [i \in 1..4 |-> (n \div (Byte ^ (4 - i))) % Byte]
ReadUint(s)  == FoldLeft(LAMBDA n, d : Byte * n + d, 0, s)

\* The hash of a body, and compression: each number says what packed it.
Sha(body) == FoldLeft(LAMBDA n, d : 100 * n + d, 1, body)
Pack(bytes, algo) == [i \in DOMAIN bytes |-> 10 * algo + bytes[i]]

SelectCompression(option) ==
    CASE option = "none" -> Algorithm.none
      [] option = "brotli" \/ (option = "auto" /\ Brotli) -> Algorithm.brotli
      [] OTHER -> Algorithm.gzip

Flags(algo) == (IF algo = Algorithm.none THEN 0 ELSE 1) + 2
Header(handle, body) == <<Version, handle, Len(body), Sha(body)>>
HeaderIsValid(h) == Len(h) = 4 /\ h[1] = Version /\ h[2] > 0

Bundle(handle, d, algo) ==
    LET body   == Pack(d, algo)
        header == Header(handle, body)
    IN  Magic \o <<Flags(algo), algo>> \o WriteUint(Len(header)) \o header \o body

(***************************************************************************)
(* The reader.  Refused when it throws.  A body packed with gzip is never *)
(* text; one packed with brotli may be, and is then read as it is.        *)
(***************************************************************************)
Refused == [ok |-> FALSE, handle |-> 0, dump |-> <<>>]
Unpack(body, algo) ==
    IF \A i \in DOMAIN body : body[i] \div 10 = algo
    THEN [ok |-> TRUE, bytes |-> [i \in DOMAIN body |-> body[i] % 10]]
    ELSE IF algo = Algorithm.none /\ \A i \in DOMAIN body : body[i] \div 10 # Algorithm.gzip
    THEN [ok |-> TRUE, bytes |-> body]
    ELSE [ok |-> FALSE, bytes |-> <<>>]

\* (Variant: only the length of the body is compared.)
MatchesLength(header, body) == Len(body) = header[3]
Matches(header, body) == Len(body) = header[3] /\ Sha(body) = header[4]

BodyOffset(f) == PrefixLength + ReadUint(SubSeq(f, 7, 10))
HasPrefix(f) ==
    /\ Len(f) >= PrefixLength /\ SubSeq(f, 1, 4) = Magic
    /\ f[6] \in {Algorithm.none, Algorithm.gzip, Algorithm.brotli}
    /\ BodyOffset(f) <= Len(f)

Read(f) ==
    IF ~HasPrefix(f) THEN Refused
    ELSE LET header == SubSeq(f, PrefixLength + 1, BodyOffset(f))
             body   == SubSeq(f, BodyOffset(f) + 1, Len(f))
             bytes  == Unpack(body, f[6])
         IN  IF HeaderIsValid(header) /\ Matches(header, body) /\ bytes.ok
             THEN [ok |-> TRUE, handle |-> header[2], dump |-> bytes.bytes] ELSE Refused

-----------------------------------------------------------------------------
Idle == [vault |-> CHOOSE v \in Vault : TRUE, fresh |-> 0]
Init ==
    /\ clock \in Times /\ meta = [v \in Vault |-> 0] /\ made = [v \in Vault |-> {}]
    /\ issued = {} /\ call = [w \in Writer |-> Idle] /\ dump = <<>> /\ file = <<>> /\ faults = 0

Tick == \E t \in Times :
    /\ t > clock /\ clock' = t
    /\ UNCHANGED <<meta, call, made, issued, dump, file, faults>>

Finished(v, handle) ==
    \E d \in Dump, option \in Options :
        /\ ~(option = "brotli" /\ ~Brotli)
        /\ dump' = d /\ file' = Bundle(handle, d, SelectCompression(option))
        /\ faults' = 0 /\ made' = [made EXCEPT ![v] = @ \cup {handle}]

\* getBundleHandle: the stored handle, or a new one that is stored next.
WriteKnown(w, v) ==
    /\ call[w] = Idle /\ meta[v] > 0
    /\ Finished(v, meta[v])
    /\ UNCHANGED <<clock, meta, call, issued>>

StartFresh(w, v) ==
    /\ call[w] = Idle /\ meta[v] = 0
    /\ "overlap" \notin Allowed => \A o \in Writer : call[o] = Idle
    /\ call' = [call EXCEPT ![w] = [vault |-> v, fresh |-> Ulid(clock).rand]]
    /\ issued' = issued \cup {[at |-> clock, id |-> Ulid(clock)]}
    /\ UNCHANGED <<clock, meta, made, dump, file, faults>>

Stored(w) == call[w].fresh
WriteFresh(w) ==
    /\ call[w] # Idle
    /\ meta' = [meta EXCEPT ![call[w].vault] = Stored(w)]
    /\ call' = [call EXCEPT ![w] = Idle]
    /\ Finished(call[w].vault, call[w].fresh)
    /\ UNCHANGED <<clock, issued>>

\* On its way a file is cut, padded or changed in one place.
Damage ==
    /\ file # <<>> /\ faults < MaxFaults /\ faults' = faults + 1
    /\ \/ \E n \in 0..(Len(file) - 1) : file' = SubSeq(file, 1, n)
       \/ \E b \in 0..(Byte - 1) : file' = Append(file, b)
       \/ \E i \in DOMAIN file, b \in 0..(Byte - 1) :
             /\ b # file[i] /\ (i = 6 => "algorithm" \in Allowed)
             /\ file' = [file EXCEPT ![i] = b]
    /\ UNCHANGED <<clock, meta, call, made, issued, dump>>

Next ==
    \/ Tick \/ Damage
    \/ \E w \in Writer : WriteFresh(w) \/ \E v \in Vault : WriteKnown(w, v) \/ StartFresh(w, v)

Spec == Init /\ [][Next]_vars

-----------------------------------------------------------------------------
\* A file that came through reads back, under the handle of the vault; one
\* that did not is refused or still gives the very dump that was written.
ReadsWhatWasWritten ==
    file # <<>> =>
        /\ faults = 0 => Read(file).ok /\ \E v \in Vault : Read(file).handle \in made[v]
        /\ Read(file).ok => Read(file).dump = dump

\* Every bundle of a vault bears the same handle.
HandleStable == \A v \in Vault : Cardinality(made[v]) <= 1

\* Handles sort by the time they were made.
UlidsSorted == \A a, b \in issued : a.at < b.at => Less(a.id.time, b.id.time)

=============================================================================
