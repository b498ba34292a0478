----------------------------- MODULE JsonPatch -----------------------------
(***************************************************************************)
(* The JSON patches the ledger keeps instead of old records               *)
(* (packages/hub/src/ledger/patch.ts): computePatch on two documents and  *)
(* applyPatch, one operation a step; and the differences that             *)
(* Collection.diff shows (packages/hub/src/diff.ts).                      *)
(*                                                                         *)
(* A property name is a sequence of characters, and a path is one flat    *)
(* sequence of them, because a path must survive being written and read.  *)
(***************************************************************************)
EXTENDS Naturals, FiniteSets, SequencesExt

CONSTANTS
    Key,        \* property names, sequences of characters
    Primitive,  \* primitive values other than null
    Inherited,  \* those of Key that every JavaScript object has by inheritance
    Kinds       \* values of the top-level properties, a subset of KindsOfValue

KindsOfValue == {"null", "primitive", "array", "emptyArray", "object"}

-----------------------------------------------------------------------------
(***************************************************************************)
(* Documents.                                                             *)
(***************************************************************************)
Null     == [t |-> "null"]
Prim(x)  == [t |-> "primitive", x |-> x]
Arr(s)   == [t |-> "array", s |-> s]
Obj(m)   == [t |-> "object", m |-> m]
Builtin  == [t |-> "function"]           \* what reading an inherited name gives
IsObject(d) == d.t = "object"

ObjectsOf(V) == {Obj(m) : m \in UNION {[K -> V] : K \in SUBSET Key}}
Flat   == {Null} \cup {Prim(x) : x \in Primitive}
Nested == {Arr(s) : s \in UNION {[1..n -> {Prim(x) : x \in Primitive}] : n \in 0..1}}
             \cup ObjectsOf({Prim(x) : x \in Primitive})
KindOf(v) == IF v = Arr(<<>>) THEN "emptyArray" ELSE v.t
Document == ObjectsOf({v \in Flat \cup Nested : KindOf(v) \in Kinds})

\* JavaScript's `key in obj` and obj[key].
In(key, d)   == key \in DOMAIN d.m \cup Inherited
Read(d, key) == IF key \in DOMAIN d.m THEN d.m[key] ELSE Builtin

-----------------------------------------------------------------------------
(***************************************************************************)
(* Paths.                                                                 *)
(***************************************************************************)
ReplaceChar(s, c, by) == FlattenSeq([i \in DOMAIN s |-> IF s[i] = c THEN by ELSE <<s[i]>>])
\* (Variant for the runs: the tilde is escaped last.)
EscapeTildeLast(key) == ReplaceChar(ReplaceChar(key, "/", <<"~", "1">>), "~", <<"~", "0">>)
Escape(key) == ReplaceChar(ReplaceChar(key, "~", <<"~", "0">>), "/", <<"~", "1">>)
ReplaceEscape(s, digit, c) ==
    LET At(i) == i \in 1..(Len(s) - 1) /\ s[i] = "~" /\ s[i + 1] = digit
    IN  FlattenSeq([i \in DOMAIN s |-> IF At(i) THEN <<c>> ELSE IF At(i - 1) THEN <<>> ELSE <<s[i]>>])
Unescape(s) == ReplaceEscape(ReplaceEscape(s, "1", "/"), "0", "~")
Child(path, key) == path \o <<"/">> \o Escape(key)

ParsePath(path) ==
    LET Take(segs, c) == IF c = "/" THEN Append(segs, <<>>)
                         ELSE Append(Front(segs), Append(Last(segs), c))
        segments == FoldLeft(Take, <<>>, path)
    IN  [i \in DOMAIN segments |-> Unescape(segments[i])]

-----------------------------------------------------------------------------
(***************************************************************************)
(* computePatch: operations in the order they are emitted.  The names are *)
(* walked in some order; the operations of one level touch different      *)
(* names, so one order stands for all.                                    *)
(***************************************************************************)
Replace(path, v)   == [op |-> "replace", path |-> path, value |-> v]
AddOp(path, v)     == [op |-> "add", path |-> path, value |-> v]
RemoveOp(path)     == [op |-> "remove", path |-> path, value |-> Null]
OpsForGone(prev, next, path, key) == <<RemoveOp(Child(path, key))>>

RECURSIVE DiffOps(_, _, _)
DiffOps(prev, next, path) ==
    LET Ours(key) ==
            IF In(key, next) THEN DiffOps(prev.m[key], Read(next, key), Child(path, key))
            ELSE OpsForGone(prev, next, path, key)
        Theirs == SetToSeq({key \in DOMAIN next.m : ~In(key, prev)})
        ours   == SetToSeq(DOMAIN prev.m)
    IN  IF prev = next THEN <<>>
        ELSE IF ~IsObject(prev) \/ ~IsObject(next) THEN <<Replace(path, next)>>
        ELSE FlattenSeq([i \in DOMAIN ours |-> Ours(ours[i])])
                \o [i \in DOMAIN Theirs |-> AddOp(Child(path, Theirs[i]), next.m[Theirs[i]])]
ComputePatch(prev, next) == DiffOps(prev, next, <<>>)

(***************************************************************************)
(* applyPatch: Failed when an operation throws.                           *)
(***************************************************************************)
Failed == [t |-> "failed"]
With(d, key, v)  == Obj([k \in DOMAIN d.m \cup {key} |-> IF k = key THEN v ELSE d.m[k]])
Drop(d, key)     == Obj([k \in DOMAIN d.m \ {key} |-> d.m[k]])
AtTerminal(d, key, op) ==
    IF ~IsObject(d) \/ (op.op # "add" /\ ~In(key, d)) THEN Failed
    ELSE IF op.op = "remove" THEN Drop(d, key)
    ELSE With(d, key, op.value)

RECURSIVE WalkAndApply(_, _, _)
WalkAndApply(d, segments, op) ==
    IF Len(segments) = 1 THEN AtTerminal(d, segments[1], op)
    ELSE IF ~IsObject(d) \/ ~In(segments[1], d) THEN Failed
    ELSE LET child == WalkAndApply(Read(d, segments[1]), Tail(segments), op)
         IN  IF child = Failed THEN Failed ELSE With(d, segments[1], child)

ApplyOp(d, op) ==
    IF d = Failed THEN Failed
    ELSE IF op.path = <<>> THEN IF op.op = "remove" THEN Null ELSE op.value
    ELSE WalkAndApply(d, ParsePath(op.path), op)

-----------------------------------------------------------------------------
(***************************************************************************)
(* diff.ts: the set of changes.  An array has its indices as names, an    *)
(* object and an array are both of type 'object'.                         *)
(***************************************************************************)
IndexNames   == <<<<"0">>, <<"1">>>>     \* arrays here have at most two elements
AsObject(d)  == IF d.t = "object" THEN d.m
                ELSE [n \in {IndexNames[i] : i \in DOMAIN d.s} |->
                         d.s[CHOOSE i \in DOMAIN d.s : IndexNames[i] = n]]
Names(d)     == DOMAIN AsObject(d)
Member(d, n) == AsObject(d)[n]
IsNested(d)  == d.t \in {"array", "object"}
Change(path, type) == [path |-> path, type |-> type]
Gone(old, new) == Names(old) \ Names(new)

RECURSIVE Changes(_, _, _)
Changes(old, new, path) ==
    IF old = new THEN {}
    ELSE IF old = Null THEN {Change(path, "added")}
    ELSE IF new = Null THEN {Change(path, "removed")}
    ELSE IF ~(IsNested(old) /\ IsNested(new)) THEN {Change(path, "changed")}
    ELSE {Change(Append(path, n), "added") : n \in Names(new) \ Names(old)}
            \cup {Change(Append(path, n), "removed") : n \in Gone(old, new)}
            \cup UNION {Changes(Member(old, n), Member(new, n), Append(path, n)) :
                           n \in Names(old) \cap Names(new)}

-----------------------------------------------------------------------------
VARIABLES prev, next, doc, todo   \* two documents, the result so far, the operations left

vars == <<prev, next, doc, todo>>

Init ==
    /\ prev \in Document /\ next \in Document
    /\ doc = prev /\ todo = ComputePatch(prev, next)

Apply ==
    /\ todo # <<>>
    /\ doc' = ApplyOp(doc, Head(todo)) /\ todo' = Tail(todo)
    /\ UNCHANGED <<prev, next>>

Next == Apply
Spec == Init /\ [][Next]_vars

\* A patch undoes exactly what it was computed for, whatever the records look
\* like: ledger.reconstruct walks back over such patches.  No operation throws.
PatchRestores == todo = <<>> => doc = next

\* Two records that differ never look the same in Collection.diff.
DiffSeesAll == (Changes(prev, next, <<>>) = {}) = (prev = next)

=============================================================================
