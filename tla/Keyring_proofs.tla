--------------------------- MODULE Keyring_proofs ---------------------------
(***************************************************************************)
(* Proofs about the keyrings: whatever the users, collections, records and *)
(* numbers of calls are, keys and records fit, as long as rotations, first *)
(* openings and changes of the secret are not overlapped or cut short, a   *)
(* process does nothing else while it makes a DEK and goes on with none it *)
(* has failed to write, and nobody works with a keyring that is no longer  *)
(* that of the file.                                                       *)
(***************************************************************************)
EXTENDS Keyring, TLAPS

(* What must not happen for the keys to fit.                               *)
Orderly ==
    \A b \in {"cutRotation", "overlapRotation", "overlapOpen", "stale", "unsaved", "split",
              "soleHolder", "unheld", "oldVault", "changeRotating"} : b \notin Allowed

Role     == {"none", "owner", "admin", "operator", "viewer", "client"}
FileType == [role : Role, perms : SUBSET Coll, deks : [Coll -> Nat], by : User \cup {None},
             secret : Nat]
MemType  == [role : Role, perms : SUBSET Coll, deks : [Coll -> Nat], secret : Nat, vault : Nat]
Pcs ==
    {"idle", "create", "dek", "made", "save", "put", "store", "walk", "delete",
     "list", "record", "own", "others", "strip"}
CallType ==
    [op : {"none", "open", "put", "grant", "revoke", "rotate"},
     pc : Pcs,
     coll : Coll \cup {None}, id : Id \cup {None}, dek : Nat, user : User \cup {None},
     file : FileType, strict : BOOLEAN, rotate : BOOLEAN, del : SUBSET User,
     cols : SUBSET Coll, list : SUBSET Coll, todo : SUBSET Id, new : [Coll -> Nat],
     users : SUBSET User]

TypeOK ==
    /\ file \in [User -> FileType] /\ rec \in [Record -> Nat] /\ mem \in [User -> MemType]
    /\ call \in [Slot -> CallType] /\ next \in Nat \ {0} /\ secrets \in Nat
    /\ wanted \in [User -> Nat]

(* The operators below take the files f, the records r, the memories m, the *)
(* calls k and the passphrases w as arguments, so that they say the same   *)
(* before and after a step.                                                *)
FreshOf(f, m, u) ==
    /\ f[u].role # "none" /\ f[u].role = m[u].role
    /\ f[u].deks = m[u].deks /\ f[u].secret = m[u].secret

Turns(q)       == q.pc \in {"list", "record", "own", "others", "strip"}
Turning(k, c)  == \E s \in Slot : Turns(k[s]) /\ c \in k[s].cols

(* The collection has one key, and its records are encrypted with it.      *)
Whole(f, r, c) ==
    /\ \A u, v \in User :
          f[u].deks[c] # 0 /\ f[v].deks[c] # 0 => f[u].deks[c] = f[v].deks[c]
    /\ \A i \in Id : r[<<c, i>>] # 0 => \E u \in User : f[u].deks[c] = r[<<c, i>>]

(* A record that the rotation has not come to.                             *)
Left(q, c, i) == c \in q.list \/ (q.pc = "record" /\ c = q.coll /\ i \in q.todo)

(* A rotation, up to the moment when its user's file has the new keys.     *)
Before(f, r, q, u) ==
    /\ q.list \subseteq q.cols
    /\ q.pc = "own" => q.list = {}
    /\ q.pc = "record" => q.coll \in q.cols \ q.list
    /\ \A c \in q.cols :
          /\ f[u].deks[c] # 0 /\ \A v \in User : f[v].deks[c] \in {0, f[u].deks[c]}
          /\ \A i \in Id : r[<<c, i>>] \in {0, IF Left(q, c, i) THEN f[u].deks[c] ELSE q.new[c]}
    /\ q.pc = "record" => \A i \in q.todo : r[<<q.coll, i>>] # 0

(* A rotation that is taking the old keys from the other files.            *)
After(f, r, q, u) ==
    /\ u \notin q.users
    /\ \A c \in q.cols :
          /\ f[u].deks[c] = q.new[c]
          /\ \A i \in Id : r[<<c, i>>] \in {0, q.new[c]}
          /\ \A v \in User \ {u} :
                f[v].deks[c] # 0 => v \in q.users \/ (q.pc = "strip" /\ v = q.user)
    /\ q.pc = "strip" =>
          /\ q.user \in User \ {u}
          /\ q.file.role = f[q.user].role /\ q.file.secret = f[q.user].secret
          /\ q.file.role # "none"
          /\ \A c \in Coll : q.file.deks[c] = IF c \in q.cols THEN 0 ELSE f[q.user].deks[c]

Turn(f, r, q, u) ==
    /\ \A c \in q.cols : q.new[c] # 0
    /\ q.pc \in {"list", "record", "own"} => Before(f, r, q, u)
    /\ q.pc \in {"others", "strip"} => After(f, r, q, u)

(* A call that makes a DEK: the memory has it when the file has not.       *)
Makes(q) == q.pc \in {"made", "save"}
Saves(f, m, q, u) ==
    /\ f[u].role # "none" /\ f[u].role = m[u].role /\ f[u].secret = m[u].secret
    /\ q.file.role = f[u].role /\ q.file.secret = f[u].secret /\ q.file.deks = m[u].deks
    /\ \A c \in Coll \ {q.coll} : f[u].deks[c] = m[u].deks[c]
Puts(f, m, q, u) ==
    /\ q.pc \in {"dek", "made", "save", "put"} => q.coll \in Coll /\ q.id \in Id
    /\ Makes(q) => q.dek # 0 /\ \A v \in User : f[v].deks[q.coll] = 0
    /\ q.pc \in {"save", "put"} => q.dek # 0 /\ m[u].deks[q.coll] = q.dek
    /\ q.pc = "save" => Saves(f, m, q, u)
Grants(m, q, u) ==
    q.pc = "store" =>
        /\ q.user \in User /\ q.file.role # "none"
        /\ \A c \in Coll : q.file.deks[c] \in {0, m[u].deks[c]}

(* What holds of a call q of user u.                                       *)
Local(f, r, m, q, u) ==
    /\ q.pc = "idle" => q = Idle
    /\ q.pc = "create" => f[u].role = "none" /\ m[u].role = "none"
    /\ q.pc \notin {"idle", "create", "save"} => FreshOf(f, m, u)
    /\ Puts(f, m, q, u) /\ Grants(m, q, u)
    /\ Turns(q) => Turn(f, r, q, u)

(* What holds of two calls.                                                *)
Apart(p, q) ==
    /\ p.pc = "create" => q.pc # "create"
    /\ Turns(p) => q.pc \in {"idle", "create"}
    /\ Makes(p) /\ Makes(q) => p.coll # q.coll

(* A process that makes a DEK does nothing else.                           *)
Solo(k) == \A s, t \in Slot : s # t /\ s[1] = t[1] /\ Makes(k[s]) => k[t].pc = "idle"

Secrets(f, w) == \A u \in User : f[u].role # "none" => f[u].secret = w[u]
Empty(f)      == \A u \in User : f[u].role = "none" => \A c \in Coll : f[u].deks[c] = 0

IInv ==
    /\ TypeOK
    /\ Secrets(file, wanted) /\ Empty(file)
    /\ \A s \in Slot : Local(file, rec, mem, call[s], s[1])
    /\ \A s, t \in Slot : s # t => Apart(call[s], call[t])
    /\ Solo(call)
    /\ \A c \in Coll : Turning(call, c) \/ Whole(file, rec, c)

-----------------------------------------------------------------------------
LEMMA InvariantGives == IInv => KeysFit
<1> SUFFICES ASSUME IInv PROVE KeysFit
  OBVIOUS
<1>1. ASSUME NEW c \in Coll, NEW i \in Id, rec[<<c, i>>] # 0
      PROVE  \/ \E u \in User : file[u].deks[c] = rec[<<c, i>>]
             \/ \E s \in Slot : Rotating(s) /\ call[s].new[c] = rec[<<c, i>>]
  <2>1. CASE Whole(file, rec, c)
    BY <1>1, <2>1 DEF Whole
  <2>2. CASE Turning(call, c)
    <3> PICK s \in Slot : Turns(call[s]) /\ c \in call[s].cols
      BY <2>2 DEF Turning
    <3>1. Rotating(s) /\ s[1] \in User
      BY DEF Turns, Rotating, Slot
    <3>2. Turn(file, rec, call[s], s[1])
      BY DEF IInv, Local
    <3>3. CASE call[s].pc \in {"list", "record", "own"}
      BY <1>1, <3>1, <3>2, <3>3 DEF Turn, Before
    <3>4. CASE call[s].pc \in {"others", "strip"}
      BY <1>1, <3>1, <3>2, <3>4 DEF Turn, After
    <3> QED
      BY <3>3, <3>4 DEF Turns
  <2> QED
    BY <2>1, <2>2 DEF IInv
<1>2. RecordsReadable
  BY <1>1 DEF RecordsReadable, Record
<1>3. ASSUME \A s \in Slot : call[s] = Idle, NEW u \in User, NEW c \in Coll, file[u].deks[c] # 0
      PROVE  /\ \A v \in User : file[v].deks[c] \in {0, file[u].deks[c]}
             /\ \A i \in Id : rec[<<c, i>>] \in {0, file[u].deks[c]}
  <2>1. ~Turning(call, c)
    BY <1>3 DEF Turning, Turns, Idle
  <2> QED
    BY <1>3, <2>1 DEF IInv, Whole
<1>4. OneDEK
  BY <1>3 DEF OneDEK
<1>5. SecretStays
  BY DEF SecretStays, IInv, Secrets
<1> QED
  BY <1>2, <1>4, <1>5 DEF KeysFit

(* The initial state.                                                      *)
LEMMA Types ==
    /\ NoFile \in FileType /\ NoFile.role = "none" /\ \A c \in Coll : NoFile.deks[c] = 0
    /\ Closed \in MemType /\ Closed.role = "none"
    /\ Idle \in CallType /\ Idle.pc = "idle" /\ Idle.op = "none"
<1>1. ToNone \in [Coll -> Nat] /\ \A c \in Coll : ToNone[c] = 0
  BY DEF ToNone
<1>2. NoFile \in FileType /\ NoFile.role = "none" /\ \A c \in Coll : NoFile.deks[c] = 0
  BY <1>1 DEF NoFile, FileType, Role
<1>3. Closed \in MemType /\ Closed.role = "none"
  BY <1>1 DEF Closed, MemType, Role
<1>4. Idle \in CallType /\ Idle.pc = "idle" /\ Idle.op = "none"
  BY <1>1, <1>2 DEF Idle, CallType, Pcs
<1> QED
  BY <1>2, <1>3, <1>4

(* A slot without a call.                                                  *)
LEMMA IdleFacts ==
    /\ ~Turns(Idle) /\ \A f, r, m, u : Local(f, r, m, Idle, u)
    /\ \A q : Apart(Idle, q) /\ (Apart(q, Idle) <=> TRUE)
<1>1. Idle.pc = "idle"
  BY Types
<1> QED
  BY <1>1 DEF Turns, Local, Puts, Grants, Makes, Apart

LEMMA InitInv == Init => IInv
<1> SUFFICES ASSUME Init PROVE IInv
  OBVIOUS
<1>1. TypeOK
  BY Types DEF Init, TypeOK
<1>2. Secrets(file, wanted) /\ Empty(file)
  BY Types DEF Init, Secrets, Empty
<1>3. \A s \in Slot : Local(file, rec, mem, call[s], s[1])
  BY IdleFacts DEF Init
<1>4. \A s, t \in Slot : s # t => Apart(call[s], call[t])
  BY IdleFacts DEF Init
<1>5. ASSUME NEW c \in Coll PROVE Whole(file, rec, c)
  BY Types DEF Init, Whole, Record
<1>6. Solo(call)
  BY Types DEF Init, Solo, Makes
<1> QED
  BY <1>1, <1>2, <1>3, <1>4, <1>5, <1>6 DEF IInv

-----------------------------------------------------------------------------
(***************************************************************************)
(* A call with one field changed.                                         *)
(***************************************************************************)
SetOp(q, x) == [q EXCEPT !.op = x]
SetPc(q, x) == [q EXCEPT !.pc = x]
SetColl(q, x) == [q EXCEPT !.coll = x]
SetId(q, x) == [q EXCEPT !.id = x]
SetDek(q, x) == [q EXCEPT !.dek = x]
SetUser(q, x) == [q EXCEPT !.user = x]
SetFile(q, x) == [q EXCEPT !.file = x]
SetStrict(q, x) == [q EXCEPT !.strict = x]
SetRotate(q, x) == [q EXCEPT !.rotate = x]
SetDel(q, x) == [q EXCEPT !.del = x]
SetCols(q, x) == [q EXCEPT !.cols = x]
SetList(q, x) == [q EXCEPT !.list = x]
SetTodo(q, x) == [q EXCEPT !.todo = x]
SetNew(q, x) == [q EXCEPT !.new = x]
SetUsers(q, x) == [q EXCEPT !.users = x]

(* g is q but for the field f.                                             *)
SameBut(g, q, f) ==
    /\ f = "op" \/ g.op = q.op
    /\ f = "pc" \/ g.pc = q.pc
    /\ f = "coll" \/ g.coll = q.coll
    /\ f = "id" \/ g.id = q.id
    /\ f = "dek" \/ g.dek = q.dek
    /\ f = "user" \/ g.user = q.user
    /\ f = "file" \/ g.file = q.file
    /\ f = "strict" \/ g.strict = q.strict
    /\ f = "rotate" \/ g.rotate = q.rotate
    /\ f = "del" \/ g.del = q.del
    /\ f = "cols" \/ g.cols = q.cols
    /\ f = "list" \/ g.list = q.list
    /\ f = "todo" \/ g.todo = q.todo
    /\ f = "new" \/ g.new = q.new
    /\ f = "users" \/ g.users = q.users

LEMMA OpSet ==
    ASSUME NEW q \in CallType, NEW x \in {"none", "open", "put", "grant", "revoke", "rotate"}
    PROVE  /\ SetOp(q, x) \in CallType /\ SetOp(q, x).op = x
           /\ SameBut(SetOp(q, x), q, "op")
  BY DEF SetOp, CallType, SameBut

LEMMA PcSet ==
    ASSUME NEW q \in CallType, NEW x \in Pcs
    PROVE  /\ SetPc(q, x) \in CallType /\ SetPc(q, x).pc = x
           /\ SameBut(SetPc(q, x), q, "pc")
  BY DEF SetPc, CallType, SameBut

LEMMA CollSet ==
    ASSUME NEW q \in CallType, NEW x \in Coll \cup {None}
    PROVE  /\ SetColl(q, x) \in CallType /\ SetColl(q, x).coll = x
           /\ SameBut(SetColl(q, x), q, "coll")
  BY DEF SetColl, CallType, SameBut

LEMMA IdSet ==
    ASSUME NEW q \in CallType, NEW x \in Id \cup {None}
    PROVE  /\ SetId(q, x) \in CallType /\ SetId(q, x).id = x
           /\ SameBut(SetId(q, x), q, "id")
  BY DEF SetId, CallType, SameBut

LEMMA DekSet ==
    ASSUME NEW q \in CallType, NEW x \in Nat
    PROVE  /\ SetDek(q, x) \in CallType /\ SetDek(q, x).dek = x
           /\ SameBut(SetDek(q, x), q, "dek")
  BY DEF SetDek, CallType, SameBut

LEMMA UserSet ==
    ASSUME NEW q \in CallType, NEW x \in User \cup {None}
    PROVE  /\ SetUser(q, x) \in CallType /\ SetUser(q, x).user = x
           /\ SameBut(SetUser(q, x), q, "user")
  BY DEF SetUser, CallType, SameBut

LEMMA FileSet ==
    ASSUME NEW q \in CallType, NEW x \in FileType
    PROVE  /\ SetFile(q, x) \in CallType /\ SetFile(q, x).file = x
           /\ SameBut(SetFile(q, x), q, "file")
  BY DEF SetFile, CallType, SameBut

LEMMA StrictSet ==
    ASSUME NEW q \in CallType, NEW x \in BOOLEAN
    PROVE  /\ SetStrict(q, x) \in CallType /\ SetStrict(q, x).strict = x
           /\ SameBut(SetStrict(q, x), q, "strict")
  BY DEF SetStrict, CallType, SameBut

LEMMA RotateSet ==
    ASSUME NEW q \in CallType, NEW x \in BOOLEAN
    PROVE  /\ SetRotate(q, x) \in CallType /\ SetRotate(q, x).rotate = x
           /\ SameBut(SetRotate(q, x), q, "rotate")
  BY DEF SetRotate, CallType, SameBut

LEMMA DelSet ==
    ASSUME NEW q \in CallType, NEW x \in SUBSET User
    PROVE  /\ SetDel(q, x) \in CallType /\ SetDel(q, x).del = x
           /\ SameBut(SetDel(q, x), q, "del")
  BY DEF SetDel, CallType, SameBut

LEMMA ColsSet ==
    ASSUME NEW q \in CallType, NEW x \in SUBSET Coll
    PROVE  /\ SetCols(q, x) \in CallType /\ SetCols(q, x).cols = x
           /\ SameBut(SetCols(q, x), q, "cols")
  BY DEF SetCols, CallType, SameBut

LEMMA ListSet ==
    ASSUME NEW q \in CallType, NEW x \in SUBSET Coll
    PROVE  /\ SetList(q, x) \in CallType /\ SetList(q, x).list = x
           /\ SameBut(SetList(q, x), q, "list")
  BY DEF SetList, CallType, SameBut

LEMMA TodoSet ==
    ASSUME NEW q \in CallType, NEW x \in SUBSET Id
    PROVE  /\ SetTodo(q, x) \in CallType /\ SetTodo(q, x).todo = x
           /\ SameBut(SetTodo(q, x), q, "todo")
  BY DEF SetTodo, CallType, SameBut

LEMMA NewSet ==
    ASSUME NEW q \in CallType, NEW x \in [Coll -> Nat]
    PROVE  /\ SetNew(q, x) \in CallType /\ SetNew(q, x).new = x
           /\ SameBut(SetNew(q, x), q, "new")
  BY DEF SetNew, CallType, SameBut

LEMMA UsersSet ==
    ASSUME NEW q \in CallType, NEW x \in SUBSET User
    PROVE  /\ SetUsers(q, x) \in CallType /\ SetUsers(q, x).users = x
           /\ SameBut(SetUsers(q, x), q, "users")
  BY DEF SetUsers, CallType, SameBut

-----------------------------------------------------------------------------
(***************************************************************************)
(* A step of one call.                                                    *)
(***************************************************************************)
(* A process that makes a DEK does nothing else when the call in slot s of *)
(* the calls k becomes g.                                                  *)
Room(k, s, g) ==
    \/ g.pc = "idle"
    \/ k[s].pc # "idle" /\ ~Makes(g)
    \/ ~Makes(g) /\ \A t \in Slot \ {s} : t[1] = s[1] => ~Makes(k[t])
    \/ \A t \in Slot \ {s} : t[1] = s[1] => k[t].pc = "idle"

LEMMA SoloStep ==
    ASSUME NEW k \in [Slot -> CallType], Solo(k), NEW s \in Slot, NEW g \in CallType, Room(k, s, g)
    PROVE  Solo([k EXCEPT ![s] = g])
<1> DEFINE h == [k EXCEPT ![s] = g]
<1>1. h[s] = g /\ \A t \in Slot \ {s} : h[t] = k[t]
  OBVIOUS
<1> HIDE DEF h
<1> SUFFICES ASSUME NEW a \in Slot, NEW b \in Slot, a # b, a[1] = b[1], Makes(h[a])
             PROVE  h[b].pc = "idle"
  BY DEF Solo, h
<1>2. CASE a # s /\ b # s
  BY <1>1, <1>2 DEF Solo
<1>3. CASE a = s
  <2>1. Makes(g) /\ b \in Slot \ {s} /\ b[1] = s[1] /\ h[b] = k[b]
    BY <1>1, <1>3
  <2> QED
    BY <2>1 DEF Room, Makes
<1>4. CASE b = s
  <2>1. Makes(k[a]) /\ a \in Slot \ {s} /\ a[1] = s[1] /\ h[b] = g
    BY <1>1, <1>4
  <2>2. k[s].pc = "idle" /\ k[a].pc # "idle"
    BY <2>1 DEF Solo, Makes
  <2> QED
    BY <2>1, <2>2 DEF Room
<1> QED
  BY <1>2, <1>3, <1>4

(* What is left to show of a step of one call.                             *)
LEMMA OneCall ==
    ASSUME IInv, NEW s \in Slot, NEW g \in CallType, call' = [call EXCEPT ![s] = g],
           file' \in [User -> FileType], rec' \in [Record -> Nat], mem' \in [User -> MemType],
           next' \in Nat \ {0}, secrets' \in Nat, wanted' \in [User -> Nat],
           Secrets(file', wanted'), Empty(file'),
           Local(file', rec', mem', g, s[1]),
           \A t \in Slot \ {s} : Local(file', rec', mem', call[t], t[1]),
           \A t \in Slot \ {s} : Apart(g, call[t]) /\ Apart(call[t], g),
           Room(call, s, g),
           \A c \in Coll : Turning(call', c) \/ Whole(file', rec', c)
    PROVE  IInv'
<1>1. /\ call' \in [Slot -> CallType] /\ call'[s] = g
      /\ \A t \in Slot \ {s} : call'[t] = call[t]
  BY DEF IInv, TypeOK
<1>2. TypeOK'
  BY <1>1 DEF TypeOK
<1>3. ASSUME NEW t \in Slot PROVE Local(file', rec', mem', call'[t], t[1])
  BY <1>1
<1>4. ASSUME NEW t1 \in Slot, NEW t2 \in Slot, t1 # t2 PROVE Apart(call'[t1], call'[t2])
  <2>1. CASE t1 = s
    BY <1>1, <1>4, <2>1
  <2>2. CASE t2 = s
    BY <1>1, <1>4, <2>2
  <2>3. CASE t1 # s /\ t2 # s
    BY <1>1, <1>4, <2>3 DEF IInv
  <2> QED
    BY <2>1, <2>2, <2>3
<1>5. Solo(call')
  BY SoloStep DEF IInv, TypeOK
<1> QED
  BY <1>2, <1>3, <1>4, <1>5 DEF IInv

(* Which collections are rotated depends on the call that steps.           *)
LEMMA TurningStep ==
    ASSUME NEW k \in [Slot -> CallType], NEW s \in Slot, NEW g, NEW c \in Coll,
           Turning(k, c), ~Turns(k[s]) \/ (Turns(g) /\ g.cols = k[s].cols)
    PROVE  Turning([k EXCEPT ![s] = g], c)
<1> PICK t \in Slot : Turns(k[t]) /\ c \in k[t].cols
  BY DEF Turning
<1> DEFINE h == [k EXCEPT ![s] = g]
<1>1. CASE t = s
  <2>1. h[s] = g
    OBVIOUS
  <2> HIDE DEF h
  <2>2. Turns(h[s]) /\ c \in h[s].cols
    BY <1>1, <2>1
  <2> QED
    BY <2>2 DEF Turning
<1>2. CASE t # s
  <2>1. h[t] = k[t]
    BY <1>2
  <2> HIDE DEF h
  <2> QED
    BY <2>1 DEF Turning
<1> QED
  BY <1>1, <1>2

(* A step that changes nothing but the call.                               *)
LEMMA CallStep ==
    ASSUME IInv, NEW s \in Slot, NEW g \in CallType, call' = [call EXCEPT ![s] = g],
           UNCHANGED <<file, rec, mem, wanted>>, next' \in Nat \ {0}, secrets' \in Nat,
           Local(file, rec, mem, g, s[1]), Room(call, s, g),
           \A t \in Slot \ {s} : Apart(g, call[t]) /\ Apart(call[t], g),
           \/ ~Turns(call[s]) \/ (Turns(g) /\ g.cols = call[s].cols)
           \/ \A c \in Coll : Whole(file, rec, c)
    PROVE  IInv'
<1>1. ASSUME NEW c \in Coll PROVE Turning(call', c) \/ Whole(file', rec', c)
  <2>1. CASE Whole(file, rec, c)
    BY <2>1
  <2>2. CASE ~Whole(file, rec, c)
    <3>1. Turning(call, c) /\ call \in [Slot -> CallType]
      BY <2>2 DEF IInv, TypeOK
    <3>2. Turning([call EXCEPT ![s] = g], c)
      BY <2>2, <3>1, TurningStep
    <3> QED
      BY <3>2
  <2> QED
    BY <2>1, <2>2
<1>2. \A t \in Slot \ {s} : Local(file', rec', mem', call[t], t[1])
  BY DEF IInv
<1>3. Secrets(file', wanted') /\ Empty(file') /\ Local(file', rec', mem', g, s[1])
  BY DEF IInv
<1>4. /\ file' \in [User -> FileType] /\ rec' \in [Record -> Nat] /\ mem' \in [User -> MemType]
      /\ wanted' \in [User -> Nat]
  BY DEF IInv, TypeOK
<1> QED
  BY <1>1, <1>2, <1>3, <1>4, OneCall

(* A call that ends.                                                       *)
LEMMA EndStep ==
    ASSUME IInv, NEW s \in Slot, Ends(s), UNCHANGED <<file, rec, mem, wanted>>,
           next' \in Nat \ {0}, secrets' \in Nat,
           ~Turns(call[s]) \/ \A c \in Coll : Whole(file, rec, c)
    PROVE  IInv'
<1>1. call' = [call EXCEPT ![s] = Idle] /\ Idle \in CallType
  BY Types DEF Ends, Goto
<1>2. Local(file, rec, mem, Idle, s[1])
  BY IdleFacts
<1>3. \A t \in Slot \ {s} : Apart(Idle, call[t]) /\ Apart(call[t], Idle)
  BY IdleFacts
<1>4. Room(call, s, Idle)
  BY Types DEF Room
<1> QED
  BY <1>1, <1>2, <1>3, <1>4, CallStep

(* A process whose keyring is that of the file, and one that makes no DEK. *)
LEMMA FreshGives ==
    ASSUME Orderly, IInv, NEW u \in User, Fresh(u)
    PROVE  FreshOf(file, mem, u)
<1>1. file[u].deks \in [Coll -> Nat] /\ mem[u].deks \in [Coll -> Nat]
  BY DEF IInv, TypeOK, FileType, MemType
<1>2. \A c \in Coll : file[u].deks[c] = mem[u].deks[c]
  BY DEF Fresh, Orderly
<1>3. file[u].deks = mem[u].deks
  BY <1>1, <1>2
<1> QED
  BY <1>3 DEF Fresh, FreshOf

LEMMA NotMaking ==
    ASSUME NEW u \in User, ~Making(u)
    PROVE  \A t \in Slot : t[1] = u => ~Makes(call[t])
<1> SUFFICES ASSUME NEW t \in Slot, t[1] = u PROVE ~Makes(call[t])
  OBVIOUS
<1>1. t = <<u, t[2]>> /\ t[2] \in 1..MaxCalls
  BY DEF Slot
<1> QED
  BY <1>1 DEF Making, Makes

(* An action begins.                                                       *)
LEMMA Begins ==
    ASSUME Orderly, IInv, NEW s \in Slot, NEW q, Acts(s, q)
    PROVE  /\ call[s] = Idle /\ call' = [call EXCEPT ![s] = q] /\ s[1] \in User
           /\ FreshOf(file, mem, s[1])
           /\ \A t \in Slot : ~Turns(call[t])
           /\ \A t \in Slot \ {s} : t[1] = s[1] => ~Makes(call[t])
<1>1. \A t \in Slot : ~Turns(call[t])
  BY DEF Acts, Orderly, Rotating, Turns
<1>2. s[1] \in User
  BY DEF Slot
<1>3. FreshOf(file, mem, s[1])
  BY <1>2, FreshGives DEF Acts, Orderly
<1>4. \A t \in Slot \ {s} : t[1] = s[1] => ~Makes(call[t])
  BY <1>2, NotMaking DEF Acts, Orderly
<1> QED
  BY <1>1, <1>2, <1>3, <1>4 DEF Acts, Goto

(* Nobody else rotates while a call is in progress.                        *)
LEMMA NoTurn ==
    ASSUME IInv, NEW s \in Slot, call[s].pc \notin {"idle", "create"}
    PROVE  \A t \in Slot \ {s} : ~Turns(call[t])
  BY DEF IInv, Apart

(* Most calls keep out of the way of each other.                           *)
LEMMA Plain ==
    ASSUME NEW p, NEW q, p.pc \notin {"create", "made", "save"}, ~Turns(p), ~Turns(q)
    PROVE  Apart(p, q) /\ Apart(q, p)
  BY DEF Apart, Makes

LEMMA BeginPutKeeps ==
    ASSUME Orderly, IInv, NEW s \in Slot, NEW c \in Coll, NEW i \in Id, BeginPut(s, c, i)
    PROVE  IInv'
<1> DEFINE g1 == SetOp(Idle, "put")
           g2 == SetPc(g1, "dek")
           g3 == SetColl(g2, c)
           g  == SetId(g3, i)
<1>1. Acts(s, g) /\ UNCHANGED <<file, rec, mem, next, secrets, wanted>>
  BY DEF BeginPut, SetOp, SetPc, SetColl, SetId, history
<1>2. g1 \in CallType
  BY Types, OpSet
<1> HIDE DEF g1
<1>3. g2 \in CallType /\ g2.pc = "dek"
  BY <1>2, PcSet DEF Pcs
<1> HIDE DEF g2
<1>4. g3 \in CallType /\ g3.pc = "dek" /\ g3.coll = c
  BY <1>3, CollSet DEF SameBut
<1> HIDE DEF g3
<1>5. g \in CallType /\ g.pc = "dek" /\ g.coll = c /\ g.id = i
  BY <1>4, IdSet DEF SameBut
<1> HIDE DEF g
<1>6. /\ call[s] = Idle /\ call' = [call EXCEPT ![s] = g] /\ FreshOf(file, mem, s[1])
      /\ \A t \in Slot : ~Turns(call[t])
      /\ Room(call, s, g)
  BY <1>1, <1>5, Begins DEF Room, Makes
<1>7. Local(file, rec, mem, g, s[1])
  BY <1>5, <1>6 DEF Local, Puts, Grants, Makes, Turns
<1>8. \A t \in Slot \ {s} : Apart(g, call[t]) /\ Apart(call[t], g)
  BY <1>5, <1>6, Plain DEF Turns
<1>9. next' \in Nat \ {0} /\ secrets' \in Nat
  BY <1>1 DEF IInv, TypeOK
<1> QED
  BY <1>1, <1>5, <1>6, <1>7, <1>8, <1>9, CallStep

LEMMA GetDEKKeeps ==
    ASSUME Orderly, IInv, NEW s \in Slot, GetDEK(s)
    PROVE  IInv'
<1> PICK q \in CallType : q = call[s]
  BY DEF IInv, TypeOK
<1> PICK u \in User : u = s[1]
  BY DEF Slot
<1>1. q.pc = "dek" /\ UNCHANGED <<file, rec, mem, secrets, wanted>>
  BY DEF GetDEK, history
<1>2. /\ Local(file, rec, mem, q, u) /\ FreshOf(file, mem, u) /\ q.coll \in Coll /\ q.id \in Id
      /\ next \in Nat \ {0} /\ secrets' \in Nat /\ mem[u].deks[q.coll] \in Nat
  BY <1>1 DEF IInv, Local, Puts, TypeOK, MemType
<1>3. \A t \in Slot \ {s} : ~Turns(call[t])
  BY <1>1, NoTurn
<1>4. CASE mem[u].deks[q.coll] # 0
  <2> PICK d \in Nat : d = mem[u].deks[q.coll]
    BY <1>2
  <2> DEFINE g1 == SetPc(q, "put")
             g  == SetDek(g1, d)
  <2>1. call' = [call EXCEPT ![s] = g] /\ next' = next
    BY <1>4 DEF GetDEK, Goto, SetPc, SetDek
  <2>2. g1 \in CallType /\ g1.pc = "put" /\ g1.coll = q.coll /\ g1.id = q.id
    BY PcSet DEF Pcs, SameBut
  <2> HIDE DEF g1
  <2>3. g \in CallType /\ g.pc = "put" /\ g.coll = q.coll /\ g.id = q.id /\ g.dek = d
    <3>1. g \in CallType /\ g.dek = d /\ SameBut(g, g1, "dek")
      BY <2>2, DekSet
    <3> QED
      BY <2>2, <3>1 DEF SameBut
  <2> HIDE DEF g
  <2>4. Local(file, rec, mem, g, u)
    BY <1>2, <1>4, <2>3 DEF Local, Puts, Grants, Makes, Turns
  <2>5. \A t \in Slot \ {s} : Apart(g, call[t]) /\ Apart(call[t], g)
    BY <1>3, <2>3, Plain DEF Turns
  <2>6. Room(call, s, g)
    BY <1>1, <2>3 DEF Room, Makes
  <2> QED
    BY <1>1, <1>2, <2>1, <2>3, <2>4, <2>5, <2>6, CallStep DEF Turns
<1>5. CASE mem[u].deks[q.coll] = 0
  <2> DEFINE g1 == SetPc(q, "made")
             g  == SetDek(g1, next)
  <2>1. /\ call' = [call EXCEPT ![s] = g] /\ next' = next + 1
        /\ \A v \in User : file[v].deks[q.coll] = 0
        /\ \A t \in Slot \ {s} : call[t].coll # q.coll
        /\ ~Else(s)
    BY <1>5 DEF GetDEK, Goto, SetPc, SetDek, Orderly
  <2>2. g1 \in CallType /\ g1.pc = "made" /\ g1.coll = q.coll /\ g1.id = q.id
    BY PcSet DEF Pcs, SameBut
  <2> HIDE DEF g1
  <2>3. g \in CallType /\ g.pc = "made" /\ g.coll = q.coll /\ g.id = q.id /\ g.dek = next
    <3>1. next \in Nat
      BY <1>2
    <3>2. g \in CallType /\ g.dek = next /\ SameBut(g, g1, "dek")
      BY <2>2, <3>1, DekSet
    <3> QED
      BY <2>2, <3>2 DEF SameBut
  <2> HIDE DEF g
  <2>4. Local(file, rec, mem, g, u)
    BY <1>2, <2>1, <2>3 DEF Local, Puts, Grants, Makes, Turns
  <2>5. \A t \in Slot \ {s} : Apart(g, call[t]) /\ Apart(call[t], g)
    BY <1>3, <2>1, <2>3 DEF Turns, Makes, Apart
  <2>6. next' \in Nat \ {0}
    BY <1>2, <2>1
  <2>7. ASSUME NEW t \in Slot \ {s}, t[1] = s[1] PROVE call[t].pc = "idle"
    <3>1. t = <<s[1], t[2]>> /\ t[2] \in 1..MaxCalls
      BY <2>7 DEF Slot
    <3>2. call[t] = Idle
      BY <2>1, <3>1 DEF Else
    <3> QED
      BY <3>2, Types
  <2>8. Room(call, s, g)
    BY <2>7 DEF Room
  <2> QED
    BY <1>1, <1>2, <2>1, <2>3, <2>4, <2>5, <2>6, <2>8, CallStep DEF Turns
<1> QED
  BY <1>4, <1>5

(* A call of another user, when a file changes.                            *)
LEMMA Others ==
    ASSUME NEW f, NEW r, NEW m, NEW f2, NEW r2, NEW m2, NEW q, NEW u,
           Local(f, r, m, q, u), ~Turns(q), f2[u] = f[u], m2[u] = m[u],
           Makes(q) => \A v \in User : f2[v].deks[q.coll] = 0
    PROVE  Local(f2, r2, m2, q, u)
  BY DEF Local, Puts, Saves, Grants, FreshOf

(* The users of the slots.                                                 *)
LEMMA Users == \A t \in Slot : t[1] \in User
  BY DEF Slot

(* A collection is whole when nobody rotates.                              *)
LEMMA AllWhole ==
    ASSUME IInv, \A t \in Slot : ~Turns(call[t])
    PROVE  \A c \in Coll : Whole(file, rec, c)
  BY DEF IInv, Turning

LEMMA PutRecordKeeps ==
    ASSUME Orderly, IInv, NEW s \in Slot, PutRecord(s)
    PROVE  IInv'
<1> PICK q \in CallType : q = call[s]
  BY DEF IInv, TypeOK
<1> PICK u \in User : u = s[1]
  BY Users
<1>1. /\ q.pc = "put" /\ UNCHANGED <<file, mem, next, secrets, wanted>>
      /\ rec' = [rec EXCEPT ![<<q.coll, q.id>>] = q.dek]
      /\ call' = [call EXCEPT ![s] = Idle]
  BY DEF PutRecord, history, Ends, Goto
<1>2. /\ FreshOf(file, mem, u) /\ q.coll \in Coll /\ q.id \in Id /\ q.dek # 0 /\ q.dek \in Nat
      /\ mem[u].deks[q.coll] = q.dek /\ file[u].deks[q.coll] = q.dek
  BY <1>1 DEF IInv, Local, Puts, CallType, FreshOf
<1>3. \A t \in Slot : ~Turns(call[t])
  BY <1>1, NoTurn DEF Turns
<1>4. \A c \in Coll : Whole(file, rec, c)
  BY <1>3, AllWhole
<1>5. ASSUME NEW c \in Coll PROVE Whole(file', rec', c)
  <2>1. \A i \in Id : rec'[<<c, i>>] = IF c = q.coll /\ i = q.id THEN q.dek ELSE rec[<<c, i>>]
    BY <1>1, <1>2 DEF IInv, TypeOK, Record
  <2> QED
    BY <1>1, <1>2, <1>4, <2>1 DEF Whole
<1>6. \A t \in Slot \ {s} : Local(file', rec', mem', call[t], t[1])
  <2> SUFFICES ASSUME NEW t \in Slot \ {s} PROVE Local(file', rec', mem', call[t], t[1])
    OBVIOUS
  <2>1. Local(file, rec, mem, call[t], t[1]) /\ ~Turns(call[t])
    BY <1>3 DEF IInv
  <2>2. Makes(call[t]) => \A v \in User : file[v].deks[call[t].coll] = 0
    BY <2>1 DEF Local, Puts
  <2>3. file' = file /\ mem' = mem
    BY <1>1
  <2> QED
    BY <2>1, <2>2, <2>3 DEF Local, Puts, Saves, Grants, FreshOf
<1>7. Local(file', rec', mem', Idle, s[1]) /\ Idle \in CallType
  BY IdleFacts, Types
<1>8. \A t \in Slot \ {s} : Apart(Idle, call[t]) /\ Apart(call[t], Idle)
  BY IdleFacts
<1>9. /\ file' \in [User -> FileType] /\ rec' \in [Record -> Nat] /\ mem' \in [User -> MemType]
      /\ next' \in Nat \ {0} /\ secrets' \in Nat /\ wanted' \in [User -> Nat]
      /\ Secrets(file', wanted') /\ Empty(file')
  BY <1>1, <1>2 DEF IInv, TypeOK
<1>10. Room(call, s, Idle)
  BY Types DEF Room
<1> QED
  BY <1>1, <1>5, <1>6, <1>7, <1>8, <1>9, <1>10, OneCall

LEMMA LoadKeyringKeeps ==
    ASSUME Orderly, IInv, NEW s \in Slot, LoadKeyring(s)
    PROVE  IInv'
<1> PICK u \in User : u = s[1]
  BY Users
<1>0. /\ ~Open(u) /\ call[s] = Idle /\ UNCHANGED <<file, rec, next, secrets, wanted>>
      /\ next \in Nat \ {0} /\ secrets \in Nat
  BY DEF LoadKeyring, history, IInv, TypeOK
<1>1. CASE file[u].role = "none"
  <2> DEFINE g1 == SetOp(Idle, "open")
             g  == SetPc(g1, "create")
  <2>1. /\ call' = [call EXCEPT ![s] = g] /\ mem' = mem
        /\ \A t \in Slot : call[t].pc # "create"
    BY <1>1 DEF LoadKeyring, Goto, SetOp, SetPc, Quiet, Orderly
  <2>2. g1 \in CallType
    BY Types, OpSet
  <2> HIDE DEF g1
  <2>3. g \in CallType /\ g.pc = "create"
    BY <2>2, PcSet DEF Pcs
  <2> HIDE DEF g
  <2>4. Local(file, rec, mem, g, u)
    BY <1>0, <1>1, <2>3 DEF Local, Puts, Grants, Makes, Turns, Open
  <2>5. \A t \in Slot \ {s} : Apart(g, call[t]) /\ Apart(call[t], g)
    BY <2>1, <2>3 DEF Apart, Makes, Turns
  <2>6. ~Turns(call[s])
    BY <1>0, IdleFacts
  <2>7. ASSUME NEW t \in Slot \ {s}, t[1] = s[1] PROVE ~Makes(call[t])
    <3>1. Local(file, rec, mem, call[t], u)
      BY <2>7 DEF IInv
    <3> QED
      BY <1>0, <3>1 DEF Local, Puts, Saves, FreshOf, Makes, Open
  <2>8. Room(call, s, g)
    BY <2>3, <2>7 DEF Room, Makes
  <2> QED
    BY <1>0, <2>1, <2>3, <2>4, <2>5, <2>6, <2>8, CallStep
<1>2. CASE file[u].role # "none"
  <2> PICK m \in MemType : mem' = [mem EXCEPT ![u] = m]
    <3>1. file[u] \in FileType /\ wanted[u] \in Nat
      BY DEF IInv, TypeOK
    <3> DEFINE m == [role |-> file[u].role, perms |-> file[u].perms, deks |-> file[u].deks,
                     secret |-> wanted[u], vault |-> wanted[u]]
    <3>2. mem' = [mem EXCEPT ![u] = m]
      BY <1>2 DEF LoadKeyring
    <3>3. m \in MemType
      BY <3>1 DEF FileType, MemType
    <3> HIDE DEF m
    <3> QED
      BY <3>2, <3>3
  <2>1. call' = call
    BY <1>2 DEF LoadKeyring
  <2>2. \A v \in User \ {u} : mem'[v] = mem[v]
    OBVIOUS
  <2>3. \A t \in Slot : Local(file', rec', mem', call'[t], t[1])
    <3> SUFFICES ASSUME NEW t \in Slot PROVE Local(file, rec, mem', call[t], t[1])
      BY <1>0, <2>1
    <3>1. Local(file, rec, mem, call[t], t[1]) /\ t[1] \in User
      BY Users DEF IInv
    <3>2. CASE t[1] = u
      <4>1. call[t].pc \in {"idle"}
        BY <1>0, <1>2, <3>1, <3>2 DEF Local, Puts, Saves, FreshOf, Open
      <4> QED
        BY <3>1, <4>1, IdleFacts DEF Local
    <3>3. CASE t[1] # u
      BY <2>2, <3>1, <3>3 DEF Local, Puts, Saves, Grants, FreshOf
    <3> QED
      BY <3>2, <3>3
  <2>4. TypeOK'
    BY <1>0, <2>1 DEF IInv, TypeOK
  <2>5. Secrets(file', wanted') /\ Empty(file')
    BY <1>0 DEF IInv
  <2>6. \A c \in Coll : Turning(call', c) \/ Whole(file', rec', c)
    BY <1>0, <2>1 DEF IInv
  <2>7. \A t1, t2 \in Slot : t1 # t2 => Apart(call'[t1], call'[t2])
    BY <2>1 DEF IInv
  <2>8. Solo(call')
    BY <2>1 DEF IInv
  <2> QED
    BY <2>3, <2>4, <2>5, <2>6, <2>7, <2>8 DEF IInv
<1> QED
  BY <1>1, <1>2

(* The memory has the new DEK before the file.                             *)
LEMMA EnsureKeeps ==
    ASSUME Orderly, IInv, NEW s \in Slot, EnsureCollectionDEK(s)
    PROVE  IInv'
<1> PICK q \in CallType : q = call[s]
  BY DEF IInv, TypeOK
<1> PICK u \in User : u = s[1]
  BY Users
<1>1. q.pc = "made" /\ UNCHANGED <<file, rec, next, secrets, wanted>>
  BY DEF EnsureCollectionDEK, history
<1>2. /\ FreshOf(file, mem, u) /\ q.coll \in Coll /\ q.id \in Id /\ q.dek # 0 /\ q.dek \in Nat
      /\ \A v \in User : file[v].deks[q.coll] = 0
      /\ mem[u] \in MemType
  BY <1>1 DEF IInv, TypeOK, Local, Puts, Makes, CallType
<1>3. \A t \in Slot : ~Turns(call[t])
  BY <1>1, NoTurn DEF Turns
<1>4. ASSUME NEW t \in Slot \ {s}, t[1] = u PROVE call[t] = Idle
  <2>1. call[t].pc = "idle"
    BY <1>1, <1>4 DEF IInv, Solo, Makes
  <2> QED
    BY <2>1 DEF IInv, Local
<1>5. PICK m \in MemType, f \in FileType :
         /\ mem' = [mem EXCEPT ![u] = m]
         /\ call' = [call EXCEPT ![s] = [q EXCEPT !.pc = "save", !.file = f]]
         /\ m.role = mem[u].role /\ f.role = m.role /\ f.deks = m.deks
         /\ m.secret = mem[u].secret /\ f.secret = mem[u].secret
         /\ \A c \in Coll : m.deks[c] = IF c = q.coll THEN q.dek ELSE mem[u].deks[c]
  <2> DEFINE m == [mem[u] EXCEPT !.deks[q.coll] = q.dek]
             f == Persisted(u, m, m.vault)
  <2>1. /\ mem' = [mem EXCEPT ![u] = m] /\ m.vault = m.secret
        /\ call' = [call EXCEPT ![s] = [q EXCEPT !.pc = "save", !.file = f]]
    BY DEF EnsureCollectionDEK, Goto, Orderly
  <2>2. /\ m \in MemType /\ m.role = mem[u].role /\ m.secret = mem[u].secret
        /\ \A c \in Coll : m.deks[c] = IF c = q.coll THEN q.dek ELSE mem[u].deks[c]
    BY <1>2 DEF MemType
  <2> HIDE DEF m
  <2>3. f \in FileType /\ f.role = m.role /\ f.deks = m.deks /\ f.secret = m.vault
    BY <2>2 DEF Persisted, FileType, MemType
  <2> HIDE DEF f
  <2>4. f.secret = mem[u].secret
    BY <2>1, <2>2, <2>3
  <2> QED
    BY <2>1, <2>2, <2>3, <2>4
<1>6. /\ mem' \in [User -> MemType] /\ mem'[u] = m
      /\ \A v \in User \ {u} : mem'[v] = mem[v]
  BY <1>5 DEF IInv, TypeOK
<1> DEFINE g1 == SetPc(q, "save")
           g  == SetFile(g1, f)
<1>7. call' = [call EXCEPT ![s] = g]
  BY <1>5 DEF SetPc, SetFile
<1>8. g1 \in CallType /\ g1.pc = "save" /\ g1.coll = q.coll /\ g1.id = q.id /\ g1.dek = q.dek
  BY PcSet DEF Pcs, SameBut
<1> HIDE DEF g1
<1>9. /\ g \in CallType /\ g.pc = "save" /\ g.coll = q.coll /\ g.id = q.id /\ g.dek = q.dek
      /\ g.file = f
  BY <1>8, FileSet DEF SameBut
<1> HIDE DEF g
<1>10. Saves(file, mem', g, u)
  BY <1>2, <1>5, <1>6, <1>9 DEF Saves, FreshOf
<1>11. Local(file', rec', mem', g, s[1])
  BY <1>1, <1>2, <1>5, <1>6, <1>9, <1>10 DEF Local, Puts, Makes, Grants, Turns
<1>12. ASSUME NEW t \in Slot \ {s} PROVE Local(file', rec', mem', call[t], t[1])
  <2>1. CASE t[1] = u
    BY <1>4, <2>1, IdleFacts
  <2>2. CASE t[1] # u
    <3> PICK w \in User : w = t[1]
      BY Users
    <3>1. Local(file, rec, mem, call[t], w) /\ ~Turns(call[t]) /\ file' = file /\ mem'[w] = mem[w]
      BY <1>1, <1>3, <1>6, <2>2 DEF IInv
    <3>2. Makes(call[t]) => \A v \in User : file[v].deks[call[t].coll] = 0
      BY <3>1 DEF Local, Puts
    <3>3. ASSUME NEW r2, NEW m2, m2[w] = mem[w] PROVE Local(file, r2, m2, call[t], w)
      BY <3>1, <3>2, <3>3, Others
    <3> QED
      BY <3>1, <3>3
  <2> QED
    BY <2>1, <2>2
<1>13. \A t \in Slot \ {s} : Apart(g, call[t]) /\ Apart(call[t], g)
  BY <1>1, <1>3, <1>9 DEF IInv, Apart, Makes, Turns
<1>14. Room(call, s, g)
  BY <1>4, Types DEF Room
<1>15. \A c \in Coll : Whole(file', rec', c)
  BY <1>1, <1>3, AllWhole
<1>16. /\ Secrets(file', wanted') /\ Empty(file') /\ file' \in [User -> FileType]
       /\ rec' \in [Record -> Nat] /\ next' \in Nat \ {0} /\ secrets' \in Nat
       /\ wanted' \in [User -> Nat]
  BY <1>1 DEF IInv, TypeOK
<1> QED
  BY <1>6, <1>7, <1>9, <1>11, <1>12, <1>13, <1>14, <1>15, <1>16, OneCall

(* Then the file is that of the memory again.                              *)
LEMMA SaveKeeps ==
    ASSUME Orderly, IInv, NEW s \in Slot, SaveDEK(s)
    PROVE  IInv'
<1> PICK q \in CallType : q = call[s]
  BY DEF IInv, TypeOK
<1> PICK u \in User : u = s[1]
  BY Users
<1>1. /\ q.pc = "save" /\ UNCHANGED <<rec, mem, next, secrets, wanted>>
      /\ file' = [file EXCEPT ![u] = q.file]
  BY DEF SaveDEK, history
<1>2. /\ Saves(file, mem, q, u) /\ q.coll \in Coll /\ q.id \in Id /\ q.dek # 0
      /\ mem[u].deks[q.coll] = q.dek /\ q.file \in FileType
      /\ \A v \in User : file[v].deks[q.coll] = 0
  BY <1>1 DEF IInv, Local, Puts, Makes, CallType
<1>3. \A t \in Slot : ~Turns(call[t])
  BY <1>1, NoTurn DEF Turns
<1>4. \A c \in Coll : Whole(file, rec, c)
  BY <1>3, AllWhole
<1>5. /\ file' \in [User -> FileType] /\ file'[u] = q.file
      /\ \A v \in User \ {u} : file'[v] = file[v]
  BY <1>1, <1>2 DEF IInv, TypeOK
<1>6. \A c \in Coll, v \in User :
          file'[v].deks[c] = IF c = q.coll THEN IF v = u THEN q.dek ELSE 0 ELSE file[v].deks[c]
  BY <1>2, <1>5 DEF Saves
<1>7. ASSUME NEW c \in Coll PROVE Whole(file', rec', c)
  BY <1>1, <1>2, <1>4, <1>6 DEF Whole
<1>8. FreshOf(file', mem', u)
  BY <1>1, <1>2, <1>5 DEF FreshOf, Saves
<1> DEFINE g1 == SetPc(q, "put")
           g  == SetFile(g1, NoFile)
<1>9. call' = [call EXCEPT ![s] = g]
  BY DEF SaveDEK, Goto, SetPc, SetFile
<1>10. g1 \in CallType /\ g1.pc = "put" /\ g1.coll = q.coll /\ g1.id = q.id /\ g1.dek = q.dek
  BY PcSet DEF Pcs, SameBut
<1> HIDE DEF g1
<1>11. g \in CallType /\ g.pc = "put" /\ g.coll = q.coll /\ g.id = q.id /\ g.dek = q.dek
  BY <1>10, FileSet, Types DEF SameBut
<1> HIDE DEF g
<1>12. Local(file', rec', mem', g, s[1])
  BY <1>1, <1>2, <1>8, <1>11 DEF Local, Puts, Makes, Grants, Turns
<1>13. ASSUME NEW t \in Slot \ {s} PROVE Local(file', rec', mem', call[t], t[1])
  <2> PICK k \in CallType : k = call[t]
    BY DEF IInv, TypeOK
  <2> PICK w \in User : w = t[1]
    BY Users
  <2>1. Local(file, rec, mem, k, w) /\ ~Turns(k) /\ (Makes(k) => k.coll # q.coll)
    BY <1>1, <1>3 DEF IInv, Apart, Makes
  <2>2. Makes(k) => \A v \in User : file'[v].deks[k.coll] = 0
    BY <1>6, <2>1 DEF Local, Puts, Makes
  <2>3. CASE w # u
    <3>1. file'[w] = file[w] /\ mem'[w] = mem[w]
      BY <1>1, <1>5, <2>3
    <3> QED
      BY <2>1, <2>2, <3>1, Others
  <2>4. CASE w = u
    <3>1. k.pc = "idle"
      BY <1>1, <2>4 DEF IInv, Solo, Makes
    <3>2. k = Idle
      BY <2>1, <3>1 DEF Local
    <3> QED
      BY <3>2, IdleFacts
  <2> QED
    BY <2>3, <2>4
<1>14. \A t \in Slot \ {s} : Apart(g, call[t]) /\ Apart(call[t], g)
  BY <1>3, <1>11, Plain DEF Turns
<1>15. Room(call, s, g)
  BY <1>1, <1>11 DEF Room, Makes
<1>16. Secrets(file', wanted') /\ Empty(file')
  BY <1>1, <1>2, <1>5 DEF IInv, Secrets, Empty, Saves
<1>17. /\ rec' \in [Record -> Nat] /\ mem' \in [User -> MemType] /\ next' \in Nat \ {0}
       /\ secrets' \in Nat /\ wanted' \in [User -> Nat]
  BY <1>1 DEF IInv, TypeOK
<1> QED
  BY <1>5, <1>7, <1>9, <1>11, <1>12, <1>13, <1>14, <1>15, <1>16, <1>17, OneCall

(* A call that fails outside of a rotation leaves everything as it is.     *)
LEMMA FailsKeeps ==
    ASSUME Orderly, IInv, NEW s \in Slot, Fails(s)
    PROVE  IInv'
<1>1. /\ Ends(s) /\ UNCHANGED <<file, rec, mem, next, secrets, wanted>>
      /\ ~Turns(call[s])
  BY DEF Fails, history, Orderly, Rotating, Turns
<1>2. next' \in Nat \ {0} /\ secrets' \in Nat
  BY <1>1 DEF IInv, TypeOK
<1> QED
  BY <1>1, <1>2, EndStep

LEMMA BeforeFromDeks ==
    ASSUME NEW f, NEW g, NEW r, NEW q \in CallType, NEW u \in User,
           \A c \in Coll, v \in User : g[v].deks[c] = f[v].deks[c],
           Before(f, r, q, u)
    PROVE  Before(g, r, q, u)
<1>1. q.cols \subseteq Coll
  BY DEF CallType
<1>2. ASSUME NEW c \in q.cols
      PROVE  /\ g[u].deks[c] # 0 /\ \A v \in User : g[v].deks[c] \in {0, g[u].deks[c]}
             /\ \A i \in Id : r[<<c, i>>] \in {0, IF Left(q, c, i) THEN g[u].deks[c] ELSE q.new[c]}
  <2>1. \A v \in User : g[v].deks[c] = f[v].deks[c]
    BY <1>1
  <2>2. /\ f[u].deks[c] # 0 /\ \A v \in User : f[v].deks[c] \in {0, f[u].deks[c]}
        /\ \A i \in Id : r[<<c, i>>] \in {0, IF Left(q, c, i) THEN f[u].deks[c] ELSE q.new[c]}
    BY DEF Before
  <2>3. g[u].deks[c] = f[u].deks[c]
    BY <2>1
  <2> QED
    BY <2>1, <2>2, <2>3
<1> QED
  BY <1>2 DEF Before

LEMMA CreateOwnerKeyringKeeps ==
    ASSUME Orderly, IInv, NEW s \in Slot, CreateOwnerKeyring(s)
    PROVE  IInv'
<1> PICK q \in CallType : q = call[s]
  BY DEF IInv, TypeOK
<1> PICK u \in User : u = s[1]
  BY Users
<1>1. /\ q.pc = "create" /\ UNCHANGED <<rec, next, secrets, wanted>>
      /\ call' = [call EXCEPT ![s] = Idle]
  BY DEF CreateOwnerKeyring, Ends, Goto
<1>2. /\ file[u].role = "none" /\ mem[u].role = "none" /\ wanted[u] \in Nat
      /\ \A c \in Coll : file[u].deks[c] = 0
  BY <1>1 DEF IInv, TypeOK, Local, Empty
<1>3. PICK m \in MemType, f \in FileType :
         /\ mem' = [mem EXCEPT ![u] = m] /\ file' = [file EXCEPT ![u] = f]
         /\ f.role = "owner" /\ f.secret = wanted[u] /\ \A c \in Coll : f.deks[c] = 0
  <2> DEFINE m == [Closed EXCEPT !.role = "owner", !.secret = wanted[u], !.vault = wanted[u]]
             f == Persisted(u, m, m.secret)
  <2>1. mem' = [mem EXCEPT ![u] = m] /\ file' = [file EXCEPT ![u] = f]
    BY DEF CreateOwnerKeyring
  <2>2. /\ m \in MemType /\ m.role = "owner" /\ m.secret = wanted[u]
        /\ m.deks = ToNone
    BY <1>2 DEF MemType, Closed, Role, ToNone
  <2> HIDE DEF m
  <2>3. f \in FileType /\ f.role = "owner" /\ f.deks = ToNone /\ f.secret = wanted[u]
    BY <2>2 DEF Persisted, FileType, MemType
  <2> HIDE DEF f
  <2> QED
    BY <2>1, <2>2, <2>3 DEF ToNone
<1>4. /\ file' \in [User -> FileType] /\ mem' \in [User -> MemType]
      /\ file'[u] = f /\ mem'[u] = m
      /\ \A v \in User \ {u} : file'[v] = file[v] /\ mem'[v] = mem[v]
  BY <1>3 DEF IInv, TypeOK
<1>5. \A c \in Coll, v \in User : file'[v].deks[c] = file[v].deks[c]
  BY <1>2, <1>3, <1>4
<1>6. ASSUME NEW t \in Slot \ {s} PROVE Local(file', rec', mem', call[t], t[1])
  <2> PICK k \in CallType : k = call[t]
    BY DEF IInv, TypeOK
  <2> PICK w \in User : w = t[1]
    BY Users
  <2>1. Local(file, rec, mem, k, w) /\ k.pc # "create"
    BY <1>1 DEF IInv, Apart
  <2>2. CASE w = u
    <3>1. k = Idle
      BY <1>2, <2>1, <2>2 DEF Local, Puts, Saves, FreshOf
    <3> QED
      BY <3>1, IdleFacts
  <2>3. CASE w # u
    <3>1. file'[w] = file[w] /\ mem'[w] = mem[w]
      BY <1>4, <2>3
    <3>2. Puts(file', mem', k, w) /\ Grants(mem', k, w)
      BY <1>5, <2>1, <3>1 DEF Local, Puts, Saves, Makes, Grants
    <3>3. Turns(k) /\ Before(file, rec, k, w) => Before(file', rec', k, w)
      BY <1>1, <1>5, BeforeFromDeks
    <3>4. ASSUME Turns(k), After(file, rec, k, w) PROVE After(file', rec', k, w)
      <4>1. k.pc = "strip" => k.user # u
        BY <1>2, <3>4 DEF After
      <4> QED
        BY <1>1, <1>4, <1>5, <3>4, <4>1 DEF After, CallType
    <3> QED
      BY <2>1, <3>1, <3>2, <3>3, <3>4 DEF Local, FreshOf, Turn
  <2> QED
    BY <2>2, <2>3
<1>7. ASSUME NEW c \in Coll PROVE Turning(call', c) \/ Whole(file', rec', c)
  <2>1. CASE Whole(file, rec, c)
    BY <1>1, <1>5, <2>1 DEF Whole
  <2>2. CASE Turning(call, c)
    BY <1>1, <2>2, TurningStep DEF IInv, TypeOK, Turns
  <2> QED
    BY <2>1, <2>2 DEF IInv
<1>8. Local(file', rec', mem', Idle, s[1]) /\ Idle \in CallType
  BY IdleFacts, Types
<1>9. \A t \in Slot \ {s} : Apart(Idle, call[t]) /\ Apart(call[t], Idle)
  BY IdleFacts
<1>10. Secrets(file', wanted') /\ Empty(file')
  BY <1>1, <1>2, <1>3, <1>4 DEF IInv, Secrets, Empty
<1>11. rec' \in [Record -> Nat] /\ next' \in Nat \ {0} /\ secrets' \in Nat /\ wanted' \in [User -> Nat]
  BY <1>1 DEF IInv, TypeOK
<1>12. Room(call, s, Idle)
  BY Types DEF Room
<1> QED
  BY <1>1, <1>4, <1>6, <1>7, <1>8, <1>9, <1>10, <1>11, <1>12, OneCall

LEMMA CloseKeeps ==
    ASSUME Orderly, IInv, NEW u \in User, Close(u)
    PROVE  IInv'
<1>1. /\ UNCHANGED <<file, rec, next, secrets, wanted>>
      /\ mem' = [mem EXCEPT ![u] = Closed]
      /\ call' = [s \in Slot |-> IF s[1] = u THEN Idle ELSE call[s]]
      /\ \A s \in Slot : s[1] = u => ~Turns(call[s])
  BY DEF Close, history, Orderly, Rotating, Turns
<1>2. TypeOK'
  BY <1>1, Types DEF IInv, TypeOK
<1>3. ASSUME NEW t \in Slot PROVE Local(file', rec', mem', call'[t], t[1])
  <2>1. CASE t[1] = u
    BY <1>1, <2>1, IdleFacts
  <2>2. CASE t[1] # u
    <3>1. Local(file, rec, mem, call[t], t[1]) /\ call'[t] = call[t]
      BY <1>1, <2>2 DEF IInv
    <3>2. mem'[t[1]] = mem[t[1]] /\ file' = file /\ rec' = rec
      BY <1>1, <2>2, Users DEF IInv, TypeOK
    <3> QED
      BY <3>1, <3>2 DEF Local, Puts, Saves, Grants, FreshOf
  <2> QED
    BY <2>1, <2>2
<1>4. ASSUME NEW t1 \in Slot, NEW t2 \in Slot, t1 # t2 PROVE Apart(call'[t1], call'[t2])
  <2>1. CASE t1[1] = u
    BY <1>1, <2>1, IdleFacts
  <2>2. CASE t2[1] = u
    BY <1>1, <2>2, IdleFacts
  <2>3. CASE t1[1] # u /\ t2[1] # u
    BY <1>1, <1>4, <2>3 DEF IInv
  <2> QED
    BY <2>1, <2>2, <2>3
<1>5. ASSUME NEW c \in Coll PROVE Turning(call', c) \/ Whole(file', rec', c)
  <2>1. CASE Whole(file, rec, c)
    BY <1>1, <2>1
  <2>2. CASE Turning(call, c)
    <3> PICK t \in Slot : Turns(call[t]) /\ c \in call[t].cols
      BY <2>2 DEF Turning
    <3>1. call'[t] = call[t]
      BY <1>1
    <3> QED
      BY <3>1 DEF Turning
  <2> QED
    BY <2>1, <2>2 DEF IInv
<1>6. Secrets(file', wanted') /\ Empty(file')
  BY <1>1 DEF IInv
<1>7. Solo(call')
  BY <1>1, Types DEF IInv, Solo, Makes
<1> QED
  BY <1>2, <1>3, <1>4, <1>5, <1>6, <1>7 DEF IInv
LEMMA BeginGrantKeeps ==
    ASSUME Orderly, IInv, NEW s \in Slot, NEW v \in User, NEW role \in Roles,
           NEW perms \in SUBSET Coll, BeginGrant(s, v, role, perms)
    PROVE  IInv'
<1> PICK u \in User : u = s[1]
  BY Users
<1> DEFINE p == IF role \in {"owner", "admin", "viewer"} THEN {} ELSE perms
           d == [c \in Coll |-> IF c \in GrantedColls(role, perms) THEN mem[u].deks[c] ELSE 0]
           f == [role |-> role, perms |-> p, by |-> u, secret |-> 1, deks |-> d]
           g1 == SetOp(Idle, "grant")
           g2 == SetPc(g1, "store")
           g3 == SetUser(g2, v)
           g  == SetFile(g3, f)
<1>1. Acts(s, g) /\ UNCHANGED <<file, rec, mem, next, secrets, wanted>>
  BY DEF BeginGrant, SetOp, SetPc, SetUser, SetFile, history
<1>2. \A c \in Coll : d[c] \in {0, mem[u].deks[c]} /\ d[c] \in Nat
  BY DEF IInv, TypeOK, MemType
<1>3. d \in [Coll -> Nat]
  BY <1>2
<1> HIDE DEF d
<1>4. role \in Role \ {"none"} /\ p \in SUBSET Coll
  BY KeyringAssumption DEF Role
<1> HIDE DEF p
<1>5. f \in FileType /\ f.role # "none" /\ f.deks = d
  BY <1>3, <1>4 DEF FileType
<1> HIDE DEF f
<1>6. g1 \in CallType
  BY Types, OpSet
<1> HIDE DEF g1
<1>7. g2 \in CallType /\ g2.pc = "store"
  BY <1>6, PcSet DEF Pcs
<1> HIDE DEF g2
<1>8. g3 \in CallType /\ g3.pc = "store" /\ g3.user = v
  BY <1>7, UserSet DEF SameBut
<1> HIDE DEF g3
<1>9. g \in CallType /\ g.pc = "store" /\ g.user = v /\ g.file = f
  BY <1>5, <1>8, FileSet DEF SameBut
<1> HIDE DEF g
<1>10. /\ call[s] = Idle /\ call' = [call EXCEPT ![s] = g] /\ FreshOf(file, mem, s[1])
       /\ \A t \in Slot : ~Turns(call[t])
       /\ Room(call, s, g)
  BY <1>1, <1>9, Begins DEF Room, Makes
<1>11. Local(file, rec, mem, g, u)
  BY <1>2, <1>5, <1>9, <1>10 DEF Local, Puts, Makes, Grants, Turns
<1>12. \A t \in Slot \ {s} : Apart(g, call[t]) /\ Apart(call[t], g)
  BY <1>9, <1>10, Plain DEF Turns
<1>13. next' \in Nat \ {0} /\ secrets' \in Nat
  BY <1>1 DEF IInv, TypeOK
<1> QED
  BY <1>1, <1>9, <1>10, <1>11, <1>12, <1>13, CallStep

(* The file of a user that has no call in progress is replaced or deleted. *)
LEMMA Replaced ==
    ASSUME IInv, NEW s \in Slot, NEW v \in User, NEW x \in FileType, NEW g \in CallType,
           FreshOf(file, mem, s[1]), call[s] # Idle, ~Turns(call[s]), ~Busy(v), ~SoleHolder(v, User),
           call[s].pc \notin {"idle", "create"},
           \A c \in Coll : x.deks[c] \in {0, file[s[1]].deks[c]},
           file' = [file EXCEPT ![v] = x], call' = [call EXCEPT ![s] = g],
           UNCHANGED <<rec, mem, secrets>>, next' \in Nat \ {0}, wanted' \in [User -> Nat],
           \A y \in User \ {v} : wanted'[y] = wanted[y],
           x.role # "none" => x.secret = wanted'[v],
           x.role = "none" => \A c \in Coll : x.deks[c] = 0,
           v # s[1] => Local(file', rec', mem', g, s[1]),
           g.pc \notin {"create", "made", "save"}, ~Turns(g)
    PROVE  IInv'
<1> PICK u \in User : u = s[1]
  BY Users
<1>1. \A t \in Slot : t[1] = v => call[t] = Idle
  BY DEF Busy, Slot
<1>2. v # u
  BY <1>1
<1>3. \A t \in Slot : ~Turns(call[t])
  BY NoTurn
<1>4. \A c \in Coll : Whole(file, rec, c)
  BY <1>3, AllWhole
<1>5. /\ file' \in [User -> FileType] /\ file'[v] = x
      /\ \A y \in User \ {v} : file'[y] = file[y]
  BY DEF IInv, TypeOK
<1>6. ASSUME NEW c \in Coll PROVE Whole(file', rec', c)
  <2>1. file[v].deks[c] = 0 \/ \E y \in User \ {v} : file[y].deks[c] = file[v].deks[c]
    BY DEF SoleHolder
  <2>2. rec' = rec /\ file'[u] = file[u]
    BY <1>2, <1>5
  <2> QED
    BY <1>4, <1>5, <2>1, <2>2 DEF Whole
<1>7. ASSUME NEW t \in Slot \ {s} PROVE Local(file', rec', mem', call[t], t[1])
  <2> PICK k \in CallType : k = call[t]
    BY DEF IInv, TypeOK
  <2> PICK w \in User : w = t[1]
    BY Users
  <2>1. Local(file, rec, mem, k, w) /\ ~Turns(k)
    BY <1>3 DEF IInv
  <2> SUFFICES Local(file', rec', mem', k, w)
    OBVIOUS
  <2>2. CASE w = v
    <3>1. k = Idle
      BY <1>1, <2>2
    <3> QED
      BY <3>1, IdleFacts
  <2>3. CASE w # v
    <3>1. file'[w] = file[w] /\ mem'[w] = mem[w]
      BY <1>5, <2>3
    <3>2. ASSUME Makes(k), NEW y \in User PROVE file'[y].deks[k.coll] = 0
      <4>1. k.coll \in Coll /\ \A z \in User : file[z].deks[k.coll] = 0
        BY <2>1, <3>2 DEF Local, Puts, Makes
      <4> QED
        BY <1>2, <1>5, <4>1
    <3>3. ASSUME NEW f2, NEW r2, NEW m2, f2[w] = file[w], m2[w] = mem[w],
                 Makes(k) => \A y \in User : f2[y].deks[k.coll] = 0
          PROVE  Local(f2, r2, m2, k, w)
      BY <2>1, <3>3, Others
    <3> QED
      BY <3>1, <3>2, <3>3
  <2> QED
    BY <2>2, <2>3
<1>8. \A t \in Slot \ {s} : Apart(g, call[t]) /\ Apart(call[t], g)
  BY <1>3, Plain
<1>9. Secrets(file', wanted') /\ Empty(file')
  BY <1>5 DEF IInv, Secrets, Empty
<1>10. Local(file', rec', mem', g, s[1])
  BY <1>2
<1>11. rec' \in [Record -> Nat] /\ mem' \in [User -> MemType] /\ secrets' \in Nat
  BY DEF IInv, TypeOK
<1>12. Room(call, s, g)
  BY DEF Room, Makes
<1> QED
  BY <1>5, <1>6, <1>7, <1>8, <1>9, <1>10, <1>11, <1>12, OneCall

LEMMA GrantKeeps ==
    ASSUME Orderly, IInv, NEW s \in Slot, Grant(s)
    PROVE  IInv'
<1> PICK q \in CallType : q = call[s]
  BY DEF IInv, TypeOK
<1> PICK u \in User : u = s[1]
  BY Users
<1>1. /\ q.pc = "store" /\ UNCHANGED <<rec, mem, next, secrets>>
      /\ file' = [file EXCEPT ![q.user] = q.file] /\ call' = [call EXCEPT ![s] = Idle]
      /\ ~SoleHolder(q.user, User) /\ ~Busy(q.user)
      /\ wanted' = [wanted EXCEPT ![q.user] = q.file.secret]
  BY DEF Grant, Orderly, Ends, Goto
<1>2. /\ Local(file, rec, mem, q, u) /\ FreshOf(file, mem, u) /\ q.user \in User
      /\ q.file \in FileType /\ q.file.role # "none" /\ q.file.secret \in Nat
      /\ \A c \in Coll : q.file.deks[c] \in {0, file[u].deks[c]}
  BY <1>1 DEF IInv, Local, Grants, FreshOf, CallType, FileType
<1>3. ~Turns(q) /\ q # Idle /\ q.pc \notin {"idle", "create"}
  BY <1>1, Types DEF Turns
<1>4. /\ next' \in Nat \ {0} /\ wanted' \in [User -> Nat] /\ wanted'[q.user] = q.file.secret
      /\ \A y \in User \ {q.user} : wanted'[y] = wanted[y]
  BY <1>1, <1>2 DEF IInv, TypeOK
<1>5. Idle \in CallType /\ Idle.pc = "idle" /\ ~Turns(Idle) /\ Local(file', rec', mem', Idle, s[1])
  BY IdleFacts, Types
<1> QED
  BY <1>1, <1>2, <1>3, <1>4, <1>5, Replaced
LEMMA BeginRevokeKeeps ==
    ASSUME Orderly, IInv, NEW s \in Slot, NEW v \in User, NEW strict \in BOOLEAN,
           NEW rotate \in BOOLEAN, BeginRevoke(s, v, strict, rotate)
    PROVE  IInv'
<1> DEFINE b  == strict /\ file[v].role = "admin"
           g1 == SetOp(Idle, "revoke")
           g2 == SetPc(g1, "walk")
           g3 == SetUser(g2, v)
           g4 == SetStrict(g3, b)
           g5 == SetRotate(g4, rotate)
           g6 == SetDel(g5, {v})
           g  == SetCols(g6, Held(file[v]))
<1>1. Acts(s, g) /\ UNCHANGED <<file, rec, mem, next, secrets, wanted>>
  BY DEF BeginRevoke, SetOp, SetPc, SetUser, SetStrict, SetRotate, SetDel, SetCols, history
<1>2. b \in BOOLEAN
  OBVIOUS
<1> HIDE DEF b
<1>3. g1 \in CallType
  BY Types, OpSet
<1> HIDE DEF g1
<1>4. g2 \in CallType /\ g2.pc = "walk"
  BY <1>3, PcSet DEF Pcs
<1> HIDE DEF g2
<1>5. g3 \in CallType /\ g3.pc = "walk"
  BY <1>4, UserSet DEF SameBut
<1> HIDE DEF g3
<1>6. g4 \in CallType /\ g4.pc = "walk"
  BY <1>2, <1>5, StrictSet DEF SameBut
<1> HIDE DEF g4
<1>7. g5 \in CallType /\ g5.pc = "walk"
  BY <1>6, RotateSet DEF SameBut
<1> HIDE DEF g5
<1>8. g6 \in CallType /\ g6.pc = "walk"
  BY <1>7, DelSet DEF SameBut
<1> HIDE DEF g6
<1>9. g \in CallType /\ g.pc = "walk"
  <2>1. Held(file[v]) \in SUBSET Coll
    BY DEF Held
  <2> QED
    BY <1>8, <2>1, ColsSet DEF SameBut
<1> HIDE DEF g
<1>10. /\ call[s] = Idle /\ call' = [call EXCEPT ![s] = g] /\ FreshOf(file, mem, s[1])
       /\ \A t \in Slot : ~Turns(call[t])
       /\ Room(call, s, g)
  BY <1>1, <1>9, Begins DEF Room, Makes
<1>11. Local(file, rec, mem, g, s[1])
  BY <1>9, <1>10 DEF Local, Puts, Makes, Grants, Turns
<1>12. \A t \in Slot \ {s} : Apart(g, call[t]) /\ Apart(call[t], g)
  BY <1>9, <1>10, Plain DEF Turns
<1>13. next' \in Nat \ {0} /\ secrets' \in Nat
  BY <1>1 DEF IInv, TypeOK
<1> QED
  BY <1>1, <1>9, <1>10, <1>11, <1>12, <1>13, CallStep

LEMMA RevokeWalkKeeps ==
    ASSUME Orderly, IInv, NEW s \in Slot, RevokeWalk(s)
    PROVE  IInv'
<1> PICK q \in CallType : q = call[s]
  BY DEF IInv, TypeOK
<1> DEFINE desc == IF q.strict THEN FindAdminDescendants(q.user) ELSE {}
           del  == q.del \cup desc
           cols == q.cols \cup UNION {Held(file[v]) : v \in desc}
           g1   == SetPc(q, "delete")
           g2   == SetDel(g1, del)
           g    == SetCols(g2, cols)
<1>1. /\ q.pc = "walk" /\ UNCHANGED <<file, rec, mem, next, secrets, wanted>>
      /\ call' = [call EXCEPT ![s] = [q EXCEPT !.pc = "delete", !.del = del, !.cols = cols]]
  BY DEF RevokeWalk, Goto, history
<1>2. del \in SUBSET User /\ cols \in SUBSET Coll
  BY DEF FindAdminDescendants, CallType, Held
<1> HIDE DEF del, cols
<1>3. call' = [call EXCEPT ![s] = g]
  BY <1>1 DEF SetPc, SetDel, SetCols
<1>4. g1 \in CallType /\ g1.pc = "delete"
  BY PcSet DEF Pcs
<1> HIDE DEF g1
<1>5. g2 \in CallType /\ g2.pc = "delete"
  BY <1>2, <1>4, DelSet DEF SameBut
<1> HIDE DEF g2
<1>6. g \in CallType /\ g.pc = "delete"
  BY <1>2, <1>5, ColsSet DEF SameBut
<1> HIDE DEF g
<1>7. Local(file, rec, mem, g, s[1])
  BY <1>1, <1>6 DEF IInv, Local, Puts, Makes, Grants, Turns
<1>8. \A t \in Slot \ {s} : ~Turns(call[t])
  BY <1>1, NoTurn
<1>9. \A t \in Slot \ {s} : Apart(g, call[t]) /\ Apart(call[t], g)
  BY <1>6, <1>8, Plain DEF Turns
<1>10. next' \in Nat \ {0} /\ secrets' \in Nat /\ ~Turns(call[s])
  BY <1>1 DEF IInv, TypeOK, Turns
<1>11. Room(call, s, g)
  BY <1>1, <1>6 DEF Room, Makes
<1> QED
  BY <1>1, <1>3, <1>6, <1>7, <1>9, <1>10, <1>11, CallStep

(* A rotation begins.                                                      *)
LEMMA RotateWithKeeps ==
    ASSUME Orderly, IInv, NEW s \in Slot, NEW q \in CallType, NEW cols \in SUBSET Coll,
           RotateWith(s, q, cols), FreshOf(file, mem, s[1]), ~Turns(call[s]),
           UNCHANGED <<file, rec, mem, secrets, wanted>>
    PROVE  IInv'
<1> PICK u \in User : u = s[1]
  BY Users
<1> DEFINE new == [c \in Coll |-> IF c \in cols THEN next ELSE 0]
           g1  == SetPc(q, "list")
           g2  == SetCols(g1, cols)
           g3  == SetList(g2, cols)
           g4  == SetUser(g3, None)
           g5  == SetDel(g4, {})
           g   == SetNew(g5, new)
<1>1. /\ next' = next + 1 /\ next \in Nat \ {0}
      /\ \A t \in Slot \ {s} : call[t] = Idle
      /\ cols \subseteq Held(mem[u])
      /\ call' = [call EXCEPT ![s] = [q EXCEPT !.pc = "list", !.cols = cols, !.list = cols,
                     !.user = None, !.del = {}, !.new = new]]
  BY DEF RotateWith, Orderly, Goto, IInv, TypeOK
<1>2. new \in [Coll -> Nat] /\ \A c \in cols : new[c] # 0
  BY <1>1
<1> HIDE DEF new
<1>3. call' = [call EXCEPT ![s] = g]
  BY <1>1 DEF SetPc, SetCols, SetList, SetUser, SetDel, SetNew
<1>4. g1 \in CallType /\ g1.pc = "list"
  BY PcSet DEF Pcs
<1> HIDE DEF g1
<1>5. g2 \in CallType /\ g2.pc = "list" /\ g2.cols = cols
  BY <1>4, ColsSet DEF SameBut
<1> HIDE DEF g2
<1>6. g3 \in CallType /\ g3.pc = "list" /\ g3.cols = cols /\ g3.list = cols
  BY <1>5, ListSet DEF SameBut
<1> HIDE DEF g3
<1>7. g4 \in CallType /\ g4.pc = "list" /\ g4.cols = cols /\ g4.list = cols
  BY <1>6, UserSet DEF SameBut
<1> HIDE DEF g4
<1>8. g5 \in CallType /\ g5.pc = "list" /\ g5.cols = cols /\ g5.list = cols
  BY <1>7, DelSet DEF SameBut
<1> HIDE DEF g5
<1>9. g \in CallType /\ g.pc = "list" /\ g.cols = cols /\ g.list = cols /\ g.new = new
  BY <1>2, <1>8, NewSet DEF SameBut
<1> HIDE DEF g
<1>10. \A c \in Coll : Whole(file, rec, c)
  <2>1. \A t \in Slot : ~Turns(call[t])
    BY <1>1, IdleFacts
  <2> QED
    BY <2>1, AllWhole
<1>11. \A c \in cols : file[u].deks[c] # 0
  BY <1>1 DEF Held, FreshOf
<1>12. Before(file, rec, g, u)
  BY <1>9, <1>10, <1>11 DEF Before, Whole, Left
<1>13. Local(file, rec, mem, g, u)
  BY <1>2, <1>9, <1>12 DEF Local, Puts, Makes, Grants, Turns, Turn
<1>14. \A t \in Slot \ {s} : Apart(g, call[t]) /\ Apart(call[t], g)
  BY <1>1, IdleFacts
<1>15. next' \in Nat \ {0} /\ secrets' \in Nat
  BY <1>1 DEF IInv, TypeOK
<1>16. Room(call, s, g)
  BY <1>1, Types DEF Room
<1> QED
  BY <1>3, <1>9, <1>10, <1>13, <1>14, <1>15, <1>16, CallStep

LEMMA BeginRotateKeeps ==
    ASSUME Orderly, IInv, NEW s \in Slot, NEW cols \in SUBSET Coll, BeginRotate(s, cols)
    PROVE  IInv'
<1> DEFINE q == SetOp(Idle, "rotate")
<1>1. /\ RotateWith(s, q, cols) /\ call[s] = Idle /\ FreshOf(file, mem, s[1])
      /\ UNCHANGED <<file, rec, mem, secrets, wanted>>
  BY Users, FreshGives DEF BeginRotate, SetOp, Orderly, history
<1>2. q \in CallType
  BY Types, OpSet
<1> HIDE DEF q
<1>3. ~Turns(call[s])
  BY <1>1, IdleFacts
<1> QED
  BY <1>1, <1>2, <1>3, RotateWithKeeps

LEMMA RevokeDeleteKeeps ==
    ASSUME Orderly, IInv, NEW s \in Slot, RevokeDelete(s)
    PROVE  IInv'
<1> PICK q \in CallType : q = call[s]
  BY DEF IInv, TypeOK
<1>1. q.pc = "delete" /\ UNCHANGED <<rec, mem, secrets, wanted>>
  BY DEF RevokeDelete
<1>2. /\ FreshOf(file, mem, s[1]) /\ ~Turns(call[s]) /\ call[s] # Idle
      /\ call[s].pc \notin {"idle", "create"} /\ next \in Nat \ {0} /\ wanted \in [User -> Nat]
      /\ q.del \in SUBSET User /\ q.cols \in SUBSET Coll
  BY <1>1, Types DEF IInv, TypeOK, Local, Turns, CallType
<1>3. CASE q.del # {}
  <2> PICK v \in q.del :
         /\ ~SoleHolder(v, User) /\ ~Busy(v) /\ file' = [file EXCEPT ![v] = NoFile]
         /\ call' = [call EXCEPT ![s] = [q EXCEPT !.del = q.del \ {v}]]
         /\ next' = next
    BY <1>3 DEF RevokeDelete, Orderly, Goto
  <2> DEFINE g == SetDel(q, q.del \ {v})
  <2>1. call' = [call EXCEPT ![s] = g]
    BY DEF SetDel
  <2>2. g \in CallType /\ g.pc = "delete"
    BY <1>1, <1>2, DelSet DEF SameBut
  <2> HIDE DEF g
  <2>3. NoFile \in FileType /\ NoFile.role = "none" /\ \A c \in Coll : NoFile.deks[c] = 0
    BY Types
  <2>4. v \in User
    BY <1>2
  <2>5. ASSUME v # s[1] PROVE Local(file', rec', mem', g, s[1])
    <3>1. file'[s[1]] = file[s[1]] /\ mem' = mem
      BY <1>1, <2>5, Users DEF IInv, TypeOK
    <3>2. FreshOf(file', mem', s[1])
      BY <1>2, <3>1 DEF FreshOf
    <3> QED
      BY <2>2, <3>2 DEF Local, Puts, Makes, Grants, Turns
  <2>6. next' \in Nat \ {0} /\ wanted' \in [User -> Nat] /\ \A y \in User : wanted'[y] = wanted[y]
    BY <1>1, <1>2
  <2>7. ~Turns(g) /\ g.pc \notin {"create", "made", "save"}
    BY <2>2 DEF Turns
  <2>8. UNCHANGED <<rec, mem, secrets>> /\ call[s] # Idle
    BY <1>1, <1>2
  <2>9. \A c \in Coll : NoFile.deks[c] \in {0, file[s[1]].deks[c]}
    BY <2>3
  <2>10. \A y \in User \ {v} : wanted'[y] = wanted[y]
    BY <2>6
  <2> QED
    BY <1>2, <2>1, <2>2, <2>3, <2>4, <2>5, <2>6, <2>7, <2>8, <2>9, <2>10, Replaced
<1>4. CASE q.del = {} /\ q.rotate /\ q.cols # {}
  <2>1. RotateWith(s, q, q.cols) /\ file' = file
    BY <1>4 DEF RevokeDelete
  <2> QED
    BY <1>1, <1>2, <2>1, RotateWithKeeps
<1>5. CASE q.del = {} /\ ~(q.rotate /\ q.cols # {})
  <2>1. Ends(s) /\ next' = next /\ file' = file
    BY <1>5 DEF RevokeDelete
  <2>2. next' \in Nat \ {0} /\ secrets' \in Nat
    BY <1>1, <1>2, <2>1 DEF IInv, TypeOK
  <2> QED
    BY <1>1, <1>2, <2>1, <2>2, EndStep
<1> QED
  BY <1>3, <1>4, <1>5
(* Who rotates is alone, but for processes that open the vault.            *)
LEMMA Alone ==
    ASSUME IInv, NEW s \in Slot, Turns(call[s])
    PROVE  /\ \A t \in Slot \ {s} : call[t].pc \in {"idle", "create"} /\ ~Turns(call[t])
           /\ FreshOf(file, mem, s[1]) /\ Turn(file, rec, call[s], s[1])
           /\ \A c \in Coll \ call[s].cols : Whole(file, rec, c)
<1>1. \A t \in Slot \ {s} : call[t].pc \in {"idle", "create"} /\ ~Turns(call[t])
  BY DEF IInv, Apart, Turns
<1>2. FreshOf(file, mem, s[1]) /\ Turn(file, rec, call[s], s[1])
  BY DEF IInv, Local, Turns
<1>3. \A c \in Coll \ call[s].cols : Whole(file, rec, c)
  BY <1>1 DEF IInv, Turning
<1> QED
  BY <1>1, <1>2, <1>3

LEMMA Bystander ==
    ASSUME NEW f, NEW r, NEW m, NEW f2, NEW r2, NEW m2, NEW k, NEW w,
           Local(f, r, m, k, w), k.pc \in {"idle", "create"},
           f2[w].role = f[w].role, m2[w].role = m[w].role
    PROVE  Local(f2, r2, m2, k, w)
  BY DEF Local, Puts, Makes, Grants, Turns

(* A step of a rotation: the collections it rotates stay the same.         *)
LEMMA RotateStep ==
    ASSUME IInv, NEW s \in Slot, Turns(call[s]), NEW g \in CallType,
           call' = [call EXCEPT ![s] = g],
           Turns(g), g.cols = call[s].cols,
           file' \in [User -> FileType], rec' \in [Record -> Nat], mem' \in [User -> MemType],
           UNCHANGED <<next, secrets, wanted>>,
           \A v \in User : /\ file'[v].role = file[v].role /\ mem'[v].role = mem[v].role
                           /\ file'[v].secret = file[v].secret,
           Empty(file'), FreshOf(file', mem', s[1]), Turn(file', rec', g, s[1]),
           \A c \in Coll \ g.cols : /\ \A v \in User : file'[v].deks[c] = file[v].deks[c]
                                    /\ \A i \in Id : rec'[<<c, i>>] = rec[<<c, i>>]
    PROVE  IInv'
<1>1. /\ \A t \in Slot \ {s} : call[t].pc \in {"idle", "create"} /\ ~Turns(call[t])
      /\ \A c \in Coll \ call[s].cols : Whole(file, rec, c)
  BY Alone
<1>2. \A t \in Slot \ {s} : Local(file', rec', mem', call[t], t[1])
  <2> SUFFICES ASSUME NEW t \in Slot \ {s} PROVE Local(file', rec', mem', call[t], t[1])
    OBVIOUS
  <2> PICK k : k = call[t]
    OBVIOUS
  <2> PICK w \in User : w = t[1]
    BY Users
  <2>1. Local(file, rec, mem, k, w) /\ k.pc \in {"idle", "create"}
    BY <1>1 DEF IInv
  <2>2. Local(file', rec', mem', k, w)
    BY <2>1, Bystander
  <2> QED
    BY <2>2
<1>3. Local(file', rec', mem', g, s[1])
  BY DEF Local, Puts, Makes, Grants, Turns
<1>4. \A t \in Slot \ {s} : Apart(g, call[t]) /\ Apart(call[t], g)
  BY <1>1 DEF Apart, Makes, Turns
<1>5. ASSUME NEW c \in Coll PROVE Turning(call', c) \/ Whole(file', rec', c)
  <2>1. CASE c \in g.cols
    <3>1. call'[s] = g
      BY DEF IInv, TypeOK
    <3> QED
      BY <2>1, <3>1 DEF Turning
  <2>2. CASE c \notin g.cols
    <3>1. Whole(file, rec, c)
      BY <1>1, <2>2
    <3> QED
      BY <2>2, <3>1 DEF Whole
  <2> QED
    BY <2>1, <2>2
<1>6. Secrets(file', wanted')
  BY DEF IInv, Secrets
<1>7. next' \in Nat \ {0} /\ secrets' \in Nat /\ wanted' \in [User -> Nat]
  BY DEF IInv, TypeOK
<1>8. Room(call, s, g)
  BY DEF Room, Makes, Turns
<1> QED
  BY <1>2, <1>3, <1>4, <1>5, <1>6, <1>7, <1>8, OneCall

(* A step of a rotation that changes the call only.                        *)
LEMMA RotateCall ==
    ASSUME IInv, NEW s \in Slot, Turns(call[s]), NEW g \in CallType,
           call' = [call EXCEPT ![s] = g], Turns(g), g.cols = call[s].cols,
           UNCHANGED <<file, rec, mem, next, secrets, wanted>>, Turn(file, rec, g, s[1])
    PROVE  IInv'
<1>1. /\ file' \in [User -> FileType] /\ rec' \in [Record -> Nat] /\ mem' \in [User -> MemType]
      /\ Empty(file') /\ FreshOf(file', mem', s[1]) /\ Turn(file', rec', g, s[1])
  BY Alone DEF IInv, TypeOK
<1> QED
  BY <1>1, RotateStep

LEMMA RotateListKeeps ==
    ASSUME Orderly, IInv, NEW s \in Slot, RotateList(s)
    PROVE  IInv'
<1> PICK q \in CallType : q = call[s]
  BY DEF IInv, TypeOK
<1> PICK u \in User : u = s[1]
  BY Users
<1>1. q.pc = "list" /\ UNCHANGED <<file, rec, mem, next, secrets, wanted>>
  BY DEF RotateList, history
<1>2. /\ Turns(q) /\ FreshOf(file, mem, u) /\ Turn(file, rec, q, u) /\ Before(file, rec, q, u)
      /\ q.list \in SUBSET Coll
  BY <1>1, Alone DEF Turns, Turn, CallType
<1>3. CASE q.list = {}
  <2> DEFINE g == SetPc(q, "own")
  <2>1. call' = [call EXCEPT ![s] = g]
    BY <1>3 DEF RotateList, Goto, SetPc
  <2>2. /\ g \in CallType /\ g.pc = "own" /\ g.list = {} /\ g.cols = q.cols /\ g.new = q.new
    BY <1>3, PcSet DEF Pcs, SameBut
  <2> HIDE DEF g
  <2>3. Before(file, rec, g, u)
    BY <1>1, <1>2, <2>2, <1>3 DEF Before, Left
  <2>4. Turn(file, rec, g, u) /\ Turns(g)
    BY <1>2, <2>2, <2>3 DEF Turn, Turns
  <2> QED
    BY <1>1, <1>2, <2>1, <2>2, <2>4, RotateCall
<1>4. CASE q.list # {}
  <2> PICK c \in q.list : call' = [call EXCEPT ![s] =
             [q EXCEPT !.list = q.list \ {c},
                       !.pc = IF mem[u].deks[c] = 0 THEN "list" ELSE "record",
                       !.coll = c,
                       !.todo = IF mem[u].deks[c] = 0 THEN {} ELSE {i \in Id : rec[<<c, i>>] # 0}]]
    BY <1>4 DEF RotateList, Goto
  <2>1. c \in Coll /\ c \in q.cols /\ file[u].deks[c] # 0 /\ mem[u].deks[c] # 0
    BY <1>2 DEF Before, FreshOf
  <2> DEFINE todo == {i \in Id : rec[<<c, i>>] # 0}
             g1 == SetList(q, q.list \ {c})
             g2 == SetPc(g1, "record")
             g3 == SetColl(g2, c)
             g  == SetTodo(g3, todo)
  <2>2. call' = [call EXCEPT ![s] = g]
    BY <2>1 DEF SetList, SetPc, SetColl, SetTodo
  <2>3. todo \in SUBSET Id /\ \A i \in Id : i \in todo <=> rec[<<c, i>>] # 0
    OBVIOUS
  <2> HIDE DEF todo
  <2>4. /\ g1 \in CallType /\ g1.list = q.list \ {c} /\ g1.cols = q.cols /\ g1.new = q.new
    BY <1>2, ListSet DEF SameBut
  <2> HIDE DEF g1
  <2>5. /\ g2 \in CallType /\ g2.list = q.list \ {c} /\ g2.cols = q.cols /\ g2.new = q.new
        /\ g2.pc = "record"
    BY <2>4, PcSet DEF Pcs, SameBut
  <2> HIDE DEF g2
  <2>6. /\ g3 \in CallType /\ g3.list = q.list \ {c} /\ g3.cols = q.cols /\ g3.new = q.new
        /\ g3.pc = "record" /\ g3.coll = c
    BY <2>1, <2>5, CollSet DEF SameBut
  <2> HIDE DEF g3
  <2>7. /\ g \in CallType /\ g.list = q.list \ {c} /\ g.cols = q.cols /\ g.new = q.new
        /\ g.pc = "record" /\ g.coll = c /\ g.todo = todo
    BY <2>3, <2>6, TodoSet DEF SameBut
  <2> HIDE DEF g
  <2>8. Before(file, rec, g, u)
    <3>1. ASSUME NEW x \in g.cols, NEW i \in Id
          PROVE  rec[<<x, i>>] \in {0, IF Left(g, x, i) THEN file[u].deks[x] ELSE g.new[x]}
      <4>1. rec[<<x, i>>] \in {0, IF Left(q, x, i) THEN file[u].deks[x] ELSE q.new[x]}
        BY <1>2, <2>7, <3>1 DEF Before
      <4>2. CASE x = c
        BY <1>1, <2>3, <2>7, <4>1, <4>2 DEF Left
      <4>3. CASE x # c
        BY <1>1, <2>7, <4>1, <4>3 DEF Left
      <4> QED
        BY <4>2, <4>3
    <3>2. \A x \in g.cols : file[u].deks[x] # 0 /\ \A v \in User : file[v].deks[x] \in {0, file[u].deks[x]}
      BY <1>2, <2>7 DEF Before
    <3>3. g.list \subseteq g.cols /\ g.coll \in g.cols \ g.list
      BY <1>2, <2>1, <2>7 DEF Before
    <3>4. \A i \in g.todo : rec[<<g.coll, i>>] # 0
      BY <2>3, <2>7
    <3> QED
      BY <2>7, <3>1, <3>2, <3>3, <3>4 DEF Before
  <2>9. Turn(file, rec, g, u) /\ Turns(g)
    BY <1>2, <2>7, <2>8 DEF Turn, Turns
  <2> QED
    BY <1>1, <1>2, <2>2, <2>7, <2>9, RotateCall
<1> QED
  BY <1>3, <1>4

LEMMA RotateRecordKeeps ==
    ASSUME Orderly, IInv, NEW s \in Slot, RotateRecord(s)
    PROVE  IInv'
<1> PICK q \in CallType : q = call[s]
  BY DEF IInv, TypeOK
<1> PICK u \in User : u = s[1]
  BY Users
<1>1. q.pc = "record" /\ UNCHANGED <<file, mem, next, secrets, wanted>>
  BY DEF RotateRecord, history
<1>2. /\ Turns(q) /\ FreshOf(file, mem, u) /\ Turn(file, rec, q, u) /\ Before(file, rec, q, u)
      /\ q.coll \in Coll /\ q.coll \in q.cols \ q.list /\ q.todo \in SUBSET Id
      /\ q.list \in SUBSET Coll /\ q.cols \in SUBSET Coll /\ q.new \in [Coll -> Nat]
  <2>1. Turns(q)
    BY <1>1 DEF Turns
  <2>2. FreshOf(file, mem, u) /\ Turn(file, rec, q, u)
    BY <2>1, Alone
  <2>3. Before(file, rec, q, u)
    BY <1>1, <2>2 DEF Turn
  <2>4. q.coll \in q.cols \ q.list
    BY <1>1, <2>3 DEF Before
  <2>5. /\ q.todo \in SUBSET Id /\ q.list \in SUBSET Coll /\ q.cols \in SUBSET Coll
        /\ q.new \in [Coll -> Nat]
    BY DEF CallType
  <2> QED
    BY <2>1, <2>2, <2>3, <2>4, <2>5
<1>3. CASE q.todo = {}
  <2> DEFINE g1 == SetPc(q, "list")
             g  == SetColl(g1, None)
  <2>1. call' = [call EXCEPT ![s] = g] /\ rec' = rec
    BY <1>3 DEF RotateRecord, Goto, SetPc, SetColl
  <2>2. g1 \in CallType /\ g1.pc = "list" /\ g1.list = q.list /\ g1.cols = q.cols /\ g1.new = q.new
    BY PcSet DEF Pcs, SameBut
  <2> HIDE DEF g1
  <2>3. g \in CallType /\ g.pc = "list" /\ g.list = q.list /\ g.cols = q.cols /\ g.new = q.new
    BY <2>2, CollSet DEF SameBut
  <2> HIDE DEF g
  <2>4. Before(file, rec, g, u)
    BY <1>2, <1>3, <2>3 DEF Before, Left
  <2>5. Turn(file, rec, g, u) /\ Turns(g)
    BY <1>2, <2>3, <2>4 DEF Turn, Turns
  <2> QED
    BY <1>1, <1>2, <2>1, <2>3, <2>5, RotateCall
<1>4. CASE q.todo # {}
  <2> PICK j \in q.todo :
         IF rec[<<q.coll, j>>] = mem[u].deks[q.coll]
         THEN /\ rec' = [rec EXCEPT ![<<q.coll, j>>] = q.new[q.coll]]
              /\ call' = [call EXCEPT ![s] = [q EXCEPT !.todo = q.todo \ {j}]]
         ELSE Ends(s) /\ UNCHANGED rec
    BY <1>4 DEF RotateRecord, Goto
  <2>1. rec[<<q.coll, j>>] = mem[u].deks[q.coll]
    <3>1. rec[<<q.coll, j>>] # 0 /\ Left(q, q.coll, j) /\ j \in Id
      BY <1>1, <1>2 DEF Before, Left
    <3> QED
      BY <1>2, <3>1 DEF Before, FreshOf
  <2> DEFINE g == SetTodo(q, q.todo \ {j})
  <2>2. call' = [call EXCEPT ![s] = g] /\ rec' = [rec EXCEPT ![<<q.coll, j>>] = q.new[q.coll]]
    BY <2>1 DEF SetTodo
  <2>3. /\ g \in CallType /\ g.pc = "record" /\ g.list = q.list /\ g.cols = q.cols /\ g.new = q.new
        /\ g.coll = q.coll /\ g.todo = q.todo \ {j}
    BY <1>1, <1>2, TodoSet DEF SameBut
  <2> HIDE DEF g
  <2>4. /\ \A c \in Coll, i \in Id :
              rec'[<<c, i>>] = IF c = q.coll /\ i = j THEN q.new[q.coll] ELSE rec[<<c, i>>]
        /\ rec' \in [Record -> Nat]
    BY <1>2, <2>2 DEF IInv, TypeOK, Record
  <2>5. Before(file, rec', g, u)
    <3>1. ASSUME NEW x \in g.cols, NEW i \in Id
          PROVE  rec'[<<x, i>>] \in {0, IF Left(g, x, i) THEN file[u].deks[x] ELSE g.new[x]}
      <4>1. rec[<<x, i>>] \in {0, IF Left(q, x, i) THEN file[u].deks[x] ELSE q.new[x]} /\ x \in Coll
        BY <1>2, <2>3, <3>1 DEF Before
      <4>2. CASE x = q.coll /\ i = j
        BY <1>2, <2>3, <2>4, <4>2 DEF Left
      <4>3. CASE ~(x = q.coll /\ i = j)
        BY <1>1, <2>3, <2>4, <4>1, <4>3 DEF Left
      <4> QED
        BY <4>2, <4>3
    <3>2. \A x \in g.cols : file[u].deks[x] # 0 /\ \A v \in User : file[v].deks[x] \in {0, file[u].deks[x]}
      BY <1>2, <2>3 DEF Before
    <3>3. g.list \subseteq g.cols /\ g.coll \in g.cols \ g.list
      BY <1>2, <2>3 DEF Before
    <3>4. ASSUME NEW i \in g.todo PROVE rec'[<<g.coll, i>>] # 0
      <4>1. i \in Id /\ i # j /\ rec[<<q.coll, i>>] # 0
        BY <1>1, <1>2, <2>3 DEF Before
      <4> QED
        BY <1>2, <2>3, <2>4, <4>1
    <3> QED
      BY <2>3, <3>1, <3>2, <3>3, <3>4 DEF Before
  <2>6. Turn(file, rec', g, u) /\ Turns(g)
    BY <1>2, <2>3, <2>5 DEF Turn, Turns
  <2>7. /\ file' \in [User -> FileType] /\ mem' \in [User -> MemType]
        /\ Empty(file') /\ FreshOf(file', mem', s[1]) /\ Turn(file', rec', g, s[1])
    BY <1>1, <1>2, <2>6 DEF IInv, TypeOK
  <2>8. \A c \in Coll \ g.cols : /\ \A v \in User : file'[v].deks[c] = file[v].deks[c]
                                 /\ \A i \in Id : rec'[<<c, i>>] = rec[<<c, i>>]
    BY <1>1, <1>2, <2>3, <2>4
  <2>9. \A v \in User : /\ file'[v].role = file[v].role /\ mem'[v].role = mem[v].role
                        /\ file'[v].secret = file[v].secret
    BY <1>1
  <2> QED
    BY <1>1, <1>2, <2>2, <2>3, <2>4, <2>6, <2>7, <2>8, <2>9, RotateStep
<1> QED
  BY <1>3, <1>4
LEMMA RotateOwnKeeps ==
    ASSUME Orderly, IInv, NEW s \in Slot, RotateOwn(s)
    PROVE  IInv'
<1> PICK q \in CallType : q = call[s]
  BY DEF IInv, TypeOK
<1> PICK u \in User : u = s[1]
  BY Users
<1>1. q.pc = "own" /\ UNCHANGED <<rec, next, secrets, wanted>>
  BY DEF RotateOwn, history
<1>2. /\ Turns(q) /\ FreshOf(file, mem, u) /\ Turn(file, rec, q, u) /\ Before(file, rec, q, u)
      /\ q.list = {} /\ q.cols \in SUBSET Coll /\ q.new \in [Coll -> Nat]
      /\ mem[u] \in MemType /\ file[u] \in FileType
  <2>1. Turns(q)
    BY <1>1 DEF Turns
  <2>2. FreshOf(file, mem, u) /\ Turn(file, rec, q, u)
    BY <2>1, Alone
  <2>3. Before(file, rec, q, u)
    BY <1>1, <2>2 DEF Turn
  <2>4. q.list = {}
    BY <1>1, <2>3 DEF Before
  <2>5. q.cols \in SUBSET Coll /\ q.new \in [Coll -> Nat]
    BY DEF CallType
  <2>6. mem[u] \in MemType /\ file[u] \in FileType
    BY DEF IInv, TypeOK
  <2> QED
    BY <2>1, <2>2, <2>3, <2>4, <2>5, <2>6
<1>3. PICK m \in MemType, f \in FileType :
         /\ mem' = [mem EXCEPT ![u] = m] /\ file' = [file EXCEPT ![u] = f]
         /\ m.role = mem[u].role /\ f.role = m.role /\ f.deks = m.deks
         /\ m.secret = mem[u].secret /\ f.secret = mem[u].secret
         /\ \A c \in Coll : m.deks[c] = IF c \in q.cols THEN q.new[c] ELSE mem[u].deks[c]
  <2> DEFINE d == [c \in Coll |-> IF c \in q.cols THEN q.new[c] ELSE mem[u].deks[c]]
             m == [mem[u] EXCEPT !.deks = d]
             f == Persisted(u, m, m.secret)
  <2>1. mem' = [mem EXCEPT ![u] = m] /\ file' = [file EXCEPT ![u] = f]
    BY DEF RotateOwn
  <2>2. d \in [Coll -> Nat] /\ \A c \in Coll : d[c] = IF c \in q.cols THEN q.new[c] ELSE mem[u].deks[c]
    BY <1>2 DEF MemType
  <2> HIDE DEF d
  <2>3. m \in MemType /\ m.role = mem[u].role /\ m.secret = mem[u].secret /\ m.deks = d
    BY <1>2, <2>2 DEF MemType
  <2> HIDE DEF m
  <2>4. f \in FileType /\ f.role = m.role /\ f.deks = m.deks /\ f.secret = m.secret
    BY <2>3 DEF Persisted, FileType, MemType
  <2> HIDE DEF f
  <2>5. f.secret = mem[u].secret
    BY <2>3, <2>4
  <2>6. \A c \in Coll : m.deks[c] = IF c \in q.cols THEN q.new[c] ELSE mem[u].deks[c]
    BY <2>2, <2>3
  <2> QED
    BY <2>1, <2>3, <2>4, <2>5, <2>6
<1>4. /\ file' \in [User -> FileType] /\ mem' \in [User -> MemType]
      /\ file'[u] = f /\ mem'[u] = m
      /\ \A v \in User \ {u} : file'[v] = file[v] /\ mem'[v] = mem[v]
  BY <1>3 DEF IInv, TypeOK
<1> DEFINE others == {v \in User \ {u} : file[v].role # "none"}
           g1 == SetPc(q, "others")
           g  == SetUsers(g1, others)
<1>5. call' = [call EXCEPT ![s] = g]
  BY DEF RotateOwn, Goto, SetPc, SetUsers
<1>6. g1 \in CallType /\ g1.pc = "others" /\ g1.cols = q.cols /\ g1.new = q.new
  BY PcSet DEF Pcs, SameBut
<1> HIDE DEF g1
<1>7. g \in CallType /\ g.pc = "others" /\ g.cols = q.cols /\ g.new = q.new /\ g.users = others
  BY <1>6, UsersSet DEF SameBut
<1> HIDE DEF g
<1>8. After(file', rec', g, u)
  <2>1. ASSUME NEW c \in g.cols PROVE file'[u].deks[c] = g.new[c]
    BY <1>2, <1>3, <1>4, <1>7
  <2>2. ASSUME NEW c \in g.cols, NEW i \in Id PROVE rec'[<<c, i>>] \in {0, g.new[c]}
    BY <1>1, <1>2, <1>7 DEF Before, Left
  <2>3. ASSUME NEW c \in g.cols, NEW v \in User \ {u}, file'[v].deks[c] # 0 PROVE v \in g.users
    BY <1>2, <1>4, <1>7, <2>3 DEF IInv, Empty
  <2>4. u \notin g.users /\ g.pc # "strip"
    BY <1>7
  <2> QED
    BY <2>1, <2>2, <2>3, <2>4 DEF After
<1>9. Turn(file', rec', g, u) /\ Turns(g)
  BY <1>2, <1>7, <1>8 DEF Turn, Turns
<1>10. FreshOf(file', mem', u) /\ Empty(file')
  BY <1>2, <1>3, <1>4 DEF FreshOf, IInv, Empty
<1>11. \A v \in User : /\ file'[v].role = file[v].role /\ mem'[v].role = mem[v].role
                       /\ file'[v].secret = file[v].secret
  BY <1>2, <1>3, <1>4 DEF FreshOf
<1>12. \A c \in Coll \ g.cols : /\ \A v \in User : file'[v].deks[c] = file[v].deks[c]
                                /\ \A i \in Id : rec'[<<c, i>>] = rec[<<c, i>>]
  BY <1>1, <1>2, <1>3, <1>4, <1>7 DEF FreshOf
<1>13. rec' \in [Record -> Nat]
  BY <1>1 DEF IInv, TypeOK
<1> QED
  BY <1>1, <1>2, <1>4, <1>5, <1>7, <1>9, <1>10, <1>11, <1>12, <1>13, RotateStep

LEMMA RotateReadKeeps ==
    ASSUME Orderly, IInv, NEW s \in Slot, RotateRead(s)
    PROVE  IInv'
<1> PICK q \in CallType : q = call[s]
  BY DEF IInv, TypeOK
<1> PICK u \in User : u = s[1]
  BY Users
<1>1. q.pc = "others" /\ UNCHANGED <<file, rec, mem, next, secrets, wanted>>
  BY DEF RotateRead, history
<1>2. /\ Turns(q) /\ FreshOf(file, mem, u) /\ Turn(file, rec, q, u) /\ After(file, rec, q, u)
      /\ q.users \in SUBSET User /\ q.cols \in SUBSET Coll
      /\ \A c \in Coll \ q.cols : Whole(file, rec, c)
  BY <1>1, Alone DEF Turns, Turn, CallType
<1>3. CASE q.users = {}
  <2>1. ASSUME NEW c \in q.cols PROVE Whole(file, rec, c)
    <3>1. \A v \in User \ {u} : file[v].deks[c] = 0
      BY <1>1, <1>2, <1>3 DEF After
    <3>2. file[u].deks[c] = q.new[c] /\ \A i \in Id : rec[<<c, i>>] \in {0, q.new[c]}
      BY <1>2 DEF After
    <3> QED
      BY <3>1, <3>2 DEF Whole
  <2>2. Ends(s) /\ next' \in Nat \ {0} /\ secrets' \in Nat
    BY <1>1, <1>3 DEF RotateRead, IInv, TypeOK
  <2> QED
    BY <1>1, <1>2, <2>1, <2>2, EndStep
<1>4. CASE q.users # {}
  <2> PICK v \in q.users : Goto(s,
         IF file[v].role = "none" THEN [q EXCEPT !.users = q.users \ {v}]
         ELSE [q EXCEPT !.pc = "strip", !.user = v, !.users = q.users \ {v},
                        !.file = Stripped(file[v], q.cols)])
    BY <1>4 DEF RotateRead
  <2>1. v \in User \ {u} /\ file[v] \in FileType
    BY <1>2 DEF After, IInv, TypeOK
  <2>2. CASE file[v].role = "none"
    <3> DEFINE g == SetUsers(q, q.users \ {v})
    <3>1. call' = [call EXCEPT ![s] = g]
      BY <2>2 DEF Goto, SetUsers
    <3>2. /\ g \in CallType /\ g.pc = "others" /\ g.users = q.users \ {v} /\ g.cols = q.cols
          /\ g.new = q.new
      BY <1>1, <1>2, UsersSet DEF SameBut
    <3> HIDE DEF g
    <3>3. \A c \in q.cols : file[v].deks[c] = 0
      BY <1>2, <2>1, <2>2 DEF IInv, Empty
    <3>4. After(file, rec, g, u)
      BY <1>1, <1>2, <3>2, <3>3 DEF After
    <3>5. Turn(file, rec, g, u) /\ Turns(g)
      BY <1>2, <3>2, <3>4 DEF Turn, Turns
    <3> QED
      BY <1>1, <1>2, <3>1, <3>2, <3>5, RotateCall
  <2>3. CASE file[v].role # "none"
    <3> DEFINE f  == Stripped(file[v], q.cols)
               g1 == SetPc(q, "strip")
               g2 == SetUser(g1, v)
               g3 == SetUsers(g2, q.users \ {v})
               g  == SetFile(g3, f)
    <3>1. call' = [call EXCEPT ![s] = g]
      BY <2>3 DEF Goto, SetPc, SetUser, SetUsers, SetFile
    <3>2. /\ f \in FileType /\ f.role = file[v].role /\ f.secret = file[v].secret
          /\ \A c \in Coll : f.deks[c] = IF c \in q.cols THEN 0 ELSE file[v].deks[c]
      <4> DEFINE d == [c \in Coll |-> IF c \in q.cols THEN 0 ELSE file[v].deks[c]]
      <4>1. /\ d \in [Coll -> Nat]
            /\ \A c \in Coll : d[c] = IF c \in q.cols THEN 0 ELSE file[v].deks[c]
        BY <2>1 DEF FileType
      <4>2. f = [file[v] EXCEPT !.deks = d, !.perms = @ \ q.cols]
        BY DEF Stripped
      <4> HIDE DEF d, f
      <4> QED
        BY <2>1, <4>1, <4>2 DEF FileType
    <3> HIDE DEF f
    <3>3. /\ g1 \in CallType /\ g1.pc = "strip" /\ g1.cols = q.cols /\ g1.new = q.new
      BY PcSet DEF Pcs, SameBut
    <3> HIDE DEF g1
    <3>4. /\ g2 \in CallType /\ g2.pc = "strip" /\ g2.cols = q.cols /\ g2.new = q.new
          /\ g2.user = v
      BY <2>1, <3>3, UserSet DEF SameBut
    <3> HIDE DEF g2
    <3>5. /\ g3 \in CallType /\ g3.pc = "strip" /\ g3.cols = q.cols /\ g3.new = q.new
          /\ g3.user = v /\ g3.users = q.users \ {v}
      BY <1>2, <3>4, UsersSet DEF SameBut
    <3> HIDE DEF g3
    <3>6. /\ g \in CallType /\ g.pc = "strip" /\ g.cols = q.cols /\ g.new = q.new
          /\ g.user = v /\ g.users = q.users \ {v} /\ g.file = f
      BY <3>2, <3>5, FileSet DEF SameBut
    <3> HIDE DEF g
    <3>7. After(file, rec, g, u)
      BY <1>1, <1>2, <2>1, <2>3, <3>2, <3>6 DEF After
    <3>8. Turn(file, rec, g, u) /\ Turns(g)
      BY <1>2, <3>6, <3>7 DEF Turn, Turns
    <3> QED
      BY <1>1, <1>2, <3>1, <3>6, <3>8, RotateCall
  <2> QED
    BY <2>2, <2>3
<1> QED
  BY <1>3, <1>4

LEMMA RotateStripKeeps ==
    ASSUME Orderly, IInv, NEW s \in Slot, RotateStrip(s)
    PROVE  IInv'
<1> PICK q \in CallType : q = call[s]
  BY DEF IInv, TypeOK
<1> PICK u \in User : u = s[1]
  BY Users
<1>1. /\ q.pc = "strip" /\ UNCHANGED <<rec, mem, next, secrets, wanted>>
      /\ file' = [file EXCEPT ![q.user] = q.file]
  BY DEF RotateStrip, history
<1>2. /\ Turns(q) /\ FreshOf(file, mem, u) /\ Turn(file, rec, q, u) /\ After(file, rec, q, u)
      /\ q.users \in SUBSET User /\ q.cols \in SUBSET Coll /\ q.file \in FileType
  BY <1>1, Alone DEF Turns, Turn, CallType
<1>3. PICK v \in User \ {u} : v = q.user
  BY <1>1, <1>2 DEF After
<1>4. /\ q.file.role = file[v].role /\ q.file.secret = file[v].secret /\ q.file.role # "none"
      /\ \A c \in Coll : q.file.deks[c] = IF c \in q.cols THEN 0 ELSE file[v].deks[c]
  BY <1>1, <1>2, <1>3 DEF After
<1>5. /\ file' \in [User -> FileType] /\ file'[v] = q.file
      /\ \A w \in User \ {v} : file'[w] = file[w]
  BY <1>1, <1>2, <1>3 DEF IInv, TypeOK
<1> DEFINE g1 == SetPc(q, "others")
           g2 == SetUser(g1, None)
           g  == SetFile(g2, NoFile)
<1>6. call' = [call EXCEPT ![s] = g]
  BY DEF RotateStrip, Goto, SetPc, SetUser, SetFile
<1>7. g1 \in CallType /\ g1.pc = "others" /\ g1.cols = q.cols /\ g1.new = q.new /\ g1.users = q.users
  BY PcSet DEF Pcs, SameBut
<1> HIDE DEF g1
<1>8. g2 \in CallType /\ g2.pc = "others" /\ g2.cols = q.cols /\ g2.new = q.new /\ g2.users = q.users
  BY <1>7, UserSet DEF SameBut
<1> HIDE DEF g2
<1>9. g \in CallType /\ g.pc = "others" /\ g.cols = q.cols /\ g.new = q.new /\ g.users = q.users
  BY <1>8, FileSet, Types DEF SameBut
<1> HIDE DEF g
<1>10. After(file', rec', g, u)
  <2>1. ASSUME NEW c \in g.cols PROVE file'[u].deks[c] = g.new[c]
    BY <1>2, <1>3, <1>5, <1>9 DEF After
  <2>2. ASSUME NEW c \in g.cols, NEW i \in Id PROVE rec'[<<c, i>>] \in {0, g.new[c]}
    BY <1>1, <1>2, <1>9 DEF After
  <2>3. ASSUME NEW c \in g.cols, NEW w \in User \ {u}, file'[w].deks[c] # 0 PROVE w \in g.users
    <3>1. w # v
      BY <1>2, <1>4, <1>5, <1>9, <2>3
    <3> QED
      BY <1>2, <1>3, <1>5, <1>9, <2>3, <3>1 DEF After
  <2>4. u \notin g.users /\ g.pc # "strip"
    BY <1>2, <1>9 DEF After
  <2> QED
    BY <2>1, <2>2, <2>3, <2>4 DEF After
<1>11. Turn(file', rec', g, u) /\ Turns(g)
  BY <1>2, <1>9, <1>10 DEF Turn, Turns
<1>12. FreshOf(file', mem', u) /\ Empty(file')
  BY <1>1, <1>2, <1>3, <1>4, <1>5 DEF FreshOf, IInv, Empty
<1>13. \A w \in User : /\ file'[w].role = file[w].role /\ mem'[w].role = mem[w].role
                       /\ file'[w].secret = file[w].secret
  BY <1>1, <1>4, <1>5
<1>14. \A c \in Coll \ g.cols : /\ \A w \in User : file'[w].deks[c] = file[w].deks[c]
                                /\ \A i \in Id : rec'[<<c, i>>] = rec[<<c, i>>]
  BY <1>1, <1>4, <1>5, <1>9
<1>15. rec' \in [Record -> Nat] /\ mem' \in [User -> MemType]
  BY <1>1 DEF IInv, TypeOK
<1> QED
  BY <1>1, <1>2, <1>5, <1>6, <1>9, <1>11, <1>12, <1>13, <1>14, <1>15, RotateStep
LEMMA ChangeSecretKeeps ==
    ASSUME Orderly, IInv, NEW s \in Slot, ChangeSecret(s)
    PROVE  IInv'
<1> PICK u \in User : u = s[1]
  BY Users
<1> PICK n \in Nat : n = secrets + 1
  BY DEF IInv, TypeOK
<1>1. /\ UNCHANGED <<rec, call, next>> /\ FreshOf(file, mem, u) /\ secrets' = n
      /\ file' = [file EXCEPT ![u] = Persisted(u, mem[u], n)]
      /\ mem' = [mem EXCEPT ![u].secret = n] /\ wanted' = [wanted EXCEPT ![u] = n]
      /\ \A t \in Slot : call[t].pc # "strip"
      /\ \A t \in Slot : t[1] = u => ~Makes(call[t])
  BY FreshGives, NotMaking DEF ChangeSecret, Orderly, Quiet
<1>2. mem[u] \in MemType
  BY DEF IInv, TypeOK
<1>3. PICK f \in FileType, m \in MemType :
         /\ file' = [file EXCEPT ![u] = f] /\ mem' = [mem EXCEPT ![u] = m]
         /\ f.role = mem[u].role /\ f.deks = mem[u].deks /\ f.secret = n
         /\ m.role = mem[u].role /\ m.deks = mem[u].deks /\ m.secret = n
  <2> DEFINE f == Persisted(u, mem[u], n)
             m == [mem[u] EXCEPT !.secret = n]
  <2>1. f \in FileType /\ f.role = mem[u].role /\ f.deks = mem[u].deks /\ f.secret = n
    BY <1>2 DEF Persisted, FileType, MemType
  <2>2. m \in MemType /\ m.role = mem[u].role /\ m.deks = mem[u].deks /\ m.secret = n
    BY <1>2 DEF MemType
  <2>3. file' = [file EXCEPT ![u] = f] /\ mem' = [mem EXCEPT ![u] = m]
    BY <1>1
  <2> HIDE DEF f, m
  <2> QED
    BY <2>1, <2>2, <2>3
<1>4. /\ file' \in [User -> FileType] /\ mem' \in [User -> MemType]
      /\ wanted' \in [User -> Nat]
      /\ file'[u] = f /\ mem'[u] = m /\ wanted'[u] = n
      /\ \A v \in User \ {u} : file'[v] = file[v] /\ mem'[v] = mem[v] /\ wanted'[v] = wanted[v]
  BY <1>1, <1>3 DEF IInv, TypeOK
<1>5. \A v \in User : /\ file'[v].role = file[v].role /\ file'[v].deks = file[v].deks
                      /\ mem'[v].role = mem[v].role /\ mem'[v].deks = mem[v].deks
  BY <1>1, <1>3, <1>4 DEF FreshOf
<1>6. TypeOK'
  BY <1>1, <1>4 DEF IInv, TypeOK
<1>7. Secrets(file', wanted') /\ Empty(file')
  BY <1>3, <1>4, <1>5 DEF IInv, Secrets, Empty
<1>8. ASSUME NEW t \in Slot PROVE Local(file', rec', mem', call'[t], t[1])
  <2> PICK k \in CallType : k = call[t]
    BY DEF IInv, TypeOK
  <2> PICK w \in User : w = t[1]
    BY Users
  <2>1. Local(file, rec, mem, k, w) /\ k.pc # "strip" /\ call' = call
    BY <1>1 DEF IInv
  <2> SUFFICES Local(file', rec', mem', k, w)
    BY <2>1
  <2>2. FreshOf(file, mem, w) => FreshOf(file', mem', w)
    BY <1>3, <1>4, <1>5 DEF FreshOf
  <2>3. Puts(file', mem', k, w) /\ Grants(mem', k, w)
    <3>1. k.pc = "save" => w # u
      BY <1>1 DEF Makes
    <3>2. k.pc = "save" => Saves(file', mem', k, w)
      BY <1>4, <2>1, <3>1 DEF Local, Puts, Saves
    <3> QED
      BY <1>5, <2>1, <3>2 DEF Local, Puts, Makes, Grants
  <2>4. ASSUME Turns(k) PROVE Turn(file', rec', k, w)
    <3>1. Turn(file, rec, k, w)
      BY <2>1, <2>4 DEF Local
    <3>2. ASSUME Before(file, rec, k, w) PROVE Before(file', rec', k, w)
      <4>1. \A c \in Coll, v \in User : file'[v].deks[c] = file[v].deks[c]
        BY <1>5
      <4>2. Before(file', rec, k, w)
        BY <3>2, <4>1, BeforeFromDeks
      <4> QED
        BY <1>1, <4>2
    <3>3. ASSUME After(file, rec, k, w) PROVE After(file', rec', k, w)
      <4>1. k.cols \subseteq Coll
        BY DEF CallType
      <4>2. /\ w \notin k.users
            /\ \A c \in k.cols : /\ file[w].deks[c] = k.new[c]
                                 /\ \A i \in Id : rec[<<c, i>>] \in {0, k.new[c]}
                                 /\ \A v \in User \ {w} : file[v].deks[c] # 0 => v \in k.users
        BY <2>1, <3>3 DEF After
      <4>3. \A c \in k.cols, v \in User : file'[v].deks[c] = file[v].deks[c] /\ rec' = rec
        BY <1>1, <1>5, <4>1
      <4> QED
        BY <2>1, <4>2, <4>3 DEF After
    <3> QED
      BY <3>1, <3>2, <3>3 DEF Turn
  <2> QED
    BY <1>5, <2>1, <2>2, <2>3, <2>4 DEF Local
<1>9. \A t1, t2 \in Slot : t1 # t2 => Apart(call'[t1], call'[t2])
  BY <1>1 DEF IInv
<1>10. ASSUME NEW c \in Coll PROVE Turning(call', c) \/ Whole(file', rec', c)
  <2>1. Whole(file, rec, c) => Whole(file', rec', c)
    BY <1>1, <1>5 DEF Whole
  <2> QED
    BY <1>1, <2>1 DEF IInv
<1>11. Solo(call')
  BY <1>1 DEF IInv
<1> QED
  BY <1>6, <1>7, <1>8, <1>9, <1>10, <1>11 DEF IInv

-----------------------------------------------------------------------------
LEMMA NextKeeps ==
    ASSUME Orderly, IInv, [Next]_vars
    PROVE  IInv'
<1>1. ASSUME NEW s \in Slot, LoadKeyring(s) \/ CreateOwnerKeyring(s) \/ ChangeSecret(s)
      PROVE  IInv'
  BY <1>1, LoadKeyringKeeps, CreateOwnerKeyringKeeps, ChangeSecretKeeps
<1>2. ASSUME NEW u \in User, Close(u) PROVE IInv'
  BY <1>2, CloseKeeps
<1>3. ASSUME NEW s \in Slot, NEW c \in Coll, NEW i \in Id, BeginPut(s, c, i) PROVE IInv'
  BY <1>3, BeginPutKeeps
<1>4. ASSUME NEW s \in Slot, \/ GetDEK(s) \/ EnsureCollectionDEK(s) \/ SaveDEK(s)
                             \/ PutRecord(s) \/ Fails(s)
      PROVE  IInv'
  BY <1>4, GetDEKKeeps, EnsureKeeps, SaveKeeps, PutRecordKeeps, FailsKeeps
<1>5. ASSUME NEW s \in Slot, NEW u \in User, NEW role \in Roles, NEW perms \in SUBSET Coll,
             BeginGrant(s, u, role, perms)
      PROVE  IInv'
  BY <1>5, BeginGrantKeeps
<1>6. ASSUME NEW s \in Slot, Grant(s) PROVE IInv'
  BY <1>6, GrantKeeps
<1>7. ASSUME NEW s \in Slot, NEW u \in User, NEW strict \in BOOLEAN, NEW rotate \in BOOLEAN,
             BeginRevoke(s, u, strict, rotate)
      PROVE  IInv'
  BY <1>7, BeginRevokeKeeps
<1>8. ASSUME NEW s \in Slot, RevokeWalk(s) \/ RevokeDelete(s) PROVE IInv'
  BY <1>8, RevokeWalkKeeps, RevokeDeleteKeeps
<1>9. ASSUME NEW s \in Slot, NEW cols \in SUBSET Coll, BeginRotate(s, cols) PROVE IInv'
  BY <1>9, BeginRotateKeeps
<1>10. ASSUME NEW s \in Slot, \/ RotateList(s) \/ RotateRecord(s) \/ RotateOwn(s)
                              \/ RotateRead(s) \/ RotateStrip(s)
       PROVE  IInv'
  BY <1>10, RotateListKeeps, RotateRecordKeeps, RotateOwnKeeps, RotateReadKeeps, RotateStripKeeps
<1>11. ASSUME UNCHANGED vars PROVE IInv'
  <2>1. /\ UNCHANGED <<file, rec, mem, call, next, secrets, wanted>>
    BY <1>11 DEF vars, history
  <2> QED
    BY <2>1 DEF IInv, TypeOK
<1> QED
  BY <1>1, <1>2, <1>3, <1>4, <1>5, <1>6, <1>7, <1>8, <1>9, <1>10, <1>11 DEF Next

(* Of an orderly vault: the invariant is kept, so no record is unreadable  *)
(* (RecordsReadable), nobody holds a DEK that reads only half of a         *)
(* collection (OneDEK), and every file opens with the passphrase its user  *)
(* has chosen last (SecretStays): keyring.ts, grant, revoke, rotateKeys,   *)
(* changeSecret, ensureCollectionDEK.                                      *)
THEOREM KeyringInvariance == Orderly => (Spec => []IInv)
<1> SUFFICES ASSUME Orderly PROVE Spec => []IInv
  OBVIOUS
<1>1. Init => IInv
  BY InitInv
<1>2. IInv /\ [Next]_vars => IInv'
  BY NextKeeps
<1> QED
  BY <1>1, <1>2, PTL DEF Spec

THEOREM KeysAlwaysFit == Orderly => (Spec => []KeysFit)
<1> SUFFICES ASSUME Orderly PROVE Spec => []KeysFit
  OBVIOUS
<1>1. IInv => KeysFit
  BY InvariantGives
<1> QED
  BY <1>1, KeyringInvariance, PTL
-----------------------------------------------------------------------------
(***************************************************************************)
(* A strict revoke leaves no admin that a revoked user has granted.  The   *)
(* operators below take the files f, who granted whom g, the revoked x and *)
(* the calls k.                                                            *)
(***************************************************************************)
Traceable ==
    \A b \in {"cutRevoke", "changedRole", "uninvited", "rewritten", "grantRevoking"} : b \notin Allowed

NoFiles(f)     == \A v \in User : f[v].role = "none"
Founded(f, x)  == f[Owner].role = "owner" \/ (NoFiles(f) /\ x = {})
GoneHave(f, x) == \A v \in x : v \in User /\ f[v].role = "none"

(* Whom the users in d have made an admin is in d, too.                    *)
Closure(f, g, d) == \A w \in User : f[w].role = "admin" /\ g[w] \in d => w \in d

Cuts(q)          == q.pc = "delete" /\ q.strict
Pending(k, w)    == \E s \in Slot : Cuts(k[s]) /\ w \in k[s].del
Traced(f, g, x, k) == \A w \in User : f[w].role = "admin" /\ g[w] \in x => Pending(k, w)

CallFits(f, g, q, u) ==
    /\ q.pc = "create" => u = Owner /\ NoFiles(f)
    /\ q.pc = "store" => q.op = "grant" /\ (q.user = Owner => q.file.role = "owner")
    /\ q.pc \in {"walk", "delete"} => q.op = "revoke" /\ Owner \notin q.del
    /\ q.pc = "walk" => q.user \in User /\ q.del = {q.user}
    /\ Cuts(q) => Closure(f, g, q.del)

CInv ==
    /\ Founded(file, gone) /\ GoneHave(file, gone) /\ Traced(file, granter, gone, call)
    /\ granter \in [User -> User \cup {None}]
    /\ \A s \in Slot : CallFits(file, granter, call[s], s[1])
    /\ \A s, t \in Slot : call[s].op = "grant" => call[t].op # "revoke"
LEMMA CInvGives == CInv => CascadeComplete
<1> SUFFICES ASSUME CInv, \A s \in Slot : call[s].op # "revoke",
                    NEW v \in User, file[v].role = "admin", granter[v] \in gone
             PROVE  FALSE
  BY DEF CascadeComplete
<1> PICK s \in Slot : Cuts(call[s])
  BY DEF CInv, Traced, Pending
<1> QED
  BY DEF CInv, CallFits, Cuts

LEMMA InitCInv == Init => CInv
<1> SUFFICES ASSUME Init PROVE CInv
  OBVIOUS
<1>1. /\ file = [u \in User |-> NoFile] /\ granter = [u \in User |-> None] /\ gone = {}
      /\ \A s \in Slot : call[s] = Idle
  BY DEF Init
<1>2. NoFile.role = "none" /\ Idle.pc = "idle" /\ Idle.op = "none"
  BY Types
<1>3. Founded(file, gone) /\ GoneHave(file, gone) /\ Traced(file, granter, gone, call)
  BY <1>1, <1>2 DEF Founded, GoneHave, Traced, NoFiles
<1>4. \A s \in Slot : CallFits(file, granter, call[s], s[1])
  BY <1>1, <1>2 DEF CallFits, Cuts
<1>5. \A s, t \in Slot : call[s].op = "grant" => call[t].op # "revoke"
  BY <1>1, <1>2
<1> QED
  BY <1>1, <1>3, <1>4, <1>5 DEF CInv

(* A step of one call that takes no file away and adds none.               *)
LEMMA SameRoles ==
    ASSUME CInv, NEW s \in Slot, NEW g, call \in [Slot -> CallType],
           call' = [call EXCEPT ![s] = g], ~Cuts(call[s]),
           \A v \in User : file'[v].role = file[v].role,
           granter' = granter, gone' = gone,
           CallFits(file, granter, g, s[1]),
           g.op = "grant" => \A t \in Slot \ {s} : call[t].op # "revoke",
           g.op = "revoke" => \A t \in Slot \ {s} : call[t].op # "grant"
    PROVE  CInv'
<1>1. call'[s] = g /\ \A t \in Slot \ {s} : call'[t] = call[t]
  OBVIOUS
<1>2. Owner \in User
  BY KeyringAssumption
<1>3. Founded(file', gone') /\ GoneHave(file', gone')
  BY <1>2 DEF CInv, Founded, GoneHave, NoFiles
<1>4. Traced(file', granter', gone', call')
  <2> SUFFICES ASSUME NEW w \in User, file[w].role = "admin", granter[w] \in gone
               PROVE  Pending(call', w)
    BY DEF Traced
  <2> PICK t \in Slot : Cuts(call[t]) /\ w \in call[t].del
    BY DEF CInv, Traced, Pending
  <2>1. call'[t] = call[t]
    BY <1>1
  <2> QED
    BY <2>1 DEF Pending
<1>5. ASSUME NEW t \in Slot PROVE CallFits(file', granter', call'[t], t[1])
  <2>1. CallFits(file, granter, call'[t], t[1])
    BY <1>1 DEF CInv
  <2> QED
    BY <2>1 DEF CallFits, Closure, NoFiles
<1>6. \A t1, t2 \in Slot : call'[t1].op = "grant" => call'[t2].op # "revoke"
  BY <1>1 DEF CInv
<1>7. granter' \in [User -> User \cup {None}]
  BY DEF CInv
<1> QED
  BY <1>3, <1>4, <1>5, <1>6, <1>7 DEF CInv

(* The call goes on, or ends.                                              *)
LEMMA GoesOn ==
    ASSUME IInv, CInv, NEW s \in Slot, NEW g, call' = [call EXCEPT ![s] = g], ~Cuts(call[s]),
           \A v \in User : file'[v].role = file[v].role,
           granter' = granter, gone' = gone,
           g.op \in {call[s].op, "none"}, g.pc \notin {"create", "store", "walk", "delete"}
    PROVE  CInv'
<1>1. CallFits(file, granter, g, s[1])
  BY DEF CallFits, Cuts
<1>2. /\ g.op = "grant" => \A t \in Slot \ {s} : call[t].op # "revoke"
      /\ g.op = "revoke" => \A t \in Slot \ {s} : call[t].op # "grant"
  BY DEF CInv
<1>3. call \in [Slot -> CallType]
  BY DEF IInv, TypeOK
<1> QED
  BY <1>1, <1>2, <1>3, SameRoles

(* A step that changes the call only.                                      *)
LEMMA Continues ==
    ASSUME IInv, CInv, NEW s \in Slot, NEW g, call' = [call EXCEPT ![s] = g], ~Cuts(call[s]),
           UNCHANGED <<file, granter, gone>>,
           g.op \in {call[s].op, "none"}, g.pc \notin {"create", "store", "walk", "delete"}
    PROVE  CInv'
  BY GoesOn

LEMMA PutsTrace ==
    ASSUME Orderly, IInv, CInv, NEW s \in Slot,
           \/ GetDEK(s) \/ EnsureCollectionDEK(s) \/ SaveDEK(s) \/ PutRecord(s)
           \/ \E c \in Coll, i \in Id : BeginPut(s, c, i)
    PROVE  CInv'
<1> PICK q \in CallType : q = call[s]
  BY DEF IInv, TypeOK
<1>1. CASE GetDEK(s)
  <2>1. ~Cuts(q) /\ UNCHANGED <<file, granter, gone>>
    BY <1>1 DEF GetDEK, Cuts, history
  <2>2. ASSUME NEW pc \in {"made", "put"}, NEW d,
               call' = [call EXCEPT ![s] = [q EXCEPT !.pc = pc, !.dek = d]]
        PROVE  CInv'
    <3> DEFINE g == [q EXCEPT !.pc = pc, !.dek = d]
    <3>1. g.op = q.op /\ g.pc = pc
      BY DEF CallType
    <3>2. call' = [call EXCEPT ![s] = g]
      BY <2>2
    <3> HIDE DEF g
    <3> QED
      BY <2>1, <3>1, <3>2, Continues
  <2>3. \/ \E d : call' = [call EXCEPT ![s] = [q EXCEPT !.pc = "put", !.dek = d]]
        \/ \E d : call' = [call EXCEPT ![s] = [q EXCEPT !.pc = "made", !.dek = d]]
    BY <1>1 DEF GetDEK, Goto
  <2> QED
    BY <2>2, <2>3
<1>2. CASE EnsureCollectionDEK(s)
  <2> PICK f : call' = [call EXCEPT ![s] = [q EXCEPT !.pc = "save", !.file = f]]
    BY <1>2 DEF EnsureCollectionDEK, Goto
  <2> DEFINE g == [q EXCEPT !.pc = "save", !.file = f]
  <2>2. g.op = q.op /\ g.pc = "save"
    BY DEF CallType
  <2>3. call' = [call EXCEPT ![s] = g]
    OBVIOUS
  <2> HIDE DEF g
  <2>1. ~Cuts(q) /\ UNCHANGED <<file, granter, gone>>
    BY <1>2 DEF EnsureCollectionDEK, Cuts, history
  <2> QED
    BY <2>1, <2>2, <2>3, Continues
<1>5. CASE SaveDEK(s)
  <2> PICK u \in User : u = s[1]
    BY Users
  <2> PICK f : call' = [call EXCEPT ![s] = [q EXCEPT !.pc = "put", !.file = f]]
    BY <1>5 DEF SaveDEK, Goto
  <2> DEFINE g == [q EXCEPT !.pc = "put", !.file = f]
  <2>4. g.op = q.op /\ g.pc = "put"
    BY DEF CallType
  <2>5. call' = [call EXCEPT ![s] = g]
    OBVIOUS
  <2> HIDE DEF g
  <2>1. /\ ~Cuts(q) /\ UNCHANGED <<granter, gone>> /\ q.pc = "save"
        /\ file' = [file EXCEPT ![u] = q.file]
    BY <1>5 DEF SaveDEK, Cuts, history
  <2>2. q.file.role = file[u].role
    BY <2>1 DEF IInv, Local, Puts, Saves
  <2>3. ASSUME NEW v \in User PROVE file'[v].role = file[v].role
    BY <2>1, <2>2 DEF IInv, TypeOK
  <2> QED
    BY <2>1, <2>3, <2>4, <2>5, GoesOn
<1>3. CASE PutRecord(s)
  <2>1. /\ ~Cuts(q) /\ UNCHANGED <<file, granter, gone>> /\ call' = [call EXCEPT ![s] = Idle]
    BY <1>3 DEF PutRecord, Cuts, history, Ends, Goto
  <2> QED
    BY <2>1, Continues, Types
<1>4. ASSUME NEW c \in Coll, NEW i \in Id, BeginPut(s, c, i) PROVE CInv'
  <2> PICK g : call' = [call EXCEPT ![s] = g] /\ g.op = "put" /\ g.pc = "dek" /\ call[s] = Idle
    <3> DEFINE g == [Idle EXCEPT !.op = "put", !.pc = "dek", !.coll = c, !.id = i]
    <3>1. g.op = "put" /\ g.pc = "dek"
      BY Types DEF CallType
    <3>2. call' = [call EXCEPT ![s] = g] /\ call[s] = Idle
      BY <1>4 DEF BeginPut, Acts, Goto
    <3> QED
      BY <3>1, <3>2
  <2>1. CallFits(file, granter, g, s[1]) /\ ~Cuts(call[s]) /\ call \in [Slot -> CallType]
    BY Types DEF CallFits, Cuts, IInv, TypeOK
  <2>2. UNCHANGED <<file, granter, gone>>
    BY <1>4 DEF BeginPut, history
  <2> QED
    BY <2>1, <2>2, SameRoles
<1> QED
  BY <1>1, <1>2, <1>3, <1>4, <1>5

LEMMA FailsTrace ==
    ASSUME Traceable, IInv, CInv, NEW s \in Slot, Fails(s)
    PROVE  CInv'
<1>1. /\ ~Cuts(call[s]) /\ UNCHANGED <<file, granter, gone>> /\ call' = [call EXCEPT ![s] = Idle]
  BY DEF Fails, Cuts, history, Ends, Goto, Traceable
<1> QED
  BY <1>1, Continues, Types

LEMMA OpensTrace ==
    ASSUME Orderly, Traceable, IInv, CInv, NEW s \in Slot, LoadKeyring(s)
    PROVE  CInv'
<1> PICK u \in User : u = s[1]
  BY Users
<1>1. call[s] = Idle /\ UNCHANGED <<file, granter, gone>>
  BY DEF LoadKeyring, history
<1>2. CASE file[u].role = "none"
  <2> DEFINE g == [Idle EXCEPT !.op = "open", !.pc = "create"]
  <2>1. call' = [call EXCEPT ![s] = g] /\ u = Owner /\ \A v \in User : file[v].role = "none"
    BY <1>2 DEF LoadKeyring, Goto, Traceable
  <2>2. g.op = "open" /\ g.pc = "create"
    BY Types DEF CallType
  <2> HIDE DEF g
  <2>3. CallFits(file, granter, g, s[1]) /\ ~Cuts(call[s]) /\ call \in [Slot -> CallType]
    BY <1>1, <2>1, <2>2, Types DEF CallFits, Cuts, NoFiles, IInv, TypeOK
  <2> QED
    BY <1>1, <2>1, <2>2, <2>3, SameRoles
<1>3. CASE file[u].role # "none"
  <2>1. call' = call
    BY <1>3 DEF LoadKeyring
  <2> QED
    BY <1>1, <2>1 DEF CInv, Traced, Pending
<1> QED
  BY <1>2, <1>3

LEMMA CreateTraces ==
    ASSUME IInv, CInv, NEW s \in Slot, CreateOwnerKeyring(s)
    PROVE  CInv'
<1> PICK u \in User : u = s[1]
  BY Users
<1>1. /\ call[s].pc = "create" /\ call' = [call EXCEPT ![s] = Idle]
      /\ granter' = [granter EXCEPT ![u] = u] /\ gone' = gone
      /\ file' = [file EXCEPT ![u] = Persisted(u, [Closed EXCEPT !.role = "owner",
                     !.secret = wanted[u], !.vault = wanted[u]], wanted[u])]
  BY DEF CreateOwnerKeyring, Ends, Goto, Closed
<1>2. u = Owner /\ NoFiles(file)
  BY <1>1 DEF CInv, CallFits
<1>3. file[u].role = "none" /\ u \in User
  BY <1>2 DEF NoFiles
<1>4. gone = {}
  BY <1>2, <1>3 DEF CInv, Founded
<1>5. /\ file'[u].role = "owner" /\ \A v \in User \ {u} : file'[v].role = "none"
      /\ granter' \in [User -> User \cup {None}]
  BY <1>1, <1>2 DEF Persisted, Closed, IInv, TypeOK, NoFiles, CInv
<1>6. ASSUME NEW t \in Slot PROVE call'[t].pc = "idle" /\ call'[t].op = "none"
  <2>1. CASE t = s
    BY <1>1, <2>1, Types DEF IInv, TypeOK
  <2>2. CASE t # s
    <3>1. call[t].pc # "create" /\ Local(file, rec, mem, call[t], t[1]) /\ t[1] \in User
      BY <1>1, <2>2, Users DEF IInv, Apart
    <3>2. call[t] = Idle
      BY <1>2, <3>1 DEF Local, Puts, Saves, FreshOf, NoFiles
    <3> QED
      BY <1>1, <2>2, <3>2, Types
  <2> QED
    BY <2>1, <2>2
<1>7. Founded(file', gone') /\ GoneHave(file', gone') /\ Traced(file', granter', gone', call')
  BY <1>1, <1>2, <1>4, <1>5 DEF Founded, GoneHave, Traced
<1>8. \A t \in Slot : CallFits(file', granter', call'[t], t[1])
  BY <1>6 DEF CallFits, Cuts
<1> QED
  BY <1>5, <1>6, <1>7, <1>8 DEF CInv

LEMMA CloseTraces ==
    ASSUME Traceable, IInv, CInv, NEW u \in User, Close(u)
    PROVE  CInv'
<1>1. /\ UNCHANGED <<file, granter, gone>>
      /\ call' = [s \in Slot |-> IF s[1] = u THEN Idle ELSE call[s]]
      /\ \A s \in Slot : s[1] = u => call[s].pc # "delete"
  BY DEF Close, history, Traceable
<1>2. Traced(file', granter', gone', call')
  <2> SUFFICES ASSUME NEW w \in User, file[w].role = "admin", granter[w] \in gone
               PROVE  Pending(call', w)
    BY <1>1 DEF Traced
  <2> PICK t \in Slot : Cuts(call[t]) /\ w \in call[t].del
    BY DEF CInv, Traced, Pending
  <2>1. call'[t] = call[t]
    BY <1>1 DEF Cuts
  <2> QED
    BY <2>1 DEF Pending
<1>3. \A t \in Slot : CallFits(file', granter', call'[t], t[1])
  BY <1>1, Types DEF CInv, CallFits, Cuts
<1>4. \A t1, t2 \in Slot : call'[t1].op = "grant" => call'[t2].op # "revoke"
  BY <1>1, Types DEF CInv
<1> QED
  BY <1>1, <1>2, <1>3, <1>4 DEF CInv

LEMMA BeginGrantTraces ==
    ASSUME Orderly, Traceable, IInv, CInv, NEW s \in Slot, NEW v \in User, NEW role \in Roles,
           NEW perms \in SUBSET Coll, BeginGrant(s, v, role, perms)
    PROVE  CInv'
<1> PICK f : /\ f.role = role
             /\ Acts(s, [Idle EXCEPT !.op = "grant", !.pc = "store", !.user = v, !.file = f])
  BY DEF BeginGrant
<1> DEFINE g == [Idle EXCEPT !.op = "grant", !.pc = "store", !.user = v, !.file = f]
<1>1. g.op = "grant" /\ g.pc = "store" /\ g.user = v /\ g.file = f
  BY Types DEF CallType
<1>2. Acts(s, g)
  OBVIOUS
<1> HIDE DEF g
<1>3. /\ call[s] = Idle /\ call' = [call EXCEPT ![s] = g] /\ FreshOf(file, mem, s[1])
      /\ s[1] \in User
  BY <1>2, Begins
<1>4. /\ UNCHANGED <<file, granter, gone>>
      /\ file[v].role \notin {"owner", "admin"} \ {role}
      /\ \A t \in Slot : call[t].op # "revoke"
  BY DEF BeginGrant, history, Traceable
<1>5. file[Owner].role = "owner"
  BY <1>3 DEF CInv, Founded, NoFiles, FreshOf
<1>6. CallFits(file, granter, g, s[1])
  BY <1>1, <1>4, <1>5 DEF CallFits, Cuts
<1>7. ~Cuts(call[s]) /\ call \in [Slot -> CallType]
  BY <1>3, Types DEF Cuts, IInv, TypeOK
<1> QED
  BY <1>1, <1>3, <1>4, <1>6, <1>7, SameRoles

LEMMA GrantTraces ==
    ASSUME Orderly, Traceable, IInv, CInv, NEW s \in Slot, Grant(s)
    PROVE  CInv'
<1> PICK q \in CallType : q = call[s]
  BY DEF IInv, TypeOK
<1> PICK u \in User : u = s[1]
  BY Users
<1>1. /\ q.pc = "store" /\ file' = [file EXCEPT ![q.user] = q.file]
      /\ call' = [call EXCEPT ![s] = Idle] /\ ~Busy(q.user)
      /\ granter' = [granter EXCEPT ![q.user] = u] /\ gone' = gone \ {q.user}
  BY DEF Grant, Orderly, Ends, Goto
<1>2. /\ q.op = "grant" /\ q.user \in User /\ file[u].role # "none"
      /\ q.user = Owner => q.file.role = "owner"
  BY <1>1 DEF IInv, CInv, Local, Grants, FreshOf, CallFits
<1>3. u # q.user
  <2>1. call[s] # Idle
    BY <1>1, Types
  <2> QED
    BY <1>1, <2>1 DEF Busy, Slot
<1>4. /\ file' \in [User -> FileType] /\ file'[q.user] = q.file
      /\ \A v \in User \ {q.user} : file'[v] = file[v] /\ granter'[v] = granter[v]
      /\ granter'[q.user] = u /\ granter' \in [User -> User \cup {None}]
  BY <1>1, <1>2 DEF IInv, TypeOK, CallType, CInv
<1>5. /\ \A t \in Slot : call[t].op # "revoke" /\ call[t].pc \notin {"walk", "delete"}
      /\ \A t \in Slot \ {s} : call'[t] = call[t]
      /\ call'[s] = Idle
  BY <1>1, <1>2 DEF CInv, CallFits, IInv, TypeOK
<1>6. u \notin gone /\ file[Owner].role = "owner"
  BY <1>2 DEF CInv, GoneHave, Founded, NoFiles
<1>7. Founded(file', gone')
  BY <1>2, <1>4, <1>6, KeyringAssumption DEF Founded
<1>8. GoneHave(file', gone')
  BY <1>1, <1>4 DEF GoneHave, CInv
<1>9. Traced(file', granter', gone', call')
  <2>1. \A w \in User : ~(file[w].role = "admin" /\ granter[w] \in gone)
    BY <1>5 DEF CInv, Traced, Pending, Cuts
  <2> QED
    BY <1>1, <1>4, <1>6, <2>1 DEF Traced
<1>10. ASSUME NEW t \in Slot PROVE CallFits(file', granter', call'[t], t[1])
  <2>1. call[t].pc # "create"
    BY <1>2 DEF CInv, CallFits, NoFiles
  <2> QED
    BY <1>5, <2>1, Types DEF CInv, CallFits, Cuts
<1>11. \A t1, t2 \in Slot : call'[t1].op = "grant" => call'[t2].op # "revoke"
  BY <1>5, Types
<1> QED
  BY <1>4, <1>7, <1>8, <1>9, <1>10, <1>11 DEF CInv
(* The users a user has made an admin, directly or not, are admins and     *)
(* are closed under that.                                                  *)
LEMMA Descendants ==
    ASSUME NEW u \in User
    PROVE  /\ \A v \in FindAdminDescendants(u) : v \in User \ {u} /\ file[v].role = "admin"
           /\ \A w \in User \ {u} : file[w].role = "admin" /\ file[w].by \in {u} \cup FindAdminDescendants(u)
                                      => w \in FindAdminDescendants(u)
<1> DEFINE Complete(S) == \A v \in User \ {u} : file[v].role = "admin" /\ file[v].by \in S => v \in S
<1>1. FindAdminDescendants(u) =
        {v \in User \ {u} : \A S \in SUBSET User : u \in S /\ Complete(S) => v \in S}
  BY DEF FindAdminDescendants
<1>2. ASSUME NEW v \in FindAdminDescendants(u) PROVE v \in User \ {u} /\ file[v].role = "admin"
  <2> DEFINE T == {u} \cup {x \in User : file[x].role = "admin"}
  <2>1. T \in SUBSET User /\ u \in T /\ Complete(T)
    OBVIOUS
  <2>2. v \in T /\ v \in User \ {u}
    BY <1>1, <2>1
  <2> QED
    BY <2>2
<1>3. ASSUME NEW w \in User \ {u}, file[w].role = "admin",
             file[w].by \in {u} \cup FindAdminDescendants(u)
      PROVE  w \in FindAdminDescendants(u)
  <2>1. ASSUME NEW S \in SUBSET User, u \in S, Complete(S) PROVE w \in S
    <3>1. file[w].by \in S
      BY <1>1, <1>3, <2>1
    <3> QED
      BY <1>3, <2>1, <3>1
  <2> QED
    BY <1>1, <2>1
<1> QED
  BY <1>2, <1>3

LEMMA BeginRevokeTraces ==
    ASSUME Orderly, Traceable, IInv, CInv, NEW s \in Slot, NEW v \in User, NEW strict \in BOOLEAN,
           NEW rotate \in BOOLEAN, BeginRevoke(s, v, strict, rotate)
    PROVE  CInv'
<1> DEFINE g == [Idle EXCEPT !.op = "revoke", !.pc = "walk", !.user = v,
                             !.strict = strict /\ file[v].role = "admin",
                             !.rotate = rotate, !.del = {v}, !.cols = Held(file[v])]
<1>1. Acts(s, g)
  BY DEF BeginRevoke
<1>2. g.op = "revoke" /\ g.pc = "walk" /\ g.user = v /\ g.del = {v}
  BY Types DEF CallType
<1> HIDE DEF g
<1>3. /\ call[s] = Idle /\ call' = [call EXCEPT ![s] = g] /\ FreshOf(file, mem, s[1])
      /\ s[1] \in User
  BY <1>1, Begins
<1>4. /\ UNCHANGED <<file, granter, gone>> /\ file[v].role # "owner"
      /\ \A t \in Slot : call[t].op # "grant"
  BY DEF BeginRevoke, history, Traceable, CanRevoke
<1>5. file[Owner].role = "owner"
  BY <1>3 DEF CInv, Founded, NoFiles, FreshOf
<1>6. CallFits(file, granter, g, s[1])
  BY <1>2, <1>4, <1>5 DEF CallFits, Cuts
<1>7. ~Cuts(call[s]) /\ call \in [Slot -> CallType]
  BY <1>3, Types DEF Cuts, IInv, TypeOK
<1> QED
  BY <1>2, <1>3, <1>4, <1>6, <1>7, SameRoles

LEMMA RevokeWalkTraces ==
    ASSUME Traceable, IInv, CInv, NEW s \in Slot, RevokeWalk(s)
    PROVE  CInv'
<1> PICK q \in CallType : q = call[s]
  BY DEF IInv, TypeOK
<1> PICK u \in User : u = s[1]
  BY Users
<1> DEFINE desc == IF q.strict THEN FindAdminDescendants(q.user) ELSE {}
           del  == q.del \cup desc
           cols == q.cols \cup UNION {Held(file[v]) : v \in desc}
           g    == [q EXCEPT !.pc = "delete", !.del = del, !.cols = cols]
<1>1. /\ q.pc = "walk" /\ UNCHANGED <<file, granter, gone>> /\ call' = [call EXCEPT ![s] = g]
      /\ ~q.strict \/ \A v \in User : file[v].role = "admin" => file[v].by = granter[v]
  BY DEF RevokeWalk, Goto, history, Traceable
<1>2. /\ q.op = "revoke" /\ q.user \in User /\ q.del = {q.user} /\ Owner \notin q.del
      /\ file[u].role # "none"
  BY <1>1 DEF IInv, CInv, CallFits, Local, FreshOf
<1>3. g.op = "revoke" /\ g.pc = "delete" /\ g.del = del /\ g.strict = q.strict
  BY <1>2 DEF CallType
<1> HIDE DEF g
<1>4. Owner \notin del
  <2>1. file[Owner].role = "owner"
    BY <1>2 DEF CInv, Founded, NoFiles
  <2> QED
    BY <1>2, <2>1, Descendants
<1>5. q.strict => Closure(file, granter, del)
  BY <1>1, <1>2, Descendants DEF Closure
<1> HIDE DEF del, desc
<1>6. CallFits(file, granter, g, s[1])
  BY <1>3, <1>4, <1>5 DEF CallFits, Cuts
<1>7. ~Cuts(call[s]) /\ \A t \in Slot \ {s} : call[t].op # "grant"
  BY <1>1, <1>2 DEF Cuts, CInv
<1>8. call \in [Slot -> CallType]
  BY DEF IInv, TypeOK
<1> QED
  BY <1>1, <1>3, <1>6, <1>7, <1>8, SameRoles

(* A rotation begins.                                                      *)
LEMMA RotateWithTraces ==
    ASSUME Orderly, IInv, CInv, NEW s \in Slot, NEW q \in CallType, NEW cols \in SUBSET Coll,
           RotateWith(s, q, cols), UNCHANGED <<file, granter, gone>>,
           Cuts(call[s]) => call[s].del = {}, q.op # "grant"
    PROVE  CInv'
<1> DEFINE g == [q EXCEPT !.pc = "list", !.cols = cols, !.list = cols, !.user = None, !.del = {},
                          !.new = [c \in Coll |-> IF c \in cols THEN next ELSE 0]]
<1>1. call' = [call EXCEPT ![s] = g] /\ \A t \in Slot \ {s} : call[t] = Idle
  BY DEF RotateWith, Goto, Orderly
<1>2. g.op = q.op /\ g.pc = "list"
  BY DEF CallType
<1> HIDE DEF g
<1>3. /\ call'[s] = g /\ \A t \in Slot \ {s} : call'[t] = Idle
  BY <1>1 DEF IInv, TypeOK
<1>4. Traced(file', granter', gone', call')
  <2>1. \A w \in User : ~Pending(call, w)
    BY <1>1, Types DEF Pending, Cuts
  <2> QED
    BY <2>1 DEF CInv, Traced
<1>5. \A t \in Slot : CallFits(file', granter', call'[t], t[1])
  BY <1>2, <1>3, Types DEF CallFits, Cuts
<1>6. \A t1, t2 \in Slot : call'[t1].op = "grant" => call'[t2].op # "revoke"
  BY <1>2, <1>3, Types
<1> QED
  BY <1>4, <1>5, <1>6 DEF CInv, Founded, GoneHave

LEMMA RevokeDeleteTraces ==
    ASSUME Orderly, IInv, CInv, NEW s \in Slot, RevokeDelete(s)
    PROVE  CInv'
<1> PICK q \in CallType : q = call[s]
  BY DEF IInv, TypeOK
<1> PICK u \in User : u = s[1]
  BY Users
<1>1. /\ q.pc = "delete" /\ q.op = "revoke" /\ Owner \notin q.del /\ granter' = granter
      /\ q.strict => Closure(file, granter, q.del)
      /\ q.del \in SUBSET User /\ q.cols \in SUBSET Coll /\ file[u].role # "none"
  BY DEF RevokeDelete, CInv, CallFits, Cuts, CallType, IInv, Local, FreshOf
<1>2. CASE q.del # {}
  <2> PICK v \in q.del :
         /\ file' = [file EXCEPT ![v] = NoFile]
         /\ call' = [call EXCEPT ![s] = [q EXCEPT !.del = q.del \ {v}]]
         /\ gone' = IF q.strict THEN gone \cup {v} ELSE gone
    BY <1>2 DEF RevokeDelete, Goto
  <2> DEFINE g == [q EXCEPT !.del = q.del \ {v}]
  <2>1. call' = [call EXCEPT ![s] = g]
    OBVIOUS
  <2>2. g.op = "revoke" /\ g.pc = "delete" /\ g.del = q.del \ {v} /\ g.strict = q.strict
    BY <1>1 DEF CallType
  <2> HIDE DEF g
  <2>3. /\ v \in User /\ v # Owner
        /\ file'[v].role = "none" /\ \A w \in User \ {v} : file'[w] = file[w]
        /\ call'[s] = g /\ \A t \in Slot \ {s} : call'[t] = call[t]
    BY <1>1, <2>1, Types DEF IInv, TypeOK
  <2>4. file[Owner].role = "owner"
    BY <1>1 DEF CInv, Founded, NoFiles
  <2>5. Founded(file', gone')
    BY <2>3, <2>4, KeyringAssumption DEF Founded
  <2>6. GoneHave(file', gone')
    BY <2>3 DEF CInv, GoneHave
  <2>7. Traced(file', granter', gone', call')
    <3> SUFFICES ASSUME NEW w \in User, file'[w].role = "admin", granter[w] \in gone'
                 PROVE  Pending(call', w)
      BY <1>1 DEF Traced
    <3>1. w # v /\ file[w].role = "admin"
      BY <2>3
    <3>2. CASE granter[w] \in gone
      <4> PICK t \in Slot : Cuts(call[t]) /\ w \in call[t].del
        BY <3>1, <3>2 DEF CInv, Traced, Pending
      <4>1. CASE t = s
        BY <2>2, <2>3, <3>1, <4>1 DEF Pending, Cuts
      <4>2. CASE t # s
        BY <2>3, <4>2 DEF Pending
      <4> QED
        BY <4>1, <4>2
    <3>3. CASE granter[w] \notin gone
      <4>1. q.strict /\ granter[w] = v
        BY <3>3
      <4>2. w \in q.del \ {v}
        BY <1>1, <3>1, <4>1 DEF Closure
      <4> QED
        BY <1>1, <2>2, <2>3, <4>1, <4>2 DEF Pending, Cuts
    <3> QED
      BY <3>2, <3>3
  <2>8. ASSUME NEW t \in Slot PROVE CallFits(file', granter', call'[t], t[1])
    <3>1. CASE t = s
      <4>1. q.strict => Closure(file', granter', q.del \ {v})
        BY <1>1, <2>3 DEF Closure
      <4> QED
        BY <1>1, <2>2, <2>3, <3>1, <4>1 DEF CallFits, Cuts
    <3>2. CASE t # s
      <4> PICK k \in CallType : k = call[t]
        BY DEF IInv, TypeOK
      <4>1. CallFits(file, granter, k, t[1]) /\ call'[t] = k
        BY <2>3, <3>2 DEF CInv
      <4>2. Closure(file, granter, k.del) => Closure(file', granter', k.del)
        BY <1>1, <2>3 DEF Closure
      <4>3. k.pc # "create"
        BY <2>4, <4>1, KeyringAssumption DEF CallFits, NoFiles
      <4> QED
        BY <4>1, <4>2, <4>3 DEF CallFits
    <3> QED
      BY <3>1, <3>2
  <2>9. \A t1, t2 \in Slot : call'[t1].op = "grant" => call'[t2].op # "revoke"
    BY <1>1, <2>2, <2>3 DEF CInv
  <2> QED
    BY <1>1, <2>5, <2>6, <2>7, <2>8, <2>9 DEF CInv
<1>3. CASE q.del = {} /\ q.rotate /\ q.cols # {}
  <2>1. RotateWith(s, q, q.cols) /\ UNCHANGED <<file, granter, gone>>
    BY <1>3 DEF RevokeDelete
  <2> QED
    BY <1>1, <1>3, <2>1, RotateWithTraces
<1>4. CASE q.del = {} /\ ~(q.rotate /\ q.cols # {})
  <2>1. UNCHANGED <<file, granter, gone>> /\ call' = [call EXCEPT ![s] = Idle]
    BY <1>4 DEF RevokeDelete, Ends, Goto
  <2>2. call'[s] = Idle /\ \A t \in Slot \ {s} : call'[t] = call[t]
    BY <2>1 DEF IInv, TypeOK
  <2>3. Traced(file', granter', gone', call')
    <3> SUFFICES ASSUME NEW w \in User, file[w].role = "admin", granter[w] \in gone
                 PROVE  Pending(call', w)
      BY <2>1 DEF Traced
    <3> PICK t \in Slot : Cuts(call[t]) /\ w \in call[t].del
      BY DEF CInv, Traced, Pending
    <3> QED
      BY <1>4, <2>2 DEF Pending
  <2>4. \A t \in Slot : CallFits(file', granter', call'[t], t[1])
    BY <2>1, <2>2, Types DEF CInv, CallFits, Cuts
  <2>5. \A t1, t2 \in Slot : call'[t1].op = "grant" => call'[t2].op # "revoke"
    BY <2>2, Types DEF CInv
  <2> QED
    BY <2>1, <2>3, <2>4, <2>5 DEF CInv, Founded, GoneHave
<1> QED
  BY <1>2, <1>3, <1>4
LEMMA BeginRotateTraces ==
    ASSUME Orderly, IInv, CInv, NEW s \in Slot, NEW cols \in SUBSET Coll, BeginRotate(s, cols)
    PROVE  CInv'
<1> DEFINE q == SetOp(Idle, "rotate")
<1>1. RotateWith(s, q, cols) /\ call[s] = Idle /\ UNCHANGED <<file, granter, gone>>
  BY DEF BeginRotate, SetOp, history
<1>2. q \in CallType /\ q.op = "rotate"
  BY Types, OpSet
<1> HIDE DEF q
<1>3. ~Cuts(call[s])
  BY <1>1, Types DEF Cuts
<1> QED
  BY <1>1, <1>2, <1>3, RotateWithTraces

(* What a step of a rotation does to its call.                             *)
LEMMA RotateCalls ==
    ASSUME IInv, NEW s \in Slot,
           \/ RotateList(s) \/ RotateRecord(s) \/ RotateOwn(s) \/ RotateRead(s) \/ RotateStrip(s)
    PROVE  /\ ~Cuts(call[s])
           /\ \E g : /\ call' = [call EXCEPT ![s] = g] /\ g.op \in {call[s].op, "none"}
                     /\ g.pc \notin {"create", "store", "walk", "delete"}
<1> PICK q \in CallType : q = call[s]
  BY DEF IInv, TypeOK
<1> PICK u \in User : u = s[1]
  BY Users
<1> SUFFICES /\ ~Cuts(q)
             /\ \E g : /\ call' = [call EXCEPT ![s] = g] /\ g.op \in {q.op, "none"}
                       /\ g.pc \notin {"create", "store", "walk", "delete"}
  OBVIOUS
<1>0. Ends(s) => \E g : /\ call' = [call EXCEPT ![s] = g] /\ g.op \in {q.op, "none"}
                        /\ g.pc \notin {"create", "store", "walk", "delete"}
  BY Types DEF Ends, Goto
<1>1. CASE RotateList(s)
  <2>0. ~Cuts(q)
    BY <1>1 DEF RotateList, Cuts
  <2>1. CASE q.list = {}
    <3> DEFINE g == [q EXCEPT !.pc = "own"]
    <3>1. call' = [call EXCEPT ![s] = g]
      BY <1>1, <2>1 DEF RotateList, Goto
    <3>2. g.op = q.op /\ g.pc = "own"
      BY DEF CallType
    <3> HIDE DEF g
    <3> QED
      BY <2>0, <3>1, <3>2
  <2>2. CASE q.list # {}
    <3> PICK c \in q.list : call' = [call EXCEPT ![s] =
             [q EXCEPT !.list = q.list \ {c},
                       !.pc = IF mem[u].deks[c] = 0 THEN "list" ELSE "record",
                       !.coll = c,
                       !.todo = IF mem[u].deks[c] = 0 THEN {} ELSE {i \in Id : rec[<<c, i>>] # 0}]]
      BY <1>1, <2>2 DEF RotateList, Goto
    <3> DEFINE g == [q EXCEPT !.list = q.list \ {c},
                       !.pc = IF mem[u].deks[c] = 0 THEN "list" ELSE "record",
                       !.coll = c,
                       !.todo = IF mem[u].deks[c] = 0 THEN {} ELSE {i \in Id : rec[<<c, i>>] # 0}]
    <3>1. call' = [call EXCEPT ![s] = g]
      OBVIOUS
    <3>2. g.op = q.op /\ g.pc \in {"list", "record"}
      BY DEF CallType
    <3> HIDE DEF g
    <3> QED
      BY <2>0, <3>1, <3>2
  <2> QED
    BY <2>1, <2>2
<1>2. CASE RotateRecord(s)
  <2>0. ~Cuts(q)
    BY <1>2 DEF RotateRecord, Cuts
  <2>1. CASE q.todo = {}
    <3> DEFINE g == [q EXCEPT !.pc = "list", !.coll = None]
    <3>1. call' = [call EXCEPT ![s] = g]
      BY <1>2, <2>1 DEF RotateRecord, Goto
    <3>2. g.op = q.op /\ g.pc = "list"
      BY DEF CallType
    <3> HIDE DEF g
    <3> QED
      BY <2>0, <3>1, <3>2
  <2>2. CASE q.todo # {}
    <3> PICK j \in q.todo : Ends(s) \/ call' = [call EXCEPT ![s] = [q EXCEPT !.todo = q.todo \ {j}]]
      BY <1>2, <2>2 DEF RotateRecord, Goto
    <3> DEFINE g == [q EXCEPT !.todo = q.todo \ {j}]
    <3>1. Ends(s) \/ call' = [call EXCEPT ![s] = g]
      OBVIOUS
    <3>2. g.op = q.op /\ g.pc = q.pc /\ q.pc = "record"
      BY <1>2 DEF CallType, RotateRecord
    <3> HIDE DEF g
    <3> QED
      BY <1>0, <2>0, <3>1, <3>2
  <2> QED
    BY <2>1, <2>2
<1>3. CASE RotateOwn(s)
  <2> DEFINE g == [q EXCEPT !.pc = "others", !.users = {v \in User \ {u} : file[v].role # "none"}]
  <2>1. call' = [call EXCEPT ![s] = g] /\ ~Cuts(q)
    BY <1>3 DEF RotateOwn, Goto, Cuts
  <2>2. g.op = q.op /\ g.pc = "others"
    BY DEF CallType
  <2> HIDE DEF g
  <2> QED
    BY <2>1, <2>2
<1>4. CASE RotateRead(s)
  <2>0. ~Cuts(q) /\ q.pc = "others"
    BY <1>4 DEF RotateRead, Cuts
  <2>1. CASE q.users = {}
    BY <1>0, <1>4, <2>0, <2>1 DEF RotateRead
  <2>2. CASE q.users # {}
    <3> PICK v \in q.users : Goto(s,
           IF file[v].role = "none" THEN [q EXCEPT !.users = q.users \ {v}]
           ELSE [q EXCEPT !.pc = "strip", !.user = v, !.users = q.users \ {v},
                          !.file = Stripped(file[v], q.cols)])
      BY <1>4, <2>2 DEF RotateRead
    <3> DEFINE g == IF file[v].role = "none" THEN [q EXCEPT !.users = q.users \ {v}]
                    ELSE [q EXCEPT !.pc = "strip", !.user = v, !.users = q.users \ {v},
                                   !.file = Stripped(file[v], q.cols)]
    <3>1. call' = [call EXCEPT ![s] = g]
      BY DEF Goto
    <3>2. g.op = q.op /\ g.pc \in {"others", "strip"}
      BY <2>0 DEF CallType
    <3> HIDE DEF g
    <3> QED
      BY <2>0, <3>1, <3>2
  <2> QED
    BY <2>1, <2>2
<1>5. CASE RotateStrip(s)
  <2> DEFINE g == [q EXCEPT !.pc = "others", !.user = None, !.file = NoFile]
  <2>1. call' = [call EXCEPT ![s] = g] /\ ~Cuts(q)
    BY <1>5 DEF RotateStrip, Goto, Cuts
  <2>2. g.op = q.op /\ g.pc = "others"
    BY DEF CallType
  <2> HIDE DEF g
  <2> QED
    BY <2>1, <2>2
<1> QED
  BY <1>1, <1>2, <1>3, <1>4, <1>5

LEMMA RotatesTrace ==
    ASSUME IInv, CInv, NEW s \in Slot,
           \/ RotateList(s) \/ RotateRecord(s) \/ RotateOwn(s) \/ RotateRead(s) \/ RotateStrip(s)
    PROVE  CInv'
<1> PICK q \in CallType : q = call[s]
  BY DEF IInv, TypeOK
<1> PICK u \in User : u = s[1]
  BY Users
<1>1. UNCHANGED <<granter, gone>>
  BY DEF RotateList, RotateRecord, RotateOwn, RotateRead, RotateStrip, history
<1>2. ASSUME RotateList(s) \/ RotateRecord(s) \/ RotateRead(s), NEW v \in User
      PROVE  file'[v].role = file[v].role
  BY <1>2 DEF RotateList, RotateRecord, RotateRead
<1>3. ASSUME RotateOwn(s), NEW v \in User PROVE file'[v].role = file[v].role
  <2>1. file[u].role = mem[u].role /\ mem[u] \in MemType
    BY <1>3 DEF RotateOwn, IInv, Local, FreshOf, TypeOK
  <2> DEFINE m == [mem[u] EXCEPT !.deks = [c \in Coll |-> IF c \in q.cols THEN q.new[c] ELSE mem[u].deks[c]]]
  <2>2. file' = [file EXCEPT ![u] = Persisted(u, m, m.secret)]
    BY <1>3 DEF RotateOwn
  <2>3. Persisted(u, m, m.secret).role = mem[u].role
    BY <2>1 DEF Persisted, MemType
  <2> HIDE DEF m
  <2> QED
    BY <2>1, <2>2, <2>3 DEF IInv, TypeOK
<1>4. ASSUME RotateStrip(s), NEW v \in User PROVE file'[v].role = file[v].role
  <2>1. /\ file' = [file EXCEPT ![q.user] = q.file] /\ q.pc = "strip"
    BY <1>4 DEF RotateStrip
  <2>2. q.file.role = file[q.user].role
    BY <2>1, Alone DEF Turns, Turn, After
  <2> QED
    BY <2>1, <2>2 DEF IInv, TypeOK
<1>5. \A v \in User : file'[v].role = file[v].role
  BY <1>2, <1>3, <1>4
<1>6. PICK g : /\ call' = [call EXCEPT ![s] = g] /\ g.op \in {call[s].op, "none"}
               /\ g.pc \notin {"create", "store", "walk", "delete"}
  BY RotateCalls
<1>7. ~Cuts(call[s])
  BY RotateCalls
<1> QED
  BY <1>1, <1>5, <1>6, <1>7, GoesOn

LEMMA ChangeSecretTraces ==
    ASSUME Orderly, IInv, CInv, NEW s \in Slot, ChangeSecret(s)
    PROVE  CInv'
<1> PICK u \in User : u = s[1]
  BY Users
<1>1. /\ UNCHANGED <<call, granter, gone>> /\ FreshOf(file, mem, u)
      /\ file' = [file EXCEPT ![u] = Persisted(u, mem[u], secrets + 1)]
  BY FreshGives DEF ChangeSecret, Orderly
<1>2. \A v \in User : file'[v].role = file[v].role
  BY <1>1 DEF Persisted, FreshOf, IInv, TypeOK
<1>3. Founded(file', gone') /\ GoneHave(file', gone') /\ Traced(file', granter', gone', call')
  BY <1>1, <1>2, KeyringAssumption DEF CInv, Founded, NoFiles, GoneHave, Traced, Pending
<1>4. ASSUME NEW t \in Slot PROVE CallFits(file', granter', call'[t], t[1])
  BY <1>1, <1>2 DEF CInv, CallFits, NoFiles, Closure
<1> QED
  BY <1>1, <1>3, <1>4 DEF CInv

LEMMA NextTraces ==
    ASSUME Orderly, Traceable, IInv, CInv, [Next]_vars
    PROVE  CInv'
<1>1. ASSUME NEW s \in Slot, LoadKeyring(s) \/ CreateOwnerKeyring(s) \/ ChangeSecret(s)
      PROVE  CInv'
  BY <1>1, OpensTrace, CreateTraces, ChangeSecretTraces
<1>2. ASSUME NEW u \in User, Close(u) PROVE CInv'
  BY <1>2, CloseTraces
<1>3. ASSUME NEW s \in Slot, NEW c \in Coll, NEW i \in Id, BeginPut(s, c, i) PROVE CInv'
  BY <1>3, PutsTrace
<1>4. ASSUME NEW s \in Slot, \/ GetDEK(s) \/ EnsureCollectionDEK(s) \/ SaveDEK(s)
                             \/ PutRecord(s) \/ Fails(s)
      PROVE  CInv'
  BY <1>4, PutsTrace, FailsTrace
<1>5. ASSUME NEW s \in Slot, NEW u \in User, NEW role \in Roles, NEW perms \in SUBSET Coll,
             BeginGrant(s, u, role, perms)
      PROVE  CInv'
  BY <1>5, BeginGrantTraces
<1>6. ASSUME NEW s \in Slot, Grant(s) PROVE CInv'
  BY <1>6, GrantTraces
<1>7. ASSUME NEW s \in Slot, NEW u \in User, NEW strict \in BOOLEAN, NEW rotate \in BOOLEAN,
             BeginRevoke(s, u, strict, rotate)
      PROVE  CInv'
  BY <1>7, BeginRevokeTraces
<1>8. ASSUME NEW s \in Slot, RevokeWalk(s) \/ RevokeDelete(s) PROVE CInv'
  BY <1>8, RevokeWalkTraces, RevokeDeleteTraces
<1>9. ASSUME NEW s \in Slot, NEW cols \in SUBSET Coll, BeginRotate(s, cols) PROVE CInv'
  BY <1>9, BeginRotateTraces
<1>10. ASSUME NEW s \in Slot, \/ RotateList(s) \/ RotateRecord(s) \/ RotateOwn(s)
                              \/ RotateRead(s) \/ RotateStrip(s)
       PROVE  CInv'
  BY <1>10, RotatesTrace
<1>11. ASSUME UNCHANGED vars PROVE CInv'
  <2>1. UNCHANGED <<file, call, granter, gone>>
    BY <1>11 DEF vars, history
  <2> QED
    BY <2>1 DEF CInv, Traced, Pending
<1> QED
  BY <1>1, <1>2, <1>3, <1>4, <1>5, <1>6, <1>7, <1>8, <1>9, <1>10, <1>11 DEF Next

(* When no revoke is in progress, no admin is left that a user revoked     *)
(* with cascade 'strict' has granted, directly or not (keyring.ts, revoke, *)
(* findAdminDescendants), if also no revoke is cut short or overlapped by  *)
(* a grant and no admin has written its own file back.                     *)
THEOREM CascadesComplete == Orderly /\ Traceable => (Spec => []CascadeComplete)
<1> SUFFICES ASSUME Orderly, Traceable PROVE Spec => []CascadeComplete
  OBVIOUS
<1>1. Init => IInv /\ CInv
  BY InitInv, InitCInv
<1>2. (IInv /\ CInv) /\ [Next]_vars => (IInv /\ CInv)'
  BY NextKeeps, NextTraces
<1>3. IInv /\ CInv => CascadeComplete
  BY CInvGives
<1> QED
  BY <1>1, <1>2, <1>3, PTL DEF Spec
=============================================================================
