-------------------------- MODULE Forwards_proofs --------------------------
(***************************************************************************)
(* Theorems about Forwards: its type invariant, that entries and available *)
(* forwards only refer to servers that offered them or answered, that      *)
(* requests that do not overlap leave no entry without its forward, what   *)
(* deletions and refreshes leave that ran alone, and that no request is    *)
(* set back.                                                               *)
(***************************************************************************)
EXTENDS Forwards, TLAPS

(* What a running request needs of its record: a forward and an address    *)
(* where it uses them.                                                     *)
Sound(o) ==
  /\ o.pc \in {"discovering", "listing", "removing", "deleting"} => o.name \in Names
  /\ o.pc \in {"discovering", "listing", "removing"} => o.address \in Addresses
  /\ o.pc = "deleting" => o.address # Local
  /\ o.pc = "registering" => o.address # None

OpInv == \A w \in Workers : Sound(op[w])

(* Startup only discovers what wanaku.yaml configures.                     *)
BootInv == \A f \in boot : Config[f] # None

Typed == TypeOK /\ OpInv /\ BootInv
-----------------------------------------------------------------------------
(* Requests: the ways in which one changes.                                *)

LEMMA NewOpType ==
  ASSUME NEW pc \in {"idle", "discovering", "registering", "deleting", "listing", "removing"},
         NEW kind \in {"none", "create", "delete", "refresh", "startup", "update"},
         NEW name \in Names \cup {None}, NEW address \in Addresses \cup {Local, None},
         NEW todo \in SUBSET Items
  PROVE  NewOp(pc, kind, name, address, todo) \in Op
  BY DEF NewOp, Op

LEMMA NoOpType == NoOp \in Op /\ Sound(NoOp)
<1>1. NoOp \in Op
  BY NewOpType DEF NoOp
<1>2. QED
  BY <1>1 DEF NoOp, NewOp, Sound

LEMMA SoloType ==
  ASSUME NEW o \in Op, NEW b \in BOOLEAN
  PROVE  /\ [o EXCEPT !.solo = b] \in Op
         /\ Sound(o) => Sound([o EXCEPT !.solo = b])
  BY DEF Op, Sound

LEMMA TodoType ==
  ASSUME NEW o \in Op, NEW todo \in SUBSET Items
  PROVE  /\ [o EXCEPT !.todo = todo] \in Op
         /\ Sound(o) => Sound([o EXCEPT !.todo = todo])
  BY DEF Op, Sound

LEMMA PcType ==
  ASSUME NEW o \in Op,
         NEW pc \in {"idle", "discovering", "registering", "deleting", "listing", "removing"}
  PROVE  /\ [o EXCEPT !.pc = pc] \in Op
         /\ o.name \in Names /\ o.address \in Addresses => Sound([o EXCEPT !.pc = pc])
  BY LocalAssumption DEF Op, Sound

LEMMA RankType ==
  ASSUME NEW o \in Op, NEW rank \in 1..3
  PROVE  /\ [o EXCEPT !.rank = rank] \in Op
         /\ Sound(o) => Sound([o EXCEPT !.rank = rank])
  BY DEF Op, Sound

LEMMA CatalogType ==
  ASSUME NEW o \in Op, NEW catalog \in Catalogs
  PROVE  /\ [o EXCEPT !.catalog = catalog] \in Op
         /\ Sound(o) => Sound([o EXCEPT !.catalog = catalog])
  BY CatalogAssumption DEF Op, Sound

LEMMA RemovedType ==
  ASSUME NEW o \in Op, o.name \in Names, o.address \in Addresses
  PROVE  Removed(o) \in Op /\ Sound(Removed(o))
<1>1. CASE o.rank < 3
  <2> DEFINE p == [o EXCEPT !.pc = "listing"]
             r == [p EXCEPT !.rank = o.rank + 1]
  <2>1. p \in Op /\ Sound(p)
    BY PcType
  <2>2. o.rank + 1 \in 1..3
    BY <1>1 DEF Op
  <2>3. r \in Op /\ Sound(r)
    BY <2>1, <2>2, RankType
  <2>4. [r EXCEPT !.todo = {}] \in Op /\ Sound([r EXCEPT !.todo = {}])
    BY <2>3, TodoType
  <2>5. Removed(o) = [r EXCEPT !.todo = {}]
    BY <1>1 DEF Removed, Op
  <2>6. QED
    BY <2>4, <2>5
<1>2. CASE ~(o.rank < 3) /\ o.kind = "refresh"
  <2> DEFINE p == [o EXCEPT !.pc = "discovering"]
             r == [p EXCEPT !.rank = 1]
  <2>1. p \in Op /\ Sound(p)
    BY PcType
  <2>2. 1 \in 1..3
    OBVIOUS
  <2>3. r \in Op /\ Sound(r)
    BY <2>1, <2>2, RankType
  <2>4. [r EXCEPT !.todo = {}] \in Op /\ Sound([r EXCEPT !.todo = {}])
    BY <2>3, TodoType
  <2>5. Removed(o) = [o EXCEPT !.pc = "discovering", !.rank = 1, !.todo = {}]
    BY <1>2 DEF Removed
  <2>6. [o EXCEPT !.pc = "discovering", !.rank = 1, !.todo = {}] = [r EXCEPT !.todo = {}]
    BY DEF Op
  <2>7. QED
    BY <2>4, <2>5, <2>6
<1>3. CASE ~(o.rank < 3) /\ o.kind # "refresh"
  BY <1>3, NoOpType DEF Removed
<1>4. QED
  BY <1>1, <1>2, <1>3

(* A request that starts soundly leaves all of them sound.                 *)
LEMMA StartType ==
  ASSUME Typed, NEW w \in Workers, NEW o \in Op, Start(w, o), Sound(o)
  PROVE  op' \in [Workers -> Op] /\ OpInv'
<1>1. Idle \in BOOLEAN
  BY DEF Idle
<1>2. op' = [u \in Workers |-> IF u = w THEN [o EXCEPT !.solo = Idle]
                                        ELSE [op[u] EXCEPT !.solo = FALSE]]
  BY DEF Start
<1>3. [o EXCEPT !.solo = Idle] \in Op /\ Sound([o EXCEPT !.solo = Idle])
  BY <1>1, SoloType
<1>4. ASSUME NEW u \in Workers
      PROVE  [op[u] EXCEPT !.solo = FALSE] \in Op /\ Sound([op[u] EXCEPT !.solo = FALSE])
  <2>1. op[u] \in Op /\ Sound(op[u])
    BY DEF Typed, TypeOK, OpInv
  <2>2. QED
    BY <2>1, SoloType
<1>5. QED
  BY <1>2, <1>3, <1>4 DEF OpInv

LEMMA InterfereType ==
  ASSUME Typed, Interfere
  PROVE  op' \in [Workers -> Op] /\ OpInv'
<1>1. op' = [u \in Workers |-> [op[u] EXCEPT !.solo = FALSE]]
  BY DEF Interfere
<1>2. ASSUME NEW u \in Workers
      PROVE  [op[u] EXCEPT !.solo = FALSE] \in Op /\ Sound([op[u] EXCEPT !.solo = FALSE])
  <2>1. op[u] \in Op /\ Sound(op[u])
    BY DEF Typed, TypeOK, OpInv
  <2>2. QED
    BY <2>1, SoloType
<1>3. QED
  BY <1>1, <1>2 DEF OpInv

(* A step of a running request that leaves it sound leaves all of them so. *)
LEMMA MoveType ==
  ASSUME Typed, NEW w \in Workers, NEW o \in Op, op' = [op EXCEPT ![w] = o], Sound(o)
  PROVE  op' \in [Workers -> Op] /\ OpInv'
<1>1. op \in [Workers -> Op]
  BY DEF Typed, TypeOK
<1>2. ASSUME NEW u \in Workers
      PROVE  op'[u] \in Op /\ Sound(op'[u])
  BY <1>1 DEF Typed, OpInv
<1>3. QED
  BY <1>1, <1>2 DEF OpInv

(* A request counts as one more, and `tidy' stays a Boolean.               *)
LEMMA CountType ==
  ASSUME Typed, ops < MaxOps
  PROVE  ops + 1 \in 0..MaxOps
  BY OpsAssumption DEF Typed, TypeOK

LEMMA ForwardType ==
  ASSUME Typed, NEW f \in Names
  PROVE  /\ forwards[f] \in ForwardEntry
         /\ forwards[f].address \in Addresses \cup {None}
         /\ Config[f] \in Addresses \cup {None}
  BY ConfigAssumption DEF Typed, TypeOK, ForwardEntry

LEMMA NoForwardType == NoForward \in ForwardEntry
  BY DEF NoForward, ForwardEntry
-----------------------------------------------------------------------------
(* The type invariant: one lemma for each action.                          *)

LEMMA CreateType ==
  ASSUME Typed, NEW w \in Workers, NEW f \in Names, NEW a \in Addresses, Create(w, f, a)
  PROVE  Typed'
<1> DEFINE o == NewOp("discovering", "create", f, a, {})
<1>1. o \in Op /\ Sound(o)
  BY NewOpType DEF NewOp, Sound
<1>2. op' \in [Workers -> Op] /\ OpInv'
  BY <1>1, StartType DEF Create
<1>3. ops' \in 0..MaxOps
  BY CountType DEF Create
<1>4. tidy' \in BOOLEAN
  BY DEF Create, Typed, TypeOK, Idle
<1>5. QED
  BY <1>2, <1>3, <1>4 DEF Create, Typed, TypeOK, BootInv

LEMMA StartupType ==
  ASSUME Typed, NEW w \in Workers, NEW f \in Names, StartupDiscover(w, f)
  PROVE  Typed'
<1> DEFINE o == NewOp("discovering", "startup", f, Config[f], {})
<1>1. Config[f] \in Addresses
  BY ForwardType DEF StartupDiscover, Typed, BootInv
<1>2. o \in Op /\ Sound(o)
  BY <1>1, NewOpType DEF NewOp, Sound
<1>3. op' \in [Workers -> Op] /\ OpInv'
  BY <1>2, StartType DEF StartupDiscover
<1>4. QED
  BY <1>3 DEF StartupDiscover, Typed, TypeOK, BootInv

LEMMA RefreshType ==
  ASSUME Typed, NEW w \in Workers, NEW f \in Names, Refresh(w, f)
  PROVE  Typed'
<1> DEFINE o == NewOp("listing", "refresh", f, forwards[f].address, {})
<1>1. forwards[f].address \in Addresses
  BY ForwardType DEF Refresh
<1>2. o \in Op /\ Sound(o)
  BY <1>1, NewOpType DEF NewOp, Sound
<1>3. op' \in [Workers -> Op] /\ OpInv'
  BY <1>2, StartType DEF Refresh
<1>4. ops' \in 0..MaxOps
  BY CountType DEF Refresh
<1>5. tidy' \in BOOLEAN
  BY DEF Refresh, Typed, TypeOK, Idle
<1>6. QED
  BY <1>3, <1>4, <1>5 DEF Refresh, Typed, TypeOK, BootInv

LEMMA DeleteType ==
  ASSUME Typed, NEW w \in Workers, NEW f \in Names, Delete(w, f)
  PROVE  Typed'
<1> DEFINE o == NewOp("deleting", "delete", f, forwards[f].address, {})
<1>1. o \in Op /\ Sound(o)
  BY ForwardType, NewOpType, LocalAssumption DEF NewOp, Sound
<1>2. op' \in [Workers -> Op] /\ OpInv'
  BY <1>1, StartType DEF Delete
<1>3. ops' \in 0..MaxOps
  BY CountType DEF Delete
<1>4. tidy' \in BOOLEAN
  BY DEF Delete, Typed, TypeOK, Idle
<1>5. QED
  BY <1>2, <1>3, <1>4 DEF Delete, Typed, TypeOK, BootInv

LEMMA GivenType ==
  ASSUME Typed, NEW i \in Items, NEW a \in Addresses \cup {Local}, Given(i, a)
  PROVE  /\ offered' \in [Addresses -> SUBSET Items]
         /\ \A b \in Addresses : offered[b] \subseteq offered'[b]
         /\ a \in Addresses => i \in offered'[a]
<1>1. offered \in [Addresses -> SUBSET Items]
  BY DEF Typed, TypeOK
<1>2. QED
  BY <1>1 DEF Given

LEMMA RenameType ==
  ASSUME Typed, NEW w \in Workers, NEW i \in Items, NEW j \in Items,
         NEW a \in Addresses \cup {Local}, Rename(w, i, j, a)
  PROVE  Typed'
<1> DEFINE o == NewOp("registering", "update", None, a, {j})
<1>1. o \in Op /\ Sound(o)
  BY NewOpType, LocalAssumption DEF NewOp, Sound
<1>2. op' \in [Workers -> Op] /\ OpInv'
  BY <1>1, StartType DEF Rename
<1>3. ops' \in 0..MaxOps
  BY CountType DEF Rename
<1>4. tidy' \in BOOLEAN
  BY DEF Rename, Typed, TypeOK, Idle
<1>5. offered' \in [Addresses -> SUBSET Items]
  BY GivenType DEF Rename
<1>6. owner' \in [Items -> Addresses \cup {Local, None}] /\ via' \in [Items -> Names \cup {None}]
  BY DEF Rename, Typed, TypeOK
<1>7. QED
  BY <1>2, <1>3, <1>4, <1>5, <1>6 DEF Rename, Typed, TypeOK, BootInv

LEMMA PutType ==
  ASSUME Typed, NEW i \in Items, NEW a \in Addresses \cup {Local}, Put(i, a)
  PROVE  Typed'
<1>1. op' \in [Workers -> Op] /\ OpInv'
  BY InterfereType DEF Put
<1>2. ops' \in 0..MaxOps
  BY CountType DEF Put
<1>3. tidy' \in BOOLEAN
  BY DEF Put, Typed, TypeOK, Idle
<1>4. owner' \in [Items -> Addresses \cup {Local, None}] /\ via' \in [Items -> Names \cup {None}]
  BY DEF Put, Typed, TypeOK
<1>5. offered' \in [Addresses -> SUBSET Items]
  BY GivenType DEF Put
<1>6. QED
  BY <1>1, <1>2, <1>3, <1>4, <1>5 DEF Put, Typed, TypeOK, BootInv

LEMMA DeleteItemType ==
  ASSUME Typed, NEW i \in Items, DeleteItem(i)
  PROVE  Typed'
<1>1. op' \in [Workers -> Op] /\ OpInv'
  BY InterfereType DEF DeleteItem
<1>2. ops' \in 0..MaxOps
  BY CountType DEF DeleteItem
<1>3. tidy' \in BOOLEAN
  BY DEF DeleteItem, Typed, TypeOK, Idle
<1>4. owner' \in [Items -> Addresses \cup {Local, None}] /\ via' \in [Items -> Names \cup {None}]
  BY DEF DeleteItem, Typed, TypeOK
<1>5. QED
  BY <1>1, <1>2, <1>3, <1>4 DEF DeleteItem, Typed, TypeOK, BootInv

LEMMA AnswerType ==
  ASSUME Typed, NEW w \in Workers, NEW catalog \in Catalogs, Answer(w, catalog)
  PROVE  Typed'
<1>1. op[w] \in Op /\ op[w].name \in Names /\ op[w].address \in Addresses
  BY DEF Answer, Typed, TypeOK, OpInv, Sound
<1>2. Record(w, TRUE) \in ForwardEntry
  BY <1>1 DEF Record, ForwardEntry
<1>3. /\ forwards' \in [Names -> ForwardEntry]
      /\ offered' \in [Addresses -> SUBSET Items]
      /\ reached' \in SUBSET Addresses
  BY <1>1, <1>2, CatalogAssumption DEF Answer, Typed, TypeOK
<1> DEFINE p == [op[w] EXCEPT !.pc = "registering"]
           t == [p EXCEPT !.todo = catalog]
           o == [t EXCEPT !.catalog = catalog]
<1>4. p \in Op /\ Sound(p)
  BY <1>1, PcType
<1>5. t \in Op /\ Sound(t)
  BY <1>4, TodoType, CatalogAssumption
<1>6. o \in Op /\ Sound(o)
  BY <1>5, CatalogType
<1>7. [op[w] EXCEPT !.pc = "registering", !.todo = catalog, !.catalog = catalog] = o
  BY <1>1 DEF Op
<1>8. \/ op' = [op EXCEPT ![w] = NoOp]
      \/ op' = [op EXCEPT ![w] = [op[w] EXCEPT !.pc = "registering", !.todo = catalog,
                                               !.catalog = catalog]]
  BY DEF Answer
<1>9. op' \in [Workers -> Op] /\ OpInv'
  BY <1>6, <1>7, <1>8, MoveType, NoOpType
<1>10. QED
  BY <1>3, <1>9 DEF Answer, Typed, TypeOK, BootInv

LEMMA UnreachableType ==
  ASSUME Typed, NEW w \in Workers, Unreachable(w)
  PROVE  Typed'
<1>1. op[w] \in Op /\ op[w].name \in Names /\ op[w].address \in Addresses
  BY DEF Unreachable, Typed, TypeOK, OpInv, Sound
<1>2. Record(w, FALSE) \in ForwardEntry
  BY <1>1 DEF Record, ForwardEntry
<1>3. forwards' \in [Names -> ForwardEntry]
  BY <1>1, <1>2 DEF Unreachable, Typed, TypeOK
<1>4. op' \in [Workers -> Op] /\ OpInv'
  BY MoveType, NoOpType DEF Unreachable
<1>5. QED
  BY <1>3, <1>4 DEF Unreachable, Typed, TypeOK, BootInv

LEMMA RegisterItemType ==
  ASSUME Typed, NEW w \in Workers, NEW i \in Items, RegisterItem(w, i)
  PROVE  Typed'
<1>1. op[w] \in Op /\ Sound(op[w])
  BY DEF Typed, TypeOK, OpInv
<1>2. Address(w) \in Addresses \cup {Local, None} /\ op[w].name \in Names \cup {None}
  BY <1>1 DEF Address, Op
<1>3. owner' \in [Items -> Addresses \cup {Local, None}] /\ via' \in [Items -> Names \cup {None}]
  BY <1>2 DEF RegisterItem, Typed, TypeOK
<1>4. op[w].todo \ {i} \in SUBSET Items
  BY <1>1 DEF Op
<1> DEFINE o == [op[w] EXCEPT !.todo = op[w].todo \ {i}]
<1>5. o \in Op /\ Sound(o)
  BY <1>1, <1>4, TodoType
<1>6. op' = [op EXCEPT ![w] = NoOp] \/ op' = [op EXCEPT ![w] = o]
  <2>1. op' = [op EXCEPT ![w] = IF op[w].todo = {i} THEN NoOp ELSE o]
    BY DEF RegisterItem, Left
  <2>2. QED
    BY <2>1
<1>7. op' \in [Workers -> Op] /\ OpInv'
  BY <1>5, <1>6, MoveType, NoOpType
<1>8. QED
  BY <1>3, <1>7 DEF RegisterItem, Typed, TypeOK, BootInv

LEMMA ListOwnedType ==
  ASSUME Typed, NEW w \in Workers, ListOwned(w)
  PROVE  Typed'
<1>1. op[w] \in Op /\ op[w].name \in Names /\ op[w].address \in Addresses
  BY DEF ListOwned, Typed, TypeOK, OpInv, Sound
<1> DEFINE names == Owned(op[w].address, op[w].rank)
           p == [op[w] EXCEPT !.pc = "removing"]
           o == [p EXCEPT !.todo = names]
<1>2. names \in SUBSET Items
  BY DEF Owned
<1>3. p \in Op /\ Sound(p)
  BY <1>1, PcType
<1>4. o \in Op /\ Sound(o)
  BY <1>2, <1>3, TodoType
<1>5. [op[w] EXCEPT !.pc = "removing", !.todo = names] = o
  BY <1>1 DEF Op
<1>6. \/ op' = [op EXCEPT ![w] = Removed(op[w])]
      \/ op' = [op EXCEPT ![w] = [op[w] EXCEPT !.pc = "removing", !.todo = names]]
  BY DEF ListOwned
<1>7. op' \in [Workers -> Op] /\ OpInv'
  BY <1>1, <1>4, <1>5, <1>6, MoveType, RemovedType
<1>8. QED
  BY <1>7 DEF ListOwned, Typed, TypeOK, BootInv

LEMMA RemoveItemType ==
  ASSUME Typed, NEW w \in Workers, NEW i \in Items, RemoveItem(w, i)
  PROVE  Typed'
<1>1. op[w] \in Op /\ Sound(op[w]) /\ op[w].name \in Names /\ op[w].address \in Addresses
  BY DEF RemoveItem, Typed, TypeOK, OpInv, Sound
<1>2. owner' \in [Items -> Addresses \cup {Local, None}] /\ via' \in [Items -> Names \cup {None}]
  BY DEF RemoveItem, Typed, TypeOK
<1>3. op[w].todo \ {i} \in SUBSET Items
  BY <1>1 DEF Op
<1> DEFINE o == [op[w] EXCEPT !.todo = op[w].todo \ {i}]
<1>4. o \in Op /\ Sound(o)
  BY <1>1, <1>3, TodoType
<1>5. op' = [op EXCEPT ![w] = Removed(op[w])] \/ op' = [op EXCEPT ![w] = o]
  <2>1. op' = [op EXCEPT ![w] = IF op[w].todo = {i} THEN Removed(op[w]) ELSE o]
    BY DEF RemoveItem, Left
  <2>2. QED
    BY <2>1
<1>6. op' \in [Workers -> Op] /\ OpInv'
  BY <1>1, <1>4, <1>5, MoveType, RemovedType
<1>7. QED
  BY <1>2, <1>6 DEF RemoveItem, Typed, TypeOK, BootInv

LEMMA DeleteForwardType ==
  ASSUME Typed, NEW w \in Workers, DeleteForward(w)
  PROVE  Typed'
<1>1. op[w] \in Op /\ op[w].name \in Names
  BY DEF DeleteForward, Typed, TypeOK, OpInv, Sound
<1>2. forwards' \in [Names -> ForwardEntry]
  BY <1>1, NoForwardType DEF DeleteForward, Typed, TypeOK
<1>3. CASE Cleans(w)
  <2>1. op[w].address \in Addresses
    <3>1. op[w].address # None
      BY <1>3 DEF Cleans
    <3>2. op[w].address # Local
      BY DEF DeleteForward, Typed, OpInv, Sound
    <3>3. QED
      BY <1>1, <3>1, <3>2 DEF Op
  <2>2. /\ [op[w] EXCEPT !.pc = "listing"] \in Op
        /\ Sound([op[w] EXCEPT !.pc = "listing"])
    BY <1>1, <2>1, PcType
  <2>3. op' = [op EXCEPT ![w] = [op[w] EXCEPT !.pc = "listing"]]
    BY <1>3 DEF DeleteForward
  <2>4. op' \in [Workers -> Op] /\ OpInv'
    BY <2>2, <2>3, MoveType
  <2>5. QED
    BY <1>2, <2>4 DEF DeleteForward, Typed, TypeOK, BootInv
<1>4. CASE ~Cleans(w)
  <2>1. op' \in [Workers -> Op] /\ OpInv'
    BY <1>4, MoveType, NoOpType DEF DeleteForward
  <2>2. QED
    BY <1>2, <2>1 DEF DeleteForward, Typed, TypeOK, BootInv
<1>5. QED
  BY <1>3, <1>4

LEMMA RestartType ==
  ASSUME Typed, NEW persisted \in BOOLEAN, Restart(persisted)
  PROVE  Typed'
<1>1. forwards' \in [Names -> ForwardEntry]
  <2>1. ASSUME NEW f \in Names, Config[f] # None
        PROVE  [address |-> Config[f], available |-> FALSE] \in ForwardEntry
    BY <2>1, ForwardType DEF ForwardEntry
  <2>2. \A f \in Names : forwards[f] \in ForwardEntry
    BY DEF Typed, TypeOK
  <2>3. QED
    BY <2>1, <2>2, NoForwardType DEF Restart
<1>2. owner' \in [Items -> Addresses \cup {Local, None}] /\ via' \in [Items -> Names \cup {None}]
  BY DEF Restart, Typed, TypeOK
<1>3. op' \in [Workers -> Op] /\ OpInv'
  BY NoOpType DEF Restart, OpInv
<1>4. boot' \in SUBSET Names /\ BootInv'
  BY DEF Restart, BootInv
<1>5. ops' \in 0..MaxOps
  BY CountType DEF Restart
<1>6. tidy' \in BOOLEAN
  BY DEF Restart, Typed, TypeOK, Idle
<1>7. QED
  BY <1>1, <1>2, <1>3, <1>4, <1>5, <1>6 DEF Restart, Typed, TypeOK

LEMMA InitType == Init => Typed
<1> SUFFICES ASSUME Init PROVE Typed
  OBVIOUS
<1>1. forwards \in [Names -> ForwardEntry]
  BY ForwardType, ConfigAssumption DEF Init, ForwardEntry
<1>2. op \in [Workers -> Op] /\ OpInv
  BY NoOpType DEF Init, OpInv
<1>3. ops \in 0..MaxOps
  BY OpsAssumption DEF Init
<1>4. QED
  BY <1>1, <1>2, <1>3 DEF Init, Typed, TypeOK, BootInv

LEMMA NextType == Typed /\ [Next]_vars => Typed'
<1> SUFFICES ASSUME Typed, [Next]_vars PROVE Typed'
  OBVIOUS
<1>1. ASSUME NEW w \in Workers, Step(w) PROVE Typed'
  BY <1>1, AnswerType, UnreachableType, RegisterItemType, RemoveItemType, ListOwnedType,
     DeleteForwardType DEF Step
<1>2. ASSUME NEW w \in Workers, Request(w) PROVE Typed'
  BY <1>2, CreateType, RefreshType, DeleteType DEF Request
<1>3. CASE Startup
  BY <1>3, StartupType DEF Startup
<1>4. CASE Edit
  BY <1>4, PutType, DeleteItemType, RenameType DEF Edit
<1>5. CASE \E persisted \in BOOLEAN : Restart(persisted)
  BY <1>5, RestartType
<1>6. CASE UNCHANGED vars
  BY <1>6 DEF vars, Typed, TypeOK, OpInv, BootInv
<1>7. QED
  BY <1>1, <1>2, <1>3, <1>4, <1>5, <1>6 DEF Next

(* Every reachable state of the forwards, the entries and the requests is  *)
(* of the declared type, a waiting discovery always has a forward and an   *)
(* address to register, and startup only discovers what is configured.     *)
THEOREM TypeCorrect == Spec => []TypeOK
<1>1. Spec => []Typed
  BY InitType, NextType, PTL DEF Spec
<1>2. Typed => TypeOK
  BY DEF Typed
<1>3. QED
  BY <1>1, <1>2, PTL
-----------------------------------------------------------------------------
(* Where entries are forwarded to.                                         *)

(* What a request still registers was offered by the address it registers. *)
TodoInv ==
  \A w \in Workers : op[w].pc = "registering" /\ op[w].address \in Addresses
                      => op[w].todo \subseteq offered[op[w].address]

ProvenanceInv == Provenance /\ TodoInv

(* A request that starts without discovering changes no other one's todo.  *)
LEMMA StartTodo ==
  ASSUME Typed, TodoInv, NEW w \in Workers, NEW o, Start(w, o),
         o.pc = "registering" /\ o.address \in Addresses => o.todo \subseteq offered'[o.address],
         o \in Op, \A a \in Addresses : offered[a] \subseteq offered'[a]
  PROVE  TodoInv'
<1>1. Idle \in BOOLEAN
  BY DEF Idle
<1>2. ASSUME NEW u \in Workers, u # w
      PROVE  /\ op'[u].pc = op[u].pc /\ op'[u].address = op[u].address
             /\ op'[u].todo = op[u].todo
  <2>1. op[u] \in Op
    BY DEF Typed, TypeOK
  <2>2. op'[u] = [op[u] EXCEPT !.solo = FALSE]
    BY <1>2 DEF Start
  <2>3. QED
    BY <2>1, <2>2 DEF Op
<1>3. op'[w].pc = o.pc /\ op'[w].address = o.address /\ op'[w].todo = o.todo
  <2>1. op'[w] = [o EXCEPT !.solo = Idle]
    BY DEF Start
  <2>2. QED
    BY <2>1 DEF Op
<1>4. ASSUME NEW u \in Workers, op'[u].pc = "registering", op'[u].address \in Addresses
      PROVE  op'[u].todo \subseteq offered'[op'[u].address]
  <2>1. CASE u = w
    BY <1>3, <1>4, <2>1
  <2>2. CASE u # w
    BY <1>2, <1>4, <2>2 DEF TodoInv
  <2>3. QED
    BY <2>1, <2>2
<1>5. QED
  BY <1>4 DEF TodoInv

(* The requests that change no entry when they start.                      *)
LEMMA ProvenanceRequest ==
  ASSUME Typed, ProvenanceInv, NEW w \in Workers, Request(w) \/ Startup
  PROVE  ProvenanceInv'
<1>1. owner' = owner /\ offered' = offered
  BY DEF Request, Startup, Create, Refresh, Delete, StartupDiscover
<1>2. \E u \in Workers, o \in Op : o.pc # "registering" /\ Start(u, o)
  <2>1. ASSUME NEW f \in Names, NEW a \in Addresses, Create(w, f, a)
        PROVE  \E u \in Workers, o \in Op : o.pc # "registering" /\ Start(u, o)
    <3> DEFINE o == NewOp("discovering", "create", f, a, {})
    <3>1. o \in Op /\ o.pc = "discovering"
      BY NewOpType DEF NewOp
    <3>2. QED
      BY <2>1, <3>1 DEF Create
  <2>2. ASSUME NEW f \in Names, Refresh(w, f)
        PROVE  \E u \in Workers, o \in Op : o.pc # "registering" /\ Start(u, o)
    <3> DEFINE o == NewOp("listing", "refresh", f, forwards[f].address, {})
    <3>1. o \in Op /\ o.pc = "listing"
      BY ForwardType, NewOpType DEF NewOp
    <3>2. QED
      BY <2>2, <3>1 DEF Refresh
  <2>3. ASSUME NEW f \in Names, Delete(w, f)
        PROVE  \E u \in Workers, o \in Op : o.pc # "registering" /\ Start(u, o)
    <3> DEFINE o == NewOp("deleting", "delete", f, forwards[f].address, {})
    <3>1. o \in Op /\ o.pc = "deleting"
      BY ForwardType, NewOpType DEF NewOp
    <3>2. QED
      BY <2>3, <3>1 DEF Delete
  <2>4. ASSUME NEW u \in Workers, NEW f \in Names, StartupDiscover(u, f)
        PROVE  \E v \in Workers, o \in Op : o.pc # "registering" /\ Start(v, o)
    <3> DEFINE o == NewOp("discovering", "startup", f, Config[f], {})
    <3>1. o \in Op /\ o.pc = "discovering"
      BY ForwardType, NewOpType DEF NewOp
    <3>2. QED
      BY <2>4, <3>1 DEF StartupDiscover
  <2>5. QED
    BY <2>1, <2>2, <2>3, <2>4 DEF Request, Startup
<1>3. TodoInv'
  BY <1>1, <1>2, StartTodo DEF ProvenanceInv
<1>4. QED
  BY <1>1, <1>3 DEF ProvenanceInv, Provenance

LEMMA ProvenanceAnswer ==
  ASSUME Typed, ProvenanceInv, NEW w \in Workers, NEW catalog \in Catalogs,
         Answer(w, catalog)
  PROVE  ProvenanceInv'
<1> DEFINE a == op[w].address
<1>1. a \in Addresses /\ op[w] \in Op /\ op \in [Workers -> Op]
      /\ offered \in [Addresses -> SUBSET Items]
  BY DEF Answer, Typed, TypeOK, OpInv, Sound
<1>2. offered' = [offered EXCEPT ![a] = offered[a] \cup catalog] /\ owner' = owner
  BY DEF Answer
<1>3. \A b \in Addresses : offered[b] \subseteq offered'[b]
  BY <1>1, <1>2
<1>4. catalog \subseteq offered'[a]
  BY <1>1, <1>2
<1>5. \/ op' = [op EXCEPT ![w] = NoOp]
      \/ op' = [op EXCEPT ![w] = [op[w] EXCEPT !.pc = "registering", !.todo = catalog,
                                               !.catalog = catalog]]
  BY DEF Answer
<1>6. \/ op'[w].pc = "idle"
      \/ op'[w].address = a /\ op'[w].todo = catalog
  <2> DEFINE o == [op[w] EXCEPT !.pc = "registering", !.todo = catalog, !.catalog = catalog]
  <2>1. CASE op' = [op EXCEPT ![w] = NoOp]
    BY <1>1, <2>1 DEF NoOp, NewOp
  <2>2. CASE op' = [op EXCEPT ![w] = o]
    <3>1. op'[w] = o
      BY <1>1, <2>2
    <3>2. o.address = a /\ o.todo = catalog
      BY <1>1 DEF Op
    <3>3. QED
      BY <3>1, <3>2
  <2>3. QED
    BY <1>5, <2>1, <2>2
<1>7. \A u \in Workers \ {w} : op'[u] = op[u]
  BY <1>1, <1>5
<1>8. ASSUME NEW u \in Workers, op'[u].pc = "registering", op'[u].address \in Addresses
      PROVE  op'[u].todo \subseteq offered'[op'[u].address]
  <2>1. CASE u = w
    BY <1>4, <1>6, <1>8, <2>1
  <2>2. CASE u # w
    BY <1>3, <1>7, <1>8, <2>2 DEF ProvenanceInv, TodoInv
  <2>3. QED
    BY <2>1, <2>2
<1>9. TodoInv'
  BY <1>8 DEF TodoInv
<1>10. Provenance'
  BY <1>2, <1>3 DEF ProvenanceInv, Provenance
<1>11. QED
  BY <1>9, <1>10 DEF ProvenanceInv

(* Removed(o) never registers.                                             *)
LEMMA RemovedRests ==
  ASSUME NEW o \in Op, o.pc \in {"listing", "removing"}
  PROVE  Removed(o).pc \in {"idle", "listing", "discovering"}
  BY DEF Removed, NoOp, NewOp, Op

(* A step that offers nothing new and leaves the moving request not        *)
(* registering, or registering less for the same address.                  *)
LEMMA MoveTodo ==
  ASSUME Typed, TodoInv, NEW w \in Workers, NEW o, op' = [op EXCEPT ![w] = o],
         offered' = offered,
         \/ o.pc # "registering"
         \/ op[w].pc = "registering" /\ o.address = op[w].address /\ o.todo \subseteq op[w].todo
  PROVE  TodoInv'
<1>1. op \in [Workers -> Op]
  BY DEF Typed, TypeOK
<1>2. op'[w] = o /\ \A u \in Workers \ {w} : op'[u] = op[u]
  BY <1>1
<1>3. ASSUME NEW u \in Workers, op'[u].pc = "registering", op'[u].address \in Addresses
      PROVE  op'[u].todo \subseteq offered'[op'[u].address]
  <2>1. CASE u = w
    BY <1>2, <1>3, <2>1 DEF TodoInv
  <2>2. CASE u # w
    BY <1>2, <1>3, <2>2 DEF TodoInv
  <2>3. QED
    BY <2>1, <2>2
<1>4. QED
  BY <1>3 DEF TodoInv

LEMMA ProvenanceRegister ==
  ASSUME Typed, ProvenanceInv, NEW w \in Workers, NEW i \in Items, RegisterItem(w, i)
  PROVE  ProvenanceInv'
<1>1. /\ op[w] \in Op /\ i \in op[w].todo /\ op[w].pc = "registering"
      /\ offered' = offered
      /\ owner \in [Items -> Addresses \cup {Local, None}]
      /\ owner' = [owner EXCEPT ![i] = op[w].address]
  BY DEF RegisterItem, Address, Typed, TypeOK
<1>2. \/ op' = [op EXCEPT ![w] = NoOp]
      \/ op' = [op EXCEPT ![w] = Left(op[w], i)]
  <2>1. op' = [op EXCEPT ![w] = IF op[w].todo = {i} THEN NoOp ELSE Left(op[w], i)]
    BY DEF RegisterItem
  <2>2. QED
    BY <2>1
<1>3. /\ NoOp.pc = "idle"
      /\ Left(op[w], i).address = op[w].address /\ Left(op[w], i).todo \subseteq op[w].todo
  BY <1>1 DEF NoOp, NewOp, Left, Op
<1>4. TodoInv'
  BY <1>1, <1>2, <1>3, MoveTodo DEF ProvenanceInv
<1>5. op[w].address \in Addresses => i \in offered[op[w].address]
  BY <1>1 DEF ProvenanceInv, TodoInv
<1>6. Provenance'
  BY <1>1, <1>5 DEF ProvenanceInv, Provenance
<1>7. QED
  BY <1>4, <1>6 DEF ProvenanceInv

LEMMA ProvenanceMove ==
  ASSUME Typed, ProvenanceInv, NEW w \in Workers,
         \/ Unreachable(w) \/ ListOwned(w) \/ DeleteForward(w)
         \/ \E i \in Items : RemoveItem(w, i)
  PROVE  ProvenanceInv'
<1>1. op[w] \in Op /\ op[w].pc \in {"discovering", "listing", "deleting", "removing"}
      /\ offered' = offered
  BY DEF Unreachable, ListOwned, DeleteForward, RemoveItem, Typed, TypeOK
<1>2. \A i \in Items : owner'[i] = owner[i] \/ owner'[i] = None
  BY DEF Unreachable, ListOwned, DeleteForward, RemoveItem, Typed, TypeOK
<1>3. Provenance'
  BY <1>1, <1>2, LocalAssumption DEF ProvenanceInv, Provenance
<1>4. \E o : o.pc # "registering" /\ op' = [op EXCEPT ![w] = o]
  <2>1. CASE Unreachable(w)
    <3>1. op' = [op EXCEPT ![w] = NoOp] /\ NoOp.pc # "registering"
      BY <2>1 DEF Unreachable, NoOp, NewOp
    <3>2. QED
      BY <3>1
  <2>2. CASE ListOwned(w)
    <3> DEFINE names == Owned(op[w].address, op[w].rank)
               o == IF names = {} THEN Removed(op[w])
                    ELSE [op[w] EXCEPT !.pc = "removing", !.todo = names]
    <3>1. op' = [op EXCEPT ![w] = o]
      BY <2>2 DEF ListOwned
    <3>2. Removed(op[w]).pc # "registering"
      BY <1>1, <2>2, RemovedRests DEF ListOwned
    <3>3. [op[w] EXCEPT !.pc = "removing", !.todo = names].pc = "removing"
      BY <1>1 DEF Op
    <3>4. o.pc # "registering"
      BY <3>2, <3>3
    <3>5. QED
      BY <3>1, <3>4
  <2>3. CASE DeleteForward(w)
    <3> DEFINE o == IF Cleans(w) THEN [op[w] EXCEPT !.pc = "listing"] ELSE NoOp
    <3>1. op' = [op EXCEPT ![w] = o]
      BY <2>3 DEF DeleteForward
    <3>2. [op[w] EXCEPT !.pc = "listing"].pc = "listing" /\ NoOp.pc = "idle"
      BY <1>1 DEF Op, NoOp, NewOp
    <3>3. o.pc # "registering"
      BY <3>2
    <3>4. QED
      BY <3>1, <3>3
  <2>4. CASE \E i \in Items : RemoveItem(w, i)
    <3>1. PICK i \in Items : RemoveItem(w, i)
      BY <2>4
    <3> DEFINE o == IF op[w].todo = {i} THEN Removed(op[w]) ELSE Left(op[w], i)
    <3>2. op' = [op EXCEPT ![w] = o]
      BY <3>1 DEF RemoveItem
    <3>3. Left(op[w], i).pc = "removing"
      BY <1>1, <3>1 DEF RemoveItem, Left, Op
    <3>4. Removed(op[w]).pc # "registering"
      BY <1>1, <3>1, RemovedRests DEF RemoveItem
    <3>5. o.pc # "registering"
      BY <3>3, <3>4
    <3>6. QED
      BY <3>2, <3>5
  <2>5. QED
    BY <2>1, <2>2, <2>3, <2>4
<1>5. TodoInv'
  BY <1>1, <1>4, MoveTodo DEF ProvenanceInv
<1>6. QED
  BY <1>3, <1>5 DEF ProvenanceInv

(* An edit that interferes leaves every request its address and its names.  *)
LEMMA InterfereTodo ==
  ASSUME Typed, TodoInv, Interfere, \A b \in Addresses : offered[b] \subseteq offered'[b]
  PROVE  TodoInv'
<1>1. ASSUME NEW u \in Workers
      PROVE  /\ op'[u].pc = op[u].pc /\ op'[u].address = op[u].address
             /\ op'[u].todo = op[u].todo
  <2>1. op[u] \in Op
    BY DEF Typed, TypeOK
  <2>2. op'[u] = [op[u] EXCEPT !.solo = FALSE]
    BY DEF Interfere
  <2>3. QED
    BY <2>1, <2>2 DEF Op
<1>2. QED
  BY <1>1 DEF TodoInv

LEMMA ProvenanceDeleteItem ==
  ASSUME Typed, ProvenanceInv, NEW i \in Items, DeleteItem(i)
  PROVE  ProvenanceInv'
<1>1. offered' = offered /\ Interfere
  BY DEF DeleteItem
<1>2. \A j \in Items : owner'[j] \in {owner[j], None}
  BY DEF DeleteItem, Typed, TypeOK
<1>3. Provenance'
  BY <1>1, <1>2, LocalAssumption DEF ProvenanceInv, Provenance
<1>4. TodoInv'
  BY <1>1, InterfereTodo DEF ProvenanceInv
<1>5. QED
  BY <1>3, <1>4 DEF ProvenanceInv

LEMMA ProvenancePut ==
  ASSUME Typed, ProvenanceInv, NEW i \in Items, NEW a \in Addresses \cup {Local}, Put(i, a)
  PROVE  ProvenanceInv'
<1>1. /\ \A b \in Addresses : offered[b] \subseteq offered'[b]
      /\ a \in Addresses => i \in offered'[a]
  BY GivenType DEF Put
<1>2. owner'[i] = a /\ \A j \in Items : j # i => owner'[j] = owner[j]
  BY DEF Put, Typed, TypeOK
<1>3. Provenance'
  BY <1>1, <1>2 DEF ProvenanceInv, Provenance
<1>4. TodoInv'
  BY <1>1, InterfereTodo DEF ProvenanceInv, Put
<1>5. QED
  BY <1>3, <1>4 DEF ProvenanceInv

LEMMA ProvenanceRename ==
  ASSUME Typed, ProvenanceInv, NEW w \in Workers, NEW i \in Items, NEW j \in Items,
         NEW a \in Addresses \cup {Local}, Rename(w, i, j, a)
  PROVE  ProvenanceInv'
<1> DEFINE o == NewOp("registering", "update", None, a, {j})
<1>1. /\ \A b \in Addresses : offered[b] \subseteq offered'[b]
      /\ a \in Addresses => j \in offered'[a]
  BY GivenType DEF Rename
<1>2. o \in Op /\ o.address = a /\ o.todo = {j} /\ Start(w, o)
  BY NewOpType DEF NewOp, Rename
<1>3. \A k \in Items : owner'[k] \in {owner[k], None}
  BY DEF Rename, Typed, TypeOK
<1>4. TodoInv'
  BY <1>1, <1>2, StartTodo DEF ProvenanceInv
<1>5. Provenance'
  BY <1>1, <1>3, LocalAssumption DEF ProvenanceInv, Provenance
<1>6. QED
  BY <1>4, <1>5 DEF ProvenanceInv

LEMMA ProvenanceNext ==
  ASSUME Typed, ProvenanceInv, [Next]_vars
  PROVE  ProvenanceInv'
<1>1. ASSUME NEW w \in Workers, Step(w) PROVE ProvenanceInv'
  BY <1>1, ProvenanceAnswer, ProvenanceRegister, ProvenanceMove DEF Step
<1>2. ASSUME NEW w \in Workers, Request(w) PROVE ProvenanceInv'
  BY <1>2, ProvenanceRequest
<1>3. CASE Startup
  BY <1>3, ProvenanceRequest DEF Startup
<1>4. CASE Edit
  BY <1>4, ProvenancePut, ProvenanceDeleteItem, ProvenanceRename DEF Edit
<1>5. ASSUME NEW persisted \in BOOLEAN, Restart(persisted) PROVE ProvenanceInv'
  BY <1>5, LocalAssumption DEF Restart, ProvenanceInv, Provenance, TodoInv, NoOp, NewOp
<1>6. CASE UNCHANGED vars
  BY <1>6 DEF vars, ProvenanceInv, Provenance, TodoInv
<1>7. QED
  BY <1>1, <1>2, <1>3, <1>4, <1>5, <1>6 DEF Next

(* An entry is only ever forwarded to a server that offered its name, for  *)
(* any number of servers, forwards and requests in flight.                 *)
THEOREM ProvenanceHolds == Spec => []Provenance
<1>1. Init => Typed /\ ProvenanceInv
  <2>1. Init => ProvenanceInv
    BY LocalAssumption DEF Init, ProvenanceInv, Provenance, TodoInv, NoOp, NewOp
  <2>2. QED
    BY <2>1, InitType
<1>2. Typed /\ ProvenanceInv /\ [Next]_vars => (Typed /\ ProvenanceInv)'
  BY NextType, ProvenanceNext
<1>3. Typed /\ ProvenanceInv => Provenance
  BY DEF ProvenanceInv
<1>4. QED
  BY <1>1, <1>2, <1>3, PTL DEF Spec
-----------------------------------------------------------------------------
(* Availability.                                                           *)

(* The record a discovery registers is available only if it answered.      *)
LEMMA AvailableNext ==
  ASSUME Typed, AvailableWasReached, [Next]_vars
  PROVE  AvailableWasReached'
<1>1. ASSUME NEW w \in Workers, NEW catalog \in Catalogs, Answer(w, catalog)
      PROVE  AvailableWasReached'
  BY <1>1 DEF Answer, Record, AvailableWasReached, Typed, TypeOK
<1>2. ASSUME NEW w \in Workers, Unreachable(w) PROVE AvailableWasReached'
  BY <1>2 DEF Unreachable, Record, AvailableWasReached, Typed, TypeOK
<1>3. ASSUME NEW w \in Workers, DeleteForward(w) PROVE AvailableWasReached'
  BY <1>3 DEF DeleteForward, NoForward, AvailableWasReached, Typed, TypeOK
<1>4. ASSUME NEW persisted \in BOOLEAN, Restart(persisted) PROVE AvailableWasReached'
  BY <1>4 DEF Restart, NoForward, AvailableWasReached
<1>5. ASSUME NEW w \in Workers,
             \/ Request(w) \/ ListOwned(w)
             \/ \E i \in Items : RegisterItem(w, i) \/ RemoveItem(w, i)
      PROVE  AvailableWasReached'
  BY <1>5 DEF Request, Create, Refresh, Delete, ListOwned, RegisterItem, RemoveItem,
              AvailableWasReached
<1>6. CASE Startup \/ Edit
  BY <1>6 DEF Startup, StartupDiscover, Edit, Put, DeleteItem, Rename, AvailableWasReached
<1>7. CASE UNCHANGED vars
  BY <1>7 DEF vars, AvailableWasReached
<1>8. QED
  BY <1>1, <1>2, <1>3, <1>4, <1>5, <1>6, <1>7 DEF Next, Step

(* A forward is available only with an address that did answer.            *)
THEOREM AvailableReached == Spec => []AvailableWasReached
<1>1. Init => Typed /\ AvailableWasReached
  BY InitType DEF Init, AvailableWasReached
<1>2. Typed /\ AvailableWasReached /\ [Next]_vars => (Typed /\ AvailableWasReached)'
  BY NextType, AvailableNext
<1>3. QED
  BY <1>1, <1>2, PTL DEF Spec
-----------------------------------------------------------------------------
(* Nothing is left behind as long as requests do not overlap.              *)

(* Until the server takes requests only startup discovers, and what it has *)
(* still to discover is registered with the address of wanaku.yaml.        *)
StartupInv ==
  /\ boot # {} => \A w \in Workers : op[w].pc = "idle" \/ op[w].kind = "startup"
  /\ \A w \in Workers : op[w].kind = "startup" /\ op[w].pc # "idle"
                          => op[w].address = Config[op[w].name]
  /\ \A f \in boot : forwards[f].address \in {Config[f], None}

(* Registered forwards, given as F, with an address.                       *)
Covered(F, a) == \E f \in Names : F[f].address = a

(* A deletion that has still to remove entry i of address a.               *)
Tended(o, a, i) ==
  /\ o.kind = "delete" /\ o.address = a
  /\ \/ o.pc = "listing" /\ Rank[i] >= o.rank
     \/ o.pc = "removing" /\ (Rank[i] > o.rank \/ i \in o.todo)

(* A request that runs alone finds the forward as it read it.              *)
Steady(F, o) ==
  /\ o.pc = "discovering" => F[o.name].address \in {o.address, None}
  /\ o.pc \in {"listing", "removing"} /\ o.kind # "delete"
       => F[o.name].address \in {o.address, None}
  /\ o.pc = "registering" /\ o.address \in Addresses => Covered(F, o.address)
  /\ o.pc = "deleting" => F[o.name].address = o.address /\ o.rank = 1 /\ o.kind = "delete"

Alone == \A u, w \in Workers : u # w => op[u].pc = "idle" \/ op[w].pc = "idle"

TidyInv ==
  tidy => /\ Alone
          /\ \A w \in Workers : Steady(forwards, op[w])
          /\ \A i \in Items : owner[i] \in Addresses =>
               \/ Covered(forwards, owner[i])
               \/ \E w \in Workers : Tended(op[w], owner[i], i)

-----------------------------------------------------------------------------
(* Startup.                                                                *)

LEMMA StartupStart ==
  ASSUME Typed, StartupInv, NEW w \in Workers, NEW o \in Op, Start(w, o), forwards' = forwards,
         \/ boot = {} /\ boot' = {} /\ o.kind # "startup"
         \/ boot' \subseteq boot /\ Idle /\ o.kind = "startup" /\ o.address = Config[o.name]
  PROVE  StartupInv'
<1>1. ASSUME NEW u \in Workers, u # w
      PROVE  /\ op'[u].pc = op[u].pc /\ op'[u].kind = op[u].kind
             /\ op'[u].name = op[u].name /\ op'[u].address = op[u].address
  <2>1. op'[u] = [op[u] EXCEPT !.solo = FALSE] /\ op[u] \in Op
    BY <1>1 DEF Start, Typed, TypeOK
  <2>2. QED
    BY <2>1 DEF Op
<1>2. op'[w].kind = o.kind /\ op'[w].name = o.name /\ op'[w].address = o.address
  <2>1. op'[w] = [o EXCEPT !.solo = Idle]
    BY DEF Start
  <2>2. QED
    BY <2>1 DEF Op
<1>3. boot' # {} => \A u \in Workers : op'[u].pc = "idle" \/ op'[u].kind = "startup"
  BY <1>1, <1>2 DEF StartupInv, Idle
<1>4. \A u \in Workers : op'[u].kind = "startup" /\ op'[u].pc # "idle"
                          => op'[u].address = Config[op'[u].name]
  BY <1>1, <1>2 DEF StartupInv
<1>5. \A f \in boot' : forwards'[f].address \in {Config[f], None}
  BY DEF StartupInv
<1>6. QED
  BY <1>3, <1>4, <1>5 DEF StartupInv

(* A step of a running request keeps what it read or ends it.              *)
LEMMA StepKeeps ==
  ASSUME Typed, NEW w \in Workers, Step(w)
  PROVE  /\ op[w] \in Op /\ op[w].pc # "idle"
         /\ boot' = boot /\ tidy' = tidy
         /\ \E p : /\ op' = [op EXCEPT ![w] = p]
                   /\ \/ p.pc = "idle"
                      \/ p.kind = op[w].kind /\ p.name = op[w].name /\ p.address = op[w].address
<1> DEFINE Kept(p) == \/ p.pc = "idle"
                      \/ p.kind = op[w].kind /\ p.name = op[w].name /\ p.address = op[w].address
           Goal == \E p : op' = [op EXCEPT ![w] = p] /\ Kept(p)
<1>1. op[w] \in Op
  BY DEF Typed, TypeOK
<1>2. op[w].pc # "idle" /\ boot' = boot /\ tidy' = tidy
  BY DEF Step, Answer, Unreachable, RegisterItem, RemoveItem, ListOwned, DeleteForward
<1>3. Kept(NoOp)
  BY DEF NoOp, NewOp
<1>4. Kept(Removed(op[w]))
  <2>1. CASE op[w].rank < 3
    BY <1>1, <2>1 DEF Removed, Op
  <2>2. CASE ~(op[w].rank < 3) /\ op[w].kind = "refresh"
    BY <1>1, <2>2 DEF Removed, Op
  <2>3. CASE ~(op[w].rank < 3) /\ op[w].kind # "refresh"
    BY <1>3, <2>3 DEF Removed
  <2>4. QED
    BY <2>1, <2>2, <2>3
<1>5. ASSUME NEW catalog \in Catalogs, Answer(w, catalog) PROVE Goal
  <2> DEFINE p == [op[w] EXCEPT !.pc = "registering", !.todo = catalog, !.catalog = catalog]
  <2>1. Kept(p)
    BY <1>1 DEF Op
  <2>2. op' = [op EXCEPT ![w] = NoOp] \/ op' = [op EXCEPT ![w] = p]
    BY <1>5 DEF Answer
  <2>3. QED
    BY <1>3, <2>1, <2>2
<1>6. ASSUME Unreachable(w) PROVE Goal
  BY <1>3, <1>6 DEF Unreachable
<1>7. ASSUME NEW i \in Items PROVE Kept(Left(op[w], i))
  BY <1>1 DEF Left, Op
<1>8. ASSUME NEW i \in Items, RegisterItem(w, i) PROVE Goal
  <2>1. op' = [op EXCEPT ![w] = NoOp] \/ op' = [op EXCEPT ![w] = Left(op[w], i)]
    BY <1>8 DEF RegisterItem
  <2>2. QED
    BY <1>3, <1>7, <2>1
<1>9. ASSUME NEW i \in Items, RemoveItem(w, i) PROVE Goal
  <2>1. op' = [op EXCEPT ![w] = Removed(op[w])] \/ op' = [op EXCEPT ![w] = Left(op[w], i)]
    BY <1>9 DEF RemoveItem
  <2>2. QED
    BY <1>4, <1>7, <2>1
<1>10. ASSUME ListOwned(w) PROVE Goal
  <2> DEFINE names == Owned(op[w].address, op[w].rank)
             p == [op[w] EXCEPT !.pc = "removing", !.todo = names]
  <2>1. Kept(p)
    BY <1>1 DEF Op
  <2>2. op' = [op EXCEPT ![w] = Removed(op[w])] \/ op' = [op EXCEPT ![w] = p]
    BY <1>10 DEF ListOwned
  <2>3. QED
    BY <1>4, <2>1, <2>2
<1>11. ASSUME DeleteForward(w) PROVE Goal
  <2> DEFINE p == [op[w] EXCEPT !.pc = "listing"]
  <2>1. Kept(p)
    BY <1>1 DEF Op
  <2>2. op' = [op EXCEPT ![w] = NoOp] \/ op' = [op EXCEPT ![w] = p]
    BY <1>11 DEF DeleteForward
  <2>3. QED
    BY <1>3, <2>1, <2>2
<1>12. Goal
  BY <1>5, <1>6, <1>8, <1>9, <1>10, <1>11 DEF Step
<1>13. QED
  BY <1>1, <1>2, <1>12

(* The forward a step writes is the one it discovered, or none.            *)
LEMMA StepForward ==
  ASSUME Typed, NEW w \in Workers, Step(w), NEW f \in Names
  PROVE  \/ forwards'[f].address \in {forwards[f].address, None}
         \/ f = op[w].name /\ forwards'[f].address = op[w].address
<1> DEFINE Writes(e) == /\ e.address \in {op[w].address, None}
                        /\ forwards' = [forwards EXCEPT ![op[w].name] = e]
<1>1. forwards' = forwards \/ \E e : Writes(e)
  <2>1. Record(w, TRUE).address = op[w].address /\ Record(w, FALSE).address = op[w].address
    BY DEF Record
  <2>2. NoForward.address = None
    BY DEF NoForward
  <2>3. ASSUME NEW catalog \in Catalogs, Answer(w, catalog)
        PROVE  Writes(Record(w, TRUE))
    BY <2>1, <2>3 DEF Answer
  <2>4. ASSUME Unreachable(w)
        PROVE  Writes(Record(w, FALSE))
    BY <2>1, <2>4 DEF Unreachable
  <2>5. ASSUME DeleteForward(w)
        PROVE  Writes(NoForward)
    BY <2>2, <2>5 DEF DeleteForward
  <2>6. ASSUME ListOwned(w) \/ \E i \in Items : RegisterItem(w, i) \/ RemoveItem(w, i)
        PROVE  forwards' = forwards
    BY <2>6 DEF ListOwned, RegisterItem, RemoveItem
  <2> HIDE DEF Writes
  <2>7. QED
    BY <2>3, <2>4, <2>5, <2>6 DEF Step
<1>2. forwards \in [Names -> ForwardEntry]
  BY DEF Typed, TypeOK
<1>3. QED
  BY <1>1, <1>2

LEMMA StartupStep ==
  ASSUME Typed, StartupInv, NEW w \in Workers, Step(w)
  PROVE  StartupInv'
<1>1. /\ op \in [Workers -> Op] /\ op[w].pc # "idle" /\ boot' = boot
      /\ \E p : /\ op' = [op EXCEPT ![w] = p]
                /\ \/ p.pc = "idle"
                   \/ p.kind = op[w].kind /\ p.name = op[w].name /\ p.address = op[w].address
  BY StepKeeps DEF Typed, TypeOK
<1>2. PICK p : /\ op' = [op EXCEPT ![w] = p]
               /\ \/ p.pc = "idle"
                  \/ p.kind = op[w].kind /\ p.name = op[w].name /\ p.address = op[w].address
  BY <1>1
<1>3. op'[w] = p /\ \A u \in Workers : u # w => op'[u] = op[u]
  BY <1>1, <1>2
<1>4. boot' # {} => \A u \in Workers : op'[u].pc = "idle" \/ op'[u].kind = "startup"
  BY <1>1, <1>2, <1>3 DEF StartupInv
<1>5. \A u \in Workers : op'[u].kind = "startup" /\ op'[u].pc # "idle"
                          => op'[u].address = Config[op'[u].name]
  BY <1>1, <1>2, <1>3 DEF StartupInv
<1>6. ASSUME NEW f \in boot' PROVE forwards'[f].address \in {Config[f], None}
  <2>1. f \in Names /\ f \in boot
    BY <1>1 DEF Typed, TypeOK
  <2>2. op[w].address = Config[op[w].name]
    BY <1>1, <2>1 DEF StartupInv
  <2>3. QED
    BY <2>1, <2>2, StepForward DEF StartupInv
<1>7. QED
  BY <1>4, <1>5, <1>6 DEF StartupInv

LEMMA StartupNext == Typed /\ StartupInv /\ [Next]_vars => StartupInv'
<1> SUFFICES ASSUME Typed, StartupInv, [Next]_vars PROVE StartupInv'
  OBVIOUS
<1>1. ASSUME NEW w \in Workers, Step(w) PROVE StartupInv'
  BY <1>1, StartupStep
<1>2. ASSUME NEW w \in Workers, Request(w) PROVE StartupInv'
  <2>1. ASSUME NEW f \in Names, NEW a \in Addresses, Create(w, f, a) PROVE StartupInv'
    <3> DEFINE o == NewOp("discovering", "create", f, a, {})
    <3>1. o \in Op /\ o.kind = "create"
      BY NewOpType DEF NewOp
    <3>2. Start(w, o) /\ forwards' = forwards /\ boot = {} /\ boot' = {}
      BY <2>1 DEF Create, Serving
    <3>3. QED
      BY <3>1, <3>2, StartupStart
  <2>2. ASSUME NEW f \in Names, Refresh(w, f) PROVE StartupInv'
    <3> DEFINE o == NewOp("listing", "refresh", f, forwards[f].address, {})
    <3>1. o \in Op /\ o.kind = "refresh"
      BY ForwardType, NewOpType DEF NewOp
    <3>2. Start(w, o) /\ forwards' = forwards /\ boot = {} /\ boot' = {}
      BY <2>2 DEF Refresh, Serving
    <3>3. QED
      BY <3>1, <3>2, StartupStart
  <2>3. ASSUME NEW f \in Names, Delete(w, f) PROVE StartupInv'
    <3> DEFINE o == NewOp("deleting", "delete", f, forwards[f].address, {})
    <3>1. o \in Op /\ o.kind = "delete"
      BY ForwardType, NewOpType DEF NewOp
    <3>2. Start(w, o) /\ forwards' = forwards /\ boot = {} /\ boot' = {}
      BY <2>3 DEF Delete, Serving
    <3>3. QED
      BY <3>1, <3>2, StartupStart
  <2>4. QED
    BY <1>2, <2>1, <2>2, <2>3 DEF Request
<1>3. ASSUME NEW w \in Workers, NEW f \in Names, StartupDiscover(w, f) PROVE StartupInv'
  <2> DEFINE o == NewOp("discovering", "startup", f, Config[f], {})
  <2>1. Config[f] \in Addresses \cup {None}
    BY ConfigAssumption
  <2>2. o \in Op /\ o.kind = "startup" /\ o.address = Config[o.name]
    BY <2>1, NewOpType DEF NewOp
  <2>3. Start(w, o) /\ forwards' = forwards /\ boot' \subseteq boot /\ Idle
    BY <1>3 DEF StartupDiscover
  <2>4. QED
    BY <2>2, <2>3, StartupStart
<1>4. ASSUME NEW w \in Workers, NEW i \in Items, NEW j \in Items,
             NEW a \in Addresses \cup {Local}, Rename(w, i, j, a)
      PROVE  StartupInv'
  <2> DEFINE o == NewOp("registering", "update", None, a, {j})
  <2>1. o \in Op /\ o.kind = "update"
    BY NewOpType DEF NewOp
  <2>2. Start(w, o) /\ forwards' = forwards /\ boot = {} /\ boot' = {}
    BY <1>4 DEF Rename, Serving
  <2>3. QED
    BY <2>1, <2>2, StartupStart
<1>5. ASSUME Interfere, boot = {}, boot' = boot PROVE StartupInv'
  <2>1. ASSUME NEW u \in Workers
        PROVE  /\ op'[u].pc = op[u].pc /\ op'[u].kind = op[u].kind
               /\ op'[u].name = op[u].name /\ op'[u].address = op[u].address
    <3>1. op[u] \in Op /\ op'[u] = [op[u] EXCEPT !.solo = FALSE]
      BY <1>5 DEF Interfere, Typed, TypeOK
    <3>2. QED
      BY <3>1 DEF Op
  <2>2. QED
    BY <1>5, <2>1 DEF StartupInv
<1>6. CASE Edit
  BY <1>4, <1>5, <1>6 DEF Edit, Put, DeleteItem, Serving
<1>7. ASSUME NEW persisted \in BOOLEAN, Restart(persisted) PROVE StartupInv'
  BY <1>7 DEF Restart, StartupInv, NoOp, NewOp
<1>8. CASE UNCHANGED vars
  BY <1>8 DEF vars, StartupInv
<1>9. QED
  BY <1>1, <1>2, <1>3, <1>6, <1>7, <1>8 DEF Next, Startup
-----------------------------------------------------------------------------
(* Requests that do not overlap.                                           *)

LEMMA IdleTends == \A o, a, i : o.pc = "idle" => ~Tended(o, a, i)
  BY DEF Tended

LEMMA IdleSteady == \A F, o : o.pc = "idle" => Steady(F, o)
  BY DEF Steady

(* With nothing running, every forwarded entry has its forward.            *)
LEMMA IdleCovered ==
  ASSUME TidyInv, tidy, Idle, NEW i \in Items, owner[i] \in Addresses
  PROVE  Covered(forwards, owner[i])
  BY IdleTends DEF TidyInv, Idle

(* A request that starts, or a step of the only one, to the record p.      *)
LEMMA TidyOnly ==
  ASSUME NEW w \in Workers, NEW p,
         \A u \in Workers : u # w => op'[u].pc = "idle",
         tidy' => /\ Steady(forwards', op'[w])
                  /\ \A i \in Items : owner'[i] \in Addresses =>
                       Covered(forwards', owner'[i]) \/ Tended(op'[w], owner'[i], i)
  PROVE  TidyInv'
<1> SUFFICES ASSUME tidy'
             PROVE  /\ Alone'
                    /\ \A u \in Workers : Steady(forwards', op'[u])
                    /\ \A i \in Items : owner'[i] \in Addresses =>
                         \/ Covered(forwards', owner'[i])
                         \/ \E u \in Workers : Tended(op'[u], owner'[i], i)
  BY DEF TidyInv
<1>1. Alone'
  BY DEF Alone
<1>2. \A u \in Workers : Steady(forwards', op'[u])
  BY IdleSteady
<1>3. QED
  BY <1>1, <1>2

LEMMA TidyStart ==
  ASSUME Typed, TidyInv, NEW w \in Workers, NEW o \in Op, Start(w, o), forwards' = forwards,
         tidy' => tidy /\ Idle /\ Steady(forwards, o),
         \A i \in Items : owner'[i] \in {owner[i], None}
  PROVE  TidyInv'
<1> SUFFICES ASSUME tidy' PROVE TidyInv'
  BY DEF TidyInv
<1>1. ASSUME NEW u \in Workers, u # w PROVE op'[u].pc = "idle"
  <2>1. op'[u] = [op[u] EXCEPT !.solo = FALSE] /\ op[u] \in Op /\ op[u].pc = "idle"
    BY <1>1 DEF Start, Typed, TypeOK, Idle
  <2>2. QED
    BY <2>1 DEF Op
<1>2. Steady(forwards', op'[w])
  <2>1. op'[w] = [o EXCEPT !.solo = Idle]
    BY DEF Start
  <2>2. /\ op'[w].pc = o.pc /\ op'[w].kind = o.kind /\ op'[w].name = o.name
        /\ op'[w].address = o.address /\ op'[w].rank = o.rank
    BY <2>1 DEF Op
  <2>3. QED
    BY <2>2 DEF Steady
<1>3. ASSUME NEW i \in Items, owner'[i] \in Addresses PROVE Covered(forwards', owner'[i])
  <2>1. owner'[i] = owner[i]
    BY <1>3, LocalAssumption
  <2>2. QED
    BY <1>3, <2>1, IdleCovered
<1>4. QED
  BY <1>1, <1>2, <1>3, TidyOnly

(* An edit in one call, with nothing else running.                         *)
LEMMA TidyInterfere ==
  ASSUME Typed, TidyInv, Interfere, forwards' = forwards, tidy' => tidy /\ Idle,
         tidy' => \A i \in Items : owner'[i] \in {owner[i], Local, None}
  PROVE  TidyInv'
<1> SUFFICES ASSUME tidy' PROVE TidyInv'
  BY DEF TidyInv
<1>1. ASSUME NEW u \in Workers PROVE op'[u].pc = "idle"
  <2>1. op'[u] = [op[u] EXCEPT !.solo = FALSE] /\ op[u] \in Op /\ op[u].pc = "idle"
    BY DEF Interfere, Typed, TypeOK, Idle
  <2>2. QED
    BY <2>1 DEF Op
<1>2. ASSUME NEW i \in Items, owner'[i] \in Addresses PROVE Covered(forwards', owner'[i])
  <2>1. owner'[i] = owner[i]
    BY <1>2, LocalAssumption
  <2>2. QED
    BY <1>2, <2>1, IdleCovered
<1>3. QED
  BY <1>1, <1>2, IdleSteady DEF TidyInv, Alone

(* A step of a running request: it is the only one.                        *)
LEMMA TidyStep ==
  ASSUME Typed, TidyInv, NEW w \in Workers, Step(w), NEW p, op' = [op EXCEPT ![w] = p],
         tidy => /\ Steady(forwards', p)
                 /\ \A i \in Items : owner'[i] \in Addresses =>
                      Covered(forwards', owner'[i]) \/ Tended(p, owner'[i], i)
  PROVE  TidyInv'
<1> SUFFICES ASSUME tidy' PROVE TidyInv'
  BY DEF TidyInv
<1>1. tidy /\ op[w].pc # "idle"
  BY StepKeeps
<1>2. op'[w] = p /\ \A u \in Workers : u # w => op'[u] = op[u]
  BY DEF Typed, TypeOK
<1>3. \A u \in Workers : u # w => op'[u].pc = "idle"
  BY <1>1, <1>2 DEF TidyInv, Alone
<1>4. QED
  BY <1>1, <1>2, <1>3, TidyOnly

(* What a request has of the entries when it is the only one running.      *)
LEMMA OnlyTends ==
  ASSUME TidyInv, tidy, NEW w \in Workers, op[w].pc # "idle",
         NEW i \in Items, owner[i] \in Addresses
  PROVE  Covered(forwards, owner[i]) \/ Tended(op[w], owner[i], i)
<1>1. \A u \in Workers : u # w => op[u].pc = "idle"
  BY DEF TidyInv, Alone
<1>2. QED
  BY <1>1, IdleTends DEF TidyInv

(* A discovery that ends registers its address over the same one, or none. *)
LEMMA DiscoveryCovers ==
  ASSUME Typed, TidyInv, tidy, NEW w \in Workers, op[w].pc = "discovering",
         NEW found \in BOOLEAN, forwards' = [forwards EXCEPT ![op[w].name] = Record(w, found)]
  PROVE  /\ Covered(forwards', op[w].address)
         /\ \A i \in Items : owner[i] \in Addresses => Covered(forwards', owner[i])
<1> DEFINE n == op[w].name
           a == op[w].address
<1>1. n \in Names /\ forwards \in [Names -> ForwardEntry] /\ forwards'[n].address = a
  BY DEF Typed, TypeOK, OpInv, Sound, Record
<1>2. \A f \in Names : f # n => forwards'[f] = forwards[f]
  BY <1>1
<1>3. forwards[n].address \in {a, None}
  BY DEF TidyInv, Steady
<1>4. ASSUME NEW i \in Items, owner[i] \in Addresses PROVE Covered(forwards', owner[i])
  <2>1. Covered(forwards, owner[i])
    BY <1>4, OnlyTends DEF Tended
  <2>2. PICK f \in Names : forwards[f].address = owner[i]
    BY <2>1 DEF Covered
  <2>3. CASE f = n
    <3>1. owner[i] = a
      BY <1>3, <1>4, <2>2, <2>3, LocalAssumption
    <3>2. QED
      BY <1>1, <3>1 DEF Covered
  <2>4. CASE f # n
    BY <1>2, <2>2, <2>4 DEF Covered
  <2>5. QED
    BY <2>3, <2>4
<1>5. Covered(forwards', a)
  BY <1>1 DEF Covered
<1>6. QED
  BY <1>4, <1>5

LEMMA NoOpIdle == NoOp.pc = "idle"
  BY DEF NoOp, NewOp

LEMMA TidyAnswer ==
  ASSUME Typed, TidyInv, NEW w \in Workers, NEW catalog \in Catalogs, Answer(w, catalog)
  PROVE  TidyInv'
<1> DEFINE p == [op[w] EXCEPT !.pc = "registering", !.todo = catalog, !.catalog = catalog]
<1>1. /\ op[w].pc = "discovering" /\ op[w] \in Op /\ owner' = owner /\ Step(w)
      /\ forwards' = [forwards EXCEPT ![op[w].name] = Record(w, TRUE)]
  BY DEF Answer, Step, Typed, TypeOK
<1>2. tidy => /\ Covered(forwards', op[w].address)
              /\ \A i \in Items : owner[i] \in Addresses => Covered(forwards', owner[i])
  BY <1>1, DiscoveryCovers
<1>3. p.pc = "registering" /\ p.address = op[w].address
  BY <1>1 DEF Op
<1>4. tidy => Steady(forwards', p)
  BY <1>2, <1>3 DEF Steady
<1>5. Steady(forwards', NoOp)
  BY NoOpIdle, IdleSteady
<1>6. op' = [op EXCEPT ![w] = NoOp] \/ op' = [op EXCEPT ![w] = p]
  BY DEF Answer
<1>7. CASE op' = [op EXCEPT ![w] = NoOp]
  BY <1>1, <1>2, <1>5, <1>7, TidyStep
<1>8. CASE op' = [op EXCEPT ![w] = p]
  BY <1>1, <1>2, <1>4, <1>8, TidyStep
<1>9. QED
  BY <1>6, <1>7, <1>8

LEMMA TidyUnreachable ==
  ASSUME Typed, TidyInv, NEW w \in Workers, Unreachable(w)
  PROVE  TidyInv'
<1>1. /\ op[w].pc = "discovering" /\ owner' = owner /\ Step(w)
      /\ forwards' = [forwards EXCEPT ![op[w].name] = Record(w, FALSE)]
      /\ op' = [op EXCEPT ![w] = NoOp]
  BY DEF Unreachable, Step
<1>2. tidy => \A i \in Items : owner[i] \in Addresses => Covered(forwards', owner[i])
  BY <1>1, DiscoveryCovers
<1>3. Steady(forwards', NoOp)
  BY NoOpIdle, IdleSteady
<1>4. QED
  BY <1>1, <1>2, <1>3, TidyStep

LEMMA TidyRegisterItem ==
  ASSUME Typed, TidyInv, NEW w \in Workers, NEW i \in Items, RegisterItem(w, i)
  PROVE  TidyInv'
<1> DEFINE p == Left(op[w], i)
<1>1. /\ op[w].pc = "registering" /\ op[w] \in Op /\ Step(w)
      /\ forwards' = forwards /\ owner' = [owner EXCEPT ![i] = op[w].address]
      /\ owner \in [Items -> Addresses \cup {Local, None}]
  BY DEF RegisterItem, Address, Step, Typed, TypeOK
<1>2. tidy => Steady(forwards, op[w])
  BY DEF TidyInv
<1>3. p.pc = "registering" /\ p.address = op[w].address
  BY <1>1 DEF Left, Op
<1>4. tidy => Steady(forwards', p)
  BY <1>1, <1>2, <1>3 DEF Steady
<1>5. Steady(forwards', NoOp)
  BY NoOpIdle, IdleSteady
<1>6. ASSUME tidy, NEW j \in Items, owner'[j] \in Addresses PROVE Covered(forwards', owner'[j])
  <2>1. CASE j = i
    BY <1>1, <1>2, <1>6, <2>1 DEF Steady
  <2>2. CASE j # i
    <3>1. owner'[j] = owner[j]
      BY <1>1, <2>2
    <3>2. ~Tended(op[w], owner[j], j)
      BY <1>1 DEF Tended
    <3>3. QED
      BY <1>1, <1>6, <3>1, <3>2, OnlyTends
  <2>3. QED
    BY <2>1, <2>2
<1>7. op' = [op EXCEPT ![w] = NoOp] \/ op' = [op EXCEPT ![w] = p]
  BY DEF RegisterItem
<1>8. CASE op' = [op EXCEPT ![w] = NoOp]
  BY <1>1, <1>5, <1>6, <1>8, TidyStep
<1>9. CASE op' = [op EXCEPT ![w] = p]
  BY <1>1, <1>4, <1>6, <1>9, TidyStep
<1>10. QED
  BY <1>7, <1>8, <1>9

(* After one kind of entry a deletion still tends those of the later kinds. *)
LEMMA RemovedTends ==
  ASSUME NEW o \in Op, NEW a, NEW i \in Items, o.kind = "delete", o.address = a, Rank[i] > o.rank
  PROVE  Tended(Removed(o), a, i)
<1>1. Rank[i] \in 1..3 /\ o.rank \in 1..3
  BY RankAssumption DEF Op
<1>2. o.rank < 3
  BY <1>1
<1>3. Removed(o) = [o EXCEPT !.pc = "listing", !.rank = o.rank + 1, !.todo = {}]
  BY <1>2 DEF Removed
<1>4. /\ Removed(o).kind = "delete" /\ Removed(o).address = a /\ Removed(o).pc = "listing"
      /\ Removed(o).rank = o.rank + 1
  BY <1>3 DEF Op
<1>5. Rank[i] >= o.rank + 1
  BY <1>1
<1>6. QED
  BY <1>4, <1>5 DEF Tended

LEMMA RemovedSteady ==
  ASSUME NEW F, NEW o \in Op, o.kind # "delete" => F[o.name].address \in {o.address, None}
  PROVE  Steady(F, Removed(o))
<1>1. CASE o.rank < 3
  <2>1. Removed(o) = [o EXCEPT !.pc = "listing", !.rank = o.rank + 1, !.todo = {}]
    BY <1>1 DEF Removed
  <2>2. /\ Removed(o).kind = o.kind /\ Removed(o).address = o.address
        /\ Removed(o).pc = "listing" /\ Removed(o).name = o.name
    BY <2>1 DEF Op
  <2>3. QED
    BY <2>2 DEF Steady
<1>2. CASE ~(o.rank < 3) /\ o.kind = "refresh"
  <2>1. Removed(o) = [o EXCEPT !.pc = "discovering", !.rank = 1, !.todo = {}]
    BY <1>2 DEF Removed
  <2>2. /\ Removed(o).kind = o.kind /\ Removed(o).address = o.address
        /\ Removed(o).pc = "discovering" /\ Removed(o).name = o.name
    BY <2>1 DEF Op
  <2>3. QED
    BY <1>2, <2>2 DEF Steady
<1>3. CASE ~(o.rank < 3) /\ o.kind # "refresh"
  BY <1>3, NoOpIdle, IdleSteady DEF Removed
<1>4. QED
  BY <1>1, <1>2, <1>3

LEMMA TidyListOwned ==
  ASSUME Typed, TidyInv, NEW w \in Workers, ListOwned(w)
  PROVE  TidyInv'
<1> DEFINE o     == op[w]
           names == Owned(o.address, o.rank)
           p     == [o EXCEPT !.pc = "removing", !.todo = names]
<1>1. /\ o.pc = "listing" /\ o \in Op /\ Step(w) /\ forwards' = forwards /\ owner' = owner
      /\ \/ names = {} /\ op' = [op EXCEPT ![w] = Removed(o)]
         \/ names # {} /\ op' = [op EXCEPT ![w] = p]
  BY DEF ListOwned, Step, Typed, TypeOK
<1>2. tidy => (o.kind # "delete" => forwards[o.name].address \in {o.address, None})
  BY <1>1 DEF TidyInv, Steady
<1>3. ASSUME tidy, NEW i \in Items, owner[i] \in Addresses, ~Covered(forwards, owner[i])
      PROVE  /\ o.kind = "delete" /\ o.address = owner[i]
             /\ Rank[i] > o.rank \/ i \in names
  <2>1. Tended(o, owner[i], i)
    BY <1>1, <1>3, OnlyTends
  <2>2. Rank[i] \in 1..3 /\ o.rank \in 1..3
    BY <1>1, RankAssumption DEF Op
  <2>3. o.kind = "delete" /\ o.address = owner[i] /\ Rank[i] >= o.rank
    BY <1>1, <2>1 DEF Tended
  <2>4. Rank[i] = o.rank => i \in names
    BY <2>3 DEF Owned
  <2>5. QED
    BY <2>2, <2>3, <2>4
<1>4. CASE names = {}
  <2>1. op' = [op EXCEPT ![w] = Removed(o)]
    BY <1>1, <1>4
  <2>2. tidy => Steady(forwards', Removed(o))
    BY <1>1, <1>2, RemovedSteady
  <2>3. tidy => \A i \in Items : owner'[i] \in Addresses =>
                  Covered(forwards', owner'[i]) \/ Tended(Removed(o), owner'[i], i)
    BY <1>1, <1>3, <1>4, RemovedTends
  <2>4. QED
    BY <1>1, <2>1, <2>2, <2>3, TidyStep
<1>5. CASE names # {}
  <2>1. op' = [op EXCEPT ![w] = p]
    BY <1>1, <1>5
  <2>2. /\ p.pc = "removing" /\ p.kind = o.kind /\ p.name = o.name /\ p.address = o.address
        /\ p.rank = o.rank /\ p.todo = names
    BY <1>1 DEF Op
  <2>3. tidy => Steady(forwards', p)
    BY <1>1, <1>2, <2>2 DEF Steady
  <2>4. tidy => \A i \in Items : owner'[i] \in Addresses =>
                  Covered(forwards', owner'[i]) \/ Tended(p, owner'[i], i)
    BY <1>1, <1>3, <2>2 DEF Tended
  <2>5. QED
    BY <1>1, <2>1, <2>3, <2>4, TidyStep
<1>6. QED
  BY <1>4, <1>5

LEMMA TidyRemoveItem ==
  ASSUME Typed, TidyInv, NEW w \in Workers, NEW i \in Items, RemoveItem(w, i)
  PROVE  TidyInv'
<1> DEFINE o == op[w]
           p == Left(o, i)
<1>1. /\ o.pc = "removing" /\ o \in Op /\ Step(w) /\ forwards' = forwards
      /\ owner' = [owner EXCEPT ![i] = None] /\ owner \in [Items -> Addresses \cup {Local, None}]
      /\ \/ o.todo = {i} /\ op' = [op EXCEPT ![w] = Removed(o)]
         \/ o.todo # {i} /\ op' = [op EXCEPT ![w] = p]
  BY DEF RemoveItem, Step, Typed, TypeOK
<1>2. tidy => (o.kind # "delete" => forwards[o.name].address \in {o.address, None})
  BY <1>1 DEF TidyInv, Steady
<1>3. ASSUME tidy, NEW j \in Items, owner'[j] \in Addresses, ~Covered(forwards, owner'[j])
      PROVE  /\ o.kind = "delete" /\ o.address = owner'[j]
             /\ Rank[j] > o.rank \/ (j \in o.todo /\ j # i)
  <2>1. j # i /\ owner'[j] = owner[j]
    BY <1>1, <1>3, LocalAssumption
  <2>2. Tended(o, owner[j], j)
    BY <1>1, <1>3, <2>1, OnlyTends
  <2>3. QED
    BY <1>1, <2>1, <2>2 DEF Tended
<1>4. CASE o.todo = {i} /\ op' = [op EXCEPT ![w] = Removed(o)]
  <2>1. tidy => Steady(forwards', Removed(o))
    BY <1>1, <1>2, RemovedSteady
  <2>2. tidy => \A j \in Items : owner'[j] \in Addresses =>
                  Covered(forwards', owner'[j]) \/ Tended(Removed(o), owner'[j], j)
    BY <1>1, <1>3, <1>4, RemovedTends
  <2>3. QED
    BY <1>1, <1>4, <2>1, <2>2, TidyStep
<1>5. CASE o.todo # {i} /\ op' = [op EXCEPT ![w] = p]
  <2>1. /\ p.pc = "removing" /\ p.kind = o.kind /\ p.name = o.name /\ p.address = o.address
        /\ p.rank = o.rank /\ p.todo = o.todo \ {i}
    BY <1>1 DEF Left, Op
  <2>2. tidy => Steady(forwards', p)
    BY <1>1, <1>2, <2>1 DEF Steady
  <2>3. tidy => \A j \in Items : owner'[j] \in Addresses =>
                  Covered(forwards', owner'[j]) \/ Tended(p, owner'[j], j)
    BY <1>1, <1>3, <2>1 DEF Tended
  <2>4. QED
    BY <1>1, <1>5, <2>2, <2>3, TidyStep
<1>6. QED
  BY <1>1, <1>4, <1>5

LEMMA TidyDeleteForward ==
  ASSUME Typed, TidyInv, NEW w \in Workers, DeleteForward(w)
  PROVE  TidyInv'
<1> DEFINE o == op[w]
           n == o.name
           p == [o EXCEPT !.pc = "listing"]
<1>1. /\ o.pc = "deleting" /\ o \in Op /\ Step(w) /\ owner' = owner /\ n \in Names
      /\ forwards' = [forwards EXCEPT ![n] = NoForward] /\ forwards \in [Names -> ForwardEntry]
      /\ op' = [op EXCEPT ![w] = IF Cleans(w) THEN p ELSE NoOp]
  BY DEF DeleteForward, Step, Typed, TypeOK, OpInv, Sound
<1>2. tidy => forwards[n].address = o.address /\ o.rank = 1 /\ o.kind = "delete"
  BY <1>1 DEF TidyInv, Steady
<1>3. ASSUME tidy, NEW i \in Items, owner[i] \in Addresses, ~Covered(forwards', owner[i])
      PROVE  owner[i] = o.address
  <2>1. Covered(forwards, owner[i])
    BY <1>1, <1>3, OnlyTends DEF Tended
  <2>2. PICK f \in Names : forwards[f].address = owner[i]
    BY <2>1 DEF Covered
  <2>3. f # n => forwards'[f].address = owner[i]
    BY <1>1, <2>2
  <2>4. f = n
    BY <1>3, <2>3 DEF Covered
  <2>5. QED
    BY <1>2, <1>3, <2>2, <2>4
<1>4. CASE Cleans(w)
  <2>1. op' = [op EXCEPT ![w] = p]
    BY <1>1, <1>4
  <2>2. p.pc = "listing" /\ p.kind = o.kind /\ p.address = o.address /\ p.rank = o.rank
    BY <1>1 DEF Op
  <2>3. tidy => Steady(forwards', p)
    BY <1>2, <2>2 DEF Steady
  <2>4. \A i \in Items : Rank[i] >= 1
    BY RankAssumption
  <2>5. tidy => \A i \in Items : owner'[i] \in Addresses =>
                  Covered(forwards', owner'[i]) \/ Tended(p, owner'[i], i)
    BY <1>1, <1>2, <1>3, <2>2, <2>4 DEF Tended
  <2>6. QED
    BY <1>1, <2>1, <2>3, <2>5, TidyStep
<1>5. CASE ~Cleans(w)
  <2>1. op' = [op EXCEPT ![w] = NoOp]
    BY <1>1, <1>5
  <2>2. tidy => o.address = None
    BY <1>2, <1>5 DEF Cleans
  <2>3. tidy => \A i \in Items : owner'[i] \in Addresses => Covered(forwards', owner'[i])
    BY <1>1, <1>3, <2>2, LocalAssumption
  <2>4. QED
    BY <1>1, <2>1, <2>3, NoOpIdle, IdleSteady, TidyStep
<1>6. QED
  BY <1>4, <1>5

LEMMA TidyRestart ==
  ASSUME Typed, TidyInv, NEW persisted \in BOOLEAN, Restart(persisted)
  PROVE  TidyInv'
<1> SUFFICES ASSUME tidy' PROVE TidyInv'
  BY DEF TidyInv
<1>1. \A w \in Workers : op'[w].pc = "idle"
  BY NoOpIdle DEF Restart
<1>2. tidy /\ Idle
  BY DEF Restart
<1>3. ASSUME NEW i \in Items, owner'[i] \in Addresses PROVE Covered(forwards', owner'[i])
  <2>1. persisted /\ owner'[i] = owner[i]
    BY <1>3, LocalAssumption DEF Restart
  <2>2. PICK f \in Names : forwards[f].address = owner[i]
    BY <1>2, <1>3, <2>1, IdleCovered DEF Covered
  <2>3. forwards[f].address # None
    BY <1>3, <2>1, <2>2, LocalAssumption
  <2>4. Config[f] = None \/ Config[f] = forwards[f].address
    BY <2>3 DEF Restart
  <2>5. forwards'[f].address = owner[i]
    BY <2>1, <2>2, <2>4 DEF Restart
  <2>6. QED
    BY <2>1, <2>5 DEF Covered
<1>4. QED
  BY <1>1, <1>3, IdleSteady DEF TidyInv, Alone

LEMMA TidyRequest ==
  ASSUME Typed, TidyInv, NEW w \in Workers, Request(w)
  PROVE  TidyInv'
<1>1. ASSUME NEW f \in Names, NEW a \in Addresses, Create(w, f, a) PROVE TidyInv'
  <2> DEFINE o == NewOp("discovering", "create", f, a, {})
  <2>1. o \in Op /\ o.pc = "discovering" /\ o.name = f /\ o.address = a
    BY NewOpType DEF NewOp
  <2>2. Start(w, o) /\ forwards' = forwards /\ owner' = owner
    BY <1>1 DEF Create
  <2>3. tidy' => tidy /\ Idle /\ Steady(forwards, o)
    BY <1>1, <2>1 DEF Create, Steady
  <2>4. QED
    BY <2>1, <2>2, <2>3, TidyStart
<1>2. ASSUME NEW f \in Names, Refresh(w, f) PROVE TidyInv'
  <2> DEFINE o == NewOp("listing", "refresh", f, forwards[f].address, {})
  <2>1. o \in Op /\ o.pc = "listing" /\ o.name = f /\ o.address = forwards[f].address
    BY ForwardType, NewOpType DEF NewOp
  <2>2. Start(w, o) /\ forwards' = forwards /\ owner' = owner
    BY <1>2 DEF Refresh
  <2>3. tidy' => tidy /\ Idle /\ Steady(forwards, o)
    BY <1>2, <2>1 DEF Refresh, Steady
  <2>4. QED
    BY <2>1, <2>2, <2>3, TidyStart
<1>3. ASSUME NEW f \in Names, Delete(w, f) PROVE TidyInv'
  <2> DEFINE o == NewOp("deleting", "delete", f, forwards[f].address, {})
  <2>1. /\ o \in Op /\ o.pc = "deleting" /\ o.kind = "delete" /\ o.rank = 1
        /\ o.name = f /\ o.address = forwards[f].address
    BY ForwardType, NewOpType DEF NewOp
  <2>2. Start(w, o) /\ forwards' = forwards /\ owner' = owner
    BY <1>3 DEF Delete
  <2>3. tidy' => tidy /\ Idle /\ Steady(forwards, o)
    BY <1>3, <2>1 DEF Delete, Steady
  <2>4. QED
    BY <2>1, <2>2, <2>3, TidyStart
<1>4. QED
  BY <1>1, <1>2, <1>3 DEF Request

LEMMA TidyStartup ==
  ASSUME Typed, StartupInv, TidyInv, NEW w \in Workers, NEW f \in Names, StartupDiscover(w, f)
  PROVE  TidyInv'
<1> DEFINE o == NewOp("discovering", "startup", f, Config[f], {})
<1>1. Config[f] \in Addresses \cup {None}
  BY ConfigAssumption
<1>2. o \in Op /\ o.pc = "discovering" /\ o.name = f /\ o.address = Config[f]
  BY <1>1, NewOpType DEF NewOp
<1>3. Start(w, o) /\ forwards' = forwards /\ owner' = owner /\ Idle /\ tidy' = tidy /\ f \in boot
  BY DEF StartupDiscover
<1>4. Steady(forwards, o)
  BY <1>2, <1>3 DEF Steady, StartupInv
<1>5. QED
  BY <1>2, <1>3, <1>4, TidyStart

LEMMA TidyEdit ==
  ASSUME Typed, TidyInv, Edit
  PROVE  TidyInv'
<1>1. ASSUME NEW i \in Items, NEW a \in Addresses \cup {Local}, Put(i, a) PROVE TidyInv'
  <2>1. Interfere /\ forwards' = forwards /\ (tidy' => tidy /\ Idle)
    BY <1>1 DEF Put
  <2>2. tidy' => \A j \in Items : owner'[j] \in {owner[j], Local, None}
    BY <1>1 DEF Put, Typed, TypeOK
  <2>3. QED
    BY <2>1, <2>2, TidyInterfere
<1>2. ASSUME NEW i \in Items, DeleteItem(i) PROVE TidyInv'
  <2>1. Interfere /\ forwards' = forwards /\ (tidy' => tidy /\ Idle)
    BY <1>2 DEF DeleteItem
  <2>2. tidy' => \A j \in Items : owner'[j] \in {owner[j], Local, None}
    BY <1>2 DEF DeleteItem, Typed, TypeOK
  <2>3. QED
    BY <2>1, <2>2, TidyInterfere
<1>3. ASSUME NEW w \in Workers, NEW i \in Items, NEW j \in Items,
             NEW a \in Addresses \cup {Local}, Rename(w, i, j, a)
      PROVE  TidyInv'
  <2> DEFINE o == NewOp("registering", "update", None, a, {j})
  <2>1. o \in Op /\ o.pc = "registering" /\ o.address = a
    BY NewOpType DEF NewOp
  <2>2. /\ Start(w, o) /\ forwards' = forwards
        /\ \A k \in Items : owner'[k] \in {owner[k], None}
    BY <1>3 DEF Rename, Typed, TypeOK
  <2>3. ASSUME tidy' PROVE tidy /\ Idle /\ (a \in Addresses => Covered(forwards, a))
    <3>1. tidy /\ Idle /\ a \in {Local, owner[i]}
      BY <1>3, <2>3 DEF Rename
    <3>2. a \in Addresses => a = owner[i]
      BY <3>1, LocalAssumption
    <3>3. QED
      BY <3>1, <3>2, IdleCovered
  <2>4. tidy' => tidy /\ Idle /\ Steady(forwards, o)
    BY <2>1, <2>3 DEF Steady
  <2>5. QED
    BY <2>1, <2>2, <2>4, TidyStart
<1>4. QED
  BY <1>1, <1>2, <1>3 DEF Edit

LEMMA TidyNext == Typed /\ StartupInv /\ TidyInv /\ [Next]_vars => TidyInv'
<1> SUFFICES ASSUME Typed, StartupInv, TidyInv, [Next]_vars PROVE TidyInv'
  OBVIOUS
<1>1. ASSUME NEW w \in Workers, Step(w) PROVE TidyInv'
  BY <1>1, TidyAnswer, TidyUnreachable, TidyRegisterItem, TidyRemoveItem, TidyListOwned,
     TidyDeleteForward DEF Step
<1>2. ASSUME NEW w \in Workers, Request(w) PROVE TidyInv'
  BY <1>2, TidyRequest
<1>3. CASE Startup
  BY <1>3, TidyStartup DEF Startup
<1>4. CASE Edit
  BY <1>4, TidyEdit
<1>5. CASE \E persisted \in BOOLEAN : Restart(persisted)
  BY <1>5, TidyRestart
<1>6. CASE UNCHANGED vars
  BY <1>6 DEF vars, TidyInv, Alone, Steady, Tended, Covered
<1>7. QED
  BY <1>1, <1>2, <1>3, <1>4, <1>5, <1>6 DEF Next

(* As long as requests do not overlap and no forward changes its address,  *)
(* every forwarded entry belongs to a registered forward once the requests *)
(* are over, for any number of forwards, servers and entries and through   *)
(* any number of requests and restarts.                                    *)
THEOREM NoOrphans == Spec => []TidyNoOrphans
<1>1. Init => StartupInv /\ TidyInv
  <2> SUFFICES ASSUME Init PROVE StartupInv /\ TidyInv
    OBVIOUS
  <2>1. \A w \in Workers : op[w].pc = "idle"
    BY NoOpIdle DEF Init
  <2>2. StartupInv
    BY <2>1 DEF Init, StartupInv
  <2>3. \A i \in Items : owner[i] \notin Addresses
    BY LocalAssumption DEF Init
  <2>4. QED
    BY <2>1, <2>2, <2>3, IdleSteady DEF TidyInv, Alone
<1>2. Typed /\ StartupInv /\ TidyInv => TidyNoOrphans
  BY IdleCovered DEF TidyNoOrphans, Covered
<1>3. QED
  BY <1>1, <1>2, InitType, NextType, StartupNext, TidyNext, PTL DEF Spec
-----------------------------------------------------------------------------
(* What a deletion and a refresh leave when they ran alone.                *)

(* The entries of address a, given who owns them.                          *)
At(own, a) == {i \in Items : own[i] = a}

(* How far a deletion or a refresh that has run alone so far has come: the *)
(* forward of a deletion is gone, so are the entries of the kinds it went  *)
(* through, and a refresh that registers has the entries it is through     *)
(* with and no others.                                                     *)
Cleared(own, o) ==
  /\ o.pc \in {"listing", "removing"} => \A i \in At(own, o.address) : Rank[i] >= o.rank
  /\ o.pc = "removing" => \A i \in At(own, o.address) : Rank[i] = o.rank => i \in o.todo

Deleting(F, o) ==
  /\ o.pc \in {"idle", "deleting", "listing", "removing"}
  /\ o.pc = "deleting" => F[o.name].address = o.address /\ o.rank = 1
  /\ o.pc \in {"listing", "removing"} => F[o.name].address = None

Refreshing(own, o) ==
  /\ o.pc \in {"idle", "discovering", "registering", "listing", "removing"}
  /\ o.pc \in {"discovering", "listing", "removing"} => o.catalog = {}
  /\ o.pc = "discovering" => At(own, o.address) = {}
  /\ o.pc = "registering" => /\ o.todo \subseteq o.catalog
                             /\ At(own, o.address) = o.catalog \ o.todo

Settled(F, own, o) ==
  /\ o.kind \in {"delete", "refresh"} => Cleared(own, o)
  /\ o.kind = "delete" => Deleting(F, o)
  /\ o.kind = "refresh" => Refreshing(own, o)

Lonely(w) == \A u \in Workers \ {w} : op[u].pc = "idle"

SoloInv ==
  \A w \in Workers : op[w].solo /\ op[w].pc # "idle"
    => Lonely(w) /\ Settled(forwards, owner, op[w])

(* What request w, if it ends here and ran alone, leaves.                  *)
Leaves(w) ==
  EndsAlone(w) =>
    /\ op[w].kind = "delete" =>
         /\ forwards'[op[w].name].address = None
         /\ op[w].address # None => Entries(op[w].address) = {}
    /\ op[w].kind = "refresh" => Entries(op[w].address) = op[w].catalog

AllLeave == \A w \in Workers : Leaves(w)

(* A request starts: if nothing else runs, it is alone.                    *)
LEMMA SoloStart ==
  ASSUME Typed, SoloInv, NEW w \in Workers, NEW o \in Op, Start(w, o), o.pc # "idle",
         Settled(forwards', owner', [o EXCEPT !.solo = Idle])
  PROVE  SoloInv' /\ AllLeave
<1>1. op'[w] = [o EXCEPT !.solo = Idle] /\ op[w].pc = "idle"
  BY DEF Start
<1>2. op'[w].solo = Idle /\ op'[w].pc # "idle"
  BY <1>1 DEF Op
<1>3. ASSUME NEW u \in Workers, u # w
      PROVE  op'[u].solo = FALSE /\ op'[u].pc = op[u].pc
  <2>1. op'[u] = [op[u] EXCEPT !.solo = FALSE] /\ op[u] \in Op
    BY <1>3 DEF Start, Typed, TypeOK
  <2>2. QED
    BY <2>1 DEF Op
<1>4. Idle => Lonely(w)'
  BY <1>3 DEF Idle, Lonely
<1>5. SoloInv'
  BY <1>1, <1>2, <1>3, <1>4 DEF SoloInv
<1>6. AllLeave
  BY <1>1, <1>2, <1>3 DEF AllLeave, Leaves, EndsAlone
<1>7. QED
  BY <1>5, <1>6

(* A request of one call runs next to all others.                          *)
LEMMA SoloInterfere ==
  ASSUME Typed, Interfere
  PROVE  SoloInv' /\ AllLeave
<1>1. ASSUME NEW u \in Workers
      PROVE  op'[u].solo = FALSE /\ op'[u].pc = op[u].pc
  <2>1. op'[u] = [op[u] EXCEPT !.solo = FALSE] /\ op[u] \in Op
    BY DEF Interfere, Typed, TypeOK
  <2>2. QED
    BY <2>1 DEF Op
<1>2. QED
  BY <1>1 DEF SoloInv, AllLeave, Leaves, EndsAlone

(* A step of a running request: it goes on as p.                           *)
LEMMA SoloStep ==
  ASSUME Typed, SoloInv, NEW w \in Workers, op[w].pc # "idle", NEW p, op' = [op EXCEPT ![w] = p],
         p.pc # "idle" /\ p.solo => op[w].solo,
         op[w].solo => Settled(forwards', owner', p),
         p.pc = "idle" /\ op[w].solo => Leaves(w)
  PROVE  SoloInv' /\ AllLeave
<1>1. op'[w] = p /\ \A u \in Workers \ {w} : op'[u] = op[u]
  BY DEF Typed, TypeOK
<1>2. ASSUME NEW u \in Workers, op'[u].solo, op'[u].pc # "idle"
      PROVE  Lonely(u)' /\ Settled(forwards', owner', op'[u])
  <2>1. CASE u = w
    <3>1. Lonely(w) /\ op[w].solo
      BY <1>1, <1>2, <2>1 DEF SoloInv
    <3>2. QED
      BY <1>1, <2>1, <3>1 DEF Lonely
  <2>2. CASE u # w
    BY <1>1, <1>2, <2>2 DEF SoloInv, Lonely
  <2>3. QED
    BY <2>1, <2>2
<1>3. SoloInv'
  BY <1>2 DEF SoloInv
<1>4. ASSUME NEW u \in Workers PROVE Leaves(u)
  BY <1>1 DEF Leaves, EndsAlone
<1>5. QED
  BY <1>3, <1>4 DEF AllLeave

LEMMA SettledWhenIdle ==
  \A F, own, o : o.pc = "idle" => Settled(F, own, o)
  BY DEF Settled, Cleared, Deleting, Refreshing

(* After the last entry of a kind.                                         *)
LEMMA SoloRemoved ==
  ASSUME NEW F, NEW own, NEW o \in Op, o.pc \in {"listing", "removing"}, Settled(F, own, o),
         o.kind \in {"delete", "refresh"} => \A i \in At(own, o.address) : Rank[i] > o.rank
  PROVE  /\ Removed(o).pc # "idle" => Removed(o).solo = o.solo
         /\ Settled(F, own, Removed(o))
         /\ Removed(o).pc = "idle" =>
              /\ o.kind # "refresh"
              /\ o.kind = "delete" => F[o.name].address = None /\ At(own, o.address) = {}
<1> DEFINE r == Removed(o)
<1>1. At(own, o.address) \subseteq Items
  BY DEF At
<1>2. \A i \in At(own, o.address) : Rank[i] \in 1..3
  BY <1>1, RankAssumption
<1>3. CASE o.rank < 3
  <2>1. r = [o EXCEPT !.pc = "listing", !.rank = o.rank + 1, !.todo = {}]
    BY <1>3 DEF Removed
  <2>2. /\ r.pc = "listing" /\ r.kind = o.kind /\ r.address = o.address /\ r.name = o.name
        /\ r.rank = o.rank + 1 /\ r.catalog = o.catalog /\ r.solo = o.solo
    BY <2>1 DEF Op
  <2>3. o.rank \in Nat
    BY DEF Op
  <2>4. o.kind \in {"delete", "refresh"} => Cleared(own, r)
    BY <1>2, <2>2, <2>3 DEF Cleared
  <2>5. (o.kind = "delete" => Deleting(F, r)) /\ (o.kind = "refresh" => Refreshing(own, r))
    BY <2>2 DEF Settled, Deleting, Refreshing
  <2>6. QED
    BY <2>2, <2>4, <2>5 DEF Settled
<1>4. CASE ~(o.rank < 3) /\ o.kind \in {"delete", "refresh"}
  <2>1. o.rank = 3
    BY <1>4 DEF Op
  <2>2. At(own, o.address) = {}
    BY <1>2, <1>4, <2>1
  <2>3. CASE o.kind = "refresh"
    <3>1. r = [o EXCEPT !.pc = "discovering", !.rank = 1, !.todo = {}]
      BY <1>4, <2>3 DEF Removed
    <3>2. /\ r.pc = "discovering" /\ r.kind = "refresh" /\ r.address = o.address
          /\ r.catalog = o.catalog /\ r.solo = o.solo
      BY <2>3, <3>1 DEF Op
    <3>3. Refreshing(own, r) /\ Cleared(own, r)
      BY <2>2, <2>3, <3>2 DEF Settled, Refreshing, Cleared
    <3>4. QED
      BY <3>2, <3>3 DEF Settled
  <2>4. CASE o.kind = "delete"
    <3>1. r = NoOp
      BY <1>4, <2>4 DEF Removed
    <3>2. F[o.name].address = None
      BY <2>4 DEF Settled, Deleting
    <3>3. QED
      BY <2>2, <2>4, <3>1, <3>2, NoOpIdle, SettledWhenIdle
  <2>5. QED
    BY <1>4, <2>3, <2>4
<1>5. CASE ~(o.rank < 3) /\ o.kind \notin {"delete", "refresh"}
  BY <1>5, NoOpIdle, SettledWhenIdle DEF Removed
<1>6. QED
  BY <1>3, <1>4, <1>5

LEMMA RemovedSolo ==
  ASSUME NEW o \in Op
  PROVE  Removed(o).pc # "idle" => Removed(o).solo = o.solo
<1>1. CASE o.rank < 3
  <2>1. Removed(o) = [o EXCEPT !.pc = "listing", !.rank = o.rank + 1, !.todo = {}]
    BY <1>1 DEF Removed
  <2>2. QED
    BY <2>1 DEF Op
<1>2. CASE ~(o.rank < 3) /\ o.kind = "refresh"
  <2>1. Removed(o) = [o EXCEPT !.pc = "discovering", !.rank = 1, !.todo = {}]
    BY <1>2 DEF Removed
  <2>2. QED
    BY <2>1 DEF Op
<1>3. CASE ~(o.rank < 3) /\ o.kind # "refresh"
  BY <1>3, NoOpIdle DEF Removed
<1>4. QED
  BY <1>1, <1>2, <1>3

LEMMA SoloListOwned ==
  ASSUME Typed, SoloInv, NEW w \in Workers, ListOwned(w)
  PROVE  SoloInv' /\ AllLeave
<1> DEFINE o     == op[w]
           names == Owned(o.address, o.rank)
           p     == [o EXCEPT !.pc = "removing", !.todo = names]
<1>1. /\ o.pc = "listing" /\ o \in Op /\ forwards' = forwards /\ owner' = owner
      /\ \/ names = {} /\ op' = [op EXCEPT ![w] = Removed(o)]
         \/ names # {} /\ op' = [op EXCEPT ![w] = p]
  BY DEF ListOwned, Typed, TypeOK
<1>2. At(owner, o.address) \subseteq Items
      /\ \A i \in At(owner, o.address) : Rank[i] = o.rank => i \in names
  BY DEF At, Owned
<1>3. ASSUME o.solo PROVE Settled(forwards, owner, o)
  BY <1>1, <1>3 DEF SoloInv
<1>4. CASE names = {}
  <2>1. ASSUME o.solo, o.kind \in {"delete", "refresh"}, NEW i \in At(owner, o.address)
        PROVE  Rank[i] > o.rank
    <3>1. Rank[i] >= o.rank /\ Rank[i] # o.rank
      BY <1>1, <1>2, <1>3, <1>4, <2>1 DEF Settled, Cleared
    <3>2. Rank[i] \in Nat /\ o.rank \in Nat
      BY <1>1, <1>2, RankAssumption DEF Op
    <3>3. QED
      BY <3>1, <3>2
  <2>2. op' = [op EXCEPT ![w] = Removed(o)]
    BY <1>1, <1>4
  <2>3. op'[w] = Removed(o)
    BY <2>2 DEF Typed, TypeOK
  <2>4. ASSUME o.solo
        PROVE  /\ Removed(o).pc # "idle" => Removed(o).solo = o.solo
               /\ Settled(forwards', owner', Removed(o))
               /\ Removed(o).pc = "idle" =>
                    /\ o.kind # "refresh"
                    /\ o.kind = "delete" => forwards'[o.name].address = None
                                            /\ At(owner', o.address) = {}
    <3>1. o \in Op /\ o.pc \in {"listing", "removing"} /\ Settled(forwards', owner', o)
      BY <1>1, <1>3, <2>4
    <3>2. o.kind \in {"delete", "refresh"} => \A i \in At(owner', o.address) : Rank[i] > o.rank
      BY <1>1, <2>1, <2>4
    <3> HIDE DEF o
    <3>3. QED
      BY <3>1, <3>2, SoloRemoved
  <2>5. Removed(o).pc # "idle" => Removed(o).solo = o.solo
    BY <1>1, RemovedSolo
  <2>6. Removed(o).pc = "idle" /\ o.solo => Leaves(w)
    BY <2>4 DEF Leaves, Entries, At
  <2>7. QED
    BY <1>1, <2>2, <2>4, <2>5, <2>6, SoloStep
<1>5. CASE names # {}
  <2>1. op' = [op EXCEPT ![w] = p]
    BY <1>1, <1>5
  <2>2. /\ p.pc = "removing" /\ p.kind = o.kind /\ p.name = o.name /\ p.address = o.address
        /\ p.rank = o.rank /\ p.todo = names /\ p.catalog = o.catalog /\ p.solo = o.solo
    BY <1>1 DEF Op
  <2>3. ASSUME o.solo PROVE Settled(forwards', owner', p)
    <3>1. o.kind \in {"delete", "refresh"} => Cleared(owner, p)
      BY <1>1, <1>2, <1>3, <2>2, <2>3 DEF Settled, Cleared
    <3>2. /\ o.kind = "delete" => Deleting(forwards, p)
          /\ o.kind = "refresh" => Refreshing(owner, p)
      BY <1>1, <1>3, <2>2, <2>3 DEF Settled, Deleting, Refreshing
    <3>3. QED
      BY <1>1, <2>2, <3>1, <3>2 DEF Settled
  <2>4. QED
    BY <1>1, <2>1, <2>2, <2>3, SoloStep
<1>6. QED
  BY <1>4, <1>5

LEMMA SoloRemoveItem ==
  ASSUME Typed, SoloInv, NEW w \in Workers, NEW i \in Items, RemoveItem(w, i)
  PROVE  SoloInv' /\ AllLeave
<1> DEFINE o == op[w]
           p == Left(o, i)
<1>1. /\ o.pc = "removing" /\ o \in Op /\ forwards' = forwards
      /\ owner' = [owner EXCEPT ![i] = None] /\ owner \in [Items -> Addresses \cup {Local, None}]
      /\ \/ o.todo = {i} /\ op' = [op EXCEPT ![w] = Removed(o)]
         \/ o.todo # {i} /\ op' = [op EXCEPT ![w] = p]
  BY DEF RemoveItem, Typed, TypeOK
<1>2. At(owner', o.address) = At(owner, o.address) \ {i}
  <2>1. o.address # None
    BY <1>1, LocalAssumption DEF Typed, OpInv, Sound
  <2>2. \A j \in Items : owner'[j] = IF j = i THEN None ELSE owner[j]
    BY <1>1
  <2>3. QED
    BY <2>1, <2>2 DEF At
<1>3. ASSUME o.solo PROVE Settled(forwards, owner, o)
  BY <1>1, <1>3 DEF SoloInv
<1>4. ASSUME o.solo PROVE Settled(forwards', owner', o)
  <2>1. o.kind \in {"delete", "refresh"} => Cleared(owner', o)
    BY <1>2, <1>3, <1>4 DEF Settled, Cleared
  <2>2. /\ o.kind = "delete" => Deleting(forwards', o)
        /\ o.kind = "refresh" => Refreshing(owner', o)
    BY <1>1, <1>3, <1>4 DEF Settled, Deleting, Refreshing
  <2>3. QED
    BY <2>1, <2>2 DEF Settled
<1>5. CASE o.todo = {i} /\ op' = [op EXCEPT ![w] = Removed(o)]
  <2>1. ASSUME o.solo, o.kind \in {"delete", "refresh"}, NEW j \in At(owner', o.address)
        PROVE  Rank[j] > o.rank
    <3>1. Rank[j] >= o.rank /\ Rank[j] # o.rank
      BY <1>1, <1>2, <1>4, <1>5, <2>1 DEF Settled, Cleared
    <3>2. j \in Items
      BY DEF At
    <3>3. Rank[j] \in Nat /\ o.rank \in Nat
      <4>1. Rank[j] \in 1..3
        BY <3>2, RankAssumption
      <4>2. o.rank \in 1..3
        BY <1>1 DEF Op
      <4>3. QED
        BY <4>1, <4>2
    <3>4. QED
      BY <3>1, <3>3
  <2>2. ASSUME o.solo
        PROVE  /\ Settled(forwards', owner', Removed(o))
               /\ Removed(o).pc = "idle" =>
                    /\ o.kind # "refresh"
                    /\ o.kind = "delete" => forwards'[o.name].address = None
                                            /\ At(owner', o.address) = {}
    <3>1. o.kind \in {"delete", "refresh"} => \A j \in At(owner', o.address) : Rank[j] > o.rank
      BY <2>1, <2>2
    <3>2. o \in Op /\ o.pc \in {"listing", "removing"} /\ Settled(forwards', owner', o)
      BY <1>1, <1>4, <2>2
    <3> HIDE DEF o
    <3>3. QED
      BY <3>1, <3>2, SoloRemoved
  <2>3. Removed(o).pc # "idle" => Removed(o).solo = o.solo
    BY <1>1 DEF Removed, NoOp, NewOp, Op
  <2>4. Removed(o).pc = "idle" /\ o.solo => Leaves(w)
    BY <2>2 DEF Leaves, Entries, At
  <2>5. QED
    BY <1>1, <1>5, <2>2, <2>3, <2>4, SoloStep
<1>6. CASE o.todo # {i} /\ op' = [op EXCEPT ![w] = p]
  <2>1. /\ p.pc = "removing" /\ p.kind = o.kind /\ p.name = o.name /\ p.address = o.address
        /\ p.rank = o.rank /\ p.todo = o.todo \ {i} /\ p.catalog = o.catalog /\ p.solo = o.solo
    BY <1>1 DEF Left, Op
  <2>2. ASSUME o.solo PROVE Settled(forwards', owner', p)
    <3>1. o.kind \in {"delete", "refresh"} => Cleared(owner', p)
      BY <1>1, <1>2, <1>4, <2>1, <2>2 DEF Settled, Cleared
    <3>2. /\ o.kind = "delete" => Deleting(forwards', p)
          /\ o.kind = "refresh" => Refreshing(owner', p)
      BY <1>1, <1>4, <2>1, <2>2 DEF Settled, Deleting, Refreshing
    <3>3. QED
      BY <2>1, <3>1, <3>2 DEF Settled
  <2>3. QED
    BY <1>1, <1>6, <2>1, <2>2, SoloStep
<1>7. QED
  BY <1>1, <1>5, <1>6

LEMMA SoloDeleteForward ==
  ASSUME Typed, SoloInv, NEW w \in Workers, DeleteForward(w)
  PROVE  SoloInv' /\ AllLeave
<1> DEFINE o == op[w]
           n == o.name
           p == [o EXCEPT !.pc = "listing"]
<1>1. /\ o.pc = "deleting" /\ o \in Op /\ owner' = owner /\ n \in Names
      /\ forwards' = [forwards EXCEPT ![n] = NoForward] /\ forwards \in [Names -> ForwardEntry]
      /\ op' = [op EXCEPT ![w] = IF Cleans(w) THEN p ELSE NoOp]
  BY DEF DeleteForward, Typed, TypeOK, OpInv, Sound
<1>2. forwards'[n].address = None
  BY <1>1 DEF NoForward
<1>3. ASSUME o.solo
      PROVE  /\ o.kind # "refresh"
             /\ o.kind = "delete" => forwards[n].address = o.address /\ o.rank = 1
  BY <1>1, <1>3 DEF SoloInv, Settled, Deleting, Refreshing
<1>4. CASE Cleans(w)
  <2>1. op' = [op EXCEPT ![w] = p]
    BY <1>1, <1>4
  <2>2. /\ p.pc = "listing" /\ p.kind = o.kind /\ p.name = n /\ p.address = o.address
        /\ p.rank = o.rank /\ p.solo = o.solo
    BY <1>1 DEF Op
  <2>3. \A i \in Items : Rank[i] >= 1
    BY RankAssumption
  <2>4. ASSUME o.solo PROVE Settled(forwards', owner', p)
    <3>1. o.kind = "delete" => Cleared(owner', p) /\ Deleting(forwards', p)
      BY <1>2, <1>3, <2>2, <2>3, <2>4 DEF Cleared, Deleting, At
    <3>2. QED
      BY <1>3, <2>2, <2>4, <3>1 DEF Settled
  <2>5. o.pc # "idle" /\ p.pc # "idle"
    BY <1>1, <2>2
  <2>6. QED
    BY <2>1, <2>2, <2>4, <2>5, SoloStep
<1>5. CASE ~Cleans(w)
  <2>1. op' = [op EXCEPT ![w] = NoOp]
    BY <1>1, <1>5
  <2>2. o.solo /\ o.kind = "delete" => o.address = None
    BY <1>3, <1>5 DEF Cleans
  <2>3. o.solo => Leaves(w)
    BY <1>2, <1>3, <2>2 DEF Leaves
  <2>4. QED
    BY <1>1, <2>1, <2>3, NoOpIdle, SettledWhenIdle, SoloStep
<1>6. QED
  BY <1>4, <1>5

LEMMA SoloAnswer ==
  ASSUME Typed, SoloInv, NEW w \in Workers, NEW catalog \in Catalogs, Answer(w, catalog)
  PROVE  SoloInv' /\ AllLeave
<1> DEFINE o == op[w]
           p == [o EXCEPT !.pc = "registering", !.todo = catalog, !.catalog = catalog]
<1>1. /\ o.pc = "discovering" /\ o \in Op /\ owner' = owner
      /\ \/ catalog = {} /\ op' = [op EXCEPT ![w] = NoOp]
         \/ catalog # {} /\ op' = [op EXCEPT ![w] = p]
  BY DEF Answer, Typed, TypeOK
<1>2. ASSUME o.solo
      PROVE  /\ o.kind # "delete"
             /\ o.kind = "refresh" => o.catalog = {} /\ At(owner, o.address) = {}
  BY <1>1, <1>2 DEF SoloInv, Settled, Deleting, Refreshing
<1>3. CASE catalog = {} /\ op' = [op EXCEPT ![w] = NoOp]
  <2>1. o.solo => Leaves(w)
    BY <1>1, <1>2 DEF Leaves, Entries, At
  <2>2. QED
    BY <1>1, <1>3, <2>1, NoOpIdle, SettledWhenIdle, SoloStep
<1>4. CASE catalog # {} /\ op' = [op EXCEPT ![w] = p]
  <2>1. /\ p.pc = "registering" /\ p.kind = o.kind /\ p.address = o.address
        /\ p.todo = catalog /\ p.catalog = catalog /\ p.solo = o.solo
    BY <1>1 DEF Op
  <2>2. ASSUME o.solo PROVE Settled(forwards', owner', p)
    <3>1. o.kind = "refresh" => Cleared(owner', p) /\ Refreshing(owner', p)
      BY <1>1, <1>2, <2>1, <2>2 DEF Cleared, Refreshing
    <3>2. QED
      BY <1>2, <2>1, <2>2, <3>1 DEF Settled
  <2>3. QED
    BY <1>1, <1>4, <2>1, <2>2, SoloStep
<1>5. QED
  BY <1>1, <1>3, <1>4

LEMMA SoloUnreachable ==
  ASSUME Typed, SoloInv, NEW w \in Workers, Unreachable(w)
  PROVE  SoloInv' /\ AllLeave
<1>1. op[w].pc = "discovering" /\ owner' = owner /\ op' = [op EXCEPT ![w] = NoOp]
  BY DEF Unreachable
<1>2. ASSUME op[w].solo
      PROVE  /\ op[w].kind # "delete"
             /\ op[w].kind = "refresh" => op[w].catalog = {} /\ At(owner, op[w].address) = {}
  BY <1>1, <1>2 DEF SoloInv, Settled, Deleting, Refreshing
<1>3. op[w].solo => Leaves(w)
  BY <1>1, <1>2 DEF Leaves, Entries, At
<1>4. QED
  BY <1>1, <1>3, NoOpIdle, SettledWhenIdle, SoloStep

LEMMA LeftIs ==
  ASSUME NEW o \in Op, NEW i
  PROVE  LET p == Left(o, i)
         IN /\ p.pc = o.pc /\ p.kind = o.kind /\ p.address = o.address
            /\ p.todo = o.todo \ {i} /\ p.catalog = o.catalog /\ p.solo = o.solo
<1> DEFINE p == Left(o, i)
<1>1. p = [o EXCEPT !.todo = o.todo \ {i}]
  BY DEF Left
<1> HIDE DEF p
<1>2. p.pc = o.pc /\ p.kind = o.kind /\ p.address = o.address
  BY <1>1 DEF Op
<1>3. p.todo = o.todo \ {i} /\ p.catalog = o.catalog /\ p.solo = o.solo
  BY <1>1 DEF Op
<1>4. QED
  BY <1>2, <1>3 DEF p

LEMMA SoloRegisterItem ==
  ASSUME Typed, SoloInv, NEW w \in Workers, NEW i \in Items, RegisterItem(w, i)
  PROVE  SoloInv' /\ AllLeave
<1> DEFINE o == op[w]
           p == Left(o, i)
<1>1. /\ o.pc = "registering" /\ o \in Op /\ i \in o.todo
      /\ owner' = [owner EXCEPT ![i] = o.address]
      /\ owner \in [Items -> Addresses \cup {Local, None}]
      /\ \/ o.todo = {i} /\ op' = [op EXCEPT ![w] = NoOp]
         \/ o.todo # {i} /\ op' = [op EXCEPT ![w] = p]
  BY DEF RegisterItem, Address, Typed, TypeOK
<1>2. At(owner', o.address) = At(owner, o.address) \cup {i}
  BY <1>1 DEF At
<1>3. ASSUME o.solo
      PROVE  /\ o.kind # "delete"
             /\ o.kind = "refresh" =>
                  o.todo \subseteq o.catalog /\ At(owner, o.address) = o.catalog \ o.todo
  BY <1>1, <1>3 DEF SoloInv, Settled, Deleting, Refreshing
<1>4. CASE o.todo = {i} /\ op' = [op EXCEPT ![w] = NoOp]
  <2>1. ASSUME o.solo, o.kind = "refresh"
        PROVE  At(owner', o.address) = o.catalog
    BY <1>2, <1>3, <1>4, <2>1
  <2>2. o.solo => Leaves(w)
    BY <1>3, <2>1 DEF Leaves, Entries, At
  <2>3. QED
    BY <1>1, <1>4, <2>2, NoOpIdle, SettledWhenIdle, SoloStep
<1>5. CASE o.todo # {i} /\ op' = [op EXCEPT ![w] = p]
  <2>1. /\ p.pc = "registering" /\ p.kind = o.kind /\ p.address = o.address
        /\ p.todo = o.todo \ {i} /\ p.catalog = o.catalog /\ p.solo = o.solo
    <3>1. o \in Op /\ o.pc = "registering"
      BY <1>1
    <3> HIDE DEF o
    <3>2. QED
      BY <3>1, LeftIs
  <2>2. ASSUME o.solo, o.kind = "refresh"
        PROVE  p.todo \subseteq p.catalog /\ At(owner', p.address) = p.catalog \ p.todo
    <3>1. i \in o.todo /\ o.todo \subseteq o.catalog /\ At(owner, o.address) = o.catalog \ o.todo
      BY <1>1, <1>3, <2>2
    <3> HIDE DEF o, p
    <3>2. QED
      BY <1>2, <2>1, <3>1
  <2>3. ASSUME o.solo PROVE Settled(forwards', owner', p)
    <3>1. o.kind = "refresh" => Cleared(owner', p) /\ Refreshing(owner', p)
      BY <2>1, <2>2, <2>3 DEF Cleared, Refreshing
    <3>2. QED
      BY <1>3, <2>1, <2>3, <3>1 DEF Settled
  <2>4. QED
    BY <1>1, <1>5, <2>1, <2>3, SoloStep
<1>6. QED
  BY <1>1, <1>4, <1>5

(* Requests, startup, edits and restarts.                                  *)
LEMMA SoloRequest ==
  ASSUME Typed, SoloInv, NEW w \in Workers, Request(w)
  PROVE  SoloInv' /\ AllLeave
<1>1. ASSUME NEW f \in Names, NEW a \in Addresses, Create(w, f, a)
      PROVE  SoloInv' /\ AllLeave
  <2> DEFINE o == NewOp("discovering", "create", f, a, {})
  <2>1. o \in Op /\ Start(w, o) /\ o.pc = "discovering" /\ o.kind = "create"
    BY <1>1, NewOpType DEF Create, NewOp
  <2>2. Settled(forwards', owner', [o EXCEPT !.solo = Idle])
    BY DEF NewOp, Settled
  <2> HIDE DEF o
  <2>3. QED
    BY <2>1, <2>2, SoloStart
<1>2. ASSUME NEW f \in Names, Refresh(w, f)
      PROVE  SoloInv' /\ AllLeave
  <2> DEFINE o == NewOp("listing", "refresh", f, forwards[f].address, {})
             s == [o EXCEPT !.solo = Idle]
  <2>1. forwards[f].address \in Addresses \cup {Local, None}
    BY DEF Typed, TypeOK, ForwardEntry
  <2>2. o \in Op /\ Start(w, o) /\ o.pc = "listing"
    BY <1>2, <2>1, NewOpType DEF Refresh, NewOp
  <2>3. /\ s.pc = "listing" /\ s.kind = "refresh" /\ s.rank = 1 /\ s.catalog = {}
    BY DEF NewOp
  <2>4. \A i \in Items : Rank[i] >= 1
    BY RankAssumption
  <2> HIDE DEF o, s
  <2>5. Cleared(owner', s) /\ Refreshing(owner', s)
    BY <2>3, <2>4 DEF Cleared, Refreshing, At
  <2>6. Settled(forwards', owner', s)
    BY <2>3, <2>5 DEF Settled
  <2>7. QED
    BY <2>2, <2>6, SoloStart DEF s
<1>3. ASSUME NEW f \in Names, Delete(w, f)
      PROVE  SoloInv' /\ AllLeave
  <2> DEFINE o == NewOp("deleting", "delete", f, forwards[f].address, {})
             s == [o EXCEPT !.solo = Idle]
  <2>1. forwards[f].address \in Addresses \cup {Local, None}
    BY DEF Typed, TypeOK, ForwardEntry
  <2>2. o \in Op /\ Start(w, o) /\ o.pc = "deleting" /\ forwards' = forwards
    BY <1>3, <2>1, NewOpType DEF Delete, NewOp
  <2>3. /\ s.pc = "deleting" /\ s.kind = "delete" /\ s.rank = 1
        /\ s.name = f /\ s.address = forwards[f].address
    BY DEF NewOp
  <2> HIDE DEF o, s
  <2>4. Cleared(owner', s) /\ Deleting(forwards', s)
    BY <2>2, <2>3 DEF Cleared, Deleting
  <2>5. Settled(forwards', owner', s)
    BY <2>3, <2>4 DEF Settled
  <2>6. QED
    BY <2>2, <2>5, SoloStart DEF s
<1>4. QED
  BY <1>1, <1>2, <1>3 DEF Request

LEMMA SoloStartup ==
  ASSUME Typed, SoloInv, NEW w \in Workers, NEW f \in Names, StartupDiscover(w, f)
  PROVE  SoloInv' /\ AllLeave
<1> DEFINE o == NewOp("discovering", "startup", f, Config[f], {})
<1>1. Config[f] \in Addresses \cup {Local, None}
  BY ConfigAssumption
<1>2. o \in Op /\ Start(w, o) /\ o.pc = "discovering"
  BY <1>1, NewOpType DEF StartupDiscover, NewOp
<1>3. Settled(forwards', owner', [o EXCEPT !.solo = Idle])
  BY DEF NewOp, Settled
<1> HIDE DEF o
<1>4. QED
  BY <1>2, <1>3, SoloStart

LEMMA SoloEdit ==
  ASSUME Typed, SoloInv, Edit
  PROVE  SoloInv' /\ AllLeave
<1>1. ASSUME NEW w \in Workers, NEW i \in Items, NEW j \in Items,
             NEW a \in Addresses \cup {Local}, Rename(w, i, j, a)
      PROVE  SoloInv' /\ AllLeave
  <2> DEFINE o == NewOp("registering", "update", None, a, {j})
  <2>1. o \in Op /\ Start(w, o) /\ o.pc = "registering"
    BY <1>1, NewOpType DEF Rename, NewOp
  <2>2. Settled(forwards', owner', [o EXCEPT !.solo = Idle])
    BY DEF NewOp, Settled
  <2> HIDE DEF o
  <2>3. QED
    BY <2>1, <2>2, SoloStart
<1>2. QED
  BY <1>1, SoloInterfere DEF Edit, Put, DeleteItem

LEMMA SoloRestart ==
  ASSUME Typed, NEW persisted \in BOOLEAN, Restart(persisted)
  PROVE  SoloInv' /\ AllLeave
<1>1. ops' = ops + 1 /\ ops \in Nat
  BY DEF Restart, Typed, TypeOK
<1>2. AllLeave
  BY <1>1 DEF AllLeave, Leaves, EndsAlone
<1>3. QED
  BY <1>2, NoOpIdle DEF Restart, SoloInv

LEMMA SoloNext == Typed /\ SoloInv /\ [Next]_vars => SoloInv' /\ AllLeave
<1> SUFFICES ASSUME Typed, SoloInv, [Next]_vars PROVE SoloInv' /\ AllLeave
  OBVIOUS
<1>1. ASSUME NEW w \in Workers, Step(w) PROVE SoloInv' /\ AllLeave
  BY <1>1, SoloAnswer, SoloUnreachable, SoloRegisterItem, SoloRemoveItem, SoloListOwned,
     SoloDeleteForward DEF Step
<1>2. ASSUME NEW w \in Workers, Request(w) PROVE SoloInv' /\ AllLeave
  BY <1>2, SoloRequest
<1>3. CASE Startup
  BY <1>3, SoloStartup DEF Startup
<1>4. CASE Edit
  BY <1>4, SoloEdit
<1>5. CASE \E persisted \in BOOLEAN : Restart(persisted)
  BY <1>5, SoloRestart
<1>6. CASE UNCHANGED vars
  BY <1>6 DEF vars, SoloInv, Lonely, AllLeave, Leaves, EndsAlone
<1>7. QED
  BY <1>1, <1>2, <1>3, <1>4, <1>5, <1>6 DEF Next

LEMMA SoloInit == Init => SoloInv
  BY NoOpIdle DEF Init, SoloInv

(* A deletion that ran alone leaves neither the forward nor any tool,      *)
(* resource or prompt of the address it had, however many the address has  *)
(* published and whatever other requests did before and after it.          *)
THEOREM SoloDeletes == Spec => SoloDelete
<1>1. Typed /\ SoloInv /\ [Next]_vars
        => [\A w \in Workers : EndsAlone(w) /\ op[w].kind = "delete" =>
              /\ forwards'[op[w].name].address = None
              /\ op[w].address # None => Entries(op[w].address) = {}]_vars
  BY SoloNext DEF AllLeave, Leaves
<1>2. QED
  BY <1>1, InitType, SoloInit, NextType, SoloNext, PTL DEF Spec, SoloDelete

(* A refresh that ran alone leaves exactly the entries the server answered *)
(* with, and none when it did not answer.                                  *)
THEOREM SoloRefreshes == Spec => SoloRefresh
<1>1. Typed /\ SoloInv /\ [Next]_vars
        => [\A w \in Workers : EndsAlone(w) /\ op[w].kind = "refresh"
              => Entries(op[w].address) = op[w].catalog]_vars
  BY SoloNext DEF AllLeave, Leaves
<1>2. QED
  BY <1>1, InitType, SoloInit, NextType, SoloNext, PTL DEF Spec, SoloRefresh

-----------------------------------------------------------------------------
(* Nothing sets a request back: the stages it has before it.               *)

LEMMA StageOf ==
  ASSUME NEW o
  PROVE  /\ o.pc = "deleting"    => Stage(o) = 9
         /\ o.pc = "listing"     => Stage(o) = 10 - 2 * o.rank
         /\ o.pc = "removing"    => Stage(o) = 9 - 2 * o.rank
         /\ o.pc = "discovering" => Stage(o) = 2
         /\ o.pc = "registering" => Stage(o) = 1
         /\ o.pc = "idle"        => Stage(o) = 0
<1>1. CASE o.pc = "deleting"
  BY <1>1 DEF Stage
<1>2. CASE o.pc = "listing"
  BY <1>2 DEF Stage
<1>3. CASE o.pc = "removing"
  BY <1>3 DEF Stage
<1>4. CASE o.pc = "discovering"
  BY <1>4 DEF Stage
<1>5. CASE o.pc = "registering"
  BY <1>5 DEF Stage
<1>6. CASE o.pc = "idle"
  BY <1>6 DEF Stage
<1>7. QED
  BY <1>1, <1>2, <1>3, <1>4, <1>5, <1>6

(* A request that is over is nearer to its end than any other.             *)
LEMMA NoOpNearer ==
  ASSUME NEW o \in Op, o.pc # "idle"
  PROVE  Nearer(NoOp, o)
<1>1. Stage(NoOp) = 0
  BY NoOpIdle, StageOf
<1>2. o.rank \in 1..3
  BY DEF Op
<1>3. Stage(o) > 0
  BY <1>2, StageOf DEF Op
<1>4. QED
  BY <1>1, <1>3 DEF Nearer

(* One with a name less to go through is nearer, too.                      *)
LEMMA LeftNearer ==
  ASSUME NEW o \in Op, NEW i \in o.todo
  PROVE  Nearer(Left(o, i), o)
<1>1. /\ Left(o, i).pc = o.pc /\ Left(o, i).rank = o.rank
      /\ Left(o, i).todo = o.todo \ {i}
  BY DEF Left, Op
<1>2. Stage(Left(o, i)) = Stage(o)
  BY <1>1, StageOf DEF Op
<1>3. QED
  BY <1>1, <1>2 DEF Nearer

(* After the removal of one kind of entries comes the next kind, or the    *)
(* discovery of a refresh, or the end.                                     *)
LEMMA RemovedNearer ==
  ASSUME NEW o \in Op, o.pc \in {"listing", "removing"}
  PROVE  Nearer(Removed(o), o)
<1>1. o.rank \in 1..3
  BY DEF Op
<1>2. Stage(o) >= 9 - 2 * o.rank
  BY <1>1, StageOf
<1>3. CASE o.rank < 3
  <2>1. Removed(o).pc = "listing" /\ Removed(o).rank = o.rank + 1
    BY <1>3 DEF Removed, Op
  <2>2. Stage(Removed(o)) = 10 - 2 * (o.rank + 1)
    BY <2>1, StageOf
  <2>3. QED
    BY <1>1, <1>2, <2>2, StageOf DEF Nearer
<1>4. CASE ~(o.rank < 3) /\ o.kind = "refresh"
  <2>1. Removed(o).pc = "discovering"
    BY <1>4 DEF Removed, Op
  <2>2. Stage(Removed(o)) = 2
    BY <2>1, StageOf
  <2>3. QED
    BY <1>1, <1>2, <1>4, <2>2, StageOf DEF Nearer
<1>5. CASE ~(o.rank < 3) /\ o.kind # "refresh"
  BY <1>5, NoOpNearer DEF Removed
<1>6. QED
  BY <1>3, <1>4, <1>5

(* What a step of worker w makes of its own request.                       *)
LEMMA StepNearer ==
  ASSUME Typed, NEW w \in Workers, Step(w)
  PROVE  Nearer(op'[w], op[w])
<1> DEFINE o == op[w]
<1>1. o \in Op /\ op \in [Workers -> Op]
  BY DEF Typed, TypeOK
<1>2. ASSUME NEW catalog \in Catalogs, Answer(w, catalog) PROVE Nearer(op'[w], o)
  <2>1. o.pc = "discovering" /\ Stage(o) = 2
    BY <1>2, StageOf DEF Answer
  <2>2. CASE catalog = {}
    BY <1>1, <1>2, <2>1, <2>2, NoOpNearer DEF Answer
  <2>3. CASE catalog # {}
    <3>1. op'[w].pc = "registering"
      BY <1>1, <1>2, <2>3 DEF Answer, Op
    <3>2. QED
      BY <2>1, <3>1, StageOf DEF Nearer
  <2>4. QED
    BY <2>2, <2>3
<1>3. ASSUME Unreachable(w) PROVE Nearer(op'[w], o)
  BY <1>1, <1>3, NoOpNearer DEF Unreachable
<1>4. ASSUME NEW i \in Items, RegisterItem(w, i) PROVE Nearer(op'[w], o)
  <2>1. /\ o.pc = "registering" /\ i \in o.todo
        /\ op'[w] \in {NoOp, Left(o, i)}
    BY <1>1, <1>4 DEF RegisterItem
  <2>2. QED
    BY <1>1, <2>1, NoOpNearer, LeftNearer
<1>5. ASSUME NEW i \in Items, RemoveItem(w, i) PROVE Nearer(op'[w], o)
  <2>1. /\ o.pc = "removing" /\ i \in o.todo
        /\ op'[w] \in {Removed(o), Left(o, i)}
    BY <1>1, <1>5 DEF RemoveItem
  <2>2. QED
    BY <1>1, <2>1, RemovedNearer, LeftNearer
<1>6. ASSUME ListOwned(w) PROVE Nearer(op'[w], o)
  <2> DEFINE names == Owned(o.address, o.rank)
  <2>1. /\ o.pc = "listing"
        /\ op' = [op EXCEPT ![w] = IF names = {} THEN Removed(o)
                                   ELSE [o EXCEPT !.pc = "removing", !.todo = names]]
    BY <1>6 DEF ListOwned
  <2> HIDE DEF names
  <2>2. CASE names = {}
    BY <1>1, <2>1, <2>2, RemovedNearer
  <2>3. CASE names # {}
    <3>1. op'[w].pc = "removing" /\ op'[w].rank = o.rank
      BY <1>1, <2>1, <2>3 DEF Op
    <3>2. Stage(op'[w]) = 9 - 2 * o.rank /\ Stage(o) = 10 - 2 * o.rank
      BY <2>1, <3>1, StageOf
    <3>3. o.rank \in 1..3
      BY <1>1 DEF Op
    <3>4. QED
      BY <3>2, <3>3 DEF Nearer
  <2>4. QED
    BY <2>2, <2>3
<1>7. ASSUME DeleteForward(w) PROVE Nearer(op'[w], o)
  <2>1. o.pc = "deleting" /\ op'[w] \in {NoOp, [o EXCEPT !.pc = "listing"]}
    BY <1>1, <1>7 DEF DeleteForward
  <2>2. CASE op'[w] = NoOp
    BY <1>1, <2>1, <2>2, NoOpNearer
  <2>3. CASE op'[w] = [o EXCEPT !.pc = "listing"]
    <3>1. op'[w].pc = "listing" /\ op'[w].rank \in 1..3
      BY <1>1, <2>3 DEF Op
    <3>2. Stage(o) = 9 /\ Stage(op'[w]) = 10 - 2 * op'[w].rank
      BY <2>1, <3>1, StageOf
    <3>3. QED
      BY <3>1, <3>2 DEF Nearer
  <2>4. QED
    BY <2>1, <2>2, <2>3
<1>8. QED
  BY <1>2, <1>3, <1>4, <1>5, <1>6, <1>7 DEF Step

(* What everything else makes of it.                                       *)
Undisturbed(w) == op'[w] \in {op[w], [op[w] EXCEPT !.solo = FALSE], NoOp}

LEMMA StartUndisturbed ==
  ASSUME NEW u \in Workers, NEW w \in Workers, op[w].pc # "idle", NEW o, Start(u, o)
  PROVE  Undisturbed(w)
  BY DEF Start, Undisturbed

LEMMA InterfereUndisturbed ==
  ASSUME NEW w \in Workers, Interfere
  PROVE  Undisturbed(w)
  BY DEF Interfere, Undisturbed

LEMMA StepUndisturbed ==
  ASSUME Typed, NEW u \in Workers, Step(u), NEW w \in Workers, w # u
  PROVE  Undisturbed(w)
<1>1. op \in [Workers -> Op]
  BY DEF Typed, TypeOK
<1>2. op'[w] = op[w]
  <2>1. ASSUME NEW catalog \in Catalogs, Answer(u, catalog) PROVE op'[w] = op[w]
    BY <1>1, <2>1 DEF Answer
  <2>2. ASSUME Unreachable(u) PROVE op'[w] = op[w]
    BY <1>1, <2>2 DEF Unreachable
  <2>3. ASSUME NEW i \in Items, RegisterItem(u, i) \/ RemoveItem(u, i)
        PROVE  op'[w] = op[w]
    BY <1>1, <2>3 DEF RegisterItem, RemoveItem
  <2>4. ASSUME ListOwned(u) PROVE op'[w] = op[w]
    BY <1>1, <2>4 DEF ListOwned
  <2>5. ASSUME DeleteForward(u) PROVE op'[w] = op[w]
    BY <1>1, <2>5 DEF DeleteForward
  <2>6. QED
    BY <2>1, <2>2, <2>3, <2>4, <2>5 DEF Step
<1>3. QED
  BY <1>2 DEF Undisturbed

LEMMA OthersLeave ==
  ASSUME Typed, [Next]_vars, NEW w \in Workers, op[w].pc # "idle", ~Step(w)
  PROVE  Undisturbed(w)
<1>1. ASSUME NEW u \in Workers, Step(u) PROVE Undisturbed(w)
  <2>1. w # u
    BY <1>1
  <2>2. QED
    BY <1>1, <2>1, StepUndisturbed
<1>2. ASSUME NEW u \in Workers, Request(u) PROVE Undisturbed(w)
  <2>1. ASSUME NEW f \in Names, NEW a \in Addresses, Create(u, f, a) PROVE Undisturbed(w)
    BY <2>1, StartUndisturbed DEF Create
  <2>2. ASSUME NEW f \in Names, Refresh(u, f) PROVE Undisturbed(w)
    BY <2>2, StartUndisturbed DEF Refresh
  <2>3. ASSUME NEW f \in Names, Delete(u, f) PROVE Undisturbed(w)
    BY <2>3, StartUndisturbed DEF Delete
  <2>4. QED
    BY <1>2, <2>1, <2>2, <2>3 DEF Request
<1>3. CASE Startup
  <2>1. PICK u \in Workers, f \in Names : StartupDiscover(u, f)
    BY <1>3 DEF Startup
  <2>2. QED
    BY <2>1, StartUndisturbed DEF StartupDiscover
<1>4. CASE Edit
  <2>1. ASSUME NEW i \in Items, NEW a \in Addresses \cup {Local}, Put(i, a)
        PROVE  Undisturbed(w)
    BY <2>1, InterfereUndisturbed DEF Put
  <2>2. ASSUME NEW u \in Workers, NEW i \in Items, NEW j \in Items,
               NEW a \in Addresses \cup {Local}, Rename(u, i, j, a)
        PROVE  Undisturbed(w)
    BY <2>2, StartUndisturbed DEF Rename
  <2>3. ASSUME NEW i \in Items, DeleteItem(i) PROVE Undisturbed(w)
    BY <2>3, InterfereUndisturbed DEF DeleteItem
  <2>4. QED
    BY <1>4, <2>1, <2>2, <2>3 DEF Edit
<1>5. CASE \E persisted \in BOOLEAN : Restart(persisted)
  BY <1>5 DEF Restart, Undisturbed
<1>6. CASE UNCHANGED vars
  BY <1>6 DEF vars, Undisturbed
<1>7. QED
  BY <1>1, <1>2, <1>3, <1>4, <1>5, <1>6 DEF Next

(* Each step of a request lowers a measure of what it has before it, the   *)
(* stages and then the names of the stage, and no other request raises it. *)
THEOREM RequestsNotSetBack == Spec => NeverSetBack
<1>1. ASSUME Typed, [Next]_vars, NEW w \in Workers, op[w].pc # "idle"
      PROVE  IF Step(w) THEN Nearer(op'[w], op[w])
             ELSE op'[w] \in {op[w], [op[w] EXCEPT !.solo = FALSE], NoOp}
  BY <1>1, StepNearer, OthersLeave DEF Undisturbed
<1>2. Typed /\ [Next]_vars
        => [\A w \in Workers : op[w].pc # "idle" =>
              IF Step(w) THEN Nearer(op'[w], op[w])
              ELSE op'[w] \in {op[w], [op[w] EXCEPT !.solo = FALSE], NoOp}]_vars
  BY <1>1
<1>3. QED
  BY <1>2, InitType, NextType, PTL DEF Spec, NeverSetBack
====
