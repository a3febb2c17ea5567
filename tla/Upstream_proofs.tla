-------------------------- MODULE Upstream_proofs --------------------------
(***************************************************************************)
(* Theorems about Upstream, for any servers, pages and limits: its type    *)
(* invariant with the bound of the lists; a call is executed at most once  *)
(* and, when it is answered, exactly once; the steps of an operation run   *)
(* out.                                                                    *)
(***************************************************************************)
EXTENDS Upstream, SequenceTheorems, TLAPS

Fitting == {s \in Seq(Entry) : Len(s) <= MaxEntries}

Sorts == {"tools", "resources", "templates", "prompts", "discovery", "call", "read", "prompt"}

(* An operation that pages, or is between two lists, is about some kind;   *)
(* one that pages has a cursor.                                            *)
Placed(x) ==
  /\ x.pc \in {"paging", "between"} => x.kind \in Kinds
  /\ x.pc = "paging" => x.cursor \in Cursors

PlacedInv == \A o \in Operations : Placed(op[o])

Typed == TypeOK /\ PlacedInv
-----------------------------------------------------------------------------
(* Operations: the ways in which one changes.                              *)

LEMMA SortsAre == DOMAIN Lists = Sorts
  BY DEF Lists, Sorts

LEMMA OpIs ==
  Op = [what : Sorts \cup {None}, pc : {"idle", "connecting", "paging", "between", "calling", "done"},
        kind : Kinds \cup {None}, cursor : Cursors \cup {Empty, None}, pages : 0..MaxPages,
        lists : [Kinds -> Fitting], ok : BOOLEAN]
  BY SortsAre DEF Op, Fitting

LEMMA NoListsType == NoLists \in [Kinds -> Fitting]
<1>1. <<>> \in Seq(Entry) /\ Len(<<>>) = 0
  BY EmptySeq
<1>2. QED
  BY <1>1, LimitAssumption DEF NoLists, Fitting

LEMMA NewOpType ==
  ASSUME NEW w \in Sorts \cup {None}
  PROVE  NewOp(w) \in Op /\ NoOp \in Op
<1>1. NewOp(w) \in Op /\ NewOp(None) \in Op
  BY NoListsType, OpIs, CursorAssumption, LimitAssumption DEF NewOp
<1>2. [NewOp(None) EXCEPT !.pc = "idle"] \in Op
  BY <1>1, OpIs
<1>3. QED
  BY <1>1, <1>2 DEF NoOp

LEMMA PcType ==
  ASSUME NEW x \in Op, NEW pc \in {"between", "calling", "done"}, NEW ok \in BOOLEAN
  PROVE  [x EXCEPT !.pc = pc, !.ok = ok] \in Op /\ [x EXCEPT !.pc = pc] \in Op
  BY OpIs

LEMMA EndType ==
  ASSUME NEW o \in Operations, op[o] \in Op
  PROVE  /\ Finished(o) \in Op /\ Placed(Finished(o))
         /\ Failed(o) \in Op /\ Placed(Failed(o))
<1> DEFINE x == [op[o] EXCEPT !.pc = "done"]
<1>1. x \in Op /\ x.pc = "done"
  BY OpIs
<1>2. [x EXCEPT !.ok = TRUE] \in Op /\ Placed([x EXCEPT !.ok = TRUE])
  BY <1>1, OpIs DEF Placed
<1>3. [x EXCEPT !.lists = NoLists] \in Op /\ Placed([x EXCEPT !.lists = NoLists])
  BY <1>1, NoListsType, OpIs DEF Placed
<1>4. /\ Finished(o) = [x EXCEPT !.ok = TRUE]
      /\ Failed(o) = [x EXCEPT !.lists = NoLists]
  BY OpIs DEF Finished, Failed
<1>5. QED
  BY <1>2, <1>3, <1>4

LEMMA PagingType ==
  ASSUME NEW o \in Operations, op[o] \in Op, NEW k \in Kinds
  PROVE  Paging(o, k) \in Op /\ Placed(Paging(o, k))
<1> DEFINE x == [op[o] EXCEPT !.pc = "paging"]
           y == [x EXCEPT !.kind = k]
           z == [y EXCEPT !.cursor = First]
<1>1. x \in Op /\ x.pc = "paging"
  BY OpIs
<1>2. y \in Op /\ y.kind = k
  BY <1>1, OpIs
<1>3. z \in Op /\ z.kind = k /\ z.cursor = First
  BY <1>2, OpIs, CursorAssumption
<1>4. 0 \in 0..MaxPages
  BY LimitAssumption
<1>5. [z EXCEPT !.pages = 0] \in Op /\ Placed([z EXCEPT !.pages = 0])
  BY <1>3, <1>4, OpIs, CursorAssumption DEF Placed
<1>6. Paging(o, k) = [z EXCEPT !.pages = 0]
  BY DEF Paging
<1>7. QED
  BY <1>5, <1>6

LEMMA CutType ==
  ASSUME NEW s \in Seq(Entry)
  PROVE  Cut(s) \in Fitting
<1>1. Len(s) \in Nat /\ MaxEntries \in Nat \ {0}
  BY LenProperties, LimitAssumption
<1>2. CASE Len(s) < MaxEntries
  BY <1>1, <1>2 DEF Cut, Fitting
<1>3. CASE ~(Len(s) < MaxEntries)
  <2>1. \A i \in 1..MaxEntries : s[i] \in Entry
    BY <1>1, <1>3, ElementOfSeq
  <2>2. /\ SubSeq(s, 1, MaxEntries) \in Seq(Entry)
        /\ Len(SubSeq(s, 1, MaxEntries)) = MaxEntries
    BY <1>1, <2>1, SubSeqProperties
  <2>3. QED
    BY <1>1, <1>3, <2>2 DEF Cut, Fitting
<1>4. QED
  BY <1>2, <1>3

(* An operation that is replaced by a sound one leaves all of them sound.  *)
LEMMA ReplaceType ==
  ASSUME Typed, NEW o \in Operations, NEW x \in Op, Placed(x), op' = [op EXCEPT ![o] = x]
  PROVE  op' \in [Operations -> Op] /\ PlacedInv'
  BY DEF Typed, TypeOK, PlacedInv

LEMMA NextPageType ==
  ASSUME Typed, NEW o \in Operations, NEW after \in {"between", "done"}, NextPage(o, after)
  PROVE  Typed'
<1> DEFINE k    == op[o].kind
           page == catalog[k][op[o].cursor]
           list == op[o].lists[k] \o page.entries
           kept == [op[o] EXCEPT !.lists[k] = Cut(list)]
           on   == [kept EXCEPT !.cursor = page.next, !.pages = Counted(kept.pages)]
           end  == [kept EXCEPT !.pc = after, !.ok = (after = "done")]
<1>1. op[o] \in Op /\ Placed(op[o]) /\ op[o].pc = "paging"
  BY DEF Typed, TypeOK, PlacedInv, NextPage
<1>2. k \in Kinds /\ op[o].cursor \in Cursors
  BY <1>1 DEF Placed
<1>3. page \in Page
  BY <1>2 DEF Typed, TypeOK
<1>4. page.entries \in Seq(Entry) /\ page.next \in Cursors \cup {Empty, None}
  BY <1>3 DEF Page
<1>5. op[o].lists \in [Kinds -> Fitting]
  BY <1>1, OpIs
<1>6. list \in Seq(Entry)
  BY <1>2, <1>4, <1>5, ConcatProperties DEF Fitting
<1>7. kept \in Op /\ kept.pages = op[o].pages /\ kept.pc = "paging" /\ kept.kind = k
  BY <1>1, <1>2, <1>5, <1>6, CutType, OpIs
<1>8. CASE GoesOn(o, list, page)
  <2>1. op[o].pages \in 0..MaxPages
    BY <1>1, OpIs
  <2>2. Counted(kept.pages) \in 0..MaxPages /\ page.next \in Cursors
    BY <1>4, <1>7, <1>8, <2>1, LimitAssumption DEF GoesOn, Counted, More
  <2>3. on \in Op /\ Placed(on)
    BY <1>2, <1>7, <2>2, OpIs DEF Placed
  <2>4. op' = [op EXCEPT ![o] = on]
    BY <1>8 DEF NextPage
  <2>5. QED
    BY <2>3, <2>4, ReplaceType DEF Typed, TypeOK, NextPage
<1>9. CASE ~GoesOn(o, list, page)
  <2>1. end \in Op /\ Placed(end)
    BY <1>2, <1>7, OpIs DEF Placed
  <2>2. op' = [op EXCEPT ![o] = end]
    BY <1>9 DEF NextPage
  <2>3. QED
    BY <2>1, <2>2, ReplaceType DEF Typed, TypeOK, NextPage
<1>10. QED
  BY <1>8, <1>9

(* Every other step on a list, or on the session it needs.                 *)
LEMMA ConnectType ==
  ASSUME Typed, NEW o \in Operations, NEW k \in Kinds, Connect(o, k)
  PROVE  Typed'
<1>1. Paging(o, k) \in Op /\ Placed(Paging(o, k))
  BY PagingType DEF Typed, TypeOK
<1>2. QED
  BY <1>1, ReplaceType DEF Typed, TypeOK, Connect

LEMMA NotConnectedType ==
  ASSUME Typed, NEW o \in Operations, NotConnected(o)
  PROVE  Typed'
<1>1. Failed(o) \in Op /\ Placed(Failed(o))
  BY EndType DEF Typed, TypeOK
<1>2. QED
  BY <1>1, ReplaceType DEF Typed, TypeOK, NotConnected

LEMMA PageFailsType ==
  ASSUME Typed, NEW o \in Operations, LosesList(o) \/ EndsList(o)
  PROVE  Typed'
<1>1. op[o] \in Op /\ Placed(op[o]) /\ op[o].pc = "paging"
  BY DEF Typed, TypeOK, PlacedInv, LosesList, EndsList
<1>2. failed' \in [Operations -> SUBSET Kinds]
  BY <1>1 DEF Typed, TypeOK, LosesList, EndsList, Placed
<1>3. /\ Failed(o) \in Op /\ Placed(Failed(o))
      /\ [op[o] EXCEPT !.pc = "between"] \in Op /\ Placed([op[o] EXCEPT !.pc = "between"])
  BY <1>1, EndType, OpIs DEF Placed
<1>4. op' = [op EXCEPT ![o] = Failed(o)] \/ op' = [op EXCEPT ![o] = [op[o] EXCEPT !.pc = "between"]]
  BY DEF LosesList, EndsList, Dropped, Typed, TypeOK
<1>5. op' \in [Operations -> Op] /\ PlacedInv'
  BY <1>3, <1>4, ReplaceType
<1>6. QED
  BY <1>2, <1>5 DEF Typed, TypeOK, LosesList, EndsList

LEMMA ListingType ==
  ASSUME Typed, NEW o \in Operations, NEW k \in Kinds, Listing(o, k) \/ Discovering(o, k)
  PROVE  Typed'
<1>1. \/ Connect(o, k) \/ NotConnected(o) \/ LosesList(o) \/ EndsList(o)
      \/ NextPage(o, "done") \/ NextPage(o, "between")
  BY DEF Listing, Discovering
<1>2. QED
  BY <1>1, ConnectType, NotConnectedType, PageFailsType, NextPageType

LEMMA BetweenType ==
  ASSUME Typed, NEW o \in Operations, op[o].pc = "between",
         op' = [op EXCEPT ![o] = IF op[o].kind = "prompts" THEN Finished(o)
                                 ELSE Paging(o, After(op[o].kind))],
         UNCHANGED <<catalog, sent, executed, failed>>
  PROVE  Typed'
<1>1. op[o] \in Op /\ op[o].kind \in Kinds
  BY DEF Typed, TypeOK, PlacedInv, Placed
<1>2. CASE op[o].kind = "prompts"
  BY <1>1, <1>2, EndType, ReplaceType DEF Typed, TypeOK
<1>3. CASE op[o].kind # "prompts"
  <2>1. After(op[o].kind) \in Kinds
    BY <1>1, <1>3, KindAssumption DEF After
  <2>2. QED
    BY <1>1, <1>3, <2>1, PagingType, ReplaceType DEF Typed, TypeOK
<1>4. QED
  BY <1>2, <1>3

LEMMA DiscoverType ==
  ASSUME Typed, NEW o \in Operations, DiscoverForward(o)
  PROVE  Typed'
<1>1. \A k \in {"tools", "resources", "templates", "prompts"} : k \in Kinds
  BY KindAssumption
<1>2. CASE \/ Connect(o, "tools") \/ NotConnected(o)
           \/ \E k \in Kinds : Discovering(o, k)
  BY <1>1, <1>2, ConnectType, NotConnectedType, ListingType
<1>3. CASE ~\/ Connect(o, "tools") \/ NotConnected(o)
            \/ \E k \in Kinds : Discovering(o, k)
  <2>1. /\ op[o].pc = "between"
        /\ op' = [op EXCEPT ![o] = IF op[o].kind = "prompts" THEN Finished(o)
                                   ELSE Paging(o, After(op[o].kind))]
        /\ UNCHANGED <<catalog, sent, executed, failed>>
    BY <1>1, <1>3 DEF DiscoverForward, DiscoverToolsOnSession, DiscoverResourcesOnSession,
       DiscoverResourceTemplatesOnSession, DiscoverPromptsOnSession
  <2>2. QED
    BY <2>1, BetweenType
<1>4. QED
  BY <1>2, <1>3

LEMMA CallingType ==
  ASSUME Typed, NEW o \in Operations, Calling(o)
  PROVE  Typed'
<1>1. op[o] \in Op
  BY DEF Typed, TypeOK
<1>2. CASE NotConnected(o)
  BY <1>2, NotConnectedType
<1>3. CASE Send(o)
  <2> DEFINE x == [op[o] EXCEPT !.pc = "calling"]
  <2>1. x \in Op /\ Placed(x)
    BY <1>1, OpIs DEF Placed
  <2>2. op' = [op EXCEPT ![o] = x] /\ sent' \in [Operations -> Nat]
    BY <1>3 DEF Send, Typed, TypeOK
  <2>3. QED
    BY <1>3, <2>1, <2>2, ReplaceType DEF Typed, TypeOK, Send
<1>4. CASE Reply(o)
  BY <1>1, <1>4, EndType, ReplaceType DEF Typed, TypeOK, Reply
<1>5. CASE CallFails(o)
  BY <1>1, <1>5, EndType, ReplaceType DEF Typed, TypeOK, CallFails, CallLost
<1>6. QED
  BY <1>2, <1>3, <1>4, <1>5 DEF Calling

(* What a step of an operation is.                                         *)
LEMMA StepIs ==
  ASSUME NEW o \in Operations, Step(o)
  PROVE  \/ op[o].what \in Kinds /\ \E k \in Kinds : Listing(o, k)
         \/ op[o].what = Discovery /\ DiscoverForward(o)
         \/ op[o].what \in {"call", "read", "prompt"} /\ Calling(o)
  BY KindAssumption DEF Step, ListTools, ListResources, ListResourceTemplates, ListPrompts,
     DiscoverForward, CallTool, ReadResource, GetPrompt

LEMMA InitType == Init => Typed
<1> SUFFICES ASSUME Init PROVE Typed
  OBVIOUS
<1>1. NoOp \in Op /\ Placed(NoOp)
  BY NewOpType DEF NoOp, NewOp, Placed
<1>2. catalog \in [Kinds -> [Cursors -> Page]]
  BY CatalogAssumption DEF Init
<1>3. QED
  BY <1>1, <1>2 DEF Init, Typed, TypeOK, PlacedInv

LEMMA NextType ==
  ASSUME Typed, [Next]_vars
  PROVE  Typed'
<1>1. CASE UNCHANGED vars
  BY <1>1 DEF Typed, TypeOK, PlacedInv, Placed, vars
<1>2. ASSUME NEW o \in Operations, NEW w \in DOMAIN Lists, Begin(o, w)
      PROVE  Typed'
  <2>1. NewOp(w) \in Op /\ Placed(NewOp(w))
    BY SortsAre, NewOpType DEF NewOp, Placed
  <2>2. QED
    BY <1>2, <2>1, ReplaceType DEF Typed, TypeOK, Begin
<1>3. ASSUME NEW o \in Operations, Step(o)
      PROVE  Typed'
  BY <1>3, StepIs, ListingType, DiscoverType, CallingType
<1>4. ASSUME NEW o \in Operations, Execute(o)
      PROVE  Typed'
  BY <1>4 DEF Execute, Typed, TypeOK, PlacedInv, Placed
<1>5. QED
  BY <1>1, <1>2, <1>3, <1>4 DEF Next

\* The client, its lists bounded by their limits, and what the server is sent keep
\* their types, whatever pages the server answers with (mcp_client.rs).
THEOREM TypeCorrect == Spec => []TypeOK
<1>1. Typed /\ [Next]_vars => Typed'
  BY NextType
<1>2. Typed => TypeOK
  BY DEF Typed
<1>3. QED
  BY InitType, <1>1, <1>2, PTL DEF Spec

-----------------------------------------------------------------------------
(* A call is executed at most once.                                        *)

Calls == {"call", "read", "prompt"}

(* One request is sent once the session stands, it is executed at most     *)
(* once, and only an operation that lists ever pages.                      *)
Once(o) ==
  /\ executed[o] <= sent[o] /\ sent[o] <= 1
  /\ op[o].pc \in {"idle", "connecting"} => sent[o] = 0
  /\ op[o].pc = "calling" => sent[o] = 1
  /\ op[o].pc # "done" => ~op[o].ok
  /\ op[o].pc \in {"paging", "between"} => op[o].what \notin Calls
  /\ op[o].pc = "done" /\ op[o].ok /\ op[o].what \in Calls => executed[o] = 1

OnceInv == \A o \in Operations : Once(o)

LEMMA OutcomesAre ==
  ASSUME NEW o \in Operations, op[o] \in Op, NEW k \in Kinds
  PROVE  /\ Finished(o).pc = "done" /\ Finished(o).what = op[o].what
         /\ Failed(o).pc = "done" /\ Failed(o).what = op[o].what /\ Failed(o).ok = op[o].ok
         /\ Paging(o, k).pc = "paging" /\ Paging(o, k).what = op[o].what
         /\ Paging(o, k).ok = op[o].ok
  BY OpIs DEF Finished, Failed, Paging

(* An operation that does not send leaves what was sent and executed.      *)
LEMMA QuietOnce ==
  ASSUME Typed, OnceInv, NEW o \in Operations, NEW x \in Op, op' = [op EXCEPT ![o] = x],
         UNCHANGED <<sent, executed>>,
         x.pc \in {"paging", "between", "done"},
         x.pc # "done" => ~x.ok,
         x.pc = "done" => \/ x.what \notin Calls
                          \/ ~x.ok
                          \/ executed[o] = 1,
         x.pc # "done" => x.what \notin Calls
  PROVE  OnceInv'
<1> SUFFICES ASSUME NEW q \in Operations PROVE Once(q)'
  BY DEF OnceInv
<1>1. Once(q)
  BY DEF OnceInv
<1>2. CASE q = o
  <2>1. op'[q] = x
    BY <1>2 DEF Typed, TypeOK
  <2>2. QED
    BY <1>1, <1>2, <2>1 DEF Once
<1>3. CASE q # o
  <2>1. op'[q] = op[q]
    BY <1>3 DEF Typed, TypeOK
  <2>2. QED
    BY <1>1, <2>1 DEF Once
<1>4. QED
  BY <1>2, <1>3

LEMMA FailedOnce ==
  ASSUME Typed, OnceInv, NEW o \in Operations, op[o].pc # "done",
         op' = [op EXCEPT ![o] = Failed(o)], UNCHANGED <<sent, executed>>
  PROVE  OnceInv'
<1>1. op[o] \in Op /\ ~op[o].ok
  BY DEF Typed, TypeOK, OnceInv, Once
<1>2. Failed(o) \in Op /\ Failed(o).pc = "done" /\ ~Failed(o).ok
  BY <1>1, EndType, OutcomesAre, KindAssumption
<1>3. QED
  BY <1>2, QuietOnce

LEMMA ListingOnce ==
  ASSUME Typed, OnceInv, NEW o \in Operations, op[o].what \notin Calls, NEW k \in Kinds,
         Listing(o, k) \/ Discovering(o, k)
  PROVE  OnceInv'
<1>1. op[o] \in Op /\ Placed(op[o]) /\ Once(o)
  BY DEF Typed, TypeOK, PlacedInv, OnceInv
<1>2. CASE Connect(o, k)
  <2>1. /\ Paging(o, k) \in Op /\ Paging(o, k).pc = "paging"
        /\ ~Paging(o, k).ok /\ Paging(o, k).what = op[o].what
    BY <1>1, <1>2, PagingType, OutcomesAre DEF Connect, Once
  <2>2. op' = [op EXCEPT ![o] = Paging(o, k)] /\ UNCHANGED <<sent, executed>>
    BY <1>2 DEF Connect
  <2>3. QED
    BY <2>1, <2>2, QuietOnce
<1>3. CASE NotConnected(o)
  BY <1>3, FailedOnce DEF NotConnected
<1>4. CASE LosesList(o)
  BY <1>4, FailedOnce DEF LosesList, Dropped
<1>5. CASE EndsList(o)
  <2> DEFINE x == [op[o] EXCEPT !.pc = "between"]
  <2>1. x \in Op /\ x.pc = "between" /\ x.what = op[o].what /\ x.ok = op[o].ok
    BY <1>1, OpIs
  <2>2. op' = [op EXCEPT ![o] = x] /\ op[o].pc = "paging" /\ UNCHANGED <<sent, executed>>
    BY <1>5 DEF EndsList
  <2>3. QED
    BY <1>1, <2>1, <2>2, QuietOnce DEF Once
<1>6. ASSUME NEW after \in {"between", "done"}, NextPage(o, after)
      PROVE  OnceInv'
  <2>1. Typed'
    BY <1>6, NextPageType
  <2>2. op'[o] \in Op /\ op'[o].what = op[o].what
    <3>1. op'[o] \in Op
      BY <2>1 DEF Typed, TypeOK
    <3>2. QED
      BY <1>1, <1>6, <3>1, OpIs DEF NextPage, Typed, TypeOK
  <2>3. op'[o].pc \in {"paging", after} /\ (op'[o].pc # "done" => ~op'[o].ok)
    <3>1. op[o].pc = "paging" /\ ~op[o].ok
      BY <1>1, <1>6 DEF NextPage, Once
    <3>2. QED
      BY <1>1, <1>6, <3>1, OpIs DEF NextPage, Typed, TypeOK
  <2>4. op' = [op EXCEPT ![o] = op'[o]] /\ UNCHANGED <<sent, executed>>
    <3>1. (\E x : op' = [op EXCEPT ![o] = x]) /\ UNCHANGED <<sent, executed>>
      BY <1>6, Zenon DEF NextPage
    <3>2. o \in DOMAIN op
      BY DEF Typed, TypeOK
    <3>3. QED
      BY <3>1, <3>2
  <2>5. QED
    BY <2>2, <2>3, <2>4, QuietOnce
<1>7. QED
  BY <1>2, <1>3, <1>4, <1>5, <1>6 DEF Listing, Discovering

LEMMA DiscoverOnce ==
  ASSUME Typed, OnceInv, NEW o \in Operations, op[o].what = Discovery, DiscoverForward(o)
  PROVE  OnceInv'
<1>1. op[o].what \notin Calls /\ op[o] \in Op /\ Placed(op[o]) /\ Once(o)
  BY DEF Discovery, Calls, Typed, TypeOK, PlacedInv, OnceInv
<1>2. "tools" \in Kinds /\ "resources" \in Kinds /\ "templates" \in Kinds /\ "prompts" \in Kinds
  BY KindAssumption
<1>3. CASE \E k \in Kinds : Listing(o, k) \/ Discovering(o, k)
  BY <1>1, <1>3, ListingOnce
<1>4. CASE /\ op[o].pc = "between"
           /\ op' = [op EXCEPT ![o] = IF op[o].kind = "prompts" THEN Finished(o)
                                      ELSE Paging(o, After(op[o].kind))]
           /\ UNCHANGED <<catalog, sent, executed, failed>>
  <2>1. op[o].kind \in Kinds /\ ~op[o].ok
    BY <1>1, <1>4 DEF Placed, Once
  <2>2. CASE op[o].kind = "prompts"
    <3>1. Finished(o) \in Op /\ Finished(o).pc = "done" /\ Finished(o).what \notin Calls
      BY <1>1, <2>1, EndType, OutcomesAre
    <3>2. QED
      BY <1>4, <2>2, <3>1, QuietOnce
  <2>3. CASE op[o].kind # "prompts"
    <3>1. After(op[o].kind) \in Kinds
      BY <2>1, <2>3, KindAssumption DEF After
    <3>2. /\ Paging(o, After(op[o].kind)) \in Op /\ Paging(o, After(op[o].kind)).pc = "paging"
          /\ ~Paging(o, After(op[o].kind)).ok
          /\ Paging(o, After(op[o].kind)).what \notin Calls
      BY <1>1, <2>1, <3>1, PagingType, OutcomesAre
    <3>3. QED
      BY <1>4, <2>3, <3>2, QuietOnce
  <2>4. QED
    BY <2>2, <2>3
<1>5. QED
  BY <1>2, <1>3, <1>4 DEF DiscoverForward, DiscoverToolsOnSession, DiscoverResourcesOnSession,
     DiscoverResourceTemplatesOnSession, DiscoverPromptsOnSession, Listing

LEMMA CallingOnce ==
  ASSUME Typed, OnceInv, NEW o \in Operations, op[o].what \in Calls, Calling(o)
  PROVE  OnceInv'
<1>1. op[o] \in Op /\ Once(o) /\ sent[o] \in Nat /\ executed[o] \in Nat
  BY DEF Typed, TypeOK, OnceInv
<1>2. CASE NotConnected(o)
  BY <1>2, FailedOnce DEF NotConnected
<1>3. CASE Send(o)
  <2> SUFFICES ASSUME NEW q \in Operations PROVE Once(q)'
    BY DEF OnceInv
  <2>1. Once(q)
    BY DEF OnceInv
  <2>2. CASE q = o
    <3>1. op'[q] = [op[o] EXCEPT !.pc = "calling"] /\ sent'[q] = sent[o] + 1
      BY <1>3, <2>2 DEF Send, Typed, TypeOK
    <3>2. op'[q].pc = "calling" /\ op'[q].ok = op[o].ok
      BY <1>1, <3>1, OpIs
    <3>3. sent[o] = 0 /\ ~op[o].ok /\ executed' = executed
      BY <1>1, <1>3 DEF Once, Send
    <3>4. QED
      BY <1>1, <2>2, <3>1, <3>2, <3>3 DEF Once
  <2>3. CASE q # o
    <3>1. op'[q] = op[q] /\ sent'[q] = sent[q] /\ executed' = executed
      BY <1>3, <2>3 DEF Send, Typed, TypeOK
    <3>2. QED
      BY <2>1, <3>1 DEF Once
  <2>4. QED
    BY <2>2, <2>3
<1>4. CASE Reply(o)
  <2>1. Finished(o) \in Op /\ Finished(o).pc = "done" /\ executed[o] = 1
    BY <1>1, <1>4, EndType, OutcomesAre, KindAssumption DEF Reply, Once
  <2>2. QED
    BY <1>4, <2>1, QuietOnce DEF Reply
<1>5. CASE CallFails(o)
  BY <1>5, FailedOnce DEF CallFails, CallLost
<1>6. QED
  BY <1>2, <1>3, <1>4, <1>5 DEF Calling

LEMMA BeginOnce ==
  ASSUME Typed, OnceInv, NEW o \in Operations, NEW w \in DOMAIN Lists, Begin(o, w)
  PROVE  OnceInv'
<1> SUFFICES ASSUME NEW q \in Operations PROVE Once(q)'
  BY DEF OnceInv
<1>1. Once(q) /\ UNCHANGED <<sent, executed>>
  BY DEF OnceInv, Begin
<1>2. CASE q = o
  <2>1. op'[q] = NewOp(w) /\ op[q].pc = "idle"
    BY <1>2 DEF Begin, Typed, TypeOK
  <2>2. op'[q].pc = "connecting" /\ ~op'[q].ok
    BY <2>1 DEF NewOp
  <2>3. QED
    BY <1>1, <2>1, <2>2 DEF Once
<1>3. CASE q # o
  <2>1. op'[q] = op[q]
    BY <1>3 DEF Begin, Typed, TypeOK
  <2>2. QED
    BY <1>1, <2>1 DEF Once
<1>4. QED
  BY <1>2, <1>3

LEMMA ExecuteOnce ==
  ASSUME Typed, OnceInv, NEW o \in Operations, Execute(o)
  PROVE  OnceInv'
<1> SUFFICES ASSUME NEW q \in Operations PROVE Once(q)'
  BY DEF OnceInv
<1>1. Once(q) /\ UNCHANGED <<op, sent>> /\ sent[q] \in Nat /\ executed[q] \in Nat
  BY DEF OnceInv, Execute, Typed, TypeOK
<1>2. executed'[q] = IF q = o THEN executed[q] + 1 ELSE executed[q]
  BY DEF Execute, Typed, TypeOK
<1>3. q = o => executed[q] < sent[q]
  BY DEF Execute
<1>4. QED
  BY <1>1, <1>2, <1>3 DEF Once

LEMMA NextOnce ==
  ASSUME Typed, OnceInv, [Next]_vars
  PROVE  OnceInv'
<1>1. CASE UNCHANGED vars
  BY <1>1 DEF OnceInv, Once, vars
<1>2. ASSUME NEW o \in Operations, Step(o)
      PROVE  OnceInv'
  <2>1. \A k \in Kinds : k \notin Calls
    BY KindAssumption DEF Calls
  <2>2. CASE op[o].what \in Kinds /\ \E k \in Kinds : Listing(o, k)
    BY <2>1, <2>2, ListingOnce
  <2>3. CASE op[o].what = Discovery /\ DiscoverForward(o)
    BY <2>3, DiscoverOnce
  <2>4. CASE op[o].what \in {"call", "read", "prompt"} /\ Calling(o)
    BY <2>4, CallingOnce DEF Calls
  <2>5. QED
    BY <1>2, <2>2, <2>3, <2>4, StepIs
<1>3. QED
  BY <1>1, <1>2, BeginOnce, ExecuteOnce DEF Next

LEMMA InitOnce == Init => OnceInv
<1> SUFFICES ASSUME Init, NEW o \in Operations PROVE Once(o)
  BY DEF OnceInv
<1>1. op[o] = NoOp /\ sent[o] = 0 /\ executed[o] = 0
  BY DEF Init
<1>2. NoOp.pc = "idle" /\ ~NoOp.ok
  BY DEF NoOp, NewOp
<1>3. QED
  BY <1>1, <1>2 DEF Once

\* A tool call, a read or a prompt is executed at most once, a timeout that races its
\* answer included, and one that is answered has been executed (call_tool,
\* read_resource, get_prompt).
THEOREM AtMostOnce == Spec => []ExecutedAtMostOnce
<1>1. Typed /\ OnceInv /\ [Next]_vars => Typed' /\ OnceInv'
  BY NextType, NextOnce
<1>2. Typed /\ OnceInv => ExecutedAtMostOnce
  <2> SUFFICES ASSUME Typed, OnceInv, NEW o \in Operations
               PROVE  /\ executed[o] <= 1
                      /\ op[o].pc = "done" /\ op[o].ok /\ op[o].what \in Calls => executed[o] = 1
    BY DEF ExecutedAtMostOnce, Calls
  <2>1. Once(o) /\ sent[o] \in Nat /\ executed[o] \in Nat
    BY DEF OnceInv, Typed, TypeOK
  <2>2. QED
    BY <2>1 DEF Once
<1>3. QED
  BY InitType, InitOnce, <1>1, <1>2, PTL DEF Spec

-----------------------------------------------------------------------------
(* Steps run out.                                                          *)

(* A list that goes on has a page left, and a discovery is at one of its   *)
(* four lists.                                                             *)
Turning(x) == x.pc = "paging" => x.pages < MaxPages

TurningInv == \A o \in Operations : Turning(op[o])

(* What a step makes of an operation x: it connects and begins its first   *)
(* list, turns a page, ends a list of a discovery, goes on to the next,    *)
(* sends its call, or is done.                                             *)
Moves(x, y) ==
  \/ y.pc = "done" /\ x.pc \in {"connecting", "paging", "between", "calling"}
  \/ x.pc = "connecting" /\ y.pc = "calling"
  \/ /\ x.pc = "connecting" /\ y.pc = "paging" /\ y.pages = 0
     /\ x.what = Discovery => y.kind = "tools"
  \/ x.pc = "paging" /\ y.pc = "paging" /\ y.pages = x.pages + 1 /\ y.kind = x.kind
  \/ x.pc = "paging" /\ y.pc = "between" /\ y.kind = x.kind
  \/ /\ x.pc = "between" /\ x.kind \in {"tools", "resources", "templates"}
     /\ y.pc = "paging" /\ y.pages = 0 /\ y.kind = After(x.kind)
     /\ x.what = Discovery

LEMMA ListsLeftIs ==
  ASSUME NEW x \in Op, Placed(x), x.pc \in {"connecting", "paging", "between"}
  PROVE  ListsLeft(x) \in 0..3
  BY KindAssumption DEF ListsLeft, Placed

LEMMA MorePages ==
  ASSUME NEW n \in 0..3
  PROVE  /\ n * (MaxPages + 1) \in Nat
         /\ (n + 1) * (MaxPages + 1) = n * (MaxPages + 1) + MaxPages + 1
<1>1. MaxPages \in Nat
  BY LimitAssumption
<1>2. n = 0 \/ n = 1 \/ n = 2 \/ n = 3
  OBVIOUS
<1>3. QED
  BY <1>1, <1>2

LEMMA MovesCount ==
  ASSUME NEW x \in Op, NEW y \in Op, Placed(x), Placed(y), Turning(x), Turning(y),
         Moves(x, y), y.what = x.what
  PROVE  StepsLeft(y) \in 0..(StepsLeft(x) - 1)
<1> DEFINE m == ListsLeft(x)
           n == ListsLeft(y)
           P == MaxPages + 1
<1>1. /\ MaxPages \in Nat /\ x.pages \in Nat /\ y.pages \in Nat
      /\ x.pc = "paging" => x.pages < MaxPages
      /\ y.pc = "paging" => y.pages < MaxPages
  BY LimitAssumption, OpIs DEF Turning
<1>2. x.pc \in {"connecting", "paging", "between"} => m \in 0..3 /\ m * P \in Nat
  BY ListsLeftIs, MorePages
<1>3. y.pc \in {"connecting", "paging", "between"} => n \in 0..3 /\ n * P \in Nat
  BY ListsLeftIs, MorePages
<1> HIDE DEF m, n, P
<1>4. /\ x.pc = "connecting" => StepsLeft(x) = m * P + MaxPages + 2
      /\ x.pc = "paging"     => StepsLeft(x) = m * P + MaxPages - x.pages + 1
      /\ x.pc = "between"    => StepsLeft(x) = m * P + 1
      /\ x.pc = "calling"    => StepsLeft(x) = 1
  BY DEF StepsLeft, m, P
<1>5. /\ y.pc = "paging"     => StepsLeft(y) = n * P + MaxPages - y.pages + 1
      /\ y.pc = "between"    => StepsLeft(y) = n * P + 1
      /\ y.pc = "calling"    => StepsLeft(y) = 1
      /\ y.pc = "done"       => StepsLeft(y) = 0
  BY DEF StepsLeft, n, P
<1>6. CASE y.pc = "done" /\ x.pc \in {"connecting", "paging", "between", "calling"}
  BY <1>1, <1>2, <1>4, <1>5, <1>6
<1>7. CASE x.pc = "connecting" /\ y.pc = "calling"
  BY <1>1, <1>2, <1>4, <1>5, <1>7
<1>8. CASE /\ x.pc = "connecting" /\ y.pc = "paging" /\ y.pages = 0
           /\ x.what = Discovery => y.kind = "tools"
  <2>1. n = m
    BY <1>8 DEF m, n, ListsLeft
  <2>2. QED
    BY <1>1, <1>2, <1>4, <1>5, <1>8, <2>1
<1>9. CASE x.pc = "paging" /\ y.pc = "paging" /\ y.pages = x.pages + 1 /\ y.kind = x.kind
  <2>1. n = m
    BY <1>9 DEF m, n, ListsLeft
  <2>2. QED
    BY <1>1, <1>2, <1>4, <1>5, <1>9, <2>1
<1>10. CASE x.pc = "paging" /\ y.pc = "between" /\ y.kind = x.kind
  <2>1. n = m
    BY <1>10 DEF m, n, ListsLeft
  <2>2. QED
    BY <1>1, <1>2, <1>4, <1>5, <1>10, <2>1
<1>11. CASE /\ x.pc = "between" /\ x.kind \in {"tools", "resources", "templates"}
            /\ y.pc = "paging" /\ y.pages = 0 /\ y.kind = After(x.kind)
            /\ x.what = Discovery
  <2>1. n + 1 = m
    <3>1. y.what = Discovery /\ y.pc # "connecting" /\ x.pc # "connecting"
      BY <1>11
    <3>2. CASE x.kind = "tools"
      <4>1. y.kind = "resources"
        BY <1>11, <3>2 DEF After
      <4>2. QED
        BY <1>11, <3>1, <3>2, <4>1 DEF m, n, ListsLeft
    <3>3. CASE x.kind = "resources"
      <4>1. y.kind = "templates"
        BY <1>11, <3>3 DEF After
      <4>2. QED
        BY <1>11, <3>1, <3>3, <4>1 DEF m, n, ListsLeft
    <3>4. CASE x.kind = "templates"
      <4>1. y.kind = "prompts"
        BY <1>11, <3>4 DEF After
      <4>2. QED
        BY <1>11, <3>1, <3>4, <4>1 DEF m, n, ListsLeft
    <3>5. QED
      BY <1>11, <3>2, <3>3, <3>4
  <2>2. (n + 1) * P = n * P + P
    BY <1>1, <1>3, <1>11, MorePages DEF P
  <2>3. m * P = n * P + MaxPages + 1
    <3>1. m * P = n * P + P
      BY <2>1, <2>2
    <3>2. P = MaxPages + 1
      BY DEF P
    <3>3. n * P \in Nat
      BY <1>3, <1>11
    <3> DEFINE a == n * P
    <3>4. m * P = a + P /\ a \in Nat
      BY <3>1, <3>3
    <3> HIDE DEF a
    <3>5. m * P = a + MaxPages + 1
      BY <1>1, <3>2, <3>4
    <3>6. QED
      BY <3>5 DEF a
  <2>4. QED
    BY <1>1, <1>2, <1>3, <1>4, <1>5, <1>11, <2>3
<1>12. QED
  BY <1>6, <1>7, <1>8, <1>9, <1>10, <1>11 DEF Moves

(* What a step makes of the operation that takes it.                       *)
LEMMA NextPageMoves ==
  ASSUME Typed, NEW o \in Operations, NEW after \in {"between", "done"}, NextPage(o, after)
  PROVE  op'[o].what = op[o].what /\ Moves(op[o], op'[o]) /\ Turning(op'[o])
<1>1. op[o] \in Op /\ op[o].pc = "paging" /\ o \in DOMAIN op
  BY DEF Typed, TypeOK, NextPage
<1>2. PICK list, page, kept :
        /\ kept = [op[o] EXCEPT !.lists[op[o].kind] = Cut(list)]
        /\ op'[o] = IF GoesOn(o, list, page)
                    THEN [kept EXCEPT !.cursor = page.next, !.pages = Counted(@)]
                    ELSE [kept EXCEPT !.pc = after, !.ok = (after = "done")]
  BY <1>1 DEF NextPage
<1>3. /\ kept.what = op[o].what /\ kept.pages = op[o].pages /\ kept.kind = op[o].kind
      /\ kept.pc = "paging" /\ DOMAIN kept = DOMAIN op[o]
  BY <1>1, <1>2, OpIs
<1>4. DOMAIN kept = {"what", "pc", "kind", "cursor", "pages", "lists", "ok"}
  BY <1>1, <1>3, OpIs
<1>5. CASE GoesOn(o, list, page)
  <2>1. /\ op'[o].what = op[o].what /\ op'[o].pc = "paging" /\ op'[o].kind = op[o].kind
        /\ op'[o].pages = op[o].pages + 1
    BY <1>2, <1>3, <1>4, <1>5 DEF Counted
  <2>2. op[o].pages + 1 < MaxPages
    BY <1>5 DEF GoesOn, Counted
  <2>3. QED
    BY <1>1, <2>1, <2>2 DEF Moves, Turning
<1>6. CASE ~GoesOn(o, list, page)
  <2>1. /\ op'[o].what = op[o].what /\ op'[o].pc = after /\ op'[o].kind = op[o].kind
    BY <1>2, <1>3, <1>4, <1>6
  <2>2. QED
    BY <1>1, <2>1 DEF Moves, Turning
<1>7. QED
  BY <1>5, <1>6

LEMMA StepMoves ==
  ASSUME Typed, NEW o \in Operations, Step(o)
  PROVE  op'[o].what = op[o].what /\ Moves(op[o], op'[o]) /\ Turning(op'[o])
<1>1. op[o] \in Op /\ o \in DOMAIN op /\ Placed(op[o])
  BY DEF Typed, TypeOK, PlacedInv
<1>2. ASSUME op[o].pc \in {"connecting", "paging", "between", "calling"},
             op'[o] = Failed(o) \/ op'[o] = Finished(o)
      PROVE  op'[o].what = op[o].what /\ Moves(op[o], op'[o]) /\ Turning(op'[o])
  <2>1. op'[o].what = op[o].what /\ op'[o].pc = "done"
    BY <1>1, <1>2, OpIs DEF Failed, Finished
  <2>2. QED
    BY <1>2, <2>1 DEF Moves, Turning
<1>3. ASSUME NEW k \in Kinds,
             \/ op[o].pc = "connecting" /\ (op[o].what = Discovery => k = "tools")
             \/ /\ op[o].pc = "between" /\ op[o].what = Discovery
                /\ op[o].kind \in {"tools", "resources", "templates"} /\ k = After(op[o].kind),
             op'[o] = Paging(o, k)
      PROVE  op'[o].what = op[o].what /\ Moves(op[o], op'[o]) /\ Turning(op'[o])
  <2>1. /\ op'[o].what = op[o].what /\ op'[o].pc = "paging" /\ op'[o].pages = 0
        /\ op'[o].kind = k
    BY <1>1, <1>3, OpIs DEF Paging
  <2>2. QED
    BY <1>3, <2>1, LimitAssumption DEF Moves, Turning
<1>4. CASE NotConnected(o) \/ LosesList(o) \/ CallFails(o) \/ Reply(o)
  BY <1>1, <1>2, <1>4 DEF NotConnected, LosesList, CallFails, CallLost, Reply, Dropped
<1>5. CASE EndsList(o)
  <2>1. /\ op'[o].what = op[o].what /\ op[o].pc = "paging" /\ op'[o].pc = "between"
        /\ op'[o].kind = op[o].kind
    BY <1>1, <1>5, OpIs DEF EndsList
  <2>2. QED
    BY <2>1 DEF Moves, Turning
<1>6. CASE Send(o)
  <2>1. op'[o].what = op[o].what /\ op[o].pc = "connecting" /\ op'[o].pc = "calling"
    BY <1>1, <1>6, OpIs DEF Send
  <2>2. QED
    BY <2>1 DEF Moves, Turning
<1>7. CASE op[o].what \in Kinds /\ \E k \in Kinds : Listing(o, k)
  <2>1. PICK k \in Kinds : Listing(o, k)
    BY <1>7
  <2>2. CASE Connect(o, k)
    <3>1. op[o].pc = "connecting" /\ op'[o] = Paging(o, k)
      BY <1>1, <2>2 DEF Connect
    <3>2. op[o].what # Discovery
      BY <1>7, KindAssumption DEF Discovery
    <3>3. QED
      BY <1>3, <3>1, <3>2
  <2>3. CASE NextPage(o, "done")
    BY <2>3, NextPageMoves
  <2>4. QED
    BY <1>4, <2>1, <2>2, <2>3 DEF Listing
<1>8. CASE op[o].what = Discovery /\ DiscoverForward(o)
  <2>1. CASE Connect(o, "tools")
    <3>1. op[o].pc = "connecting" /\ op'[o] = Paging(o, "tools") /\ "tools" \in Kinds
      BY <1>1, <2>1, KindAssumption DEF Connect
    <3>2. QED
      BY <1>3, <3>1
  <2>2. CASE \E k \in Kinds : Discovering(o, k)
    <3>1. NextPage(o, "between") \/ EndsList(o)
      BY <2>2 DEF Discovering
    <3>2. QED
      BY <1>5, <3>1, NextPageMoves
  <2>3. CASE /\ op[o].pc = "between"
             /\ op' = [op EXCEPT ![o] = IF op[o].kind = "prompts" THEN Finished(o)
                                        ELSE Paging(o, After(op[o].kind))]
    <3>1. op[o].kind \in Kinds
      BY <1>1, <2>3 DEF Placed
    <3>2. CASE op[o].kind = "prompts"
      <4>1. op'[o] = Finished(o)
        BY <1>1, <2>3, <3>2
      <4>2. QED
        BY <1>2, <2>3, <4>1
    <3>3. CASE op[o].kind # "prompts"
      <4>1. op'[o] = Paging(o, After(op[o].kind))
        BY <1>1, <2>3, <3>3
      <4>2. op[o].kind \in {"tools", "resources", "templates"} /\ After(op[o].kind) \in Kinds
        BY <3>1, <3>3, KindAssumption DEF After
      <4>3. QED
        BY <1>3, <1>8, <2>3, <4>1, <4>2
    <3>4. QED
      BY <3>2, <3>3
  <2>4. "tools" \in Kinds /\ "resources" \in Kinds /\ "templates" \in Kinds /\ "prompts" \in Kinds
    BY KindAssumption
  <2>5. QED
    BY <1>4, <1>8, <2>1, <2>2, <2>3, <2>4 DEF DiscoverForward, DiscoverToolsOnSession,
       DiscoverResourcesOnSession, DiscoverResourceTemplatesOnSession, DiscoverPromptsOnSession
<1>9. CASE op[o].what \in Calls /\ Calling(o)
  BY <1>4, <1>6, <1>9 DEF Calling
<1>10. QED
  BY <1>7, <1>8, <1>9, StepIs DEF Calls

(* A step changes one operation.                                           *)
LEMMA StepAlone ==
  ASSUME Typed, NEW o \in Operations, Step(o), NEW q \in Operations \ {o}
  PROVE  op'[q] = op[q]
<1>1. (\E x : op' = [op EXCEPT ![o] = x]) \/ op' = [op EXCEPT ![o].pc = "between"]
      \/ op' = [op EXCEPT ![o].pc = "calling"]
  BY StepIs DEF Listing, Discovering, DiscoverForward, DiscoverToolsOnSession,
     DiscoverResourcesOnSession, DiscoverResourceTemplatesOnSession, DiscoverPromptsOnSession,
     Calling, Connect, NotConnected, NextPage, LosesList, EndsList, Send, Reply, CallFails
<1>2. QED
  BY <1>1 DEF Typed, TypeOK

LEMMA TurningInit == Init => TurningInv
  BY DEF Init, TurningInv, Turning, NoOp, NewOp

LEMMA TurningNext ==
  ASSUME Typed, TurningInv, [Next]_vars
  PROVE  TurningInv'
<1> SUFFICES ASSUME NEW q \in Operations
             PROVE  Turning(op'[q])
  BY DEF TurningInv
<1>1. Turning(op[q])
  BY DEF TurningInv
<1>2. CASE UNCHANGED vars
  BY <1>1, <1>2 DEF vars
<1>3. ASSUME NEW o \in Operations, NEW w \in DOMAIN Lists, Begin(o, w)
      PROVE  Turning(op'[q])
  <2>1. op'[q] = op[q] \/ op'[q] = NewOp(w)
    BY <1>3 DEF Begin, Typed, TypeOK
  <2>2. QED
    BY <1>1, <2>1 DEF NewOp, Turning
<1>4. ASSUME NEW o \in Operations, Step(o)
      PROVE  Turning(op'[q])
  BY <1>1, <1>4, StepMoves, StepAlone
<1>5. ASSUME NEW o \in Operations, Execute(o)
      PROVE  Turning(op'[q])
  BY <1>1, <1>5 DEF Execute
<1>6. QED
  BY <1>2, <1>3, <1>4, <1>5 DEF Next

\* Every step of an operation leaves it fewer steps to its end, so that one that is
\* never left waiting ends, on a server that never stops naming a next page as well
\* (the loop over MAX_PAGES of each list, discover_forward).
THEOREM OperationsRunOut == Spec => StepsRunOut
<1> DEFINE Less == \A o \in Operations : op[o].pc # "idle" =>
                     IF Step(o) THEN StepsLeft(op'[o]) \in 0..(StepsLeft(op[o]) - 1)
                     ELSE op'[o] = op[o]
<1>1. Typed /\ TurningInv /\ [Next]_vars => Typed' /\ TurningInv'
  BY NextType, TurningNext
<1>2. ASSUME Typed, TurningInv, [Next]_vars
      PROVE  [Less]_vars
  <2> SUFFICES ASSUME Next, NEW q \in Operations, op[q].pc # "idle"
               PROVE  IF Step(q) THEN StepsLeft(op'[q]) \in 0..(StepsLeft(op[q]) - 1)
                      ELSE op'[q] = op[q]
    BY <1>2
  <2>1. CASE Step(q)
    <3>1. /\ op[q] \in Op /\ Placed(op[q]) /\ Turning(op[q])
          /\ op'[q] \in Op /\ Placed(op'[q])
      BY <1>2, NextType DEF Typed, TypeOK, PlacedInv, TurningInv
    <3>2. op'[q].what = op[q].what /\ Moves(op[q], op'[q]) /\ Turning(op'[q])
      BY <1>2, <2>1, StepMoves
    <3>3. QED
      BY <2>1, <3>1, <3>2, MovesCount
  <2>2. CASE ~Step(q)
    <3>1. ASSUME NEW o \in Operations, NEW w \in DOMAIN Lists, Begin(o, w)
          PROVE  op'[q] = op[q]
      BY <1>2, <3>1 DEF Begin, Typed, TypeOK
    <3>2. ASSUME NEW o \in Operations, Step(o)
          PROVE  op'[q] = op[q]
      BY <1>2, <2>2, <3>2, StepAlone
    <3>3. ASSUME NEW o \in Operations, Execute(o)
          PROVE  op'[q] = op[q]
      BY <3>3 DEF Execute
    <3>4. QED
      BY <2>2, <3>1, <3>2, <3>3 DEF Next
  <2>3. QED
    BY <2>1, <2>2
<1>3. QED
  BY InitType, TurningInit, <1>1, <1>2, PTL DEF Spec, StepsRunOut
=============================================================================
