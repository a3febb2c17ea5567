--------------------------- MODULE Gateway_proofs ---------------------------
(***************************************************************************)
(* Theorems about Gateway, for any requests, entries, headers and edits:   *)
(* the type invariant; nothing from elsewhere is listed or called; what    *)
(* goes upstream is what is allowed; a copy of a tool keeps what was last  *)
(* registered; what is listed is found; a read goes where it was asked to, *)
(* or is refused when there is nothing to be read, for templates and URIs  *)
(* of any length; no request is ever left without a step.                  *)
(***************************************************************************)
EXTENDS Gateway, NumberFacts, SequenceTheorems

Fields == {"pc", "shape", "at", "method", "name", "ns", "todo", "found", "scope", "chosen", "copy",
           "copies", "sent", "shown", "resp", "from", "until", "seen"}
IsReq(x) == x = [f \in Fields |-> x[f]]

Pcs  == {"idle", "filter", "choosing", "copying", "awaiting", "token", "done"}

Kind(x)  == KindOf(x.method)
There(x) == {item \in x.seen : item.entry.ns = x.ns}
Items(x) == {item \in There(x) : item = Item(item.name, item.entry)}
NamesOf(items) == {item.name : item \in items}

-----------------------------------------------------------------------------
(* The invariant of one request.                                           *)

(* What it sends: an entry of its namespace, with what SentAsAllowed says. *)
Allowed(x) ==
  /\ x.sent.headers \subseteq x.shape.headers \ Denied
  /\ x.sent.headers \subseteq GlobalHeaders \cup x.sent.entry.allow
  /\ Kind(x) # "resources" =>
       \A a \in Args \ {RequestId} : x.sent.args[a] = "caller" <=> a \in x.shape.args
  /\ Kind(x) = "tools" => x.sent.args[RequestId] # "caller"
  /\ \A a \in Args : x.sent.args[a] = "header" => HeaderOf[a] \in x.sent.headers

SentWell(x) ==
  /\ Item(x.sent.name, x.sent.entry) \in There(x)
  /\ x.sent.args \in [Args -> {"caller", "header", "absent"}]
  /\ x.sent.headers \subseteq Headers
  /\ Allowed(x)

(* Where it is in the chain: a filter that acts on its method, and only    *)
(* the filters that go through the registry have found anything.           *)
Placed(x, q) ==
  /\ x.pc \in Pcs
  /\ x.ns \in Namespaces \cup {None} /\ x.method \in Methods \cup {None}
  /\ x.copies \in 0..MaxCopies[q] /\ (x.pc = "copying" => x.copies < MaxCopies[q])
  /\ x.shape \in Shapes[q] \cup {None}
  /\ x.pc # "idle" => x.shape \in Shapes[q]
  /\ x.pc \in {"filter", "copying"} /\ x.at \in DOMAIN Chain =>
       x.method \in ActsOn[Chain[x.at]]
  /\ x.pc \notin {"idle", "done"} => x.at \in 1..11
  /\ x.found # <<>> => x.pc = "filter" /\ x.at \in DOMAIN Chain /\ Chain[x.at] \in Scanning
  /\ x.pc = "choosing" => x.method = "tools/list"
  /\ x.pc # "idle" => x.todo \subseteq IF Kind(x) = None THEN {} ELSE Names[Kind(x)]

(* What NothingFromElsewhere says of what it shows.                        *)
ShownWell(x) ==
  /\ x.shown \subseteq x.seen
  /\ x.scope = None => x.shown \subseteq There(x)
  /\ x.scope = "namespace" => NamesOf(x.shown) \subseteq NamesOf(There(x))

(* What it has found, chosen, shown and answered.                          *)
Fair(x) ==
  /\ x.found \in Seq(Items(x))
  /\ x.sent # None => x.pc = "awaiting"
  /\ x.pc = "awaiting" => SentWell(x)
  /\ x.pc = "choosing" => x.scope \in {"namespace", "any"}
  /\ x.pc = "choosing" /\ x.scope = "namespace" => x.chosen \subseteq NamesOf(There(x))
  /\ x.shown # {} => x.pc = "done"
  /\ ShownWell(x)
  /\ x.resp \in Responses \cup {None} /\ (x.resp # None <=> x.pc = "done")
  /\ x.pc = "copying" => x.copy \in Copy

Good(x, q) == IsReq(x) /\ Placed(x, q) /\ Fair(x)

Same(e, l) == IF e = None \/ l = None THEN e = l ELSE e = [l EXCEPT !.ns = e.ns]

(* What it shares with the registry: it has seen what is there, its copy   *)
(* is that of the latest registration, unless it is outdated.              *)
Linked(x) ==
  /\ x.pc \notin {"idle", "done"} /\ Kind(x) # None =>
       \A n \in Present(Kind(x)) : Item(n, entries[Kind(x)][n]) \in x.seen
  /\ x.pc = "copying" /\ ~x.copy.outdated /\ x.copy.name \notin crossed =>
       Same(x.copy.entry, latest[x.copy.name])
  /\ x.from \in 0..edits /\ x.until \in 0..edits

Stored ==
  /\ DOMAIN entries = Kinds
  /\ \A kind \in Kinds : entries[kind] \in [Names[kind] -> Entry \cup {None}]
  /\ latest \in [Names["tools"] -> Entry \cup {None}]
  /\ crossed \subseteq Names["tools"]
  /\ edits \in Nat
  /\ DOMAIN req = Requests

Inv ==
  /\ Stored
  /\ \A q \in Requests : Good(req[q], q) /\ Linked(req[q])
  /\ \A n \in Names["tools"] \ crossed : Same(entries["tools"][n], latest[n])

-----------------------------------------------------------------------------
(* The chain.                                                              *)

LEMMA ChainIs == DOMAIN Chain = 1..11 /\ Len(Chain) = 11
  BY DEF Chain

LEMMA Filters ==
  /\ Chain[11] = "static_response"
  /\ \A i \in 1..11 : /\ Chain[i] # "static_response" => i \in 1..10
                      /\ Chain[i] \in DOMAIN ActsOn
<1>1. /\ Chain[1] = "wanaku_namespace" /\ Chain[2] = "wanaku_well_known"
      /\ Chain[3] = "wanaku_mcp_init" /\ Chain[4] = "wanaku_evaluator"
      /\ Chain[5] = "wanaku_tool_list" /\ Chain[6] = "wanaku_tool_call"
      /\ Chain[7] = "wanaku_resource_list" /\ Chain[8] = "wanaku_resource_read"
      /\ Chain[9] = "wanaku_prompt_list" /\ Chain[10] = "wanaku_prompt_get"
      /\ Chain[11] = "static_response"
  BY DEF Chain
<1>2. DOMAIN ActsOn =
        {"wanaku_namespace", "wanaku_well_known", "wanaku_mcp_init", "wanaku_evaluator",
         "wanaku_tool_list", "wanaku_tool_call", "wanaku_resource_list", "wanaku_resource_read",
         "wanaku_prompt_list", "wanaku_prompt_get", "static_response"}
  BY DEF ActsOn
<1>3. \A i \in 1..11 : i \in {1, 2, 3, 4, 5, 6, 7, 8, 9, 10, 11}
  OBVIOUS
<1>4. \A i \in 1..11 : Chain[i] # "static_response" => i \in 1..10
  BY <1>1, <1>3
<1>5. \A i \in 1..11 : Chain[i] \in DOMAIN ActsOn
  BY <1>1, <1>2, <1>3
<1>6. QED
  BY <1>1, <1>4, <1>5

(* Whatever the method, there is a filter further down that acts on it.    *)
LEMMA NextIs ==
  ASSUME NEW x, x.at \in 0..10, x.method \in Methods \cup {None}
  PROVE  /\ NextFilter(x) \in 1..11 /\ NextFilter(x) \in DOMAIN Chain
         /\ x.method \in ActsOn[Chain[NextFilter(x)]]
<1> DEFINE acting == {i \in DOMAIN Chain : i > x.at /\ x.method \in ActsOn[Chain[i]]}
<1>1. acting \subseteq 1..11
  BY ChainIs
<1>2. 11 \in acting
  <2>1. ActsOn["static_response"] = Methods \cup {None}
    BY DEF ActsOn
  <2>2. QED
    BY <2>1, ChainIs, Filters
<1>3. \E i \in acting : \A j \in acting : i <= j
  <2>1. acting \subseteq Nat /\ acting # {}
    BY <1>1, <1>2
  <2>2. QED
    BY <2>1, Least
<1>4. NextFilter(x) = CHOOSE i \in acting : \A j \in acting : i <= j
  BY <1>2 DEF NextFilter
<1>5. NextFilter(x) \in acting
  BY <1>3, <1>4
<1>6. QED
  BY <1>1, <1>5

LEMMA KindIs ==
  ASSUME NEW method
  PROVE  /\ KindOf(method) \in Kinds \cup {None}
         /\ (KindOf(method) = "tools" <=> method \in {"tools/list", "tools/call"})
         /\ None \notin Kinds
<1>1. None \notin Kinds
  BY NoneAssumption DEF Responses
<1>2. QED
  BY <1>1 DEF KindOf, Kinds
-----------------------------------------------------------------------------
(* Steps of one request.                                                   *)

(* A request that has found nothing yet, and one that may go on: what it   *)
(* is to go through, and has seen, is that of its method.                  *)
Bare(m, q) ==
  /\ IsReq(m) /\ m.pc = "filter" /\ m.at \in 0..10 /\ m.found = <<>> /\ m.shape \in Shapes[q]
  /\ m.ns \in Namespaces \cup {None} /\ m.method \in Methods \cup {None}
  /\ m.copies \in 0..MaxCopies[q] /\ m.sent = None /\ m.shown = {} /\ m.resp = None
  /\ m.from \in 0..edits /\ m.until \in 0..edits

Movable(m, q) ==
  /\ Bare(m, q)
  /\ m.todo \subseteq IF Kind(m) = None THEN {} ELSE Names[Kind(m)]
  /\ Kind(m) # None => \A n \in Present(Kind(m)) : Item(n, entries[Kind(m)][n]) \in m.seen

(* Going on to the next filter.                                            *)
LEMMA ContinueGood ==
  ASSUME NEW q \in Requests, NEW m, Movable(m, q)
  PROVE  LET y == [m EXCEPT !.at = NextFilter(m)]
         IN Good(y, q) /\ Linked(y)
<1> DEFINE next == NextFilter(m)
           y    == [m EXCEPT !.at = next]
<1>1. next \in 1..11 /\ m.method \in ActsOn[Chain[next]]
  BY NextIs DEF Movable, Bare
<1>2. Bare(m, q)
  BY DEF Movable
<1> HIDE DEF next
<1>3. /\ IsReq(y) /\ y.at = next
      /\ \A f \in Fields : f # "at" => y[f] = m[f]
  BY <1>2 DEF Bare, IsReq, Fields
<1> HIDE DEF y
<1>4. /\ y.pc = "filter" /\ y.shape = m.shape /\ y.found = <<>> /\ y.todo = m.todo
      /\ y.ns = m.ns /\ y.method = m.method /\ y.copies = m.copies /\ y.sent = None
      /\ y.shown = {} /\ y.resp = None /\ y.seen = m.seen /\ y.from = m.from
      /\ y.until = m.until
  BY <1>2, <1>3 DEF Bare, Fields
<1>5. Placed(y, q)
  BY <1>1, <1>2, <1>3, <1>4 DEF Movable, Bare, Placed, Pcs, Kind
<1>6. Fair(y)
  <2>1. <<>> \in Seq(Items(y))
    BY EmptySeq
  <2>2. ShownWell(y)
    BY <1>4 DEF ShownWell, NamesOf
  <2>3. QED
    BY <1>4, <2>1, <2>2 DEF Fair
<1>7. Linked(y)
  BY <1>2, <1>4 DEF Movable, Bare, Linked, Kind
<1>8. QED
  BY <1>3, <1>5, <1>6, <1>7 DEF Good, y, next

(* The request becomes one of that method.                                 *)
LEMMA AsIs ==
  ASSUME NEW q \in Requests, NEW x, Bare(x, q), NEW method \in Methods \cup {None}
  PROVE  LET m == As(x, method)
         IN /\ Movable(m, q) /\ m.method = method
            /\ \A f \in Fields : f \notin {"method", "todo", "seen"} => m[f] = x[f]
<1> DEFINE kind == KindOf(method)
           todo == IF kind = None THEN {} ELSE Names[kind]
           seen == IF kind = None THEN {} ELSE {Item(n, entries[kind][n]) : n \in Present(kind)}
           m == [x EXCEPT !.method = method, !.todo = todo, !.seen = seen]
<1>1. /\ kind # None => seen = {Item(n, entries[kind][n]) : n \in Present(kind)}
      /\ todo = IF kind = None THEN {} ELSE Names[kind]
  OBVIOUS
<1>2. As(x, method) = m
  BY DEF As
<1> HIDE DEF todo, seen
<1>3. /\ IsReq(m) /\ m.method = method /\ m.todo = todo /\ m.seen = seen
      /\ \A f \in Fields : f \notin {"method", "todo", "seen"} => m[f] = x[f]
  BY DEF Bare, IsReq, Fields
<1> HIDE DEF m
<1>4. Bare(m, q)
  BY <1>3 DEF Bare, Fields
<1>5. Movable(m, q)
  BY <1>1, <1>3, <1>4 DEF Movable, Kind
<1>6. QED
  BY <1>2, <1>3, <1>5

(* An answer.                                                              *)
LEMMA RespondGood ==
  ASSUME NEW q \in Requests, NEW x, IsReq(x), NEW resp \in Responses,
         x.shape \in Shapes[q], x.ns \in Namespaces \cup {None},
         x.method \in Methods \cup {None}, ShownWell(x)
  PROVE  LET y == [x EXCEPT !.pc = "done", !.resp = resp, !.until = edits, !.todo = {},
                     !.found = <<>>, !.chosen = {}, !.copy = None, !.copies = 0, !.sent = None,
                     !.seen = IF x.shown = {} THEN {} ELSE @]
         IN Good(y, q) /\ y.pc = "done" /\ y.from = x.from /\ y.until = edits
<1> DEFINE y == [x EXCEPT !.pc = "done", !.resp = resp, !.until = edits, !.todo = {},
                   !.found = <<>>, !.chosen = {}, !.copy = None, !.copies = 0, !.sent = None,
                   !.seen = IF x.shown = {} THEN {} ELSE @]
<1>1. /\ IsReq(y) /\ y.pc = "done" /\ y.resp = resp /\ y.sent = None /\ y.shape = x.shape
      /\ y.ns = x.ns /\ y.shown = x.shown /\ y.scope = x.scope /\ y.from = x.from
      /\ y.until = edits /\ y.todo = {} /\ y.found = <<>> /\ y.method = x.method
      /\ y.copies = 0
      /\ y.shown # {} => y.seen = x.seen
  BY DEF IsReq, Fields
<1> HIDE DEF y
<1>2. Placed(y, q)
  <2>1. 0 \in 0..MaxCopies[q]
    BY EditAssumption
  <2>2. QED
    BY <1>1, <2>1 DEF Placed, Pcs
<1>3. Fair(y)
  <2>1. ShownWell(y)
    <3>1. CASE y.shown = {}
      BY <3>1 DEF ShownWell, NamesOf
    <3>2. CASE y.shown # {}
      <4>1. There(y) = There(x)
        BY <1>1, <3>2 DEF There
      <4>2. QED
        BY <1>1, <3>2, <4>1 DEF ShownWell
    <3>3. QED
      BY <3>1, <3>2
  <2>2. <<>> \in Seq(Items(y))
    BY EmptySeq
  <2>3. resp # None
    BY NoneAssumption
  <2>4. QED
    BY <1>1, <2>1, <2>2, <2>3 DEF Fair
<1>4. QED
  BY <1>1, <1>2, <1>3 DEF Good, y

-----------------------------------------------------------------------------
(* A step that changes one request, and nothing else.                      *)

LEMMA GoodNext ==
  ASSUME NEW q \in Requests, Good(req'[q], q)
  PROVE  Good(req[q], q)'
  BY DEF Good, IsReq, Fields, Placed, Pcs, Kind, KindOf, There, Items, Fair, SentWell, Allowed,
         ShownWell,
         NamesOf, Item, Responses, Kinds, Copy, Entry, Chain, ActsOn, Scanning, Methods

LEMMA LinkedNext ==
  ASSUME NEW q \in Requests, Linked(req'[q]), UNCHANGED <<entries, edits, latest, crossed>>
  PROVE  Linked(req[q])'
  BY DEF Linked, Present, Item, Same, Kind, KindOf

LEMMA BecomeInv ==
  ASSUME Inv, NEW q \in Requests, NEW y, Good(y, q), Linked(y),
         req' = [req EXCEPT ![q] = y], UNCHANGED <<entries, edits, latest, crossed>>
  PROVE  Inv'
<1>1. DOMAIN req = Requests
  BY DEF Inv, Stored
<1>2. req'[q] = y /\ \A p \in Requests : p # q => req'[p] = req[p]
  BY <1>1
<1>3. \A p \in Requests : Good(req[p], p) /\ Linked(req[p])
  BY DEF Inv
<1>4. \A p \in Requests : Good(req'[p], p) /\ Linked(req'[p])
  BY <1>2, <1>3
<1>5. \A p \in Requests : Good(req[p], p)' /\ Linked(req[p])'
  BY <1>4, GoodNext, LinkedNext
<1>6. Stored'
  BY <1>1 DEF Inv, Stored, Kinds, Entry
<1>7. (\A n \in Names["tools"] \ crossed : Same(entries["tools"][n], latest[n]))'
  BY DEF Inv, Same
<1>8. QED
  BY <1>5, <1>6, <1>7 DEF Inv

LEMMA RequestIs ==
  ASSUME Inv, NEW q \in Requests, req[q].pc # "idle"
  PROVE  /\ Good(req[q], q) /\ Linked(req[q]) /\ IsReq(req[q])
         /\ req[q].shape \in Shapes[q] /\ req[q].ns \in Namespaces \cup {None}
         /\ req[q].method \in Methods \cup {None} /\ req[q].copies \in 0..MaxCopies[q]
         /\ ShownWell(req[q])
         /\ req[q].from \in 0..edits /\ req[q].until \in 0..edits
<1>1. Good(req[q], q) /\ Linked(req[q])
  BY DEF Inv
<1>2. QED
  BY <1>1 DEF Good, Placed, Fair, Linked

LEMMA AtIs ==
  ASSUME Inv, NEW q \in Requests, NEW filter, At(q, filter)
  PROVE  /\ req[q].pc = "filter" /\ req[q].pc # "idle" /\ req[q].method \in ActsOn[filter]
         /\ filter \notin Scanning => req[q].found = <<>>
<1>1. req[q].pc = "filter" /\ req[q].at \in DOMAIN Chain /\ Chain[req[q].at] = filter
  BY DEF At
<1>2. Placed(req[q], q)
  BY DEF Inv, Good
<1>3. QED
  BY <1>1, <1>2 DEF Placed

LEMMA RespondInv ==
  ASSUME Inv, NEW q \in Requests, NEW x, IsReq(x), NEW resp \in Responses,
         x.shape \in Shapes[q], x.ns \in Namespaces \cup {None},
         x.method \in Methods \cup {None}, ShownWell(x), x.from \in 0..edits, Respond(q, x, resp)
  PROVE  Inv'
<1> DEFINE y == [x EXCEPT !.pc = "done", !.resp = resp, !.until = edits, !.todo = {},
                   !.found = <<>>, !.chosen = {}, !.copy = None, !.copies = 0, !.sent = None,
                   !.seen = IF x.shown = {} THEN {} ELSE @]
<1>1. Good(y, q) /\ y.pc = "done" /\ y.from = x.from /\ y.until = edits
  BY RespondGood
<1>2. req' = [req EXCEPT ![q] = y] /\ UNCHANGED <<entries, edits, latest, crossed>>
  BY DEF Respond, Become
<1> HIDE DEF y
<1>3. Linked(y)
  <2>1. edits \in Nat
    BY DEF Inv, Stored
  <2>2. QED
    BY <1>1, <2>1 DEF Linked
<1>4. QED
  BY <1>1, <1>2, <1>3, BecomeInv

(* The request answers as it is.                                           *)
LEMMA AnswerInv ==
  ASSUME Inv, NEW q \in Requests, req[q].pc # "idle", NEW resp \in Responses,
         Respond(q, req[q], resp)
  PROVE  Inv'
  BY RequestIs, RespondInv

LEMMA ContinueInv ==
  ASSUME Inv, NEW q \in Requests, NEW m, Movable(m, q), Continue(q, m)
  PROVE  Inv'
<1> DEFINE y == [m EXCEPT !.at = NextFilter(m)]
<1>1. Good(y, q) /\ Linked(y)
  BY ContinueGood
<1>2. req' = [req EXCEPT ![q] = y] /\ UNCHANGED <<entries, edits, latest, crossed>>
  BY DEF Continue, Become
<1> HIDE DEF y
<1>3. QED
  BY <1>1, <1>2, BecomeInv

(* A request that has not found anything may go on, as it is or with       *)
(* another name or namespace.                                              *)
LEMMA ReqMovable ==
  ASSUME Inv, NEW q \in Requests, NEW filter, At(q, filter),
         filter \notin Scanning \cup {"static_response"}
  PROVE  Movable(req[q], q) /\ Bare(req[q], q) /\ IsReq(req[q])
<1>1. req[q].pc = "filter" /\ req[q].found = <<>>
  BY AtIs
<1>2. Good(req[q], q) /\ Linked(req[q])
  BY <1>1, RequestIs
<1>3. req[q].at \in 0..10
  BY <1>1, <1>2, Filters DEF Good, Placed, At
<1>4. QED
  BY <1>1, <1>2, <1>3 DEF Good, Placed, Fair, Linked, Movable, Bare

LEMMA RenamedMovable ==
  ASSUME NEW q \in Requests, NEW x, Movable(x, q), NEW m, IsReq(m),
         \A f \in Fields : f \notin {"ns", "name"} => m[f] = x[f],
         m.ns \in Namespaces \cup {None}
  PROVE  Movable(m, q)
<1>1. Bare(m, q) /\ m.method = x.method /\ m.todo = x.todo /\ m.seen = x.seen
  BY DEF Movable, Bare, Fields
<1>2. QED
  BY <1>1 DEF Movable, Kind

LEMMA WithNs ==
  ASSUME NEW q \in Requests, NEW x, Movable(x, q), NEW ns \in Namespaces \cup {None}
  PROVE  Movable([x EXCEPT !.ns = ns], q)
<1> DEFINE m == [x EXCEPT !.ns = ns]
<1>1. IsReq(m) /\ m.ns = ns /\ \A f \in Fields : f # "ns" => m[f] = x[f]
  BY DEF Movable, Bare, IsReq, Fields
<1> HIDE DEF m
<1>2. Movable(m, q)
  BY <1>1, RenamedMovable
<1>3. QED
  BY <1>2 DEF m

LEMMA WithName ==
  ASSUME NEW q \in Requests, NEW x, Movable(x, q), NEW n
  PROVE  Movable([x EXCEPT !.name = n], q)
<1> DEFINE m == [x EXCEPT !.name = n]
<1>1. /\ IsReq(m) /\ m.ns = x.ns /\ m.ns \in Namespaces \cup {None}
      /\ \A f \in Fields : f # "name" => m[f] = x[f]
  BY DEF Movable, Bare, IsReq, Fields
<1> HIDE DEF m
<1>2. Movable(m, q)
  BY <1>1, RenamedMovable
<1>3. QED
  BY <1>2 DEF m

LEMMA NamespaceStep ==
  ASSUME Inv, NEW q \in Requests, Namespace(q)
  PROVE  Inv'
<1> DEFINE x == req[q]
<1>1. /\ x.pc = "filter" /\ x.pc # "idle" /\ x.found = <<>>
  BY AtIs DEF Namespace, Scanning
<1>2. Movable(x, q) /\ x.shape \in Shapes[q]
  BY <1>1, ReqMovable, RequestIs DEF Namespace, Scanning
<1>3. x.shape.path \in Namespaces \cup {None}
  BY <1>2, ShapeAssumption
<1>4. \/ Continue(q, [x EXCEPT !.ns = x.shape.path])
      \/ Respond(q, x, "-32600")
      \/ Continue(q, x)
  BY DEF Namespace
<1>5. "-32600" \in Responses
  BY DEF Responses
<1>6. Movable([x EXCEPT !.ns = x.shape.path], q)
  BY <1>2, <1>3, WithNs
<1>7. QED
  BY <1>1, <1>2, <1>4, <1>5, <1>6, ContinueInv, AnswerInv

LEMMA WellKnownStep ==
  ASSUME Inv, NEW q \in Requests, WellKnown(q)
  PROVE  Inv'
<1> DEFINE x == req[q]
<1>1. /\ x.pc = "filter" /\ x.pc # "idle" /\ x.found = <<>>
  BY AtIs DEF WellKnown, Scanning
<1>2. /\ IsReq(x) /\ x.shape \in Shapes[q] /\ x.ns \in Namespaces \cup {None}
      /\ Good(x, q) /\ Linked(x)
  BY <1>1, RequestIs
<1>3. CASE Continue(q, x)
  <2>1. Movable(x, q)
    BY ReqMovable DEF WellKnown, Scanning
  <2>2. QED
    BY <1>3, <2>1, ContinueInv
<1>4. CASE Respond(q, x, "metadata")
  <2>1. "metadata" \in Responses
    BY DEF Responses
  <2>2. QED
    BY <1>1, <1>4, <2>1, AnswerInv
<1>5. CASE x.shape.url \notin {"metadata", None, "token"} /\ Respond(q, x, x.shape.url)
  <2>1. x.shape.url \in Responses
    BY <1>2, <1>5, ShapeAssumption DEF Responses
  <2>2. QED
    BY <1>1, <1>5, <2>1, AnswerInv
<1>6. CASE Become(q, [x EXCEPT !.pc = "token"])
  <2> DEFINE y == [x EXCEPT !.pc = "token"]
  <2>1. /\ IsReq(y) /\ y.pc = "token" /\ \A f \in Fields : f # "pc" => y[f] = x[f]
    BY <1>2 DEF IsReq, Fields
  <2>2. req' = [req EXCEPT ![q] = y] /\ UNCHANGED <<entries, edits, latest, crossed>>
    BY <1>6 DEF Become
  <2> HIDE DEF y
  <2>3. /\ y.shape = x.shape /\ y.method = x.method /\ y.copies = x.copies /\ y.at = x.at
        /\ y.found = <<>> /\ y.todo = x.todo /\ y.ns = x.ns
        /\ y.sent = x.sent /\ y.shown = x.shown /\ y.resp = x.resp /\ y.seen = x.seen
        /\ y.from = x.from /\ y.until = x.until
    BY <1>1, <2>1 DEF Fields
  <2>4. Placed(y, q)
    BY <1>1, <1>2, <2>1, <2>3 DEF Good, Placed, Pcs, Kind
  <2>5. Fair(y)
    <3>1. <<>> \in Seq(Items(y))
      BY EmptySeq
    <3>2. ShownWell(y)
      BY <1>1, <1>2, <2>3 DEF Good, Fair, ShownWell, NamesOf
    <3>3. QED
      BY <1>1, <1>2, <2>1, <2>3, <3>1, <3>2 DEF Good, Fair
  <2>6. Linked(y)
    BY <1>1, <1>2, <2>1, <2>3 DEF Linked, Kind
  <2>7. QED
    BY <2>1, <2>2, <2>4, <2>5, <2>6, BecomeInv DEF Good
<1>7. QED
  BY <1>3, <1>4, <1>5, <1>6 DEF WellKnown

(* Steps that only answer.                                                 *)
LEMMA AnswerSteps ==
  ASSUME Inv, NEW q \in Requests,
         \/ TokenProxied(q) \/ McpInit(q) \/ EvaluatorRejects(q)
         \/ UpstreamAnswers(q) \/ StaticResponse(q)
  PROVE  Inv'
<1>1. CASE TokenProxied(q)
  <2>1. req[q].pc # "idle" /\ \E resp \in {"token", "unavailable"} : Respond(q, req[q], resp)
    BY <1>1 DEF TokenProxied
  <2>2. {"token", "unavailable"} \subseteq Responses
    BY DEF Responses
  <2>3. QED
    BY <2>1, <2>2, AnswerInv
<1>2. CASE McpInit(q)
  <2>1. At(q, "wanaku_mcp_init") /\ Respond(q, req[q], req[q].method)
    BY <1>2 DEF McpInit
  <2>2. req[q].pc # "idle" /\ req[q].method \in ActsOn["wanaku_mcp_init"]
    BY <2>1, AtIs
  <2>3. req[q].method \in Responses
    BY <2>2 DEF ActsOn, Responses
  <2>4. QED
    BY <2>1, <2>2, <2>3, AnswerInv
<1>3. CASE EvaluatorRejects(q)
  <2>1. At(q, "wanaku_evaluator")
    BY <1>3 DEF EvaluatorRejects, Evaluates
  <2>2. req[q].pc # "idle"
    BY <2>1, AtIs
  <2>3. {"-32001", "-32002", "-32603"} \subseteq Responses
    BY DEF Responses
  <2>4. QED
    BY <1>3, <2>2, <2>3, AnswerInv DEF EvaluatorRejects
<1>4. CASE UpstreamAnswers(q)
  <2>1. req[q].pc # "idle" /\ \E resp \in {"result", "-32603"} : Respond(q, req[q], resp)
    BY <1>4 DEF UpstreamAnswers
  <2>2. {"result", "-32603"} \subseteq Responses
    BY DEF Responses
  <2>3. QED
    BY <2>1, <2>2, AnswerInv
<1>5. CASE StaticResponse(q)
  <2>1. req[q].pc # "idle" /\ Respond(q, req[q], "-32601")
    BY <1>5, AtIs DEF StaticResponse
  <2>2. "-32601" \in Responses
    BY DEF Responses
  <2>3. QED
    BY <2>1, <2>2, AnswerInv
<1>6. QED
  BY <1>1, <1>2, <1>3, <1>4, <1>5

LEMMA EvaluatorGoesOnStep ==
  ASSUME Inv, NEW q \in Requests, EvaluatorPasses(q) \/ SetMetadata(q)
  PROVE  Inv'
<1> DEFINE x == req[q]
<1>2. Movable(x, q) /\ Bare(x, q)
  BY ReqMovable DEF EvaluatorPasses, SetMetadata, Evaluates, Scanning
<1>3. CASE EvaluatorPasses(q)
  BY <1>2, <1>3, ContinueInv DEF EvaluatorPasses
<1>4. ASSUME NEW ns \in Namespaces, Continue(q, [x EXCEPT !.ns = ns])
      PROVE  Inv'
  <2>1. Movable([x EXCEPT !.ns = ns], q)
    BY <1>2, WithNs
  <2>2. QED
    BY <1>4, <2>1, ContinueInv
<1>5. ASSUME NEW method \in Overrides, Continue(q, As(x, method))
      PROVE  Inv'
  <2>1. method \in Methods \cup {None}
    BY MethodAssumption
  <2>2. Movable(As(x, method), q)
    BY <1>2, <2>1, AsIs
  <2>3. QED
    BY <1>5, <2>2, ContinueInv
<1>6. ASSUME NEW n \in Names["tools"], Continue(q, [x EXCEPT !.name = n])
      PROVE  Inv'
  <2>1. Movable([x EXCEPT !.name = n], q)
    BY <1>2, WithName
  <2>2. QED
    BY <1>6, <2>1, ContinueInv
<1>7. QED
  BY <1>3, <1>4, <1>5, <1>6 DEF SetMetadata

(* The names that a processor picks in the namespace of the request are    *)
(* those of tools that the request has seen there.                         *)
LEMMA ChooseToolsStep ==
  ASSUME Inv, NEW q \in Requests, NEW scope \in {"namespace", "any"},
         NEW names \in SUBSET Names["tools"], ChooseTools(q, scope, names)
  PROVE  Inv'
<1> DEFINE x == req[q]
           y == [x EXCEPT !.pc = "choosing", !.scope = scope, !.chosen = names]
<1>1. x.pc = "filter" /\ x.pc # "idle" /\ x.found = <<>> /\ x.method = "tools/list"
  BY AtIs DEF ChooseTools, Evaluates, Scanning
<1>2. Good(x, q) /\ Linked(x) /\ IsReq(x)
  BY <1>1, RequestIs
<1>3. req' = [req EXCEPT ![q] = y] /\ UNCHANGED <<entries, edits, latest, crossed>>
  BY DEF ChooseTools, Become
<1>4. /\ IsReq(y) /\ y.pc = "choosing" /\ y.scope = scope /\ y.chosen = names
      /\ \A f \in Fields : f \notin {"pc", "scope", "chosen"} => y[f] = x[f]
  BY <1>2 DEF IsReq, Fields
<1> HIDE DEF y
<1>5. /\ y.shape = x.shape /\ y.method = x.method /\ y.copies = x.copies /\ y.at = x.at
      /\ y.found = <<>> /\ y.todo = x.todo /\ y.ns = x.ns
      /\ y.sent = x.sent /\ y.shown = x.shown /\ y.resp = x.resp /\ y.seen = x.seen
      /\ y.from = x.from /\ y.until = x.until
  BY <1>1, <1>4 DEF Fields
<1>6. Kind(x) = "tools" /\ "tools" # None
  BY <1>1, KindIs DEF Kind, Kinds
<1>7. Placed(y, q)
  BY <1>1, <1>2, <1>4, <1>5 DEF Good, Placed, Pcs, Kind
<1>8. y.scope = "namespace" => y.chosen \subseteq NamesOf(There(y))
  <2> SUFFICES ASSUME scope = "namespace", NEW n \in names
               PROVE  \E item \in There(y) : item.name = n
    BY <1>4 DEF NamesOf
  <2>1. entries["tools"][n] # None /\ entries["tools"][n].ns = x.ns
    BY DEF ChooseTools, InNamespace
  <2>2. Item(n, entries["tools"][n]) \in x.seen
    BY <1>1, <1>2, <1>6, <2>1 DEF Linked, Present
  <2>3. Item(n, entries["tools"][n]).name = n /\ Item(n, entries["tools"][n]).entry.ns = x.ns
    BY <2>1 DEF Item
  <2>4. QED
    BY <1>5, <2>2, <2>3 DEF There
<1>9. Fair(y)
  <2>1. <<>> \in Seq(Items(y))
    BY EmptySeq
  <2>2. ShownWell(y)
    BY <1>1, <1>2, <1>5 DEF Good, Fair, ShownWell, NamesOf
  <2>3. QED
    BY <1>1, <1>2, <1>4, <1>5, <1>8, <2>1, <2>2 DEF Good, Fair
<1>10. Linked(y)
  BY <1>1, <1>2, <1>4, <1>5 DEF Linked, Kind
<1>11. QED
  BY <1>3, <1>4, <1>7, <1>9, <1>10, BecomeInv DEF Good

LEMMA FilterToolsStep ==
  ASSUME Inv, NEW q \in Requests, FilterTools(q)
  PROVE  Inv'
<1> DEFINE x == req[q]
           shown == {Item(n, entries["tools"][n]) : n \in x.chosen \cap Present("tools")}
           y == [x EXCEPT !.shown = shown]
<1>1. x.pc = "choosing" /\ x.pc # "idle" /\ Respond(q, y, "tools")
  BY DEF FilterTools
<1>2. /\ Good(x, q) /\ Linked(x) /\ IsReq(x) /\ x.shape \in Shapes[q]
      /\ x.ns \in Namespaces \cup {None} /\ x.method \in Methods \cup {None}
      /\ x.from \in 0..edits
  BY <1>1, RequestIs
<1>3. Kind(x) = "tools" /\ Kind(x) # None /\ x.scope \in {"namespace", "any"}
      /\ (x.scope = "namespace" => x.chosen \subseteq NamesOf(There(x)))
  BY <1>1, <1>2, KindIs DEF Good, Placed, Fair, Kind, Kinds
<1>4. shown \subseteq x.seen
  BY <1>1, <1>2, <1>3 DEF Linked
<1>5. NamesOf(shown) \subseteq x.chosen
  BY DEF NamesOf, Item
<1> HIDE DEF shown
<1>6. /\ IsReq(y) /\ y.shown = shown /\ y.shape = x.shape /\ y.ns = x.ns /\ y.seen = x.seen
      /\ y.scope = x.scope /\ y.from = x.from /\ y.method = x.method
  BY <1>2 DEF IsReq, Fields
<1> HIDE DEF y
<1>7. ShownWell(y)
  <2>1. There(y) = There(x)
    BY <1>6 DEF There
  <2>2. y.scope # None
    BY <1>3, <1>6, NoneAssumption
  <2>3. y.scope = "namespace" => NamesOf(y.shown) \subseteq NamesOf(There(y))
    BY <1>3, <1>5, <1>6, <2>1
  <2>4. QED
    BY <1>4, <1>6, <2>2, <2>3 DEF ShownWell
<1>8. "tools" \in Responses
  BY DEF Responses, Kinds
<1>9. QED
  BY <1>1, <1>2, <1>6, <1>7, <1>8, RespondInv

(* An entry of the map that a list or a read goes through.                 *)
LEMMA ScanStep ==
  ASSUME Inv, NEW q \in Requests, NEW n, Scan(q, n)
  PROVE  Inv'
<1> DEFINE x == req[q]
           e == entries[Kind(x)][n]
           found == IF InNamespace(e, x.ns) THEN Append(x.found, Item(n, e)) ELSE x.found
           y == [x EXCEPT !.todo = x.todo \ {n}, !.found = found]
<1>1. /\ x.pc = "filter" /\ x.at \in DOMAIN Chain /\ Chain[x.at] \in Scanning /\ n \in x.todo
      /\ x.pc # "idle"
  BY DEF Scan, At
<1>2. Good(x, q) /\ Linked(x) /\ IsReq(x)
  BY <1>1, RequestIs
<1>3. req' = [req EXCEPT ![q] = y] /\ UNCHANGED <<entries, edits, latest, crossed>>
  BY DEF Scan, Become, Kind
<1>4. Kind(x) \in Kinds /\ Kind(x) # None /\ n \in Names[Kind(x)]
  <2>1. x.todo \subseteq IF Kind(x) = None THEN {} ELSE Names[Kind(x)]
    BY <1>1, <1>2 DEF Good, Placed
  <2>2. QED
    BY <1>1, <2>1, KindIs DEF Kind
<1>5. found \in Seq(Items(x))
  <2>1. x.found \in Seq(Items(x))
    BY <1>2 DEF Good, Fair
  <2>2. CASE InNamespace(e, x.ns)
    <3>1. e # None /\ e.ns = x.ns
      BY <2>2 DEF InNamespace
    <3>2. Item(n, e) \in x.seen
      BY <1>1, <1>2, <1>4, <3>1 DEF Linked, Present
    <3>3. Item(n, e) \in Items(x)
      BY <3>1, <3>2 DEF There, Items, Item
    <3>4. QED
      BY <2>1, <2>2, <3>3, AppendProperties
  <2>3. QED
    BY <2>1, <2>2
<1> HIDE DEF found
<1>6. /\ IsReq(y) /\ y.todo = x.todo \ {n} /\ y.found = found
      /\ \A f \in Fields : f \notin {"todo", "found"} => y[f] = x[f]
  BY <1>2 DEF IsReq, Fields
<1> HIDE DEF y
<1>7. /\ y.shape = x.shape /\ y.method = x.method /\ y.copies = x.copies /\ y.ns = x.ns
      /\ y.pc = "filter" /\ y.at = x.at
      /\ y.sent = x.sent /\ y.shown = x.shown /\ y.resp = x.resp /\ y.seen = x.seen
      /\ y.from = x.from /\ y.until = x.until
  BY <1>1, <1>6 DEF Fields
<1>8. Placed(y, q)
  BY <1>1, <1>2, <1>6, <1>7 DEF Good, Placed, Pcs, Kind
<1>9. Fair(y)
  <2>1. There(y) = There(x) /\ Items(y) = Items(x)
    BY <1>7 DEF There, Items
  <2>2. ShownWell(y)
    BY <1>1, <1>2, <1>7 DEF Good, Fair, ShownWell, NamesOf
  <2>3. QED
    BY <1>1, <1>2, <1>5, <1>6, <1>7, <2>1, <2>2 DEF Good, Fair
<1>10. Linked(y)
  BY <1>1, <1>2, <1>7 DEF Linked, Kind
<1>11. QED
  BY <1>3, <1>6, <1>8, <1>9, <1>10, BecomeInv DEF Good

LEMMA ListStep ==
  ASSUME Inv, NEW q \in Requests, List(q)
  PROVE  Inv'
<1> DEFINE x == req[q]
           shown == {item \in Found(x) : Listed(item.entry, x.method)}
           y == [x EXCEPT !.shown = shown]
<1>1. /\ x.pc = "filter" /\ x.pc # "idle"
      /\ \/ Respond(q, x, "-32603")
         \/ Respond(q, y, Kind(x))
      /\ \/ x.method \in ActsOn["wanaku_tool_list"]
         \/ x.method \in ActsOn["wanaku_resource_list"]
         \/ x.method \in ActsOn["wanaku_prompt_list"]
  BY AtIs DEF List, Kind
<1>2. /\ Good(x, q) /\ IsReq(x) /\ x.shape \in Shapes[q] /\ x.ns \in Namespaces \cup {None}
      /\ x.method \in Methods \cup {None} /\ x.from \in 0..edits
  BY <1>1, RequestIs
<1>3. Kind(x) \in Kinds
  BY <1>1 DEF Kind, KindOf, ActsOn, Kinds
<1>4. Found(x) \subseteq There(x)
  <2>1. x.found \in Seq(Items(x))
    BY <1>2 DEF Good, Fair
  <2>2. \A i \in DOMAIN x.found : x.found[i] \in Items(x)
    BY <2>1, ElementOfSeq, LenProperties
  <2>3. QED
    BY <2>2 DEF Found, Items
<1>5. shown \subseteq There(x)
  BY <1>4
<1> HIDE DEF shown
<1>6. /\ IsReq(y) /\ y.shown = shown /\ y.shape = x.shape /\ y.ns = x.ns /\ y.seen = x.seen
      /\ y.scope = x.scope /\ y.from = x.from /\ y.method = x.method
  BY <1>2 DEF IsReq, Fields
<1> HIDE DEF y
<1>7. ShownWell(y)
  BY <1>5, <1>6 DEF ShownWell, There, NamesOf
<1>8. Kind(x) \in Responses /\ "-32603" \in Responses
  BY <1>3 DEF Responses
<1>9. QED
  BY <1>1, <1>2, <1>6, <1>7, <1>8, RespondInv, AnswerInv

-----------------------------------------------------------------------------
(* Steps that send a request upstream.                                     *)

LEMMA SendInv ==
  ASSUME Inv, NEW q \in Requests, req[q].pc = "filter", NEW n, NEW e, NEW args, NEW headers,
         Item(n, e) \in There(req[q]),
         args \in [Args -> {"caller", "header", "absent"}], headers \subseteq Headers,
         headers \subseteq req[q].shape.headers \ Denied,
         headers \subseteq GlobalHeaders \cup e.allow,
         Kind(req[q]) # "resources" =>
           \A a \in Args \ {RequestId} : args[a] = "caller" <=> a \in req[q].shape.args,
         Kind(req[q]) = "tools" => args[RequestId] # "caller",
         \A a \in Args : args[a] = "header" => HeaderOf[a] \in headers,
         Send(q, req[q], n, e, args, headers)
  PROVE  Inv'
<1> DEFINE x == req[q]
           sent == [name |-> n, entry |-> e, args |-> args, headers |-> headers]
           y == [x EXCEPT !.pc = "awaiting", !.todo = {}, !.found = <<>>, !.sent = sent]
<1>1. Good(x, q) /\ Linked(x) /\ IsReq(x) /\ x.pc # "idle"
  BY RequestIs
<1>2. req' = [req EXCEPT ![q] = y] /\ UNCHANGED <<entries, edits, latest, crossed>>
  BY DEF Send, Become
<1>3. sent.name = n /\ sent.entry = e /\ sent.args = args /\ sent.headers = headers
  OBVIOUS
<1> HIDE DEF sent
<1>4. /\ IsReq(y) /\ y.pc = "awaiting" /\ y.todo = {} /\ y.found = <<>> /\ y.sent = sent
      /\ \A f \in Fields : f \notin {"pc", "todo", "found", "sent"} => y[f] = x[f]
  BY <1>1 DEF IsReq, Fields
<1> HIDE DEF y
<1>5. /\ y.shape = x.shape /\ y.method = x.method /\ y.copies = x.copies /\ y.at = x.at
      /\ y.ns = x.ns /\ y.shown = x.shown /\ y.resp = x.resp
      /\ y.seen = x.seen /\ y.from = x.from /\ y.until = x.until
  BY <1>4 DEF Fields
<1>6. Placed(y, q)
  BY <1>1, <1>4, <1>5 DEF Good, Placed, Pcs
<1>7. There(y) = There(x) /\ Kind(y) = Kind(x)
  BY <1>5 DEF There, Kind
<1>8. SentWell(y)
  BY <1>3, <1>4, <1>5, <1>7 DEF SentWell, Allowed
<1>9. Fair(y)
  <2>1. <<>> \in Seq(Items(y))
    BY EmptySeq
  <2>2. ShownWell(y)
    BY <1>1, <1>5 DEF Good, Fair, ShownWell, NamesOf
  <2>3. QED
    BY <1>1, <1>4, <1>5, <1>8, <2>1, <2>2 DEF Good, Fair
<1>10. Linked(y)
  BY <1>1, <1>4, <1>5 DEF Linked, Kind
<1>11. QED
  BY <1>2, <1>4, <1>6, <1>9, <1>10, BecomeInv DEF Good

(* An entry of its namespace that the registry has now.                    *)
LEMMA EntryIsThere ==
  ASSUME Inv, NEW q \in Requests, req[q].pc = "filter", NEW kind \in Kinds,
         Kind(req[q]) = kind, NEW n \in Names[kind], InNamespace(entries[kind][n], req[q].ns)
  PROVE  Item(n, entries[kind][n]) \in There(req[q])
<1> DEFINE e == entries[kind][n]
<1>1. Linked(req[q])
  BY DEF Inv
<1>2. e # None /\ e.ns = req[q].ns
  BY DEF InNamespace
<1>3. kind # None
  BY KindIs
<1>4. Item(n, e) \in req[q].seen
  BY <1>1, <1>2, <1>3 DEF Linked, Present
<1>5. QED
  BY <1>2, <1>4 DEF There, Item

LEMMA ArgsAre ==
  ASSUME NEW own, NEW headers
  PROVE  /\ SentArgs(own, headers) \in [Args -> {"caller", "header", "absent"}]
         /\ \A a \in Args : SentArgs(own, headers)[a] = "caller" <=> a \in own
         /\ \A a \in Args : SentArgs(own, headers)[a] = "header" => HeaderOf[a] \in headers
  BY DEF SentArgs

LEMMA ToolCallStep ==
  ASSUME Inv, NEW q \in Requests, ToolCall(q)
  PROVE  Inv'
<1> DEFINE x == req[q]
           s == x.shape
           e == Lookup("tools", x.name)
           own == s.args \ {RequestId}
           headers == ForwardedHeaders(s.headers, e.allow)
           injected == IF e.inject THEN headers ELSE {}
           args == SentArgs(own, injected)
<1>1. x.pc = "filter" /\ x.pc # "idle" /\ x.method = "tools/call"
  BY AtIs DEF ToolCall, ActsOn
<1>2. s \in Shapes[q]
  BY <1>1, RequestIs
<1>3. s.headers \subseteq Headers
  BY <1>1, <1>2, ShapeAssumption
<1>4. \/ Respond(q, x, "-32602") \/ Respond(q, x, "-32603")
      \/ InNamespace(e, x.ns) /\ Send(q, x, x.name, e, args, headers)
  BY DEF ToolCall
<1>5. CASE Respond(q, x, "-32602") \/ Respond(q, x, "-32603")
  <2>1. "-32602" \in Responses /\ "-32603" \in Responses
    BY DEF Responses
  <2>2. QED
    BY <1>1, <1>5, <2>1, AnswerInv
<1>6. CASE InNamespace(e, x.ns) /\ Send(q, x, x.name, e, args, headers)
  <2>1. e # None
    BY <1>6 DEF InNamespace
  <2>2. x.name \in Names["tools"] /\ e = entries["tools"][x.name]
    BY <2>1 DEF Lookup
  <2>3. Kind(x) = "tools" /\ "tools" \in Kinds
    BY <1>1, KindIs DEF Kind, Kinds
  <2>4. Item(x.name, e) \in There(x)
    BY <1>1, <1>6, <2>2, <2>3, EntryIsThere
  <2>5. /\ headers \subseteq s.headers \ Denied /\ headers \subseteq GlobalHeaders \cup e.allow
        /\ headers \subseteq Headers
    BY <1>3 DEF ForwardedHeaders
  <2> HIDE DEF headers
  <2>6. /\ injected \subseteq headers
        /\ args \in [Args -> {"caller", "header", "absent"}]
        /\ \A a \in Args : args[a] = "caller" <=> a \in own
        /\ \A a \in Args : args[a] = "header" => HeaderOf[a] \in injected
    <3>1. injected \subseteq headers
      OBVIOUS
    <3> HIDE DEF injected, own
    <3>2. QED
      BY <3>1, ArgsAre, ZenonT(40)
  <2> HIDE DEF args, e, injected
  <2>7. /\ \A a \in Args \ {RequestId} : args[a] = "caller" <=> a \in s.args
        /\ args[RequestId] # "caller"
    BY <2>6, HeaderAssumption
  <2>8. QED
    BY <1>1, <1>6, <2>4, <2>5, <2>6, <2>7, SendInv
<1>7. QED
  BY <1>4, <1>5, <1>6

LEMMA ResourceReadStep ==
  ASSUME Inv, NEW q \in Requests, ResourceRead(q)
  PROVE  Inv'
<1> DEFINE x == req[q]
<1>1. x.pc = "filter" /\ x.pc # "idle" /\ x.method = "resources/read"
  <2>1. At(q, "wanaku_resource_read")
    BY Zenon DEF ResourceRead
  <2>2. QED
    BY <2>1, AtIs DEF ActsOn
<1>2. x.shape \in Shapes[q] /\ Good(x, q)
  BY <1>1, RequestIs
<1>3. \/ Respond(q, x, "-32602") \/ Respond(q, x, "-32603")
      \/ \E i \in DOMAIN x.found : Send(q, x, x.found[i].name, x.found[i].entry, NoArgs, {})
  BY Zenon DEF ResourceRead
<1>4. CASE Respond(q, x, "-32602") \/ Respond(q, x, "-32603")
  <2>1. "-32602" \in Responses /\ "-32603" \in Responses
    BY DEF Responses
  <2>2. QED
    BY <1>1, <1>4, <2>1, AnswerInv
<1>5. ASSUME NEW i \in DOMAIN x.found, Send(q, x, x.found[i].name, x.found[i].entry, NoArgs, {})
      PROVE  Inv'
  <2> DEFINE hit == x.found[i]
  <2>1. x.found \in Seq(Items(x))
    BY <1>2 DEF Good, Fair
  <2>2. hit \in Items(x)
    BY <2>1, LenProperties, ElementOfSeq
  <2>3. Item(hit.name, hit.entry) \in There(x)
    BY <2>2 DEF Items
  <2>5. /\ NoArgs \in [Args -> {"caller", "header", "absent"}]
        /\ \A a \in Args : NoArgs[a] = "absent"
    BY DEF NoArgs
  <2>6. Kind(x) = "resources"
    BY <1>1 DEF Kind, KindOf
  <2>7. Send(q, x, hit.name, hit.entry, NoArgs, {})
    BY <1>5
  <2> DEFINE none == {}
  <2>8. /\ \A a \in Args : NoArgs[a] = "header" => HeaderOf[a] \in none
        /\ none \subseteq Headers /\ none \subseteq x.shape.headers \ Denied
        /\ none \subseteq GlobalHeaders \cup hit.entry.allow
        /\ Send(q, x, hit.name, hit.entry, NoArgs, none)
    BY <2>5, <2>7
  <2>9. Kind(x) # "tools"
    BY <2>6
  <2> HIDE DEF hit, none
  <2>10. QED
    BY <1>1, <2>3, <2>5, <2>6, <2>8, <2>9, SendInv
<1>6. QED
  BY <1>3, <1>4, <1>5

LEMMA PromptGetStep ==
  ASSUME Inv, NEW q \in Requests, PromptGet(q)
  PROVE  Inv'
<1> DEFINE x == req[q]
           s == x.shape
           e == Lookup("prompts", s.name)
           args == SentArgs(s.args, {})
<1>1. x.pc = "filter" /\ x.pc # "idle" /\ x.method = "prompts/get"
  BY AtIs DEF PromptGet, ActsOn
<1>4. \/ Respond(q, x, "-32602") \/ Respond(q, x, "-32603") \/ Respond(q, x, "messages")
      \/ InNamespace(e, x.ns) /\ Send(q, x, s.name, e, args, {})
  BY DEF PromptGet
<1>5. CASE Respond(q, x, "-32602") \/ Respond(q, x, "-32603") \/ Respond(q, x, "messages")
  <2>1. "-32602" \in Responses /\ "-32603" \in Responses /\ "messages" \in Responses
    BY DEF Responses
  <2>2. QED
    BY <1>1, <1>5, <2>1, AnswerInv
<1>6. CASE InNamespace(e, x.ns) /\ Send(q, x, s.name, e, args, {})
  <2>1. e # None
    BY <1>6 DEF InNamespace
  <2>2. s.name \in Names["prompts"] /\ e = entries["prompts"][s.name]
    BY <2>1 DEF Lookup
  <2>3. Kind(x) = "prompts" /\ "prompts" \in Kinds
    BY <1>1 DEF Kind, KindOf, Kinds
  <2>4. Item(s.name, e) \in There(x)
    BY <1>1, <1>6, <2>2, <2>3, EntryIsThere
  <2>5. /\ args \in [Args -> {"caller", "header", "absent"}]
        /\ \A a \in Args : args[a] = "caller" <=> a \in s.args
        /\ \A a \in Args : args[a] = "header" => HeaderOf[a] \in {}
    BY ArgsAre
  <2> DEFINE none == {}
  <2>6. /\ \A a \in Args \ {RequestId} : args[a] = "caller" <=> a \in s.args
        /\ \A a \in Args : args[a] = "header" => HeaderOf[a] \in none
        /\ none \subseteq Headers /\ none \subseteq s.headers \ Denied
        /\ none \subseteq GlobalHeaders \cup e.allow
        /\ Send(q, x, s.name, e, args, none)
    BY <1>6, <2>5
  <2>7. Kind(x) # "tools"
    BY <2>3
  <2> HIDE DEF args, e, none
  <2>8. QED
    BY <1>1, <2>4, <2>5, <2>6, <2>7, SendInv
<1>7. QED
  BY <1>4, <1>5, <1>6
-----------------------------------------------------------------------------
(* A request arrives.                                                      *)

LEMMA NoRequestGood ==
  ASSUME NEW q \in Requests
  PROVE  /\ Good(NoRequest, q) /\ IsReq(NoRequest) /\ NoRequest.pc = "idle"
         /\ NoRequest.from = 0 /\ NoRequest.until = 0
<1>1. IsReq(NoRequest)
  BY DEF IsReq, Fields, NoRequest
<1>2. /\ NoRequest.pc = "idle" /\ NoRequest.shape = None /\ NoRequest.method = None
      /\ NoRequest.copies = 0 /\ NoRequest.ns = None
      /\ NoRequest.found = <<>> /\ NoRequest.sent = None /\ NoRequest.shown = {}
      /\ NoRequest.resp = None /\ NoRequest.from = 0 /\ NoRequest.until = 0
  BY DEF NoRequest
<1>3. Placed(NoRequest, q)
  BY <1>2, EditAssumption DEF Placed, Pcs
<1>4. <<>> \in Seq(Items(NoRequest))
  BY EmptySeq
<1>5. Fair(NoRequest)
  BY <1>2, <1>4 DEF Fair, ShownWell, NamesOf
<1>6. QED
  BY <1>1, <1>2, <1>3, <1>5 DEF Good

LEMMA ArrivesMovable ==
  ASSUME Inv, NEW q \in Requests, NEW s \in Shapes[q]
  PROVE  LET x == [NoRequest EXCEPT !.pc = "filter", !.shape = s, !.name = s.name, !.from = edits]
         IN IsReq(x) /\ Movable(As(x, s.method), q)
<1> DEFINE x == [NoRequest EXCEPT !.pc = "filter", !.shape = s, !.name = s.name, !.from = edits]
<1>1. s.method \in Methods \cup {None}
  BY ShapeAssumption
<1>2. /\ IsReq(x) /\ x.pc = "filter" /\ x.shape = s /\ x.from = edits
      /\ \A f \in Fields : f \notin {"pc", "shape", "name", "from"} => x[f] = NoRequest[f]
  BY NoRequestGood DEF IsReq, Fields
<1>3. /\ NoRequest.at = 0 /\ NoRequest.ns = None /\ NoRequest.found = <<>> /\ NoRequest.sent = None
      /\ NoRequest.shown = {} /\ NoRequest.resp = None /\ NoRequest.until = 0
      /\ NoRequest.method = None /\ NoRequest.copies = 0
  BY DEF NoRequest
<1>4. edits \in Nat /\ 0 \in 0..MaxCopies[q]
  BY EditAssumption DEF Inv, Stored
<1> HIDE DEF x
<1>5. Bare(x, q)
  BY <1>2, <1>3, <1>4 DEF Bare, Fields
<1>6. Movable(As(x, s.method), q)
  BY <1>1, <1>5, AsIs
<1>7. QED
  BY <1>2, <1>6 DEF x

LEMMA ArriveStep ==
  ASSUME Inv, NEW q \in Requests, NEW s \in Shapes[q], Arrive(q, s)
  PROVE  Inv'
<1> DEFINE x == [NoRequest EXCEPT !.pc = "filter", !.shape = s, !.name = s.name, !.from = edits]
<1>1. Continue(q, As(x, s.method))
  BY DEF Arrive
<1>2. Movable(As(x, s.method), q)
  BY ArrivesMovable
<1>3. QED
  BY <1>1, <1>2, ContinueInv

-----------------------------------------------------------------------------
(* The registry changes.                                                   *)

LEMMA SeqGrows ==
  ASSUME NEW S, NEW T, S \subseteq T, NEW s \in Seq(S)
  PROVE  s \in Seq(T)
<1>1. Len(s) \in Nat /\ DOMAIN s = 1..Len(s) /\ \A i \in 1..Len(s) : s[i] \in S
  BY LenProperties, ElementOfSeq
<1>2. s \in [1..Len(s) -> T]
  BY <1>1, LenProperties
<1>3. QED
  BY <1>1, <1>2, SeqDef

(* It has seen more, or its copy is another one.                           *)
LEMMA GrownGood ==
  ASSUME NEW q \in Requests, NEW x, Good(x, q), NEW more, NEW z, IsReq(z),
         z.seen = x.seen \cup more,
         \A f \in Fields : f \notin {"seen", "copy"} => z[f] = x[f],
         z.pc = "copying" => z.copy \in Copy
  PROVE  Good(z, q)
<1>1. Placed(x, q) /\ Fair(x)
  BY DEF Good
<1>2. /\ z.pc = x.pc /\ z.method = x.method /\ z.copies = x.copies
      /\ z.shape = x.shape /\ z.at = x.at /\ z.ns = x.ns /\ z.todo = x.todo
      /\ z.found = x.found /\ z.scope = x.scope /\ z.chosen = x.chosen /\ z.sent = x.sent
      /\ z.shown = x.shown /\ z.resp = x.resp
  BY DEF Fields
<1>3. Placed(z, q)
  BY <1>1, <1>2 DEF Placed, Kind
<1>4. There(x) \subseteq There(z) /\ Items(x) \subseteq Items(z) /\ Kind(z) = Kind(x)
  BY <1>2 DEF There, Items, Kind
<1>5. z.found \in Seq(Items(z))
  BY <1>1, <1>2, <1>4, SeqGrows DEF Fair
<1>6. z.pc = "awaiting" => SentWell(z)
  BY <1>1, <1>2, <1>4 DEF Fair, SentWell, Allowed
<1>7. ShownWell(z) /\ NamesOf(There(x)) \subseteq NamesOf(There(z))
  <2>1. NamesOf(There(x)) \subseteq NamesOf(There(z))
    BY <1>4 DEF NamesOf
  <2>2. ShownWell(x) /\ x.seen \subseteq z.seen
    BY <1>1 DEF Fair
  <2>3. QED
    BY <1>2, <1>4, <2>1, <2>2 DEF ShownWell
<1>8. Fair(z)
  BY <1>1, <1>2, <1>4, <1>5, <1>6, <1>7 DEF Fair
<1>9. QED
  BY <1>3, <1>8 DEF Good

(* What a request has seen after a change, and its copy.                   *)
LEMMA WitnessedIs ==
  ASSUME Inv, NEW kind \in Kinds, NEW n, NEW e, NEW p \in Requests
  PROVE  LET w == Witnessed(kind, n, e)[p]
         IN /\ IsReq(w) /\ \A f \in Fields : f # "seen" => w[f] = req[p][f]
            /\ \E more : w.seen = req[p].seen \cup more
            /\ Active(p) /\ e # None /\ Kind(req[p]) = kind => Item(n, e) \in w.seen
<1> DEFINE x == req[p]
           y == [x EXCEPT !.seen = x.seen \cup {Item(n, e)}]
           w == Witnessed(kind, n, e)[p]
<1>1. IsReq(x)
  BY DEF Inv, Good
<1>2. IsReq(y) /\ y.seen = x.seen \cup {Item(n, e)} /\ \A f \in Fields : f # "seen" => y[f] = x[f]
  BY <1>1 DEF IsReq, Fields
<1>3. w = IF Active(p) /\ e # None /\ Kind(x) = kind THEN y ELSE x
  BY DEF Witnessed, Kind
<1> HIDE DEF w, y
<1>4. x.seen = x.seen \cup {}
  OBVIOUS
<1>5. QED
  BY <1>1, <1>2, <1>3, <1>4 DEF w

LEMMA OutdatedIs ==
  ASSUME NEW kind, NEW n, NEW rs, NEW p \in Requests, IsReq(rs[p]),
         rs[p].pc = "copying" => rs[p].copy \in Copy
  PROVE  LET z == Outdated(kind, n, rs)[p]
         IN /\ IsReq(z) /\ \A f \in Fields : f # "copy" => z[f] = rs[p][f]
            /\ z.pc = "copying" => z.copy \in Copy
            /\ z.pc = "copying" /\ ~z.copy.outdated =>
                 z.copy = rs[p].copy /\ ~(kind = "tools" /\ z.copy.name = n)
<1> DEFINE x == rs[p]
           c == [x.copy EXCEPT !.outdated = TRUE]
           y == [x EXCEPT !.copy = c]
           z == Outdated(kind, n, rs)[p]
<1>1. CASE kind = "tools" /\ x.pc = "copying" /\ x.copy.name = n
  <2>1. c \in Copy /\ c.outdated = TRUE
    BY <1>1 DEF Copy
  <2> HIDE DEF c
  <2>2. IsReq(y) /\ y.copy = c /\ \A f \in Fields : f # "copy" => y[f] = x[f]
    BY DEF IsReq, Fields
  <2>3. z = y
    BY <1>1 DEF Outdated, c
  <2> HIDE DEF y, z
  <2>4. QED
    BY <2>1, <2>2, <2>3 DEF z
<1>2. CASE ~(kind = "tools" /\ x.pc = "copying" /\ x.copy.name = n)
  <2>1. z = x
    BY <1>2 DEF Outdated
  <2> HIDE DEF z
  <2>2. QED
    BY <1>2, <2>1 DEF z
<1>3. QED
  BY <1>1, <1>2

Writes(kind, n, e) == entries' = [entries EXCEPT ![kind][n] = e]

LEMMA EntriesIs ==
  ASSUME Inv, NEW kind \in Kinds, NEW n \in Names[kind], NEW e \in Entry \cup {None},
         Writes(kind, n, e)
  PROVE  /\ DOMAIN entries' = Kinds
         /\ \A k \in Kinds : entries'[k] \in [Names[k] -> Entry \cup {None}]
         /\ entries'[kind][n] = e
         /\ \A k \in Kinds : \A m \in Names[k] :
              ~(k = kind /\ m = n) => entries'[k][m] = entries[k][m]
<1>1. DOMAIN entries = Kinds /\ \A k \in Kinds : entries[k] \in [Names[k] -> Entry \cup {None}]
  BY DEF Inv, Stored
<1>2. entries' = [entries EXCEPT ![kind] = [entries[kind] EXCEPT ![n] = e]]
  BY DEF Writes
<1> DEFINE row == [entries[kind] EXCEPT ![n] = e]
<1>3. /\ row \in [Names[kind] -> Entry \cup {None}] /\ row[n] = e
      /\ \A m \in Names[kind] : m # n => row[m] = entries[kind][m]
  BY <1>1
<1> HIDE DEF row
<1>4. /\ DOMAIN entries' = Kinds /\ entries'[kind] = row
      /\ \A k \in Kinds : k # kind => entries'[k] = entries[k]
  BY <1>1, <1>2 DEF row
<1>5. QED
  BY <1>1, <1>3, <1>4

(* A request has seen what is there after the change.                      *)
LEMMA SeenStays ==
  ASSUME Inv, NEW kind \in Kinds, NEW n \in Names[kind], NEW e \in Entry \cup {None},
         NEW p \in Requests, Active(p), Kind(req[p]) # None,
         Writes(kind, n, e)
  PROVE  \A m \in Names[Kind(req[p])] :
           entries'[Kind(req[p])][m] # None =>
             Item(m, entries'[Kind(req[p])][m]) \in Witnessed(kind, n, e)[p].seen
<1> DEFINE k == Kind(req[p])
           w == Witnessed(kind, n, e)[p]
<1>1. k \in Kinds
  BY KindIs DEF Kind
<1>2. Linked(req[p]) /\ req[p].pc \notin {"idle", "done"}
  BY DEF Inv, Active
<1>3. \E more : w.seen = req[p].seen \cup more
  BY WitnessedIs
<1>4. e # None /\ k = kind => Item(n, e) \in w.seen
  BY WitnessedIs
<1> HIDE DEF w
<1> SUFFICES ASSUME NEW m \in Names[k], entries'[k][m] # None
             PROVE  Item(m, entries'[k][m]) \in w.seen
  BY DEF w
<1>5. CASE k = kind /\ m = n
  <2>1. entries'[k][m] = e
    BY <1>5, EntriesIs
  <2>2. QED
    BY <1>4, <1>5, <2>1
<1>6. CASE ~(k = kind /\ m = n)
  <2>1. entries'[k][m] = entries[k][m]
    BY <1>1, <1>6, EntriesIs
  <2>2. Item(m, entries[k][m]) \in req[p].seen
    BY <1>1, <1>2, <2>1 DEF Linked, Present
  <2>3. QED
    BY <1>3, <2>1, <2>2
<1>7. QED
  BY <1>5, <1>6

LEMMA LinkedPrime ==
  ASSUME NEW q \in Requests,
         req'[q].pc \notin {"idle", "done"} /\ Kind(req'[q]) # None =>
           \A m \in Names[Kind(req'[q])] :
             entries'[Kind(req'[q])][m] # None =>
               Item(m, entries'[Kind(req'[q])][m]) \in req'[q].seen,
         req'[q].pc = "copying" /\ ~req'[q].copy.outdated /\ req'[q].copy.name \notin crossed' =>
           Same(req'[q].copy.entry, latest'[req'[q].copy.name]),
         req'[q].from \in 0..edits', req'[q].until \in 0..edits'
  PROVE  Linked(req[q])'
  BY DEF Linked, Present, Item, Same, Kind, KindOf

LEMMA EditInv ==
  ASSUME Inv, NEW kind \in Kinds, NEW n \in Names[kind], NEW e \in Entry \cup {None},
         Edit(kind, n, e)
  PROVE  Inv'
<1> DEFINE rs == Witnessed(kind, n, e)
<1>1. /\ edits' = edits + 1 /\ edits \in Nat
      /\ Writes(kind, n, e)
      /\ req' = Outdated(kind, n, rs)
      /\ latest' = IF kind = "tools" THEN [latest EXCEPT ![n] = e] ELSE latest
      /\ crossed' = IF kind = "tools" THEN crossed \ {n} ELSE crossed
      /\ latest \in [Names["tools"] -> Entry \cup {None}] /\ crossed \subseteq Names["tools"]
  BY DEF Edit, Inv, Stored, Writes
<1>2. Stored'
  <2>1. DOMAIN req' = Requests
    BY <1>1 DEF Outdated
  <2>2. latest' \in [Names["tools"] -> Entry \cup {None}] /\ crossed' \subseteq Names["tools"]
    BY <1>1
  <2>3. edits' \in Nat
    BY <1>1
  <2>4. DOMAIN entries' = Kinds /\ \A k \in Kinds : entries'[k] \in [Names[k] -> Entry \cup {None}]
    BY <1>1, EntriesIs
  <2>5. QED
    BY <2>1, <2>2, <2>3, <2>4 DEF Stored, Kinds, Entry
<1>3. ASSUME NEW p \in Requests
      PROVE  Good(req[p], p)' /\ Linked(req[p])'
  <2> DEFINE x == req[p]
             w == rs[p]
             z == Outdated(kind, n, rs)[p]
  <2>1. Good(x, p) /\ Linked(x)
    BY DEF Inv
  <2>2. /\ IsReq(w) /\ \A f \in Fields : f # "seen" => w[f] = x[f]
        /\ \E more : w.seen = x.seen \cup more
    BY WitnessedIs, SMTT(60)
  <2>3. w.pc = x.pc /\ w.copy = x.copy
    BY <2>2 DEF Fields
  <2>4. w.pc = "copying" => w.copy \in Copy
    BY <2>1, <2>3 DEF Good, Fair
  <2> HIDE DEF rs
  <2>5. /\ IsReq(z) /\ \A f \in Fields : f # "copy" => z[f] = w[f]
        /\ z.pc = "copying" => z.copy \in Copy
        /\ z.pc = "copying" /\ ~z.copy.outdated =>
             z.copy = w.copy /\ ~(kind = "tools" /\ z.copy.name = n)
    BY <2>2, <2>4, OutdatedIs
  <2>6. req'[p] = z
    BY <1>1
  <2> HIDE DEF z, w
  <2>7. /\ z.pc = x.pc /\ z.seen = w.seen /\ z.shape = x.shape /\ z.method = x.method
        /\ z.from = x.from
        /\ z.until = x.until
    BY <2>2, <2>5 DEF Fields
  <2>8. Good(z, p)
    <3>1. PICK more : w.seen = x.seen \cup more
      BY <2>2
    <3>2. \A f \in Fields : f \notin {"seen", "copy"} => z[f] = x[f]
      BY <2>2, <2>5
    <3>3. QED
      BY <2>1, <2>5, <2>7, <3>1, <3>2, GrownGood
  <2>9. z.pc \notin {"idle", "done"} /\ Kind(z) # None =>
          \A m \in Names[Kind(z)] :
            entries'[Kind(z)][m] # None => Item(m, entries'[Kind(z)][m]) \in z.seen
    <3>1. Kind(z) = Kind(x)
      BY <2>7 DEF Kind
    <3>2. z.pc \notin {"idle", "done"} => Active(p)
      BY <2>7 DEF Active
    <3>3. Active(p) /\ Kind(x) # None =>
            \A m \in Names[Kind(x)] :
              entries'[Kind(x)][m] # None => Item(m, entries'[Kind(x)][m]) \in w.seen
      BY <1>1, SeenStays DEF w, rs
    <3>4. QED
      BY <2>7, <3>1, <3>2, <3>3
  <2>10. z.pc = "copying" /\ ~z.copy.outdated /\ z.copy.name \notin crossed' =>
           Same(z.copy.entry, latest'[z.copy.name])
    <3> SUFFICES ASSUME z.pc = "copying", ~z.copy.outdated, z.copy.name \notin crossed'
                 PROVE  Same(z.copy.entry, latest'[z.copy.name])
      OBVIOUS
    <3>1. z.copy = x.copy /\ x.pc = "copying" /\ ~(kind = "tools" /\ z.copy.name = n)
      BY <2>3, <2>5, <2>7
    <3>2. z.copy.name \in Names["tools"]
      BY <2>5 DEF Copy
    <3>3. latest'[z.copy.name] = latest[z.copy.name] /\ z.copy.name \notin crossed
      BY <1>1, <3>1, <3>2
    <3>4. QED
      BY <2>1, <3>1, <3>3 DEF Linked
  <2>11. z.from \in 0..edits' /\ z.until \in 0..edits'
    BY <1>1, <2>1, <2>7 DEF Linked
  <2>12. Linked(req[p])'
    BY <2>6, <2>9, <2>10, <2>11, LinkedPrime
  <2>13. QED
    BY <2>6, <2>8, <2>12, GoodNext
<1>4. ASSUME NEW m \in Names["tools"] \ crossed'
      PROVE  Same(entries'["tools"][m], latest'[m])
  <2>1. CASE kind = "tools" /\ m = n
    <3>1. entries'["tools"][m] = e /\ latest'[m] = e
      BY <1>1, <2>1, EntriesIs
    <3>2. e # None => e = [e EXCEPT !.ns = e.ns]
      BY DEF Entry
    <3>3. QED
      BY <3>1, <3>2 DEF Same
  <2>2. CASE ~(kind = "tools" /\ m = n)
    <3>1. "tools" \in Kinds /\ m \notin crossed
      BY <1>1, <2>2 DEF Kinds
    <3>2. entries'["tools"][m] = entries["tools"][m] /\ latest'[m] = latest[m]
      BY <1>1, <2>2, <3>1, EntriesIs
    <3>3. QED
      BY <3>1, <3>2 DEF Inv
  <2>3. QED
    BY <2>1, <2>2
<1>5. (\A m \in Names["tools"] \ crossed : Same(entries["tools"][m], latest[m]))'
  BY <1>4 DEF Same
<1>6. QED
  BY <1>2, <1>3, <1>5 DEF Inv

LEMMA KeptIs ==
  ASSUME Inv, NEW kind \in Kinds, NEW n \in Names[kind], NEW e \in Entry
  PROVE  Kept(kind, n, e) \in Entry /\ Kept(kind, n, e).location = e.location
<1> DEFINE old == entries[kind][n]
           address  == IF e.address = None THEN old.address ELSE e.address
           template == e.template \/ old.template
<1>1. CASE kind # "resources" \/ old = None
  BY <1>1 DEF Kept
<1>2. CASE ~(kind # "resources" \/ old = None)
  <2>1. old \in Entry
    BY <1>2 DEF Inv, Stored
  <2>2. address \in Addresses \cup {None} /\ template \in BOOLEAN
    BY <2>1 DEF Entry
  <2>3. Kept(kind, n, e) = [e EXCEPT !.address = address, !.template = template]
    BY <1>2 DEF Kept
  <2> HIDE DEF address, template
  <2>4. /\ [e EXCEPT !.address = address, !.template = template] \in Entry
        /\ [e EXCEPT !.address = address, !.template = template].location = e.location
    BY <2>2 DEF Entry
  <2>5. QED
    BY <2>3, <2>4
<1>3. QED
  BY <1>1, <1>2

LEMMA PutStep ==
  ASSUME Inv, NEW kind \in Kinds, NEW n \in Names[kind], NEW e \in Entries[kind], Put(kind, n, e)
  PROVE  Inv'
<1>1. e \in Entry
  BY RegistryAssumption DEF Registrable
<1>2. Kept(kind, n, e) \in Entry
  BY <1>1, KeptIs
<1>3. QED
  BY <1>2, EditInv DEF Put

LEMMA DeleteStep ==
  ASSUME Inv, NEW kind \in Kinds, NEW n \in Names[kind], Delete(kind, n)
  PROVE  Inv'
  BY EditInv DEF Delete

(* A copy is written.                                                      *)
LEMMA WriteCopyStep ==
  ASSUME Inv, NEW q \in Requests, WriteCopy(q)
  PROVE  Inv'
<1> DEFINE c == req[q].copy
           rs == Witnessed("tools", c.name, c.entry)
           w == rs[q]
           y == [w EXCEPT !.pc = "filter", !.copy = None, !.copies = w.copies + 1]
<1>1. Good(req[q], q) /\ Linked(req[q]) /\ req[q].pc = "copying"
  BY DEF WriteCopy, Inv
<1>2. c \in Copy
  BY <1>1 DEF Good, Fair
<1>3. c.name \in Names["tools"] /\ c.entry \in Entry /\ c.outdated \in BOOLEAN /\ "tools" \in Kinds
  BY <1>2 DEF Copy, Kinds
<1>4. /\ Writes("tools", c.name, c.entry)
      /\ crossed' = IF c.outdated THEN crossed \cup {c.name} ELSE crossed
      /\ req' = [rs EXCEPT ![q].pc = "filter", ![q].copy = None, ![q].copies = @ + 1]
      /\ edits' = edits + 1 /\ latest' = latest /\ edits \in Nat
      /\ crossed \subseteq Names["tools"]
  BY DEF WriteCopy, Inv, Stored, Writes
<1>5. \A p \in Requests :
        /\ IsReq(rs[p]) /\ \A f \in Fields : f # "seen" => rs[p][f] = req[p][f]
        /\ \E more : rs[p].seen = req[p].seen \cup more
  BY <1>3, WitnessedIs
<1>6. DOMAIN rs = Requests
  BY DEF Witnessed
<1> HIDE DEF c, rs
<1>9. req'[q] = y /\ \A p \in Requests : p # q => req'[p] = rs[p]
  <2>1. IsReq(w) /\ "pc" \in Fields /\ "copy" \in Fields /\ "copies" \in Fields
    BY <1>5 DEF Fields
  <2>2. QED
    BY <1>4, <1>6, <2>1 DEF IsReq, Fields
<1>10. /\ IsReq(y) /\ y.pc = "filter" /\ y.copies = w.copies + 1
       /\ \A f \in Fields : f \notin {"pc", "copy", "copies"} => y[f] = w[f]
  BY <1>5 DEF IsReq, Fields
<1> HIDE DEF y
<1>11. Good(y, q)
  <2> DEFINE x == req[q]
  <2>1. /\ y.shape = x.shape /\ y.method = x.method /\ y.copies = x.copies + 1 /\ y.at = x.at
        /\ y.ns = x.ns /\ y.todo = x.todo
        /\ y.found = x.found /\ y.sent = x.sent /\ y.shown = x.shown /\ y.resp = x.resp
    BY <1>5, <1>10 DEF Fields
  <2>2. x.found = <<>> /\ x.sent = None /\ x.shown = {} /\ x.resp \in Responses \cup {None}
        /\ x.resp = None
    BY <1>1 DEF Good, Placed, Fair
  <2>3. Placed(y, q)
    <3>1. y.copies \in 0..MaxCopies[q]
      BY <1>1, <2>1, EditAssumption DEF Good, Placed
    <3>2. QED
      BY <1>1, <1>10, <2>1, <2>2, <3>1 DEF Good, Placed, Pcs, Kind
  <2>4. <<>> \in Seq(Items(y))
    BY EmptySeq
  <2>5. Fair(y)
    BY <1>10, <2>1, <2>2, <2>4 DEF Fair, ShownWell, NamesOf
  <2>6. QED
    BY <1>10, <2>3, <2>5 DEF Good
<1>12. ASSUME NEW p \in Requests
       PROVE  Good(req[p], p)' /\ Linked(req[p])'
  <2> DEFINE x == req[p]
             z == IF p = q THEN y ELSE rs[p]
  <2>1. Good(x, p) /\ Linked(x)
    BY DEF Inv
  <2>2. req'[p] = z
    BY <1>9
  <2>3. /\ IsReq(z)
        /\ \A f \in Fields : f \notin {"pc", "copy", "copies"} => z[f] = rs[p][f]
        /\ p # q => z.pc = x.pc /\ z.copy = x.copy
        /\ p = q => z.pc = "filter"
    BY <1>5, <1>10 DEF Fields
  <2>4. Good(z, p)
    <3>1. CASE p = q
      BY <1>11, <3>1
    <3>2. CASE p # q
      <4>1. z = rs[p]
        BY <3>2
      <4>2. PICK more : z.seen = x.seen \cup more
        BY <1>5, <4>1
      <4>3. \A f \in Fields : f \notin {"seen", "copy"} => z[f] = x[f]
        BY <1>5, <4>1
      <4>4. z.pc = "copying" => z.copy \in Copy
        BY <2>1, <2>3, <3>2 DEF Good, Fair
      <4> HIDE DEF z
      <4>5. QED
        BY <2>1, <2>3, <4>2, <4>3, <4>4, GrownGood
    <3>3. QED
      BY <3>1, <3>2
  <2> HIDE DEF z
  <2>5. /\ z.seen = rs[p].seen /\ z.shape = x.shape /\ z.method = x.method /\ z.from = x.from
        /\ z.until = x.until
    BY <1>5, <2>3 DEF Fields
  <2>6. z.pc \notin {"idle", "done"} => Active(p)
    BY <1>1, <2>3 DEF Active
  <2>7. z.pc \notin {"idle", "done"} /\ Kind(z) # None =>
          \A m \in Names[Kind(z)] :
            entries'[Kind(z)][m] # None => Item(m, entries'[Kind(z)][m]) \in z.seen
    <3>1. Kind(z) = Kind(x)
      BY <2>5 DEF Kind
    <3>2. QED
      BY <1>3, <1>4, <2>5, <2>6, <3>1, SeenStays DEF rs
  <2>8. z.pc = "copying" /\ ~z.copy.outdated /\ z.copy.name \notin crossed' =>
          Same(z.copy.entry, latest'[z.copy.name])
    BY <1>4, <2>1, <2>3 DEF Linked
  <2>9. z.from \in 0..edits' /\ z.until \in 0..edits'
    BY <1>4, <2>1, <2>5 DEF Linked
  <2>10. Linked(req[p])'
    BY <2>2, <2>7, <2>8, <2>9, LinkedPrime
  <2>11. QED
    BY <2>2, <2>4, <2>10, GoodNext
<1>13. ASSUME NEW m \in Names["tools"] \ crossed'
       PROVE  Same(entries'["tools"][m], latest'[m])
  <2>1. m \notin crossed
    BY <1>4
  <2>2. CASE m = c.name
    <3>1. ~c.outdated
      BY <1>4, <2>2
    <3>2. entries'["tools"][m] = c.entry
      BY <1>3, <1>4, <2>2, EntriesIs
    <3>3. QED
      BY <1>1, <1>4, <2>1, <2>2, <3>1, <3>2 DEF Linked, c
  <2>3. CASE m # c.name
    <3>1. entries'["tools"][m] = entries["tools"][m]
      BY <1>3, <1>4, <2>3, EntriesIs
    <3>2. QED
      BY <1>4, <2>1, <3>1 DEF Inv
  <2>4. QED
    BY <2>2, <2>3
<1>14. (\A m \in Names["tools"] \ crossed : Same(entries["tools"][m], latest[m]))'
  BY <1>13 DEF Same
<1>15. Stored'
  <2>1. DOMAIN req' = Requests
    BY <1>4, <1>6
  <2>2. latest' \in [Names["tools"] -> Entry \cup {None}] /\ crossed' \subseteq Names["tools"]
    BY <1>3, <1>4 DEF Inv, Stored
  <2>3. edits' \in Nat
    BY <1>4
  <2>4. DOMAIN entries' = Kinds /\ \A k \in Kinds : entries'[k] \in [Names[k] -> Entry \cup {None}]
    BY <1>3, <1>4, EntriesIs
  <2>5. QED
    BY <2>1, <2>2, <2>3, <2>4 DEF Stored, Kinds, Entry
<1>16. QED
  BY <1>12, <1>14, <1>15 DEF Inv

(* A tool is read, to be copied.                                           *)
LEMMA ReadCopyStep ==
  ASSUME Inv, NEW q \in Requests, NEW n \in Names["tools"], NEW ns \in Namespaces,
         ReadCopy(q, n, ns)
  PROVE  Inv'
<1> DEFINE x == req[q]
           e == entries["tools"][n]
           copy == [name |-> n, entry |-> Copied(e, ns), outdated |-> FALSE]
           y == [x EXCEPT !.pc = "copying", !.copy = copy]
<1>1. x.pc = "filter" /\ x.pc # "idle" /\ x.found = <<>> /\ e # None
      /\ x.copies < MaxCopies[q]
  BY AtIs DEF ReadCopy, Evaluates, Scanning, Present
<1>2. Good(x, q) /\ Linked(x) /\ IsReq(x)
  BY <1>1, RequestIs
<1>3. req' = [req EXCEPT ![q] = y] /\ UNCHANGED <<entries, edits, latest, crossed>>
  BY DEF ReadCopy, Become
<1>4. e \in Entry /\ latest[n] \in Entry \cup {None}
  BY <1>1 DEF Inv, Stored, Kinds
<1>5. copy \in Copy /\ copy.name = n /\ copy.entry = [e EXCEPT !.ns = ns]
  BY <1>4 DEF Copy, Copied, Entry
<1>6. n \notin crossed => Same(copy.entry, latest[n])
  <2> SUFFICES ASSUME n \notin crossed
               PROVE  Same(copy.entry, latest[n])
    OBVIOUS
  <2>1. Same(e, latest[n])
    BY DEF Inv
  <2>2. latest[n] # None /\ latest[n] \in Entry /\ e = [latest[n] EXCEPT !.ns = e.ns]
    BY <1>1, <1>4, <2>1 DEF Same
  <2>3. copy.entry # None
    BY <1>5, NoneAssumption DEF Copy
  <2> HIDE DEF copy, e
  <2>4. copy.entry = [latest[n] EXCEPT !.ns = copy.entry.ns]
    BY <1>4, <1>5, <2>2 DEF Entry
  <2>5. QED
    BY <2>2, <2>3, <2>4 DEF Same
<1> HIDE DEF copy
<1>7. /\ IsReq(y) /\ y.pc = "copying" /\ y.copy = copy
      /\ \A f \in Fields : f \notin {"pc", "copy"} => y[f] = x[f]
  BY <1>2 DEF IsReq, Fields
<1> HIDE DEF y
<1>8. /\ y.shape = x.shape /\ y.method = x.method /\ y.copies = x.copies /\ y.at = x.at
      /\ y.found = <<>> /\ y.todo = x.todo /\ y.ns = x.ns
      /\ y.sent = x.sent /\ y.shown = x.shown /\ y.resp = x.resp /\ y.seen = x.seen
      /\ y.from = x.from /\ y.until = x.until
  BY <1>1, <1>7 DEF Fields
<1>9. Placed(y, q)
  BY <1>1, <1>2, <1>7, <1>8 DEF Good, Placed, Pcs, Kind
<1>10. Fair(y)
  <2>1. <<>> \in Seq(Items(y))
    BY EmptySeq
  <2>2. ShownWell(y)
    BY <1>1, <1>2, <1>8 DEF Good, Fair, ShownWell, NamesOf
  <2>3. QED
    BY <1>1, <1>2, <1>5, <1>7, <1>8, <2>1, <2>2 DEF Good, Fair
<1>11. Linked(y)
  BY <1>1, <1>2, <1>5, <1>6, <1>7, <1>8 DEF Linked, Kind
<1>12. QED
  BY <1>3, <1>7, <1>9, <1>10, <1>11, BecomeInv DEF Good
-----------------------------------------------------------------------------
(* The specification.                                                      *)

LEMMA InitInv == Init => Inv
<1> SUFFICES ASSUME Init
             PROVE  Inv
  OBVIOUS
<1>1. /\ entries \in Registries /\ latest = entries["tools"] /\ crossed = {} /\ edits = 0
      /\ req = [q \in Requests |-> NoRequest]
  BY DEF Init
<1>2. /\ DOMAIN entries = Kinds
      /\ \A kind \in Kinds : entries[kind] \in [Names[kind] -> Entry \cup {None}]
  <2>1. /\ DOMAIN entries = Kinds
        /\ \A kind \in Kinds : entries[kind] \in [Names[kind] -> Registrable(kind) \cup {None}]
    BY <1>1, RegistryAssumption
  <2>2. \A kind \in Kinds : Registrable(kind) \subseteq Entry
    BY DEF Registrable
  <2>3. QED
    BY <2>1, <2>2
<1>3. Stored
  <2>1. latest \in [Names["tools"] -> Entry \cup {None}]
    BY <1>1, <1>2 DEF Kinds
  <2>2. QED
    BY <1>1, <1>2, <2>1 DEF Stored
<1>4. ASSUME NEW q \in Requests
      PROVE  Good(req[q], q) /\ Linked(req[q])
  <2>1. req[q] = NoRequest
    BY <1>1
  <2>2. QED
    BY <1>1, <2>1, NoRequestGood DEF Linked
<1>5. ASSUME NEW n \in Names["tools"]
      PROVE  Same(entries["tools"][n], latest[n])
  <2>1. entries["tools"][n] \in Entry \cup {None}
    BY <1>2 DEF Kinds
  <2>2. entries["tools"][n] # None =>
          entries["tools"][n] = [entries["tools"][n] EXCEPT !.ns = entries["tools"][n].ns]
    BY <2>1 DEF Entry
  <2>3. QED
    BY <1>1, <2>2 DEF Same
<1>6. QED
  BY <1>3, <1>4, <1>5 DEF Inv

LEMMA NextInv == Inv /\ [Next]_vars => Inv'
<1> SUFFICES ASSUME Inv, [Next]_vars
             PROVE  Inv'
  OBVIOUS
<1>1. ASSUME NEW q \in Requests, NEW s \in Shapes[q], Arrive(q, s)
      PROVE  Inv'
  BY <1>1, ArriveStep
<1>2. ASSUME NEW q \in Requests, Handling(q)
      PROVE  Inv'
  <2>1. CASE Namespace(q)
    BY <2>1, NamespaceStep
  <2>2. CASE WellKnown(q)
    BY <2>2, WellKnownStep
  <2>3. CASE TokenProxied(q) \/ McpInit(q) \/ EvaluatorRejects(q) \/ UpstreamAnswers(q)
             \/ StaticResponse(q)
    BY <2>3, AnswerSteps
  <2>4. CASE EvaluatorPasses(q) \/ SetMetadata(q)
    BY <2>4, EvaluatorGoesOnStep
  <2>5. CASE FilterTools(q)
    BY <2>5, FilterToolsStep
  <2>6. CASE WriteCopy(q)
    BY <2>6, WriteCopyStep
  <2>7. CASE \E kind \in Kinds : \E n \in Names[kind] : Scan(q, n)
    BY <2>7, ScanStep
  <2>8. CASE List(q)
    BY <2>8, ListStep
  <2>9. CASE ToolCall(q)
    BY <2>9, ToolCallStep
  <2>10. CASE ResourceRead(q)
    BY <2>10, ResourceReadStep
  <2>11. CASE PromptGet(q)
    BY <2>11, PromptGetStep
  <2>12. QED
    BY <1>2, <2>1, <2>2, <2>3, <2>4, <2>5, <2>6, <2>7, <2>8, <2>9, <2>10, <2>11 DEF Handling
<1>3. ASSUME NEW q \in Requests, NEW scope \in {"namespace", "any"},
             NEW names \in SUBSET Names["tools"], ChooseTools(q, scope, names)
      PROVE  Inv'
  BY <1>3, ChooseToolsStep
<1>4. ASSUME NEW q \in Requests, NEW n \in Names["tools"], NEW ns \in Namespaces, ReadCopy(q, n, ns)
      PROVE  Inv'
  BY <1>4, ReadCopyStep
<1>5. ASSUME NEW kind \in Kinds, NEW n \in Names[kind], NEW e \in Entries[kind], Put(kind, n, e)
      PROVE  Inv'
  BY <1>5, PutStep
<1>6. ASSUME NEW kind \in Kinds, NEW n \in Names[kind], Delete(kind, n)
      PROVE  Inv'
  BY <1>6, DeleteStep
<1>7. CASE UNCHANGED vars
  <2>1. UNCHANGED <<entries, req, edits, latest, crossed>>
    BY <1>7 DEF vars
  <2>2. ASSUME NEW q \in Requests
        PROVE  Good(req[q], q)' /\ Linked(req[q])'
    <3>1. req'[q] = req[q] /\ Good(req[q], q) /\ Linked(req[q])
      BY <2>1 DEF Inv
    <3>2. QED
      BY <2>1, <3>1, GoodNext, LinkedNext
  <2>3. Stored'
    BY <2>1 DEF Inv, Stored, Kinds, Entry
  <2>4. (\A n \in Names["tools"] \ crossed : Same(entries["tools"][n], latest[n]))'
    BY <2>1 DEF Inv, Same
  <2>5. QED
    BY <2>2, <2>3, <2>4 DEF Inv
<1>8. QED
  BY <1>1, <1>2, <1>3, <1>4, <1>5, <1>6, <1>7 DEF Next

LEMMA InvAlways == Spec => []Inv
<1>1. QED
  BY InitInv, NextInv, PTL DEF Spec

LEMMA InvTypeOK == Inv => TypeOK
<1> SUFFICES ASSUME Inv
             PROVE  TypeOK
  OBVIOUS
<1>1. ASSUME NEW kind \in Kinds, NEW n \in Names[kind]
      PROVE  entries[kind][n] = None \/ entries[kind][n].ns \in Namespaces
  <2>1. entries[kind][n] \in Entry \cup {None}
    BY DEF Inv, Stored
  <2>2. QED
    BY <2>1 DEF Entry
<1>2. ASSUME NEW q \in Requests
      PROVE  LET x == req[q]
             IN /\ x.pc \in Pcs
                /\ x.shape \in Shapes[q] \cup {None}
                /\ x.method \in Methods \cup {None} /\ x.ns \in Namespaces \cup {None}
                /\ x.copies \in 0..MaxCopies[q]
                /\ x.sent # None => x.sent.args \in [Args -> {"caller", "header", "absent"}]
                                      /\ x.sent.headers \subseteq Headers
                /\ x.resp \in Responses \cup {None} /\ (x.resp # None <=> x.pc = "done")
                /\ x.from <= edits /\ x.until <= edits
  <2>1. Good(req[q], q) /\ Linked(req[q]) /\ edits \in Nat
    BY DEF Inv, Stored
  <2>2. req[q].from <= edits /\ req[q].until <= edits
    BY <2>1 DEF Linked
  <2>3. QED
    BY <2>1, <2>2 DEF Good, Placed, Fair, SentWell
<1>3. crossed \subseteq Names["tools"]
  BY DEF Inv, Stored
<1>4. QED
  BY <1>1, <1>2, <1>3 DEF TypeOK, Pcs

(* What the variables may hold, for any requests: the namespaces, answers  *)
(* and arguments that the filters (filters/src/lib.rs) leave in a request. *)
THEOREM TypeCorrect == Spec => []TypeOK
<1>1. QED
  BY InvAlways, InvTypeOK, PTL

LEMMA InvNothing == Inv => NothingFromElsewhere
<1> SUFFICES ASSUME Inv, NEW q \in Requests
             PROVE  LET x == req[q]
                        there == {item \in x.seen : item.entry.ns = x.ns}
                    IN /\ x.sent # None => Item(x.sent.name, x.sent.entry) \in there
                       /\ x.shown \subseteq x.seen
                       /\ x.scope = None => x.shown \subseteq there
                       /\ x.scope = "namespace" =>
                            {item.name : item \in x.shown} \subseteq {item.name : item \in there}
  BY Zenon DEF NothingFromElsewhere
<1>1. Fair(req[q])
  BY DEF Inv, Good
<1>2. QED
  BY <1>1 DEF Fair, SentWell, There, ShownWell, NamesOf

(* What a call, a read or a list without a processor serves is an entry of *)
(* the namespace of the request, whatever is registered, moved, copied and *)
(* removed meanwhile (registry.rs get_*_in_namespace, the list filters).   *)
(* Of a list that a processor picks among the tools of the namespace, only *)
(* the names were in it, and of one that it picks among any tools nothing  *)
(* is said but that they are tools (filter.rs filter_tools).               *)
THEOREM NoneFromElsewhere == Spec => []NothingFromElsewhere
<1>1. QED
  BY InvAlways, InvNothing, PTL

LEMMA InvSent == Inv => SentAsAllowed
<1> SUFFICES ASSUME Inv, NEW q \in Requests, req[q].pc = "awaiting"
             PROVE  Allowed(req[q])
  BY DEF SentAsAllowed, Allowed, Kind
<1>1. Fair(req[q])
  BY DEF Inv, Good
<1>2. QED
  BY <1>1 DEF Fair, SentWell

(* No header and no argument goes upstream that is not allowed to          *)
(* (filters/src/tool_call.rs, resource_read.rs and prompt_get.rs).         *)
THEOREM OnlyAllowedSent == Spec => []SentAsAllowed
<1>1. QED
  BY InvAlways, InvSent, PTL

LEMMA InvCopy == Inv => CopyKeepsLatest
  BY DEF Inv, Same, CopyKeepsLatest

(* Copies to other namespaces keep the tool that was last registered       *)
(* (features/evaluator/src/host.rs), except those that are outdated.       *)
THEOREM CopiesKeepLatest == Spec => []CopyKeepsLatest
<1>1. QED
  BY InvAlways, InvCopy, PTL
-----------------------------------------------------------------------------
(* Templates of URIs.                                                      *)

LEMMA PartIs ==
  ASSUME NEW C, NEW T \in Seq(C), NEW i \in 0..Len(T)
  PROVE  LET part == PartAfter(T, i)
         IN /\ part \in Seq(C) /\ Len(part) \in Nat /\ i + Len(part) <= Len(T)
            /\ \A k \in 1..Len(part) : part[k] = T[i + k] /\ T[i + k] # Var
            /\ i + Len(part) < Len(T) => T[i + Len(part) + 1] = Var
<1> DEFINE ends == {j \in i..Len(T) : j = Len(T) \/ T[j + 1] = Var}
           j == CHOOSE x \in ends : \A y \in ends : x <= y
           part == SubSeq(T, i + 1, j)
<1>1. Len(T) \in Nat /\ i \in Nat /\ \A k \in 1..Len(T) : T[k] \in C
  BY LenProperties, ElementOfSeq
<1>2. ends \in SUBSET Nat /\ Len(T) \in ends
  BY <1>1
<1>3. j \in ends /\ \A y \in ends : j <= y
  <2>1. \E x \in ends : \A y \in ends : x <= y
    BY <1>2, Least
  <2>2. QED
    BY <2>1
<1>4. j \in i..Len(T) /\ (j < Len(T) => T[j + 1] = Var)
  BY <1>1, <1>3
<1>5. ASSUME NEW k \in (i + 1)..j
      PROVE  T[k] # Var
  <2>1. k - 1 \in i..Len(T) /\ ~(j <= k - 1) /\ (k - 1) + 1 = k
    BY <1>1, <1>4
  <2>2. k - 1 \notin ends
    BY <1>3, <2>1
  <2>3. QED
    BY <2>1, <2>2
<1>6. PartAfter(T, i) = part
  BY DEF PartAfter
<1> HIDE DEF ends, j
<1>7. /\ part \in Seq(C)
      /\ Len(part) = IF i + 1 <= j THEN j - (i + 1) + 1 ELSE 0
      /\ \A k \in 1..(j - (i + 1) + 1) : part[k] = T[(i + 1) + k - 1]
  <2>1. i + 1 \in Int /\ j \in Int /\ \A k \in (i + 1)..j : T[k] \in C
    BY <1>1, <1>4
  <2>2. QED
    BY <2>1, SubSeqProperties
<1> HIDE DEF part
<1>8. Len(part) = j - i /\ Len(part) \in Nat /\ i + Len(part) = j
  BY <1>1, <1>4, <1>7
<1>9. ASSUME NEW k \in 1..Len(part)
      PROVE  part[k] = T[i + k] /\ T[i + k] # Var
  <2>1. k \in 1..(j - (i + 1) + 1) /\ (i + 1) + k - 1 = i + k /\ i + k \in (i + 1)..j
    BY <1>1, <1>4, <1>8
  <2>2. QED
    BY <1>5, <1>7, <2>1
<1>10. QED
  BY <1>1, <1>4, <1>6, <1>7, <1>8, <1>9

(* The first occurrence of a part: where it ends.                          *)
LEMMA FindIs ==
  ASSUME NEW C, NEW part \in Seq(C), NEW U \in Seq(C), NEW pos \in -1..Len(U)
  PROVE  LET end == Find(part, U, pos)
         IN /\ end \in -1..Len(U)
            /\ end # -1 => /\ pos >= 0 /\ end - Len(part) >= pos
                           /\ \A k \in 1..Len(part) : U[end - Len(part) + k] = part[k]
<1> DEFINE starts == {at \in pos..Len(U) : OccursAt(part, U, at)}
           at == CHOOSE x \in starts : \A y \in starts : x <= y
           p  == Len(part)
           u  == Len(U)
<1>1. p \in Nat /\ u \in Nat /\ \A k \in 1..u : U[k] \in C
  BY LenProperties, ElementOfSeq
<1>2. CASE pos < 0 \/ starts = {}
  <2>1. Find(part, U, pos) = -1
    BY <1>2 DEF Find
  <2>2. QED
    BY <1>1, <2>1
<1>3. CASE ~(pos < 0 \/ starts = {})
  <2>1. pos \in Nat /\ starts # {} /\ starts \in SUBSET Nat
    BY <1>1, <1>3
  <2>2. at \in starts
    <3>1. \E x \in starts : \A y \in starts : x <= y
      BY <2>1, Least
    <3>2. QED
      BY <3>1
  <2>3. Find(part, U, pos) = at + p
    BY <1>3 DEF Find
  <2>4. at \in pos..u /\ at + p <= u /\ SubSeq(U, at + 1, at + p) = part
    BY <2>2 DEF OccursAt
  <2> HIDE DEF at, starts
  <2>5. \A k \in 1..((at + p) - (at + 1) + 1) :
          SubSeq(U, at + 1, at + p)[k] = U[(at + 1) + k - 1]
    <3>1. at + 1 \in Int /\ at + p \in Int /\ \A k \in (at + 1)..(at + p) : U[k] \in C
      BY <1>1, <2>1, <2>4
    <3>2. QED
      BY <3>1, SubSeqProperties
  <2>6. ASSUME NEW k \in 1..p
        PROVE  U[(at + p) - p + k] = part[k]
    <3>1. k \in 1..((at + p) - (at + 1) + 1) /\ (at + 1) + k - 1 = (at + p) - p + k
      BY <1>1, <2>1, <2>4
    <3>2. QED
      BY <2>4, <2>5, <3>1
  <2>7. at + p \in -1..u /\ (at + p) - p >= pos /\ pos >= 0
    BY <1>1, <2>1, <2>4
  <2>8. QED
    BY <2>3, <2>6, <2>7
<1>4. QED
  BY <1>2, <1>3

(* One part, from the end of the one before it.                            *)
After(T, U, i, pos) ==
  LET part  == PartAfter(T, i)
      found == Find(part, U, pos)
  IN IF part = <<>> THEN pos ELSE IF i = 0 /\ found # Len(part) THEN -1 ELSE found

LEMMA AfterIs ==
  ASSUME NEW C, NEW T \in Seq(C), NEW U \in Seq(C), NEW i \in 0..Len(T), NEW pos \in -1..Len(U)
  PROVE  LET after == After(T, U, i, pos)
             p     == Len(PartAfter(T, i))
         IN /\ after \in -1..Len(U)
            /\ after # -1 => /\ pos >= 0 /\ after - p >= pos
                             /\ i = 0 /\ pos = 0 => after = p
                             /\ \A k \in 1..p : U[after - p + k] = T[i + k]
<1> DEFINE part  == PartAfter(T, i)
           p     == Len(part)
           found == Find(part, U, pos)
           after == After(T, U, i, pos)
<1>1. part \in Seq(C) /\ p \in Nat /\ \A k \in 1..p : part[k] = T[i + k]
  BY PartIs
<1>2. /\ found \in -1..Len(U)
      /\ found # -1 => /\ pos >= 0 /\ found - p >= pos
                       /\ \A k \in 1..p : U[found - p + k] = part[k]
  BY <1>1, FindIs
<1>3. after = IF part = <<>> THEN pos ELSE IF i = 0 /\ found # p THEN -1 ELSE found
  BY DEF After
<1>4. part = <<>> => p = 0
  BY <1>1, EmptySeq
<1>5. Len(U) \in Nat /\ i \in Nat
  BY LenProperties
<1> HIDE DEF part, p, found, after
<1>6. CASE part = <<>>
  BY <1>3, <1>4, <1>5, <1>6 DEF part, p, after
<1>7. CASE part # <<>> /\ i = 0 /\ found # p
  BY <1>3, <1>5, <1>7 DEF part, p, after
<1>8. CASE part # <<>> /\ ~(i = 0 /\ found # p)
  <2>1. after = found
    BY <1>3, <1>8
  <2>2. ASSUME after # -1
        PROVE  \A k \in 1..p : U[after - p + k] = T[i + k]
    BY <1>1, <1>2, <2>1, <2>2
  <2>3. after \in -1..Len(U) /\ (after # -1 => pos >= 0 /\ after - p >= pos)
        /\ (i = 0 /\ pos = 0 => after = p)
    BY <1>2, <1>8, <2>1
  <2>4. QED
    BY <2>2, <2>3 DEF part, p, after
<1>9. QED
  BY <1>6, <1>7, <1>8

(* The recursion that EndOfParts is defined by: the ends from a part on    *)
(* depend on those of later parts only.                                    *)
Row(T, U, i, end) ==
  [pos \in -1..Len(U) |->
     LET next == i + Len(PartAfter(T, i)) + 1
     IN IF next > Len(T) THEN After(T, U, i, pos) ELSE end[next][After(T, U, i, pos)]]

Rows(T, U, end) == end = [i \in 0..Len(T) |-> Row(T, U, i, end)]

LEMMA LaterRows ==
  ASSUME NEW C, NEW T \in Seq(C), NEW U, NEW i \in 0..Len(T), NEW f, NEW g,
         \A j \in 0..Len(T) : j > i => f[j] = g[j]
  PROVE  Row(T, U, i, f) = Row(T, U, i, g)
<1> DEFINE next == i + Len(PartAfter(T, i)) + 1
<1>1. next \in Nat /\ next > i /\ (~(next > Len(T)) => next \in 0..Len(T))
  <2>1. Len(PartAfter(T, i)) \in Nat /\ Len(T) \in Nat
    BY PartIs, LenProperties
  <2> DEFINE p == Len(PartAfter(T, i))
             n == Len(T)
  <2> HIDE DEF p, n
  <2>2. p \in Nat /\ n \in Nat /\ i \in 0..n /\ next = i + p + 1
    BY <2>1 DEF p, n
  <2>3. QED
    BY <2>2 DEF n
<1>2. ~(next > Len(T)) => f[next] = g[next]
  BY <1>1
<1> DEFINE row(h) == [pos \in -1..Len(U) |->
                        IF next > Len(T) THEN After(T, U, i, pos) ELSE h[next][After(T, U, i, pos)]]
<1>3. Row(T, U, i, f) = row(f) /\ Row(T, U, i, g) = row(g)
  BY DEF Row
<1> HIDE DEF next
<1>4. row(f) = row(g)
  BY <1>2
<1>5. QED
  BY <1>3, <1>4

LEMMA RowsExist ==
  ASSUME NEW C, NEW T \in Seq(C), NEW U
  PROVE  \E end : Rows(T, U, end)
<1> DEFINE n == Len(T)
           From(k, g) == /\ g = [i \in 0..n |-> g[i]]
                         /\ \A i \in 0..n : i + k > n => g[i] = Row(T, U, i, g)
           P == {k \in Nat : \E g : From(k, g)}
<1>1. n \in Nat
  BY LenProperties
<1>2. 0 \in P
  <2> DEFINE g == [i \in 0..n |-> 0]
  <2>1. From(0, g)
    BY <1>1
  <2>2. QED
    BY <2>1
<1>3. ASSUME NEW k \in 0..(n + 1), k \in P, k < n + 1
      PROVE  k + 1 \in P
  <2>1. PICK g : From(k, g)
    BY <1>3
  <2> DEFINE a == n - k
             new == Row(T, U, a, g)
             h == [g EXCEPT ![a] = new]
  <2>2. a \in 0..n /\ k \in Nat /\ a = n - k
    BY <1>1, <1>3
  <2>3. /\ h[a] = new /\ h = [i \in 0..n |-> h[i]]
        /\ \A i \in 0..n : i # a => h[i] = g[i]
    <3>1. g = [i \in 0..n |-> g[i]]
      BY <2>1
    <3> HIDE DEF new, a
    <3>2. QED
      BY <2>2, <3>1
  <2> HIDE DEF h, a
  <2>4. ASSUME NEW i \in 0..n, i + (k + 1) > n
        PROVE  h[i] = Row(T, U, i, h)
    <3>1. \A j \in 0..n : j > i => h[j] = g[j]
      <4>1. \A j \in 0..n : j > i => j # a
        BY <1>1, <2>2, <2>4
      <4>2. QED
        BY <2>3, <4>1
    <3>2. Row(T, U, i, h) = Row(T, U, i, g)
      BY <3>1, LaterRows
    <3>3. CASE i = a
      BY <2>3, <3>2, <3>3
    <3>4. CASE i # a
      <4>1. i + k > n
        BY <1>1, <2>2, <2>4, <3>4
      <4>2. g[i] = Row(T, U, i, g)
        BY <2>1, <4>1
      <4>3. QED
        BY <2>3, <3>2, <3>4, <4>2
    <3>5. QED
      BY <3>3, <3>4
  <2>5. From(k + 1, h)
    BY <2>3, <2>4
  <2>6. k + 1 \in Nat
    BY <1>1, <1>3
  <2> HIDE DEF From
  <2>7. QED
    BY <2>5, <2>6
<1>4. n + 1 \in P
  <2> HIDE DEF P
  <2>1. n + 1 \in Nat /\ n + 1 \in 0..(n + 1)
    BY <1>1
  <2>2. 0..(n + 1) \subseteq P
    BY <1>2, <1>3, <2>1, Induction
  <2>3. QED
    BY <2>1, <2>2
<1>5. PICK g : From(n + 1, g)
  BY <1>4
<1>6. \A i \in 0..n : g[i] = Row(T, U, i, g)
  BY <1>1, <1>5
<1>7. g = [i \in 0..n |-> Row(T, U, i, g)]
  BY <1>5, <1>6
<1>8. QED
  BY <1>7 DEF Rows

LEMMA EndIs ==
  ASSUME NEW C, NEW T \in Seq(C), NEW U
  PROVE  \E end : Rows(T, U, end) /\ EndOfParts(T, U) = end[0][0]
<1> DEFINE end == CHOOSE g : Rows(T, U, g)
<1>1. Rows(T, U, end)
  <2>1. \E g : Rows(T, U, g)
    BY RowsExist
  <2>2. QED
    BY <2>1
<1>2. EndOfParts(T, U) = end[0][0]
  BY Zenon DEF EndOfParts, Rows, Row, After
<1>3. QED
  BY <1>1, <1>2

-----------------------------------------------------------------------------
(* A template that matches has the URI as an instance.                     *)

(* The i-th character of the template, or variable, between two cuts.      *)
Step(T, U, cut, i) ==
  IF T[i] = Var THEN cut[i - 1] <= cut[i]
  ELSE cut[i] = cut[i - 1] + 1 /\ U[cut[i]] = T[i]

(* From the i-th part on, starting at pos or later.                        *)
Covered(T, U, i, pos, end) ==
  \E cut \in [0..Len(T) -> 0..Len(U)] :
    /\ cut[i] >= pos /\ (i = 0 /\ pos = 0 => cut[0] = 0)
    /\ cut[Len(T)] = end
    /\ \A k \in (i + 1)..Len(T) : Step(T, U, cut, k)

(* What the ends of the parts say, from the i-th on.                       *)
Sound(T, U, end, i) ==
  \A pos \in -1..Len(U) :
    /\ end[i][pos] \in -1..Len(U)
    /\ end[i][pos] # -1 => pos >= 0 /\ Covered(T, U, i, pos, end[i][pos])

LEMMA PartCovered ==
  ASSUME NEW C, NEW T \in Seq(C), NEW U \in Seq(C), NEW i \in 0..Len(T), NEW pos \in 0..Len(U),
         NEW rest \in [0..Len(T) -> 0..Len(U)],
         After(T, U, i, pos) # -1,
         LET next == i + Len(PartAfter(T, i)) + 1
         IN next <= Len(T) => /\ rest[next] >= After(T, U, i, pos)
                              /\ \A k \in (next + 1)..Len(T) : Step(T, U, rest, k)
  PROVE  Covered(T, U, i, pos,
                 IF i + Len(PartAfter(T, i)) + 1 > Len(T) THEN After(T, U, i, pos)
                 ELSE rest[Len(T)])
<1> DEFINE n == Len(T)
           u == Len(U)
           p == Len(PartAfter(T, i))
           after == After(T, U, i, pos)
           next == i + p + 1
           cut == [k \in 0..n |-> IF k < i THEN 0
                                  ELSE IF k < next THEN after - p + (k - i) ELSE rest[k]]
<1>1. n \in Nat /\ u \in Nat /\ i \in 0..n /\ pos \in 0..u
  BY LenProperties
<1>2. /\ p \in Nat /\ i + p <= n /\ (i + p < n => T[i + p + 1] = Var)
      /\ \A k \in 1..p : T[i + k] # Var
  <2>1. p \in Nat /\ i + p <= n /\ (i + p < n => T[i + p + 1] = Var)
    BY PartIs
  <2>2. \A k \in 1..p : T[i + k] # Var
    BY PartIs
  <2>3. QED
    BY <2>1, <2>2
<1>3. /\ after \in 0..u /\ after - p >= pos /\ (i = 0 /\ pos = 0 => after = p)
      /\ \A k \in 1..p : U[after - p + k] = T[i + k]
  <2>1. pos \in -1..Len(U)
    BY <1>1
  <2>2. after \in -1..u /\ after # -1
    BY <2>1, AfterIs
  <2>3. /\ after - p >= pos /\ (i = 0 /\ pos = 0 => after = p)
        /\ \A k \in 1..p : U[after - p + k] = T[i + k]
    BY <2>1, AfterIs
  <2>4. after \in 0..u
    BY <1>1, <2>2
  <2>5. QED
    BY <2>3, <2>4
<1>4. next <= n => rest[next] >= after /\ \A k \in (next + 1)..n : Step(T, U, rest, k)
  OBVIOUS
<1>5. rest \in [0..n -> 0..u]
  OBVIOUS
<1>6. next \in Nat /\ next = i + p + 1
  BY <1>1, <1>2
<1> HIDE DEF n, u, p, after, next
<1>7. cut \in [0..n -> 0..u]
  <2> SUFFICES ASSUME NEW k \in 0..n
               PROVE  (IF k < i THEN 0
                       ELSE IF k < next THEN after - p + (k - i) ELSE rest[k]) \in 0..u
    OBVIOUS
  <2>1. ~(k < i) /\ k < next => after - p + (k - i) \in 0..u
    BY <1>1, <1>2, <1>3, <1>6
  <2>2. rest[k] \in 0..u /\ 0 \in 0..u
    BY <1>1, <1>5
  <2>3. QED
    BY <2>1, <2>2
<1>8. /\ \A k \in i..(i + p) : cut[k] = after - p + (k - i)
      /\ \A k \in next..n : cut[k] = rest[k]
  BY <1>1, <1>2, <1>6
<1> HIDE DEF cut
<1>9. cut[i] = after - p /\ cut[i + p] = after
  <2>1. i \in i..(i + p) /\ i + p \in i..(i + p)
    BY <1>1, <1>2
  <2>2. QED
    BY <1>1, <1>2, <1>3, <1>8, <2>1
<1>10. cut[i] >= pos /\ (i = 0 /\ pos = 0 => cut[0] = 0)
  BY <1>1, <1>2, <1>3, <1>9
<1>11. cut[n] = IF next > n THEN after ELSE rest[n]
  <2>1. CASE next > n
    <3>1. i + p = n
      BY <1>1, <1>2, <1>6, <2>1
    <3>2. QED
      BY <1>9, <2>1, <3>1
  <2>2. CASE ~(next > n)
    BY <1>1, <1>6, <1>8, <2>2
  <2>3. QED
    BY <2>1, <2>2
<1>12. ASSUME NEW k \in (i + 1)..n
       PROVE  Step(T, U, cut, k)
  <2>1. CASE k <= i + p
    <3>1. k - i \in 1..p /\ i + (k - i) = k /\ k \in i..(i + p) /\ k - 1 \in i..(i + p)
      BY <1>1, <1>2, <2>1
    <3>2. T[k] # Var /\ U[after - p + (k - i)] = T[k]
      BY <1>2, <1>3, <3>1
    <3>3. cut[k] = after - p + (k - i) /\ cut[k - 1] = after - p + ((k - 1) - i)
      BY <1>8, <3>1
    <3>4. cut[k] = cut[k - 1] + 1
      BY <1>1, <1>2, <1>3, <3>3
    <3>5. QED
      BY <3>2, <3>3, <3>4 DEF Step
  <2>2. CASE k = next
    <3>1. next <= n /\ next - 1 = i + p /\ i + p < n /\ next \in next..n
      BY <1>1, <1>2, <1>6, <2>2
    <3>2. T[k] = Var
      BY <1>2, <1>6, <2>2, <3>1
    <3>3. cut[k - 1] = after /\ cut[k] = rest[next] /\ rest[next] >= after
      BY <1>4, <1>8, <1>9, <2>2, <3>1
    <3>4. rest[next] \in 0..u
      BY <1>1, <1>5, <1>6, <3>1
    <3>5. cut[k - 1] <= cut[k]
      BY <1>1, <1>3, <3>3, <3>4
    <3>6. QED
      BY <3>2, <3>5 DEF Step
  <2>3. CASE k > next
    <3>1. next <= n /\ k \in next..n /\ k - 1 \in next..n /\ k \in (next + 1)..n
      BY <1>1, <1>6, <2>3
    <3>2. cut[k] = rest[k] /\ cut[k - 1] = rest[k - 1] /\ Step(T, U, rest, k)
      BY <1>4, <1>8, <3>1
    <3>3. QED
      BY <3>2 DEF Step
  <2>4. k <= i + p \/ k = next \/ k > next
    BY <1>1, <1>2, <1>6
  <2>5. QED
    BY <2>1, <2>2, <2>3, <2>4
<1>13. QED
  BY <1>7, <1>10, <1>11, <1>12 DEF Covered, n, u, p, after, next

LEMMA RowSound ==
  ASSUME NEW C, NEW T \in Seq(C), NEW U \in Seq(C), NEW end, Rows(T, U, end),
         NEW i \in 0..Len(T), \A j \in 0..Len(T) : j > i => Sound(T, U, end, j)
  PROVE  Sound(T, U, end, i)
<1> SUFFICES ASSUME NEW pos \in -1..Len(U)
             PROVE  /\ end[i][pos] \in -1..Len(U)
                    /\ end[i][pos] # -1 => pos >= 0 /\ Covered(T, U, i, pos, end[i][pos])
  BY DEF Sound
<1> DEFINE n == Len(T)
           u == Len(U)
           p == Len(PartAfter(T, i))
           after == After(T, U, i, pos)
           next == i + p + 1
           e == end[i][pos]
<1>1. n \in Nat /\ u \in Nat /\ i \in 0..n /\ pos \in -1..u
  BY LenProperties
<1>2. p \in Nat
  BY PartIs
<1>3. after \in -1..u /\ (after # -1 => pos >= 0)
  BY AfterIs
<1>4. e = IF next > n THEN after ELSE end[next][after]
  <2>1. end[i] = Row(T, U, i, end)
    BY DEF Rows
  <2>2. QED
    BY <2>1 DEF Row
<1>5. next > i /\ next \in Nat
  <2> HIDE DEF p, n
  <2>1. QED
    BY <1>1, <1>2
<1>6. CASE next > n
  <2>1. e = after
    BY <1>4, <1>6
  <2>2. ASSUME after # -1
        PROVE  pos >= 0 /\ Covered(T, U, i, pos, e)
    <3> DEFINE rest == [k \in 0..n |-> 0]
    <3>1. rest \in [0..n -> 0..u]
      <4> HIDE DEF n, u
      <4>1. 0 \in 0..u
        BY <1>1
      <4>2. QED
        BY <4>1
    <3>2. pos \in 0..u
      <4> HIDE DEF u, after
      <4>1. QED
        BY <1>1, <1>3, <2>2
    <3>3. ~(next <= n)
      <4> HIDE DEF next, n
      <4>1. QED
        BY <1>1, <1>5, <1>6
    <3> HIDE DEF rest
    <3>4. Covered(T, U, i, pos, IF next > n THEN after ELSE rest[n])
      BY <2>2, <3>1, <3>2, <3>3, PartCovered
    <3>5. QED
      BY <1>3, <1>6, <2>1, <2>2, <3>4
  <2>3. QED
    BY <1>3, <2>1, <2>2
<1>7. CASE ~(next > n)
  <2>1. next \in 0..n /\ next <= n
    <3> HIDE DEF next, n
    <3>1. QED
      BY <1>1, <1>5, <1>7
  <2>2. Sound(T, U, end, next)
    BY <1>5, <2>1
  <2>3. e = end[next][after]
    BY <1>4, <1>7
  <2>4. e \in -1..u /\ (e # -1 => after >= 0 /\ Covered(T, U, next, after, e))
    BY <1>3, <2>2, <2>3 DEF Sound
  <2>5. ASSUME e # -1
        PROVE  pos >= 0 /\ Covered(T, U, i, pos, e)
    <3>1. PICK rest \in [0..n -> 0..u] :
            /\ rest[next] >= after /\ rest[n] = e
            /\ \A k \in (next + 1)..n : Step(T, U, rest, k)
      BY <2>4, <2>5 DEF Covered
    <3>2. after # -1 /\ pos \in 0..u
      <4> HIDE DEF u, after, e
      <4>1. QED
        BY <1>1, <1>3, <2>4, <2>5
    <3>3. Covered(T, U, i, pos, IF next > n THEN after ELSE rest[n])
      <4>1. next <= n => /\ rest[next] >= after
                         /\ \A k \in (next + 1)..n : Step(T, U, rest, k)
        BY <3>1
      <4>2. QED
        BY <3>1, <3>2, <4>1, PartCovered
    <3>4. QED
      BY <1>3, <1>7, <3>1, <3>2, <3>3
  <2>6. QED
    BY <2>4, <2>5
<1>8. QED
  BY <1>6, <1>7

LEMMA EndSound ==
  ASSUME NEW C, NEW T \in Seq(C), NEW U \in Seq(C)
  PROVE  LET end == EndOfParts(T, U)
         IN end \in -1..Len(U) /\ (end # -1 => Covered(T, U, 0, 0, end))
<1> DEFINE n == Len(T)
<1>1. n \in Nat /\ 0 \in -1..Len(U) /\ 0 \in 0..n
  BY LenProperties
<1>2. PICK end : Rows(T, U, end) /\ EndOfParts(T, U) = end[0][0]
  BY EndIs
<1> DEFINE P == {k \in Nat : \A i \in 0..n : i + k > n => Sound(T, U, end, i)}
<1>3. 0 \in P
  BY <1>1
<1>4. ASSUME NEW k \in 0..(n + 1), k \in P, k < n + 1
      PROVE  k + 1 \in P
  <2>1. ASSUME NEW i \in 0..n, i + (k + 1) > n
        PROVE  Sound(T, U, end, i)
    <3>1. \A j \in 0..n : j > i => j + k > n
      <4> HIDE DEF P, n
      <4>1. QED
        BY <1>1, <2>1
    <3>2. \A j \in 0..n : j > i => Sound(T, U, end, j)
      BY <1>4, <3>1
    <3>3. QED
      BY <1>2, <3>2, RowSound
  <2>2. QED
    BY <1>4, <2>1
<1>5. n + 1 \in P
  <2> HIDE DEF P
  <2>1. n + 1 \in Nat /\ n + 1 \in 0..(n + 1)
    BY <1>1
  <2>2. 0..(n + 1) \subseteq P
    BY <1>3, <1>4, <2>1, Induction
  <2>3. QED
    BY <2>1, <2>2
<1>6. 0 + (n + 1) > n
  <2> HIDE DEF n
  <2>1. QED
    BY <1>1
<1>7. Sound(T, U, end, 0)
  BY <1>1, <1>5, <1>6
<1>8. QED
  BY <1>1, <1>2, <1>7 DEF Sound

LEMMA MatchesAreInstances ==
  ASSUME NEW C, NEW T \in Seq(C), NEW U \in Seq(C), MatchesUriTemplate(T, U)
  PROVE  IsInstance(T, U)
<1> DEFINE n == Len(T)
           u == Len(U)
           end == EndOfParts(T, U)
<1>1. n \in Nat /\ u \in Nat /\ \A k \in 1..n : T[k] \in C
  BY LenProperties, ElementOfSeq
<1>2. ASSUME NEW cut \in [0..n -> 0..u], cut[0] = 0, cut[n] = u,
             \A k \in 1..n : Step(T, U, cut, k)
      PROVE  IsInstance(T, U)
  BY <1>2 DEF IsInstance, Step
<1>3. CASE ~Contains(T, Var)
  <2>1. T = U
    BY <1>3 DEF MatchesUriTemplate
  <2>2. \A k \in 1..n : T[k] # Var
    BY <1>3 DEF Contains
  <2> DEFINE cut == [k \in 0..n |-> k]
  <2>3. n = u
    BY <2>1
  <2> HIDE DEF n, u
  <2>4. cut \in [0..n -> 0..u] /\ cut[0] = 0 /\ cut[n] = u
    BY <1>1, <2>3
  <2>5. ASSUME NEW k \in 1..n
        PROVE  Step(T, U, cut, k)
    <3>1. cut[k] = k /\ cut[k - 1] = k - 1 /\ k = (k - 1) + 1
      BY <1>1
    <3>2. U[k] = T[k]
      BY <2>1
    <3> HIDE DEF cut
    <3>3. QED
      BY <2>2, <3>1, <3>2 DEF Step
  <2> HIDE DEF cut
  <2>6. QED
    BY <1>2, <2>4, <2>5
<1>4. CASE Contains(T, Var)
  <2>1. IF Last(T) = Var THEN end >= 0 ELSE end = u
    BY <1>4 DEF MatchesUriTemplate
  <2>2. end \in -1..u /\ (end # -1 => Covered(T, U, 0, 0, end))
    BY EndSound
  <2>3. n \in 1..n /\ n # 0 /\ Last(T) = T[n]
    <3>1. \E k \in 1..n : T[k] = Var
      BY <1>4 DEF Contains
    <3>2. QED
      BY <1>1, <3>1 DEF Last
  <2>4. end # -1
    <3> HIDE DEF end, u
    <3>1. QED
      BY <1>1, <2>1, <2>2
  <2>5. PICK first \in [0..n -> 0..u] :
          first[0] = 0 /\ first[n] = end /\ \A k \in 1..n : Step(T, U, first, k)
    <3>1. 0 >= 0 /\ 0 + 1 = 1
      OBVIOUS
    <3>2. QED
      BY <2>2, <2>4, <3>1 DEF Covered
  <2>6. CASE T[n] # Var
    BY <1>2, <2>1, <2>3, <2>5, <2>6
  <2>7. CASE T[n] = Var
    <3> DEFINE cut == [first EXCEPT ![n] = u]
    <3> HIDE DEF n, u, end
    <3>1. cut \in [0..n -> 0..u] /\ cut[0] = 0 /\ cut[n] = u
      BY <1>1, <2>3, <2>5
    <3>2. \A k \in 0..(n - 1) : cut[k] = first[k]
      BY <1>1, <2>5
    <3> HIDE DEF cut
    <3>3. ASSUME NEW k \in 1..n
          PROVE  Step(T, U, cut, k)
      <4>1. CASE k = n
        <5>1. n - 1 \in 0..n /\ n - 1 \in 0..(n - 1)
          BY <1>1, <2>3
        <5>2. cut[n - 1] <= cut[n]
          BY <1>1, <3>1, <5>1
        <5>3. QED
          BY <2>7, <4>1, <5>2 DEF Step
      <4>2. CASE k # n
        <5>1. k \in 0..(n - 1) /\ k - 1 \in 0..(n - 1)
          BY <1>1, <4>2
        <5>2. cut[k] = first[k] /\ cut[k - 1] = first[k - 1] /\ Step(T, U, first, k)
          BY <2>5, <3>2, <5>1
        <5>3. QED
          BY <5>2 DEF Step
      <4>3. QED
        BY <4>1, <4>2
    <3>4. QED
      BY <1>2, <3>1, <3>3 DEF n, u
  <2>8. QED
    BY <2>6, <2>7
<1>5. QED
  BY <1>3, <1>4

-----------------------------------------------------------------------------
(* The search misses no instance of a template that it decides: whatever   *)
(* cuts the URI was put together with, the ends it finds are no later.     *)

LEMMA FindReaches ==
  ASSUME NEW C, NEW part \in Seq(C), NEW U \in Seq(C), NEW pos \in 0..Len(U), NEW c \in pos..Len(U),
         c + Len(part) <= Len(U), \A k \in 1..Len(part) : U[c + k] = part[k]
  PROVE  Find(part, U, pos) # -1 /\ Find(part, U, pos) <= c + Len(part)
<1> DEFINE starts == {at \in pos..Len(U) : OccursAt(part, U, at)}
           at == CHOOSE x \in starts : \A y \in starts : x <= y
           p  == Len(part)
           u  == Len(U)
           sub == SubSeq(U, c + 1, c + p)
<1>1. p \in Nat /\ u \in Nat /\ pos \in 0..u /\ c \in pos..u /\ c + p <= u
  BY LenProperties
<1>2. sub = part
  <2>1. /\ sub \in Seq(C)
        /\ Len(sub) = IF c + 1 <= c + p THEN (c + p) - (c + 1) + 1 ELSE 0
        /\ \A k \in 1..((c + p) - (c + 1) + 1) : sub[k] = U[(c + 1) + k - 1]
    <3> HIDE DEF p
    <3>1. c + 1 \in Int /\ c + p \in Int
      BY <1>1
    <3>2. \A k \in (c + 1)..(c + p) : U[k] \in C
      BY <1>1, ElementOfSeq DEF u
    <3>3. QED
      BY <3>1, <3>2, SubSeqProperties
  <2> HIDE DEF p, sub
  <2>2. Len(sub) = p /\ (c + p) - (c + 1) + 1 = p
    BY <1>1, <2>1
  <2>3. ASSUME NEW k \in 1..p
        PROVE  sub[k] = part[k]
    <3>1. sub[k] = U[(c + 1) + k - 1] /\ (c + 1) + k - 1 = c + k
      BY <1>1, <2>1, <2>2
    <3>2. QED
      BY <3>1 DEF p
  <2>4. QED
    BY <2>1, <2>2, <2>3, SeqEqual DEF p
<1>3. c \in starts
  BY <1>1, <1>2 DEF OccursAt
<1>4. starts \in SUBSET Nat
  <2> HIDE DEF u
  <2>1. pos..u \in SUBSET Nat
    BY <1>1
  <2>2. QED
    BY <2>1 DEF u
<1>5. Find(part, U, pos) = at + p
  <2>1. ~(pos < 0) /\ starts # {}
    <3>1. ~(pos < 0)
      BY <1>1
    <3>2. QED
      BY <1>3, <3>1
  <2> HIDE DEF starts
  <2>2. QED
    BY <2>1 DEF Find, starts
<1> HIDE DEF starts
<1>6. at \in starts /\ at <= c
  <2>1. \E x \in starts : \A y \in starts : x <= y
    BY <1>3, <1>4, Least
  <2>2. at \in starts /\ \A y \in starts : at <= y
    BY <2>1
  <2>3. QED
    BY <1>3, <2>2
<1> HIDE DEF at, p
<1>7. at \in Nat
  BY <1>4, <1>6
<1>8. at + p # -1 /\ at + p <= c + p
  BY <1>1, <1>6, <1>7
<1>9. QED
  BY <1>5, <1>8 DEF p

LEMMA AfterReaches ==
  ASSUME NEW C, NEW T \in Seq(C), NEW U \in Seq(C), NEW i \in 0..Len(T), NEW pos \in 0..Len(U),
         NEW c \in pos..Len(U), i = 0 => c = 0,
         c + Len(PartAfter(T, i)) <= Len(U),
         \A k \in 1..Len(PartAfter(T, i)) : U[c + k] = T[i + k]
  PROVE  After(T, U, i, pos) # -1 /\ After(T, U, i, pos) <= c + Len(PartAfter(T, i))
<1> DEFINE part  == PartAfter(T, i)
           p     == Len(part)
           found == Find(part, U, pos)
           after == After(T, U, i, pos)
<1>1. part \in Seq(C) /\ p \in Nat /\ \A k \in 1..p : part[k] = T[i + k]
  BY PartIs
<1>2. Len(U) \in Nat /\ pos \in -1..Len(U)
  BY LenProperties
<1>3. found # -1 /\ found <= c + p
  <2>1. \A k \in 1..p : U[c + k] = part[k]
    BY <1>1
  <2> HIDE DEF part
  <2>2. QED
    BY <1>1, <2>1, FindReaches DEF part
<1>4. found \in -1..Len(U) /\ (found # -1 => found - p >= pos)
  BY <1>1, <1>2, FindIs
<1>5. after = IF part = <<>> THEN pos ELSE IF i = 0 /\ found # p THEN -1 ELSE found
  BY DEF After
<1>6. part = <<>> => p = 0
  BY <1>1, EmptySeq
<1>7. pos \in Nat /\ c \in Nat /\ pos <= c /\ (i = 0 => c = 0)
  BY <1>2
<1> HIDE DEF part, p, found, after
<1>8. after # -1 /\ after <= c + p
  <2>1. CASE part = <<>>
    BY <1>1, <1>5, <1>6, <1>7, <2>1
  <2>2. CASE part # <<>>
    <3>1. i = 0 => found = p
      BY <1>1, <1>2, <1>3, <1>4, <1>7
    <3>2. after = found
      BY <1>5, <2>2, <3>1
    <3>3. QED
      BY <1>3, <3>2
  <2>3. QED
    BY <2>1, <2>2
<1>9. QED
  BY <1>8 DEF part, p, after

(* The characters of a part follow one another.                            *)
Follow(T, U, cut, i, p) ==
  \A k \in 0..p : cut[i + k] = cut[i] + k /\ (k > 0 => U[cut[i] + k] = T[i + k])

Literal(T, U, cut, i, p) == \A k \in 1..p : T[i + k] # Var /\ Step(T, U, cut, i + k)

LEMMA CutsFollow ==
  ASSUME NEW T, NEW U, NEW n \in Nat, NEW u \in Nat, NEW cut \in [0..n -> 0..u],
         NEW i \in 0..n, NEW p \in Nat, i + p <= n,
         Literal(T, U, cut, i, p)
  PROVE  Follow(T, U, cut, i, p)
<1> DEFINE P == {k \in Nat : cut[i + k] = cut[i] + k /\ (k > 0 => U[cut[i] + k] = T[i + k])}
<1>1. cut[i] \in Nat
  OBVIOUS
<1>2. 0 \in P
  BY <1>1
<1>3. ASSUME NEW k \in 0..p, k \in P, k < p
      PROVE  k + 1 \in P
  <2> DEFINE m == i + (k + 1)
  <2>1. k + 1 \in 1..p /\ k + 1 \in Nat /\ m - 1 = i + k
    BY <1>3
  <2>2. T[m] # Var /\ Step(T, U, cut, m)
    BY <2>1 DEF Literal
  <2> HIDE DEF m
  <2>3. cut[m] = cut[m - 1] + 1 /\ U[cut[m]] = T[m]
    BY <2>2 DEF Step
  <2>4. cut[m - 1] = cut[i] + k
    BY <1>3, <2>1
  <2>5. cut[m] = cut[i] + (k + 1)
    <3>1. k \in Nat /\ cut[m] = (cut[i] + k) + 1
      BY <2>3, <2>4
    <3>2. QED
      BY <1>1, <3>1
  <2>6. U[cut[i] + (k + 1)] = T[m]
    BY <2>3, <2>5
  <2>7. QED
    BY <2>1, <2>5, <2>6 DEF m
<1>4. 0..p \subseteq P
  <2> HIDE DEF P
  <2>1. QED
    BY <1>2, <1>3, Induction
<1>5. QED
  BY <1>4 DEF Follow

(* Whatever cuts the URI has from the i-th part on, the search from an     *)
(* earlier position ends no later.                                         *)
Minimal(T, U, end, i) ==
  \A pos \in 0..Len(U) : \A cut \in [0..Len(T) -> 0..Len(U)] :
    /\ cut[i] >= pos /\ (i = 0 => cut[0] = 0)
    /\ \A k \in (i + 1)..Len(T) : Step(T, U, cut, k)
    => end[i][pos] # -1 /\ end[i][pos] <= cut[Len(T)]

LEMMA RowMinimal ==
  ASSUME NEW C, NEW T \in Seq(C), NEW U \in Seq(C), NEW end, Rows(T, U, end),
         NEW i \in 0..Len(T), \A j \in 0..Len(T) : j > i => Minimal(T, U, end, j)
  PROVE  Minimal(T, U, end, i)
<1> DEFINE n == Len(T)
           u == Len(U)
<1> SUFFICES ASSUME NEW pos \in 0..u, NEW cut \in [0..n -> 0..u],
                    cut[i] >= pos, i = 0 => cut[0] = 0,
                    \A k \in (i + 1)..n : Step(T, U, cut, k)
             PROVE  end[i][pos] # -1 /\ end[i][pos] <= cut[n]
  BY DEF Minimal
<1> DEFINE p == Len(PartAfter(T, i))
           after == After(T, U, i, pos)
           next == i + p + 1
<1>1. n \in Nat /\ u \in Nat /\ i \in 0..n /\ pos \in 0..u /\ pos \in -1..u
  BY LenProperties
<1>2. /\ p \in Nat /\ i + p <= n /\ (i + p < n => T[i + p + 1] = Var)
      /\ \A k \in 1..p : T[i + k] # Var
  <2>1. p \in Nat /\ i + p <= n /\ (i + p < n => T[i + p + 1] = Var)
    BY PartIs
  <2>2. \A k \in 1..p : T[i + k] # Var
    BY PartIs
  <2>3. QED
    BY <2>1, <2>2
<1>3. end[i][pos] = IF next > n THEN after ELSE end[next][after]
  <2>1. end[i] = Row(T, U, i, end)
    BY DEF Rows
  <2>2. QED
    BY <1>1, <2>1 DEF Row
<1>4. cut \in [0..n -> 0..u] /\ cut[i] \in 0..u /\ cut[i] >= pos /\ (i = 0 => cut[i] = 0)
  OBVIOUS
<1>5. \A k \in (i + 1)..n : Step(T, U, cut, k)
  OBVIOUS
<1>6. after \in -1..u
  BY <1>1, AfterIs
<1>7. /\ cut[i + p] = cut[i] + p /\ cut[i + p] \in 0..u
      /\ \A k \in 1..p : U[cut[i] + k] = T[i + k]
  <2> HIDE DEF n, u, p
  <2>1. \A k \in 1..p : i + k \in (i + 1)..n
    BY <1>1, <1>2
  <2>2. Literal(T, U, cut, i, p)
    BY <1>2, <1>5, <2>1 DEF Literal
  <2>3. Follow(T, U, cut, i, p)
    BY <1>1, <1>2, <1>4, <2>2, CutsFollow
  <2>4. p \in 0..p /\ i + p \in 0..n /\ \A k \in 1..p : k \in 0..p /\ k > 0
    BY <1>1, <1>2
  <2>5. QED
    BY <1>4, <2>3, <2>4 DEF Follow
<1>8. after # -1 /\ after <= cut[i + p]
  <2>1. cut[i] \in pos..u /\ cut[i] + p <= u
    <3> HIDE DEF u, p
    <3>1. QED
      BY <1>1, <1>4, <1>7
  <2>2. after # -1 /\ after <= cut[i] + p
    BY <1>4, <1>7, <2>1, AfterReaches
  <2>3. QED
    BY <1>7, <2>2
<1>9. next \in Nat /\ next > i /\ next = i + p + 1
  <2> HIDE DEF p, n
  <2>1. QED
    BY <1>1, <1>2
<1>10. CASE next > n
  <2>1. i + p = n
    <3> HIDE DEF p, n, next
    <3>1. QED
      BY <1>1, <1>2, <1>9, <1>10
  <2>2. QED
    BY <1>3, <1>8, <1>10, <2>1
<1>11. CASE ~(next > n)
  <2>1. next \in 0..n /\ next \in (i + 1)..n /\ i + p < n /\ next - 1 = i + p
    <3> HIDE DEF p, n, next
    <3>1. QED
      BY <1>1, <1>2, <1>9, <1>11
  <2>2. T[next] = Var
    BY <1>2, <2>1
  <2>3. cut[i + p] <= cut[next]
    BY <1>5, <2>1, <2>2 DEF Step
  <2>4. after \in 0..u /\ cut[next] >= after /\ next # 0
    <3>1. cut[next] \in 0..u
      BY <1>4, <2>1
    <3> HIDE DEF after, u, next, p, n
    <3>2. QED
      BY <1>1, <1>6, <1>7, <1>8, <1>9, <2>3, <3>1
  <2>5. \A k \in (next + 1)..n : Step(T, U, cut, k)
    <3>1. \A k \in (next + 1)..n : k \in (i + 1)..n
      <4> HIDE DEF next, n
      <4>1. QED
        BY <1>1, <1>9
    <3>2. QED
      BY <1>5, <3>1
  <2>6. Minimal(T, U, end, next)
    BY <1>9, <2>1
  <2> HIDE DEF after, next, n, u
  <2>7. end[next][after] # -1 /\ end[next][after] <= cut[n]
    BY <1>4, <2>4, <2>5, <2>6 DEF Minimal, n, u
  <2>8. QED
    BY <1>3, <1>11, <2>7
<1>12. QED
  BY <1>10, <1>11

LEMMA EndMinimal ==
  ASSUME NEW C, NEW T \in Seq(C), NEW U \in Seq(C), IsInstance(T, U)
  PROVE  EndOfParts(T, U) # -1
<1> DEFINE n == Len(T)
           u == Len(U)
<1>1. n \in Nat /\ u \in Nat
  BY LenProperties
<1>2. PICK end : Rows(T, U, end) /\ EndOfParts(T, U) = end[0][0]
  BY EndIs
<1> DEFINE P == {k \in Nat : \A i \in 0..n : i + k > n => Minimal(T, U, end, i)}
<1>3. 0 \in P
  BY <1>1
<1>4. ASSUME NEW k \in 0..(n + 1), k \in P, k < n + 1
      PROVE  k + 1 \in P
  <2>1. ASSUME NEW i \in 0..n, i + (k + 1) > n
        PROVE  Minimal(T, U, end, i)
    <3>1. \A j \in 0..n : j > i => j + k > n
      <4> HIDE DEF P, n
      <4>1. QED
        BY <1>1, <2>1
    <3>2. \A j \in 0..n : j > i => Minimal(T, U, end, j)
      BY <1>4, <3>1
    <3>3. QED
      BY <1>2, <3>2, RowMinimal
  <2>2. QED
    BY <1>4, <2>1
<1>5. n + 1 \in P
  <2> HIDE DEF P
  <2>1. n + 1 \in Nat /\ n + 1 \in 0..(n + 1)
    BY <1>1
  <2>2. 0..(n + 1) \subseteq P
    BY <1>3, <1>4, <2>1, Induction
  <2>3. QED
    BY <2>1, <2>2
<1>6. 0 + (n + 1) > n /\ 0 \in 0..n /\ 0 \in 0..u
  <2> HIDE DEF n, u
  <2>1. QED
    BY <1>1
<1>7. Minimal(T, U, end, 0)
  BY <1>5, <1>6
<1>8. PICK cut \in [0..n -> 0..u] : cut[0] = 0 /\ \A k \in 1..n : Step(T, U, cut, k)
  BY DEF IsInstance, Step
<1>9. cut[0] >= 0 /\ 0 + 1 = 1
  BY <1>8
<1> HIDE DEF P
<1>10. end[0][0] # -1
  BY <1>6, <1>7, <1>8, <1>9 DEF Minimal
<1>11. QED
  BY <1>2, <1>10

LEMMA InstancesMatch ==
  ASSUME NEW C, NEW T \in Seq(C), NEW U \in Seq(C), Decided(T), IsInstance(T, U)
  PROVE  MatchesUriTemplate(T, U)
<1> DEFINE n == Len(T)
           u == Len(U)
           end == EndOfParts(T, U)
<1>1. n \in Nat /\ u \in Nat
  BY LenProperties
<1>2. CASE ~Contains(T, Var)
  <2>1. PICK cut \in [0..n -> 0..u] :
          cut[0] = 0 /\ cut[n] = u /\ \A k \in 1..n : Step(T, U, cut, k)
    BY DEF IsInstance, Step
  <2>2. \A k \in 1..n : T[k] # Var
    BY <1>2 DEF Contains
  <2>3. n = u /\ \A k \in 1..n : U[k] = T[k]
    <3> HIDE DEF n, u
    <3>1. 0 \in 0..n /\ 0 + n <= n /\ \A k \in 1..n : 0 + k = k
      BY <1>1
    <3>2. Literal(T, U, cut, 0, n)
      BY <2>1, <2>2, <3>1 DEF Literal
    <3>3. Follow(T, U, cut, 0, n)
      BY <1>1, <3>1, <3>2, CutsFollow
    <3>4. n \in 0..n /\ \A k \in 1..n : k \in 0..n /\ k > 0
      BY <1>1
    <3>5. cut[0 + n] = 0 + n /\ 0 + n = n
      BY <1>1, <2>1, <3>3, <3>4 DEF Follow
    <3>6. ASSUME NEW k \in 1..n
          PROVE  U[k] = T[k]
      <4>1. U[0 + k] = T[0 + k]
        BY <2>1, <3>3, <3>4 DEF Follow
      <4>2. QED
        BY <3>1, <4>1
    <3>7. QED
      BY <2>1, <3>5, <3>6
  <2>4. T = U
    BY <2>3, SeqEqual
  <2>5. QED
    BY <1>2, <2>4 DEF MatchesUriTemplate, Decided
<1>3. CASE Contains(T, Var)
  <2>1. Last(T) = Var /\ ~Contains(T, Open)
    BY <1>3 DEF Decided
  <2>2. end \in -1..u /\ end # -1
    BY EndSound, EndMinimal
  <2>3. end >= 0
    <3> HIDE DEF end, u
    <3>1. QED
      BY <1>1, <2>2
  <2>4. QED
    BY <1>3, <2>1, <2>3 DEF MatchesUriTemplate
<1>4. QED
  BY <1>2, <1>3

-----------------------------------------------------------------------------
(* A second invariant: as long as nothing has been registered or removed,  *)
(* a request has seen what is in the registry es, k being the number of    *)
(* changes so far.                                                         *)

Current(x, es, n) == Item(n, es[Kind(x)][n])
Here(x, es) == {n \in Names[Kind(x)] : InNamespace(es[Kind(x)][n], x.ns)}
Now(x, es)  == {Current(x, es, n) : n \in {m \in Names[Kind(x)] : es[Kind(x)][m] # None}}

Reading(x)  == x.method = "resources/read"
Asked(x)    == IF Reading(x) THEN x.shape.uri
               ELSE IF x.method = "tools/call" THEN x.name ELSE x.shape.name
Labels(x)   == {Label(Kind(x), item) : item \in x.shown}
Exact(x)    == {item \in x.seen : item.entry.ns = x.ns /\ ~item.entry.template
                                    /\ item.entry.location = x.shape.uri}
Before(x)   == ~(x.at \in DOMAIN Chain /\ Chain[x.at] \in Scanning)

(* Resources have locations.                                               *)
Sited(es)   == \A n \in Names["resources"] :
                 es["resources"][n] # None => es["resources"][n].location # None
Located(x)  == x.pc # "idle" /\ Kind(x) = "resources" =>
                 \A item \in x.seen : item.entry.location \in Seq(Characters)

(* What is read.                                                           *)
Reads(x) ==
  x.pc = "awaiting" /\ Reading(x) =>
    IF x.sent.entry.template THEN IsInstance(x.sent.entry.location, x.shape.uri)
    ELSE x.sent.entry.location = x.shape.uri

(* What has been seen and found is what is there.                          *)
Fresh(x, es, k) ==
  x.pc \notin {"idle", "done"} /\ Kind(x) # None /\ x.from = k =>
    /\ x.seen \subseteq Now(x, es)
    /\ x.pc = "filter" /\ Before(x) => x.todo = Names[Kind(x)]
    /\ x.pc = "filter" => \A n \in Here(x, es) \ x.todo : Current(x, es, n) \in Found(x)
    /\ x.pc = "choosing" /\ x.scope # "any" => x.chosen \subseteq Here(x, es)
    /\ x.pc = "awaiting" /\ Reading(x) /\ Exact(x) # {} => ~x.sent.entry.template

(* What is listed is there, and what was not found is not.                 *)
Shows(x, es) ==
  x.scope # "any" =>
    \A item \in x.shown : \E n \in Here(x, es) :
      item = Current(x, es, n) /\ Listed(es[Kind(x)][n], x.method)

Missed(x, es) ==
  /\ x.method \in {"tools/call", "prompts/get"} =>
       Asked(x) = None \/ Asked(x) \notin Here(x, es)
  /\ Reading(x) =>
       x.shape.uri = None \/ \A n \in Here(x, es) : ~Serves(es[Kind(x)][n], x.shape.uri)

Over(x, es, k) ==
  x.pc = "done" /\ x.from = k => Shows(x, es) /\ (x.resp = "-32602" => Missed(x, es))

(* It has all of its kind to go through, as it is now.                     *)
Prepared(m) ==
  /\ Located(m)
  /\ Kind(m) # None /\ m.from = edits => /\ m.seen \subseteq Now(m, entries)
                                        /\ m.todo = Names[Kind(m)]

Second(x, es, k) == Located(x) /\ Reads(x) /\ Fresh(x, es, k) /\ Over(x, es, k)

Inv2 ==
  /\ Sited(entries)
  /\ \A q \in Requests : Second(req[q], entries, edits)
  /\ ListedIsFound

-----------------------------------------------------------------------------
(* Two requests, when nothing has changed.                                 *)

LEMMA UsesAre ==
  ASSUME NEW a, NEW b, <<a, b>> \in Uses
  PROVE  \/ a = "tools/list" /\ b = "tools/call"
         \/ a = "resources/list" /\ b = "resources/read"
         \/ a = "prompts/list" /\ b = "prompts/get"
  BY DEF Uses

LEMMA ShownIsFound ==
  ASSUME NEW x, NEW y, NEW es, <<x.method, y.method>> \in Uses, x.ns = y.ns,
         x.scope # "any", Asked(y) \in Labels(x), Shows(x, es), Sited(es)
  PROVE  ~Missed(y, es)
<1>1. PICK item \in x.shown : Asked(y) = Label(Kind(x), item)
  BY DEF Labels
<1>2. PICK n \in Here(x, es) : item = Current(x, es, n) /\ Listed(es[Kind(x)][n], x.method)
  BY DEF Shows
<1>3. n \in Names[Kind(x)] /\ InNamespace(es[Kind(x)][n], x.ns)
  BY DEF Here
<1>4. CASE x.method = "tools/list" /\ y.method = "tools/call"
  <2>1. Kind(x) = "tools" /\ Kind(y) = "tools" /\ "tools" \in Kinds
    BY <1>4 DEF Kind, KindOf, Kinds
  <2>2. Asked(y) = n
    BY <1>1, <1>2, <2>1 DEF Label, Current, Item
  <2>3. n \in Here(y, es) /\ n # None
    BY <1>3, <2>1, NoneAssumption DEF Here
  <2>4. QED
    BY <1>4, <2>2, <2>3 DEF Missed
<1>5. CASE x.method = "prompts/list" /\ y.method = "prompts/get"
  <2>1. Kind(x) = "prompts" /\ Kind(y) = "prompts" /\ "prompts" \in Kinds
    BY <1>5 DEF Kind, KindOf, Kinds
  <2>2. Asked(y) = n
    BY <1>1, <1>2, <2>1 DEF Label, Current, Item
  <2>3. n \in Here(y, es) /\ n # None
    BY <1>3, <2>1, NoneAssumption DEF Here
  <2>4. QED
    BY <1>5, <2>2, <2>3 DEF Missed
<1>6. CASE x.method = "resources/list" /\ y.method = "resources/read"
  <2>1. Kind(x) = "resources" /\ Kind(y) = "resources"
    BY <1>6 DEF Kind, KindOf
  <2> DEFINE e == es["resources"][n]
  <2>2. Asked(y) = y.shape.uri
    BY <1>6 DEF Asked, Reading
  <2>3. y.shape.uri = e.location
    BY <1>1, <1>2, <2>1, <2>2 DEF Label, Current, Item
  <2>4. ~e.template
    BY <1>2, <1>6, <2>1 DEF Listed
  <2>5. n \in Here(y, es) /\ e # None
    BY <1>3, <2>1 DEF Here, InNamespace
  <2>6. y.shape.uri # None
    BY <1>3, <2>1, <2>3, <2>5 DEF Sited
  <2>7. Serves(es[Kind(y)][n], y.shape.uri)
    BY <2>1, <2>3, <2>4 DEF IsAt, Serves
  <2>8. QED
    BY <1>6, <2>5, <2>6, <2>7 DEF Missed, Reading
<1>7. QED
  BY <1>4, <1>5, <1>6, UsesAre

(* A request is over as of now, or was over already.                       *)
LEMMA ListedStays ==
  ASSUME ListedIsFound, Sited(entries'), \A q \in Requests : Second(req'[q], entries', edits'),
         \A q \in Requests : req'[q].pc = "done" => req'[q] = req[q] \/ req'[q].until = edits'
  PROVE  ListedIsFound'
<1> SUFFICES ASSUME NEW q \in Requests, NEW r \in Requests,
                    req'[q].pc = "done", req'[r].pc = "done",
                    <<req'[q].method, req'[r].method>> \in Uses,
                    req'[q].ns = req'[r].ns, req'[q].scope # "any",
                    Asked(req'[r]) \in Labels(req'[q]),
                    {req'[q].from, req'[q].until, req'[r].from, req'[r].until} = {req'[q].from},
                    req'[r].resp = "-32602"
             PROVE  FALSE
  BY Zenon DEF ListedIsFound, Uses, Asked, Labels, Reading, Kind, KindOf, Label
<1>1. req'[q].until = req'[q].from /\ req'[r].from = req'[q].from /\ req'[r].until = req'[q].from
  OBVIOUS
<1>2. CASE req'[q].from = edits'
  <2>1. Shows(req'[q], entries') /\ Missed(req'[r], entries')
    BY <1>1, <1>2 DEF Second, Over
  <2>2. QED
    BY <2>1, ShownIsFound
<1>3. CASE req'[q].from # edits'
  <2>1. req'[q] = req[q] /\ req'[r] = req[r]
    BY <1>1, <1>3
  <2> DEFINE x == req[q]
             y == req[r]
  <2>2. /\ x.pc = "done" /\ y.pc = "done" /\ <<x.method, y.method>> \in Uses
        /\ x.ns = y.ns /\ x.scope # "any"
        /\ Asked(y) \in Labels(x)
        /\ {x.from, x.until, y.from, y.until} = {x.from} /\ y.resp = "-32602"
    BY <2>1
  <2>3. QED
    BY <2>2, Zenon DEF ListedIsFound, Asked, Labels, Reading, Kind
<1>4. QED
  BY <1>2, <1>3

LEMMA SecondPrime ==
  ASSUME NEW q \in Requests, Second(req'[q], entries', edits')
  PROVE  Second(req[q], entries, edits)'
  BY DEF Second, Located, Reads, Fresh, Over, Shows, Missed, Current, Here, Now, Reading, Asked,
         Exact, Before,
         Kind, KindOf, Item, InNamespace, Found, Label, Listed, IsAt, Serves, Decided,
         IsInstance, Contains, Last, Chain, Scanning

LEMMA SecondNext ==
  ASSUME Inv2, Sited(entries'), \A q \in Requests : Second(req'[q], entries', edits'),
         \A q \in Requests : req'[q].pc = "done" => req'[q] = req[q] \/ req'[q].until = edits'
  PROVE  Inv2'
<1>1. ListedIsFound'
  BY ListedStays DEF Inv2
<1>2. \A q \in Requests : Second(req[q], entries, edits)'
  BY SecondPrime
<1>3. Sited(entries)'
  BY DEF Sited
<1>4. QED
  BY <1>1, <1>2, <1>3 DEF Inv2

LEMMA BecomeSecond ==
  ASSUME Inv, Inv2, NEW q \in Requests, NEW y, Second(y, entries, edits),
         y.pc = "done" => y.until = edits,
         req' = [req EXCEPT ![q] = y], UNCHANGED <<entries, edits, latest, crossed>>
  PROVE  Inv2'
<1>1. DOMAIN req = Requests
  BY DEF Inv, Stored
<1>2. req'[q] = y /\ \A p \in Requests : p # q => req'[p] = req[p]
  BY <1>1
<1>3. \A p \in Requests : Second(req'[p], entries', edits')
  BY <1>2 DEF Inv2
<1>4. \A p \in Requests : req'[p].pc = "done" => req'[p] = req[p] \/ req'[p].until = edits'
  BY <1>2
<1>5. Sited(entries')
  BY DEF Inv2
<1>6. QED
  BY <1>3, <1>4, <1>5, SecondNext

(* What a request has still to do with the registry goes by its place,     *)
(* not by what it has answered.                                            *)
LEMMA SameHere ==
  ASSUME NEW x, NEW y, NEW es, y.shape = x.shape, y.ns = x.ns,
         y.method = x.method, y.name = x.name
  PROVE  /\ Here(y, es) = Here(x, es) /\ Now(y, es) = Now(x, es) /\ Kind(y) = Kind(x)
         /\ \A n : Current(y, es, n) = Current(x, es, n)
         /\ (Reading(y) <=> Reading(x)) /\ (Missed(y, es) <=> Missed(x, es))
<1>1. Kind(y) = Kind(x)
  BY DEF Kind
<1>2. Here(y, es) = Here(x, es) /\ \A n : Current(y, es, n) = Current(x, es, n)
  BY <1>1 DEF Here, Current
<1>3. Now(y, es) = Now(x, es)
  BY <1>1, <1>2 DEF Now
<1>4. Reading(y) <=> Reading(x)
  BY DEF Reading
<1>5. Missed(y, es) <=> Missed(x, es)
  BY <1>1, <1>2, <1>4 DEF Missed, Asked
<1>6. QED
  BY <1>1, <1>2, <1>3, <1>4, <1>5

LEMMA SameShows ==
  ASSUME NEW x, NEW y, NEW es, y.shape = x.shape, y.ns = x.ns,
         y.method = x.method, y.name = x.name, y.scope = x.scope,
         y.shown = x.shown, Shows(x, es)
  PROVE  Shows(y, es)
  BY SameHere DEF Shows

LEMMA RespondedReq ==
  ASSUME NEW x, IsReq(x), NEW resp
  PROVE  LET y == [x EXCEPT !.pc = "done", !.resp = resp, !.until = edits, !.todo = {},
                     !.found = <<>>, !.chosen = {}, !.copy = None, !.copies = 0, !.sent = None,
                     !.seen = IF x.shown = {} THEN {} ELSE @]
         IN /\ IsReq(y) /\ y.pc = "done" /\ y.resp = resp /\ y.shape = x.shape /\ y.ns = x.ns
            /\ y.method = x.method /\ y.name = x.name
            /\ y.shown = x.shown /\ y.scope = x.scope /\ y.from = x.from /\ y.until = edits
            /\ y.seen = IF x.shown = {} THEN {} ELSE x.seen
<1> DEFINE y == [x EXCEPT !.pc = "done", !.resp = resp, !.until = edits, !.todo = {},
                   !.found = <<>>, !.chosen = {}, !.copy = None, !.copies = 0, !.sent = None,
                   !.seen = IF x.shown = {} THEN {} ELSE @]
<1>1. IsReq(y)
  BY ZenonT(60) DEF IsReq
<1>2. /\ y.pc = "done" /\ y.resp = resp /\ y.until = edits
      /\ y.shape = x.shape /\ y.ns = x.ns /\ y.method = x.method
      /\ y.name = x.name
  BY DEF IsReq, Fields
<1>3. y.shown = x.shown /\ y.scope = x.scope /\ y.from = x.from
  BY DEF IsReq, Fields
<1>4. y.seen = IF x.shown = {} THEN {} ELSE x.seen
  BY DEF IsReq, Fields
<1> HIDE DEF y
<1>5. /\ IsReq(y) /\ y.pc = "done" /\ y.resp = resp /\ y.shape = x.shape /\ y.ns = x.ns
      /\ y.method = x.method /\ y.name = x.name
      /\ y.shown = x.shown /\ y.scope = x.scope /\ y.from = x.from /\ y.until = edits
      /\ y.seen = IF x.shown = {} THEN {} ELSE x.seen
  BY <1>1, <1>2, <1>3, <1>4
<1>6. QED
  BY <1>5 DEF y

LEMMA RespondSecond ==
  ASSUME Inv, Inv2, NEW q \in Requests, req[q].pc \notin {"idle", "done"}, NEW x, IsReq(x),
         x.method = req[q].method, x.seen = req[q].seen, NEW resp, Respond(q, x, resp),
         x.from = edits => Shows(x, entries) /\ (resp = "-32602" => Missed(x, entries))
  PROVE  Inv2'
<1> DEFINE y == [x EXCEPT !.pc = "done", !.resp = resp, !.until = edits, !.todo = {},
                   !.found = <<>>, !.chosen = {}, !.copy = None, !.copies = 0, !.sent = None,
                   !.seen = IF x.shown = {} THEN {} ELSE @]
<1>1. /\ IsReq(y) /\ y.pc = "done" /\ y.resp = resp /\ y.shape = x.shape /\ y.ns = x.ns
      /\ y.method = x.method /\ y.name = x.name
      /\ y.shown = x.shown /\ y.scope = x.scope /\ y.from = x.from /\ y.until = edits
      /\ y.seen = IF x.shown = {} THEN {} ELSE x.seen
  BY ZenonT(60), RespondedReq
<1>2. req' = [req EXCEPT ![q] = y] /\ UNCHANGED <<entries, edits, latest, crossed>>
  BY DEF Respond, Become
<1> HIDE DEF y
<1>3. Located(y)
  <2>1. Located(req[q])
    BY DEF Inv2, Second
  <2>2. Kind(y) = Kind(req[q]) /\ y.seen \subseteq req[q].seen
    BY <1>1 DEF Kind
  <2>3. QED
    BY <2>1, <2>2 DEF Located
<1>4. Over(y, entries, edits)
  <2>1. ASSUME y.from = edits
        PROVE  Shows(y, entries) /\ (y.resp = "-32602" => Missed(y, entries))
    <3>1. Shows(x, entries) /\ (resp = "-32602" => Missed(x, entries))
      BY <1>1, <2>1
    <3>2. Shows(y, entries)
      BY <1>1, <3>1, SameShows
    <3>3. Missed(y, entries) <=> Missed(x, entries)
      BY <1>1, SameHere
    <3>4. QED
      BY <1>1, <3>1, <3>2, <3>3
  <2>2. QED
    BY <2>1 DEF Over
<1>5. Second(y, entries, edits)
  BY <1>1, <1>3, <1>4 DEF Second, Reads, Fresh
<1>6. QED
  BY <1>1, <1>2, <1>5, BecomeSecond

(* The request answers as it is.                                           *)
LEMMA AnswerSecond ==
  ASSUME Inv, Inv2, NEW q \in Requests, req[q].pc \notin {"idle", "done"}, NEW resp,
         Respond(q, req[q], resp),
         req[q].from = edits /\ resp = "-32602" => Missed(req[q], entries)
  PROVE  Inv2'
<1>1. Good(req[q], q) /\ IsReq(req[q])
  BY RequestIs
<1>2. req[q].shown = {}
  BY <1>1 DEF Good, Fair
<1>3. Shows(req[q], entries)
  BY <1>2 DEF Shows
<1>4. QED
  BY <1>1, <1>3, RespondSecond

(* Filters before the first that goes through the registry.                *)
LEMMA BeforeIs ==
  ASSUME Inv, Inv2, NEW q \in Requests, NEW filter, At(q, filter), filter \notin Scanning
  PROVE  Before(req[q])
  BY DEF At, Before

LEMMA ContinueSecond ==
  ASSUME Inv, Inv2, NEW q \in Requests, NEW m, Movable(m, q), Prepared(m), Continue(q, m)
  PROVE  Inv2'
<1> DEFINE next == NextFilter(m)
           y    == [m EXCEPT !.at = next]
<1>1. req' = [req EXCEPT ![q] = y] /\ UNCHANGED <<entries, edits, latest, crossed>>
  BY DEF Continue, Become
<1>2. IsReq(m) /\ m.pc = "filter"
  BY DEF Movable, Bare
<1> HIDE DEF next
<1>3. IsReq(y) /\ \A f \in Fields : f # "at" => y[f] = m[f]
  BY <1>2 DEF IsReq, Fields
<1> HIDE DEF y
<1>4. /\ y.pc = "filter" /\ y.method = m.method /\ y.name = m.name /\ y.shape = m.shape
      /\ y.ns = m.ns /\ y.todo = m.todo /\ y.seen = m.seen /\ y.from = m.from
  BY <1>2, <1>3 DEF Fields
<1>5. Kind(y) = Kind(m) /\ Now(y, entries) = Now(m, entries)
  BY <1>4, SameHere
<1>6. Located(y)
  BY <1>2, <1>4, <1>5 DEF Prepared, Located
<1>7. Kind(y) # None /\ y.from = edits => /\ y.seen \subseteq Now(y, entries)
                                         /\ y.todo = Names[Kind(y)]
                                         /\ Here(y, entries) \ y.todo = {}
  BY <1>4, <1>5 DEF Prepared, Here
<1>8. Fresh(y, entries, edits)
  BY <1>4, <1>7 DEF Fresh
<1>9. Second(y, entries, edits) /\ y.pc # "done"
  BY <1>4, <1>6, <1>8 DEF Second, Reads, Over
<1>10. QED
  BY <1>1, <1>9, BecomeSecond

(* A request before the first filter that goes through the registry has    *)
(* all of it to go through, whatever its name and namespace.               *)
LEMMA ReqPrepared ==
  ASSUME Inv, Inv2, NEW q \in Requests, req[q].pc = "filter", Before(req[q]),
         NEW m, m.method = req[q].method, m.seen = req[q].seen, m.todo = req[q].todo,
         m.from = req[q].from
  PROVE  Prepared(m)
<1> DEFINE x == req[q]
<1>1. Second(x, entries, edits)
  BY DEF Inv2
<1>2. Kind(m) = Kind(x) /\ Now(m, entries) = Now(x, entries)
  BY DEF Kind, Now, Current
<1>3. QED
  BY <1>1, <1>2 DEF Second, Fresh, Located, Prepared

LEMMA SitedIs ==
  ASSUME Inv, Inv2, NEW n \in Names["resources"], entries["resources"][n] # None
  PROVE  entries["resources"][n].location \in Seq(Characters)
<1>1. entries["resources"][n] \in Entry /\ entries["resources"][n].location # None
  BY DEF Inv, Stored, Inv2, Sited, Kinds
<1>2. QED
  BY <1>1 DEF Entry

(* What becomes a request of some method has all of its kind to go through. *)
LEMMA AsPrepared ==
  ASSUME Inv, Inv2, NEW q \in Requests, NEW x, IsReq(x), NEW method
  PROVE  Prepared(As(x, method))
<1> DEFINE kind == KindOf(method)
           todo == IF kind = None THEN {} ELSE Names[kind]
           seen == IF kind = None THEN {} ELSE {Item(n, entries[kind][n]) : n \in Present(kind)}
           m == [x EXCEPT !.method = method, !.todo = todo, !.seen = seen]
<1>1. /\ kind # None => /\ todo = Names[kind]
                        /\ seen = {Item(n, entries[kind][n]) : n \in Present(kind)}
      /\ kind = None => seen = {}
  OBVIOUS
<1>2. As(x, method) = m
  BY DEF As
<1> HIDE DEF todo, seen
<1>3. m.method = method /\ m.todo = todo /\ m.seen = seen
  BY DEF IsReq, Fields
<1> HIDE DEF m
<1>4. Kind(m) = kind
  BY <1>3 DEF Kind
<1>5. Located(m)
  <2>1. ASSUME kind = "resources", NEW item \in m.seen
        PROVE  item.entry.location \in Seq(Characters)
    <3>1. PICK n \in Present("resources") : item = Item(n, entries["resources"][n])
      BY <1>1, <1>3, <2>1, KindIs DEF Kinds
    <3>2. item.entry = entries["resources"][n]
      BY <3>1 DEF Item
    <3>3. QED
      BY <3>2, SitedIs DEF Present
  <2>2. QED
    BY <1>4, <2>1 DEF Located
<1>6. kind # None => m.seen \subseteq Now(m, entries) /\ m.todo = Names[kind]
  BY <1>1, <1>3, <1>4 DEF Now, Current, Present
<1>7. QED
  BY <1>2, <1>4, <1>5, <1>6 DEF Prepared

LEMMA NamespaceSecond ==
  ASSUME Inv, Inv2, NEW q \in Requests, Namespace(q)
  PROVE  Inv2'
<1> DEFINE x == req[q]
           m == [x EXCEPT !.ns = x.shape.path]
<1>1. x.pc = "filter" /\ x.pc # "idle" /\ x.found = <<>> /\ Before(x)
  BY AtIs, BeforeIs DEF Namespace, Scanning
<1>2. Movable(x, q) /\ IsReq(x) /\ x.shape \in Shapes[q]
  BY <1>1, ReqMovable, RequestIs DEF Namespace, Scanning
<1>3. \/ Continue(q, m)
      \/ Respond(q, x, "-32600")
      \/ Continue(q, x)
  BY DEF Namespace
<1>4. CASE Continue(q, m)
  <2>1. Movable(m, q)
    BY <1>2, WithNs, ShapeAssumption
  <2>2. m.method = x.method /\ m.seen = x.seen /\ m.todo = x.todo /\ m.from = x.from
    BY <1>2 DEF IsReq, Fields
  <2> HIDE DEF m
  <2>3. Prepared(m)
    BY <1>1, <2>2, ReqPrepared
  <2>4. QED
    BY <1>4, <2>1, <2>3, ContinueSecond
<1>5. CASE Respond(q, x, "-32600")
  BY <1>1, <1>5, AnswerSecond
<1>6. CASE Continue(q, x)
  BY <1>1, <1>2, <1>6, ReqPrepared, ContinueSecond
<1>7. QED
  BY <1>3, <1>4, <1>5, <1>6

LEMMA WellKnownSecond ==
  ASSUME Inv, Inv2, NEW q \in Requests, WellKnown(q)
  PROVE  Inv2'
<1> DEFINE x == req[q]
<1>1. x.pc = "filter" /\ x.pc # "idle" /\ x.found = <<>> /\ Before(x)
  BY AtIs, BeforeIs DEF WellKnown, Scanning
<1>2. IsReq(x) /\ x.shape \in Shapes[q] /\ Second(x, entries, edits)
  BY <1>1, RequestIs DEF Inv2
<1>3. CASE Continue(q, x)
  <2>1. Movable(x, q)
    BY ReqMovable DEF WellKnown, Scanning
  <2>2. QED
    BY <1>1, <1>3, <2>1, ReqPrepared, ContinueSecond
<1>4. ASSUME NEW resp \in {"metadata", x.shape.url}, Respond(q, x, resp)
      PROVE  Inv2'
  <2>1. "-32602" \notin {"metadata", "discovery", "redirect", "token"}
    OBVIOUS
  <2>2. x.shape.url \in {"metadata", "discovery", "redirect", "token", None}
    BY <1>2, ShapeAssumption
  <2>3. None # "-32602"
    BY NoneAssumption DEF Responses
  <2>4. resp # "-32602"
    BY <1>4, <2>1, <2>2, <2>3
  <2>5. QED
    BY <1>1, <1>4, <2>4, AnswerSecond
<1>5. CASE Become(q, [x EXCEPT !.pc = "token"])
  <2> DEFINE y == [x EXCEPT !.pc = "token"]
  <2>1. /\ IsReq(y) /\ y.pc = "token" /\ \A f \in Fields : f # "pc" => y[f] = x[f]
    BY <1>2 DEF IsReq, Fields
  <2>2. req' = [req EXCEPT ![q] = y] /\ UNCHANGED <<entries, edits, latest, crossed>>
    BY <1>5 DEF Become
  <2> HIDE DEF y
  <2>3. /\ y.shape = x.shape /\ y.method = x.method /\ y.name = x.name
        /\ y.ns = x.ns /\ y.seen = x.seen /\ y.from = x.from
    BY <2>1 DEF Fields
  <2>4. Kind(y) = Kind(x) /\ Now(y, entries) = Now(x, entries)
    BY <2>3, SameHere
  <2>5. Located(y)
    BY <1>1, <1>2, <2>1, <2>3, <2>4 DEF Second, Located
  <2>6. Fresh(y, entries, edits)
    BY <1>1, <1>2, <2>1, <2>3, <2>4 DEF Second, Fresh
  <2>7. Second(y, entries, edits) /\ y.pc # "done"
    BY <2>1, <2>5, <2>6 DEF Second, Reads, Over
  <2>8. QED
    BY <2>2, <2>7, BecomeSecond
<1>6. QED
  BY <1>3, <1>4, <1>5 DEF WellKnown

LEMMA AnswerStepsSecond ==
  ASSUME Inv, Inv2, NEW q \in Requests,
         \/ TokenProxied(q) \/ McpInit(q) \/ EvaluatorRejects(q)
         \/ UpstreamAnswers(q) \/ StaticResponse(q)
  PROVE  Inv2'
<1>1. CASE TokenProxied(q)
  BY <1>1, AnswerSecond DEF TokenProxied
<1>2. CASE McpInit(q)
  <2>1. At(q, "wanaku_mcp_init") /\ Respond(q, req[q], req[q].method)
    BY <1>2 DEF McpInit
  <2>2. req[q].pc = "filter" /\ req[q].method \in ActsOn["wanaku_mcp_init"]
    BY <2>1, AtIs
  <2>3. req[q].method # "-32602"
    BY <2>2 DEF ActsOn
  <2>4. QED
    BY <2>1, <2>2, <2>3, AnswerSecond
<1>3. CASE EvaluatorRejects(q)
  <2>1. req[q].pc = "filter"
    BY <1>3, AtIs DEF EvaluatorRejects, Evaluates
  <2>2. PICK resp \in {"-32001", "-32002", "-32603"} : Respond(q, req[q], resp)
    BY <1>3 DEF EvaluatorRejects
  <2>3. QED
    BY <2>1, <2>2, AnswerSecond
<1>4. CASE UpstreamAnswers(q)
  BY <1>4, AnswerSecond DEF UpstreamAnswers
<1>5. CASE StaticResponse(q)
  <2>1. req[q].pc = "filter" /\ Respond(q, req[q], "-32601")
    BY <1>5, AtIs DEF StaticResponse
  <2>2. QED
    BY <2>1, AnswerSecond
<1>6. QED
  BY <1>1, <1>2, <1>3, <1>4, <1>5

LEMMA EvaluatorGoesOnSecond ==
  ASSUME Inv, Inv2, NEW q \in Requests, EvaluatorPasses(q) \/ SetMetadata(q)
  PROVE  Inv2'
<1> DEFINE x == req[q]
<1>1. x.pc = "filter" /\ x.found = <<>> /\ Before(x)
  BY AtIs, BeforeIs DEF EvaluatorPasses, SetMetadata, Evaluates, Scanning
<1>2. Movable(x, q) /\ Bare(x, q) /\ IsReq(x)
  BY ReqMovable DEF EvaluatorPasses, SetMetadata, Evaluates, Scanning
<1>3. CASE EvaluatorPasses(q)
  BY <1>1, <1>2, <1>3, ReqPrepared, ContinueSecond DEF EvaluatorPasses
<1>4. ASSUME NEW ns \in Namespaces, Continue(q, [x EXCEPT !.ns = ns])
      PROVE  Inv2'
  <2> DEFINE m == [x EXCEPT !.ns = ns]
  <2>1. Movable(m, q)
    BY <1>2, WithNs
  <2>2. m.method = x.method /\ m.seen = x.seen /\ m.todo = x.todo /\ m.from = x.from
    BY <1>2 DEF IsReq, Fields
  <2>3. Continue(q, m)
    BY <1>4
  <2> HIDE DEF m
  <2>4. Prepared(m)
    BY <1>1, <2>2, ReqPrepared
  <2>5. QED
    BY <2>1, <2>3, <2>4, ContinueSecond
<1>5. ASSUME NEW method \in Overrides, Continue(q, As(x, method))
      PROVE  Inv2'
  <2>1. method \in Methods \cup {None}
    BY MethodAssumption
  <2>2. Movable(As(x, method), q)
    BY <1>2, <2>1, AsIs
  <2>3. Prepared(As(x, method))
    BY <1>2, AsPrepared
  <2>4. QED
    BY <1>5, <2>2, <2>3, ContinueSecond
<1>6. ASSUME NEW n \in Names["tools"], Continue(q, [x EXCEPT !.name = n])
      PROVE  Inv2'
  <2> DEFINE m == [x EXCEPT !.name = n]
  <2>1. Movable(m, q)
    BY <1>2, WithName
  <2>2. m.method = x.method /\ m.seen = x.seen /\ m.todo = x.todo /\ m.from = x.from
    BY <1>2 DEF IsReq, Fields
  <2>3. Continue(q, m)
    BY <1>6
  <2> HIDE DEF m
  <2>4. Prepared(m)
    BY <1>1, <2>2, ReqPrepared
  <2>5. QED
    BY <2>1, <2>3, <2>4, ContinueSecond
<1>7. QED
  BY <1>3, <1>4, <1>5, <1>6 DEF SetMetadata

LEMMA ChooseToolsSecond ==
  ASSUME Inv, Inv2, NEW q \in Requests, NEW scope \in {"namespace", "any"},
         NEW names \in SUBSET Names["tools"], ChooseTools(q, scope, names)
  PROVE  Inv2'
<1> DEFINE x == req[q]
           y == [x EXCEPT !.pc = "choosing", !.scope = scope, !.chosen = names]
<1>1. x.pc = "filter" /\ x.pc # "idle" /\ x.method = "tools/list"
  BY AtIs DEF ChooseTools, Evaluates
<1>2. IsReq(x) /\ Second(x, entries, edits)
  BY <1>1, RequestIs DEF Inv2
<1>3. req' = [req EXCEPT ![q] = y] /\ UNCHANGED <<entries, edits, latest, crossed>>
  BY DEF ChooseTools, Become
<1>4. /\ IsReq(y) /\ y.pc = "choosing" /\ y.scope = scope /\ y.chosen = names
      /\ \A f \in Fields : f \notin {"pc", "scope", "chosen"} => y[f] = x[f]
  BY <1>2 DEF IsReq, Fields
<1> HIDE DEF y
<1>5. /\ y.shape = x.shape /\ y.method = x.method /\ y.name = x.name /\ y.ns = x.ns
      /\ y.seen = x.seen /\ y.from = x.from
  BY <1>4 DEF Fields
<1>6. Kind(y) = Kind(x) /\ Now(y, entries) = Now(x, entries) /\ Kind(x) = "tools"
  BY <1>1, <1>5, SameHere, KindIs DEF Kind
<1>7. y.scope # "any" => y.chosen \subseteq Here(y, entries)
  BY <1>4, <1>5, <1>6 DEF ChooseTools, Here
<1>8. Located(y)
  BY <1>1, <1>2, <1>4, <1>5, <1>6 DEF Second, Located
<1>9. Fresh(y, entries, edits)
  BY <1>1, <1>2, <1>4, <1>5, <1>6, <1>7 DEF Second, Fresh
<1>10. Second(y, entries, edits) /\ y.pc # "done"
  BY <1>4, <1>8, <1>9 DEF Second, Reads, Over
<1>11. QED
  BY <1>3, <1>10, BecomeSecond

LEMMA FilterToolsSecond ==
  ASSUME Inv, Inv2, NEW q \in Requests, FilterTools(q)
  PROVE  Inv2'
<1> DEFINE x == req[q]
           shown == {Item(n, entries["tools"][n]) : n \in x.chosen \cap Present("tools")}
           y == [x EXCEPT !.shown = shown]
<1>1. x.pc = "choosing" /\ x.pc # "idle" /\ Respond(q, y, "tools")
  BY DEF FilterTools
<1>2. Good(x, q) /\ IsReq(x) /\ Second(x, entries, edits)
  BY <1>1, RequestIs DEF Inv2
<1>3. x.method = "tools/list"
  BY <1>1, <1>2 DEF Good, Placed, Fair
<1>4. \A item \in shown : \E n \in x.chosen : item = Item(n, entries["tools"][n])
  OBVIOUS
<1> HIDE DEF shown
<1>5. /\ IsReq(y) /\ y.shown = shown /\ y.method = x.method /\ y.name = x.name
      /\ y.shape = x.shape /\ y.ns = x.ns /\ y.seen = x.seen
      /\ y.scope = x.scope /\ y.from = x.from
  BY <1>2 DEF IsReq, Fields
<1> HIDE DEF y
<1>6. Kind(x) = "tools" /\ Kind(x) # None /\ Kind(y) = Kind(x)
  BY <1>3, <1>5, KindIs DEF Kind, Kinds
<1>7. ASSUME y.from = edits, y.scope # "any", NEW item \in y.shown
      PROVE  \E n \in Here(y, entries) :
               item = Current(y, entries, n) /\ Listed(entries[Kind(y)][n], y.method)
  <2>1. PICK n \in x.chosen : item = Item(n, entries["tools"][n])
    BY <1>4, <1>5, <1>7
  <2>2. n \in Here(x, entries)
    BY <1>1, <1>2, <1>5, <1>6, <1>7 DEF Second, Fresh
  <2>3. n \in Here(y, entries)
    BY <1>5, <2>2, SameHere
  <2>4. Current(y, entries, n) = item
    BY <1>6, <2>1 DEF Current
  <2>5. Listed(entries["tools"][n], "tools/list")
    BY DEF Listed
  <2>6. QED
    BY <1>3, <1>5, <1>6, <2>3, <2>4, <2>5
<1>8. y.from = edits => Shows(y, entries)
  BY <1>7 DEF Shows
<1>9. QED
  BY <1>1, <1>5, <1>8, RespondSecond

LEMMA AppendHas ==
  ASSUME NEW S, NEW s \in Seq(S), NEW v
  PROVE  LET t == Append(s, v)
         IN {s[i] : i \in DOMAIN s} \cup {v} \subseteq {t[i] : i \in DOMAIN t}
<1> DEFINE t == Append(s, v)
           R == S \cup {v}
<1>1. s \in Seq(R) /\ v \in R
  BY SeqMonotonic
<1> HIDE DEF R
<1>2. /\ t \in Seq(R) /\ Len(t) = Len(s) + 1 /\ \A i \in 1..Len(s) : t[i] = s[i]
      /\ t[Len(s) + 1] = v
  BY <1>1, AppendProperties
<1>3. DOMAIN s = 1..Len(s) /\ Len(s) \in Nat /\ DOMAIN t = 1..Len(t)
  BY <1>1, <1>2, LenProperties
<1> HIDE DEF t
<1>4. Len(s) + 1 \in DOMAIN t /\ \A i \in 1..Len(s) : i \in DOMAIN t
  BY <1>2, <1>3
<1>5. QED
  BY <1>2, <1>3, <1>4 DEF t

LEMMA ScanSecond ==
  ASSUME Inv, Inv2, NEW q \in Requests, NEW n, Scan(q, n)
  PROVE  Inv2'
<1> DEFINE x == req[q]
           e == entries[Kind(x)][n]
           found == IF InNamespace(e, x.ns) THEN Append(x.found, Item(n, e)) ELSE x.found
           y == [x EXCEPT !.todo = x.todo \ {n}, !.found = found]
<1>1. x.pc = "filter" /\ ~Before(x) /\ x.pc # "idle"
  BY DEF Scan, At, Before
<1>2. Good(x, q) /\ IsReq(x) /\ Second(x, entries, edits)
  BY <1>1, RequestIs DEF Inv2
<1>3. req' = [req EXCEPT ![q] = y] /\ UNCHANGED <<entries, edits, latest, crossed>>
  BY DEF Scan, Become, Kind
<1>4. /\ Found(x) \subseteq {found[i] : i \in DOMAIN found}
      /\ InNamespace(e, x.ns) => Item(n, e) \in {found[i] : i \in DOMAIN found}
  <2>1. x.found \in Seq(Items(x))
    BY <1>2 DEF Good, Fair
  <2>2. CASE InNamespace(e, x.ns)
    <3> DEFINE item == Item(n, e)
               longer == Append(x.found, item)
    <3>1. found = longer
      BY <2>2
    <3> HIDE DEF item
    <3>2. {x.found[i] : i \in DOMAIN x.found} \cup {item}
            \subseteq {longer[i] : i \in DOMAIN longer}
      BY <2>1, AppendHas
    <3> HIDE DEF found, longer
    <3>3. QED
      BY <3>1, <3>2 DEF Found, item
  <2>3. CASE ~InNamespace(e, x.ns)
    BY <2>3 DEF Found
  <2>4. QED
    BY <2>2, <2>3
<1> HIDE DEF found
<1>5. /\ IsReq(y) /\ y.todo = x.todo \ {n} /\ y.found = found
      /\ \A f \in Fields : f \notin {"todo", "found"} => y[f] = x[f]
  BY <1>2 DEF IsReq, Fields
<1> HIDE DEF y
<1>6. /\ y.shape = x.shape /\ y.method = x.method /\ y.name = x.name
      /\ y.ns = x.ns /\ y.pc = "filter" /\ y.at = x.at /\ y.seen = x.seen
      /\ y.from = x.from
  BY <1>1, <1>5 DEF Fields
<1>7. /\ Kind(y) = Kind(x) /\ Now(y, entries) = Now(x, entries)
      /\ Here(y, entries) = Here(x, entries) /\ ~Before(y)
      /\ \A m : Current(y, entries, m) = Current(x, entries, m)
  BY <1>1, <1>6, SameHere DEF Before
<1>8. ASSUME Kind(y) # None, y.from = edits, NEW m \in Here(y, entries) \ y.todo
      PROVE  Current(y, entries, m) \in Found(y)
  <2>1. CASE m = n
    <3>1. InNamespace(e, x.ns) /\ Current(y, entries, m) = Item(n, e)
      BY <1>6, <1>7, <1>8, <2>1 DEF Here, Current
    <3>2. QED
      BY <1>4, <1>5, <3>1 DEF Found
  <2>2. CASE m # n
    <3>1. m \in Here(x, entries) \ x.todo
      BY <1>5, <1>7, <1>8, <2>2
    <3>2. Current(x, entries, m) \in Found(x)
      BY <1>1, <1>2, <1>6, <1>7, <1>8, <3>1 DEF Second, Fresh
    <3>3. QED
      BY <1>4, <1>5, <1>7, <3>2 DEF Found
  <2>3. QED
    BY <2>1, <2>2
<1>9. Located(y)
  BY <1>1, <1>2, <1>6, <1>7 DEF Second, Located
<1>10. Kind(y) # None /\ y.from = edits => y.seen \subseteq Now(y, entries)
  BY <1>1, <1>2, <1>6, <1>7 DEF Second, Fresh
<1>11. Fresh(y, entries, edits)
  BY <1>6, <1>7, <1>8, <1>10 DEF Fresh
<1>12. Second(y, entries, edits) /\ y.pc # "done"
  BY <1>6, <1>9, <1>11 DEF Second, Reads, Over
<1>13. QED
  BY <1>3, <1>12, BecomeSecond

LEMMA ListSecond ==
  ASSUME Inv, Inv2, NEW q \in Requests, List(q)
  PROVE  Inv2'
<1> DEFINE x == req[q]
           shown == {item \in Found(x) : Listed(item.entry, x.method)}
           y == [x EXCEPT !.shown = shown]
<1>1. /\ x.pc = "filter" /\ x.pc # "idle"
      /\ \/ Respond(q, x, "-32603")
         \/ Respond(q, y, Kind(x))
      /\ \/ x.method \in ActsOn["wanaku_tool_list"]
         \/ x.method \in ActsOn["wanaku_resource_list"]
         \/ x.method \in ActsOn["wanaku_prompt_list"]
  BY AtIs DEF List, Kind
<1>2. Good(x, q) /\ IsReq(x) /\ Second(x, entries, edits)
  BY <1>1, RequestIs DEF Inv2
<1>3. Kind(x) \in Kinds
  BY <1>1 DEF Kind, KindOf, ActsOn, Kinds
<1>4. Kind(x) # None /\ Kind(x) # "-32602"
  BY <1>3, KindIs DEF Kinds
<1>5. \A item \in Found(x) : item \in Items(x)
  <2>1. x.found \in Seq(Items(x))
    BY <1>2 DEF Good, Fair
  <2>2. QED
    BY <2>1, ElementOfSeq, LenProperties DEF Found
<1>6. ASSUME x.from = edits, NEW item \in shown
      PROVE  \E n \in Here(x, entries) :
               item = Current(x, entries, n) /\ Listed(entries[Kind(x)][n], x.method)
  <2>1. item \in Found(x) /\ Listed(item.entry, x.method)
    BY <1>6
  <2>2. item \in x.seen /\ item.entry.ns = x.ns
    BY <1>5, <2>1 DEF Items, There
  <2>3. item \in Now(x, entries)
    BY <1>1, <1>2, <1>4, <1>6, <2>2 DEF Second, Fresh
  <2>4. PICK n \in Names[Kind(x)] : entries[Kind(x)][n] # None /\ item = Current(x, entries, n)
    BY <2>3 DEF Now
  <2>5. item.entry = entries[Kind(x)][n]
    BY <2>4 DEF Current, Item
  <2>6. n \in Here(x, entries)
    BY <2>2, <2>4, <2>5 DEF Here, InNamespace
  <2>7. QED
    BY <2>1, <2>4, <2>5, <2>6
<1> HIDE DEF shown
<1>7. /\ IsReq(y) /\ y.shown = shown /\ y.shape = x.shape /\ y.ns = x.ns
      /\ y.method = x.method /\ y.name = x.name /\ y.seen = x.seen
      /\ y.from = x.from
  BY <1>2 DEF IsReq, Fields
<1> HIDE DEF y
<1>8. y.from = edits => Shows(y, entries)
  BY <1>6, <1>7, SameHere DEF Shows
<1>9. QED
  BY <1>1, <1>4, <1>7, <1>8, RespondSecond, AnswerSecond
-----------------------------------------------------------------------------
(* Requests that go upstream, or miss what they ask for.                   *)

LEMMA SendSecond ==
  ASSUME Inv, Inv2, NEW q \in Requests, req[q].pc = "filter", NEW n, NEW e, NEW args, NEW headers,
         Send(q, req[q], n, e, args, headers),
         Reading(req[q]) => /\ IF e.template THEN IsInstance(e.location, req[q].shape.uri)
                               ELSE e.location = req[q].shape.uri
                            /\ req[q].from = edits /\ Exact(req[q]) # {} => ~e.template
  PROVE  Inv2'
<1> DEFINE x == req[q]
           sent == [name |-> n, entry |-> e, args |-> args, headers |-> headers]
           y == [x EXCEPT !.pc = "awaiting", !.todo = {}, !.found = <<>>, !.sent = sent]
<1>1. IsReq(x) /\ x.pc # "idle" /\ Second(x, entries, edits)
  BY RequestIs DEF Inv2
<1>2. req' = [req EXCEPT ![q] = y] /\ UNCHANGED <<entries, edits, latest, crossed>>
  BY DEF Send, Become
<1>3. sent.entry = e
  OBVIOUS
<1> HIDE DEF sent
<1>4. /\ IsReq(y) /\ y.pc = "awaiting" /\ y.sent = sent
      /\ \A f \in Fields : f \notin {"pc", "todo", "found", "sent"} => y[f] = x[f]
  BY <1>1 DEF IsReq, Fields
<1> HIDE DEF y
<1>5. y.shape = x.shape /\ y.method = x.method /\ y.name = x.name
      /\ y.ns = x.ns /\ y.seen = x.seen /\ y.from = x.from
  BY <1>4 DEF Fields
<1>6. Kind(y) = Kind(x) /\ Now(y, entries) = Now(x, entries) /\ Exact(y) = Exact(x)
      /\ (Reading(y) <=> Reading(x))
  BY <1>5, SameHere DEF Exact
<1>7. Located(y)
  BY <1>1, <1>5, <1>6 DEF Second, Located
<1>8. Reads(y)
  BY <1>3, <1>4, <1>5, <1>6 DEF Reads
<1>9. Fresh(y, entries, edits)
  <2>1. Kind(y) # None /\ y.from = edits => y.seen \subseteq Now(y, entries)
    BY <1>1, <1>5, <1>6 DEF Second, Fresh
  <2>2. Reading(y) /\ y.from = edits /\ Exact(y) # {} => ~y.sent.entry.template
    BY <1>3, <1>4, <1>5, <1>6
  <2>3. QED
    BY <1>4, <2>1, <2>2 DEF Fresh
<1>10. Second(y, entries, edits) /\ y.pc # "done"
  BY <1>4, <1>7, <1>8, <1>9 DEF Second, Over
<1>11. QED
  BY <1>2, <1>10, BecomeSecond

(* A tool or prompt that is not in the namespace of the request.           *)
LEMMA MissSecond ==
  ASSUME Inv, Inv2, NEW q \in Requests, req[q].pc = "filter",
         req[q].method \in {"tools/call", "prompts/get"},
         \/ Asked(req[q]) = None
         \/ ~InNamespace(Lookup(Kind(req[q]), Asked(req[q])), req[q].ns),
         Respond(q, req[q], "-32602")
  PROVE  Inv2'
<1>1. Missed(req[q], entries)
  BY DEF Missed, Here, Reading, Lookup
<1>2. QED
  BY <1>1, AnswerSecond

LEMMA ToolCallSecond ==
  ASSUME Inv, Inv2, NEW q \in Requests, ToolCall(q)
  PROVE  Inv2'
<1> DEFINE x == req[q]
           s == x.shape
           e == Lookup("tools", x.name)
           headers == ForwardedHeaders(s.headers, e.allow)
           args == SentArgs(s.args \ {RequestId}, IF e.inject THEN headers ELSE {})
<1>1. x.pc = "filter" /\ x.method = "tools/call"
  BY AtIs DEF ToolCall, ActsOn
<1>2. Kind(x) = "tools" /\ ~Reading(x) /\ Asked(x) = x.name
  BY <1>1, KindIs DEF Kind, Reading, Asked
<1>3. \/ (x.name = None \/ ~InNamespace(e, x.ns)) /\ Respond(q, x, "-32602")
      \/ Respond(q, x, "-32603")
      \/ Send(q, x, x.name, e, args, headers)
  BY DEF ToolCall
<1>4. CASE (x.name = None \/ ~InNamespace(e, x.ns)) /\ Respond(q, x, "-32602")
  BY <1>1, <1>2, <1>4, MissSecond
<1>5. CASE Respond(q, x, "-32603")
  BY <1>1, <1>5, AnswerSecond
<1>6. CASE Send(q, x, x.name, e, args, headers)
  <2> HIDE DEF e, headers, args
  <2>1. QED
    BY <1>1, <1>2, <1>6, SendSecond
<1>7. QED
  BY <1>3, <1>4, <1>5, <1>6

LEMMA PromptGetSecond ==
  ASSUME Inv, Inv2, NEW q \in Requests, PromptGet(q)
  PROVE  Inv2'
<1> DEFINE x == req[q]
           s == x.shape
           e == Lookup("prompts", s.name)
           args == SentArgs(s.args, {})
           none == {}
<1>1. x.pc = "filter" /\ x.method = "prompts/get"
  BY AtIs DEF PromptGet, ActsOn
<1>2. Kind(x) = "prompts" /\ ~Reading(x) /\ Asked(x) = s.name
  BY <1>1 DEF Kind, KindOf, Reading, Asked
<1>3. \/ (s.name = None \/ ~InNamespace(e, x.ns)) /\ Respond(q, x, "-32602")
      \/ Respond(q, x, "-32603") \/ Respond(q, x, "messages")
      \/ Send(q, x, s.name, e, args, none)
  BY DEF PromptGet
<1>4. CASE (s.name = None \/ ~InNamespace(e, x.ns)) /\ Respond(q, x, "-32602")
  BY <1>1, <1>2, <1>4, MissSecond
<1>5. CASE Respond(q, x, "-32603") \/ Respond(q, x, "messages")
  BY <1>1, <1>5, AnswerSecond
<1>6. CASE Send(q, x, s.name, e, args, none)
  <2> HIDE DEF e, none, args
  <2>1. QED
    BY <1>1, <1>2, <1>6, SendSecond
<1>7. QED
  BY <1>3, <1>4, <1>5, <1>6

(* The hits at the very location are there whenever such a resource is     *)
(* there; a template that is hit has the URI as an instance.               *)
LEMMA HitsAre ==
  ASSUME NEW items, NEW uri, NEW item \in Hits(items, uri)
  PROVE  /\ item \in items
         /\ \/ IsAt(item.entry, uri)
            \/ item.entry.template /\ MatchesUriTemplate(item.entry.location, uri)
         /\ (\E other \in items : IsAt(other.entry, uri)) => IsAt(item.entry, uri)
<1> DEFINE exact == {i \in items : IsAt(i.entry, uri)}
           templates == {i \in items : /\ i.entry.template
                                        /\ MatchesUriTemplate(i.entry.location, uri)}
<1>1. Hits(items, uri) = IF exact # {} THEN exact ELSE templates
  BY Zenon DEF Hits
<1>2. CASE exact # {}
  <2>1. item \in exact
    BY <1>1, <1>2
  <2>2. item \in items /\ IsAt(item.entry, uri)
    BY <2>1
  <2> HIDE DEF exact, templates
  <2>3. QED
    BY <2>2, Zenon
<1>3. CASE exact = {}
  <2>1. item \in templates
    BY <1>1, <1>3
  <2>2. ~\E other \in items : IsAt(other.entry, uri)
    BY <1>3, Zenon
  <2>3. QED
    BY <2>1, <2>2, Zenon
<1>4. QED
  BY <1>2, <1>3

LEMMA HitsExist ==
  ASSUME NEW items, NEW uri, NEW item \in items,
         \/ IsAt(item.entry, uri)
         \/ item.entry.template /\ MatchesUriTemplate(item.entry.location, uri)
  PROVE  Hits(items, uri) # {}
<1> DEFINE exact == {i \in items : IsAt(i.entry, uri)}
           templates == {i \in items : /\ i.entry.template
                                        /\ MatchesUriTemplate(i.entry.location, uri)}
<1>1. Hits(items, uri) = IF exact # {} THEN exact ELSE templates
  BY Zenon DEF Hits
<1>2. item \in exact \/ item \in templates
  BY Zenon
<1>3. QED
  BY <1>1, <1>2

LEMMA ResourceReadSecond ==
  ASSUME Inv, Inv2, NEW q \in Requests, ResourceRead(q)
  PROVE  Inv2'
<1> DEFINE x == req[q]
           hits == Hits(Found(x), x.shape.uri)
<1>1. x.pc = "filter" /\ x.pc # "idle" /\ x.method = "resources/read"
  <2>1. At(q, "wanaku_resource_read")
    BY Zenon DEF ResourceRead
  <2>2. QED
    BY <2>1, AtIs DEF ActsOn
<1>2. x.shape \in Shapes[q] /\ Good(x, q) /\ Second(x, entries, edits)
  BY <1>1, RequestIs DEF Inv2
<1>3. Kind(x) = "resources" /\ Kind(x) # None /\ Reading(x)
  BY <1>1, KindIs DEF Kind, KindOf, Reading, Kinds
<1>4. ASSUME NEW item \in Found(x)
      PROVE  item \in x.seen /\ item.entry.location \in Seq(Characters)
  <2>1. x.found \in Seq(Items(x))
    BY <1>2 DEF Good, Fair
  <2>2. item \in Items(x)
    BY <2>1, ElementOfSeq, LenProperties DEF Found
  <2>3. item \in x.seen
    BY <2>2 DEF Items, There
  <2>4. QED
    BY <1>1, <1>2, <1>3, <2>3 DEF Second, Located
<1>5. x.from = edits => /\ x.seen \subseteq Now(x, entries)
                        /\ \A n \in Here(x, entries) \ x.todo : Current(x, entries, n) \in Found(x)
  BY <1>1, <1>2, <1>3 DEF Second, Fresh
<1>6. \/ x.shape.uri = None /\ Respond(q, x, "-32602")
      \/ x.todo = {} /\ hits = {} /\ Respond(q, x, "-32602")
      \/ Respond(q, x, "-32603")
      \/ /\ x.shape.uri # None /\ x.todo = {}
         /\ \E i \in DOMAIN x.found : /\ x.found[i] \in hits
                                      /\ Send(q, x, x.found[i].name, x.found[i].entry, NoArgs, {})
  BY Zenon DEF ResourceRead
<1> HIDE DEF hits
<1>7. CASE x.shape.uri = None /\ Respond(q, x, "-32602")
  <2>1. Missed(x, entries)
    BY <1>1, <1>7 DEF Missed
  <2>2. QED
    BY <1>1, <1>7, <2>1, AnswerSecond
<1>8. CASE x.todo = {} /\ hits = {} /\ Respond(q, x, "-32602")
  <2>1. ASSUME x.from = edits, x.shape.uri # None, NEW n \in Here(x, entries),
               Serves(entries[Kind(x)][n], x.shape.uri)
        PROVE  FALSE
    <3> DEFINE item == Current(x, entries, n)
    <3>1. item \in Found(x)
      BY <1>5, <1>8, <2>1
    <3>2. Serves(item.entry, x.shape.uri)
      BY <2>1 DEF Current, Item
    <3> HIDE DEF item
    <3>3. x.shape.uri \in Seq(Characters) /\ item.entry.location \in Seq(Characters)
      BY <1>2, <1>4, <2>1, <3>1, ShapeAssumption
    <3>4. \/ IsAt(item.entry, x.shape.uri)
          \/ item.entry.template /\ MatchesUriTemplate(item.entry.location, x.shape.uri)
      BY <3>2, <3>3, InstancesMatch DEF Serves
    <3>5. QED
      BY <1>8, <3>1, <3>4, HitsExist, Zenon DEF hits
  <2>2. x.from = edits => Missed(x, entries)
    BY <1>1, <2>1 DEF Missed
  <2>3. QED
    BY <1>1, <1>8, <2>2, AnswerSecond
<1>9. CASE Respond(q, x, "-32603")
  BY <1>1, <1>9, AnswerSecond
<1>10. ASSUME x.shape.uri # None, x.todo = {}, NEW i \in DOMAIN x.found, x.found[i] \in hits,
              Send(q, x, x.found[i].name, x.found[i].entry, NoArgs, {})
       PROVE  Inv2'
  <2> DEFINE item == x.found[i]
             e == item.entry
             none == {}
  <2>1. item \in Hits(Found(x), x.shape.uri)
    BY <1>10 DEF hits
  <2>2. /\ item \in Found(x)
        /\ IsAt(e, x.shape.uri) \/ (e.template /\ MatchesUriTemplate(e.location, x.shape.uri))
        /\ (\E other \in Found(x) : IsAt(other.entry, x.shape.uri)) => IsAt(e, x.shape.uri)
    BY <2>1, HitsAre
  <2>3. Send(q, x, item.name, e, NoArgs, none)
    BY <1>10
  <2> HIDE DEF item, none
  <2>4. e.location \in Seq(Characters)
    BY <1>4, <2>2
  <2>5. x.shape.uri \in Seq(Characters)
    BY <1>2, <1>10, ShapeAssumption
  <2>6. IF e.template THEN IsInstance(e.location, x.shape.uri) ELSE e.location = x.shape.uri
    BY <2>2, <2>4, <2>5, MatchesAreInstances DEF IsAt
  <2>7. ASSUME x.from = edits, Exact(x) # {}
        PROVE  ~e.template
    <3>1. PICK other \in x.seen : other.entry.ns = x.ns /\ IsAt(other.entry, x.shape.uri)
      BY <2>7 DEF Exact, IsAt
    <3>2. PICK n \in Names[Kind(x)] : entries[Kind(x)][n] # None /\ other = Current(x, entries, n)
      BY <1>5, <2>7 DEF Now
    <3>3. other.entry = entries[Kind(x)][n]
      BY <3>2 DEF Current, Item
    <3>4. n \in Here(x, entries)
      BY <3>1, <3>2, <3>3 DEF Here, InNamespace
    <3>5. other \in Found(x)
      BY <1>5, <1>10, <2>7, <3>2, <3>4
    <3>6. QED
      BY <2>2, <3>1, <3>5 DEF IsAt
  <2> HIDE DEF e
  <2>8. QED
    BY <1>1, <1>3, <2>3, <2>6, <2>7, SendSecond
<1>11. QED
  BY <1>6, <1>7, <1>8, <1>9, <1>10
-----------------------------------------------------------------------------
(* Copies, arrivals and changes of the registry.                           *)

LEMMA ReadCopySecond ==
  ASSUME Inv, Inv2, NEW q \in Requests, NEW n \in Names["tools"], NEW ns \in Namespaces,
         ReadCopy(q, n, ns)
  PROVE  Inv2'
<1> DEFINE x == req[q]
           copy == [name |-> n, entry |-> Copied(entries["tools"][n], ns), outdated |-> FALSE]
           y == [x EXCEPT !.pc = "copying", !.copy = copy]
<1>1. x.pc = "filter" /\ x.pc # "idle"
  BY AtIs DEF ReadCopy, Evaluates
<1>2. IsReq(x) /\ Second(x, entries, edits)
  BY <1>1, RequestIs DEF Inv2
<1>3. req' = [req EXCEPT ![q] = y] /\ UNCHANGED <<entries, edits, latest, crossed>>
  BY DEF ReadCopy, Become
<1> HIDE DEF copy
<1>4. IsReq(y) /\ y.pc = "copying" /\ \A f \in Fields : f \notin {"pc", "copy"} => y[f] = x[f]
  BY <1>2 DEF IsReq, Fields
<1> HIDE DEF y
<1>5. /\ y.shape = x.shape /\ y.method = x.method /\ y.name = x.name /\ y.ns = x.ns
      /\ y.seen = x.seen /\ y.from = x.from
  BY <1>4 DEF Fields
<1>6. Kind(y) = Kind(x) /\ Now(y, entries) = Now(x, entries)
  BY <1>5, SameHere
<1>7. Located(y)
  BY <1>1, <1>2, <1>5, <1>6 DEF Second, Located
<1>8. Fresh(y, entries, edits)
  BY <1>1, <1>2, <1>4, <1>5, <1>6 DEF Second, Fresh
<1>9. Second(y, entries, edits) /\ y.pc # "done"
  BY <1>4, <1>7, <1>8 DEF Second, Reads, Over
<1>10. QED
  BY <1>3, <1>9, BecomeSecond

LEMMA ArriveSecond ==
  ASSUME Inv, Inv2, NEW q \in Requests, NEW s \in Shapes[q], Arrive(q, s)
  PROVE  Inv2'
<1> DEFINE x == [NoRequest EXCEPT !.pc = "filter", !.shape = s, !.name = s.name, !.from = edits]
<1>1. Continue(q, As(x, s.method))
  BY DEF Arrive
<1> HIDE DEF x
<1>2. Movable(As(x, s.method), q) /\ IsReq(x)
  BY ArrivesMovable DEF x
<1>3. Prepared(As(x, s.method))
  BY <1>2, AsPrepared
<1>4. QED
  BY <1>1, <1>2, <1>3, ContinueSecond

(* After a change, a request has seen the new entry as well, if at all.    *)
LEMMA SeenIs ==
  ASSUME NEW kind, NEW n, NEW e, NEW p \in Requests, IsReq(req[p])
  PROVE  LET w == Witnessed(kind, n, e)[p]
         IN /\ w = req[p] \/ (Active(p) /\ e # None /\ Kind(req[p]) = kind)
            /\ w.seen \subseteq req[p].seen \cup {Item(n, e)}
<1> DEFINE x == req[p]
           item == Item(n, e)
           y == [x EXCEPT !.seen = x.seen \cup {item}]
           w == Witnessed(kind, n, e)[p]
<1>1. w = IF Active(p) /\ e # None /\ Kind(x) = kind THEN y ELSE x
  BY DEF Witnessed, Kind
<1> HIDE DEF w, item
<1>2. y.seen = x.seen \cup {item}
  BY DEF IsReq, Fields
<1> HIDE DEF y
<1>3. QED
  BY <1>1, <1>2 DEF w, item

(* The requests have started before the change.                            *)
LEMMA ChangedSecond ==
  ASSUME Inv, Inv2, NEW kind \in Kinds, NEW n \in Names[kind], NEW e \in Entry \cup {None},
         kind = "resources" /\ e # None => e.location # None,
         Writes(kind, n, e), edits' = edits + 1,
         \A p \in Requests :
           /\ \/ req'[p] = req[p]
              \/ req[p].pc \notin {"idle", "done"} /\ req'[p].pc \notin {"idle", "done"}
           /\ req'[p].pc = "awaiting" => req[p].pc = "awaiting"
           /\ req'[p].shape = req[p].shape /\ req'[p].method = req[p].method
           /\ req'[p].sent = req[p].sent /\ req'[p].from = req[p].from
           /\ \/ req'[p].seen = req[p].seen
              \/ /\ req[p].pc \notin {"idle", "done"} /\ e # None /\ Kind(req[p]) = kind
                 /\ req'[p].seen \subseteq req[p].seen \cup {Item(n, e)}
  PROVE  Inv2'
<1>1. Sited(entries')
  <2> SUFFICES ASSUME NEW m \in Names["resources"], entries'["resources"][m] # None
               PROVE  entries'["resources"][m].location # None
    BY DEF Sited
  <2>1. "resources" \in Kinds
    BY DEF Kinds
  <2>2. CASE kind = "resources" /\ m = n
    <3>1. entries'["resources"][m] = e
      BY <2>2, EntriesIs
    <3>2. QED
      BY <2>2, <3>1
  <2>3. CASE ~(kind = "resources" /\ m = n)
    <3>1. entries'["resources"][m] = entries["resources"][m]
      BY <2>1, <2>3, EntriesIs
    <3>2. QED
      BY <3>1 DEF Inv2, Sited
  <2>4. QED
    BY <2>2, <2>3
<1>2. ASSUME NEW p \in Requests
      PROVE  Second(req'[p], entries', edits')
  <2> DEFINE x == req[p]
             z == req'[p]
  <2>1. Second(x, entries, edits) /\ Linked(x) /\ edits \in Nat
    BY DEF Inv2, Inv, Stored
  <2>2. /\ z = x \/ (x.pc \notin {"idle", "done"} /\ z.pc \notin {"idle", "done"})
        /\ z.pc = "awaiting" => x.pc = "awaiting"
        /\ z.shape = x.shape /\ z.method = x.method /\ z.sent = x.sent /\ z.from = x.from
    OBVIOUS
  <2>3. \/ z.seen = x.seen
        \/ /\ x.pc \notin {"idle", "done"} /\ e # None /\ Kind(x) = kind
           /\ z.seen \subseteq x.seen \cup {Item(n, e)}
    OBVIOUS
  <2> HIDE DEF x, z
  <2>4. z.from # edits'
    BY <2>1, <2>2 DEF Linked
  <2>5. Kind(z) = Kind(x) /\ (Reading(z) <=> Reading(x))
    BY <2>2 DEF Kind, Reading
  <2>6. Reads(z)
    BY <2>1, <2>2, <2>5 DEF Second, Reads
  <2>7. Located(z)
    <3> SUFFICES ASSUME z.pc # "idle", Kind(z) = "resources", NEW item \in z.seen
                 PROVE  item.entry.location \in Seq(Characters)
      BY DEF Located
    <3>1. x.pc # "idle" /\ \A i \in x.seen : i.entry.location \in Seq(Characters)
      BY <2>1, <2>2, <2>5 DEF Second, Located
    <3>2. CASE item \in x.seen
      BY <3>1, <3>2
    <3>3. CASE item \notin x.seen
      <4>1. item = Item(n, e) /\ e # None /\ kind = "resources"
        BY <2>3, <2>5, <3>3
      <4>2. item.entry = e /\ e \in Entry /\ e.location # None
        BY <4>1 DEF Item
      <4>3. QED
        BY <4>2 DEF Entry
    <3>4. QED
      BY <3>2, <3>3
  <2>8. QED
    BY <2>4, <2>6, <2>7 DEF Second, Fresh, Over, z
<1>3. \A p \in Requests : req'[p].pc = "done" => req'[p] = req[p] \/ req'[p].until = edits'
  OBVIOUS
<1>4. QED
  BY <1>1, <1>2, <1>3, SecondNext

LEMMA EditSecond ==
  ASSUME Inv, Inv2, NEW kind \in Kinds, NEW n \in Names[kind], NEW e \in Entry \cup {None},
         kind = "resources" /\ e # None => e.location # None,
         Edit(kind, n, e)
  PROVE  Inv2'
<1> DEFINE rs == Witnessed(kind, n, e)
<1>1. edits' = edits + 1 /\ Writes(kind, n, e) /\ req' = Outdated(kind, n, rs)
  BY DEF Edit, Writes
<1>2. ASSUME NEW p \in Requests
      PROVE  /\ \/ req'[p] = req[p]
                \/ req[p].pc \notin {"idle", "done"} /\ req'[p].pc \notin {"idle", "done"}
             /\ req'[p].pc = "awaiting" => req[p].pc = "awaiting"
             /\ req'[p].shape = req[p].shape /\ req'[p].method = req[p].method
             /\ req'[p].sent = req[p].sent /\ req'[p].from = req[p].from
             /\ \/ req'[p].seen = req[p].seen
                \/ /\ req[p].pc \notin {"idle", "done"} /\ e # None /\ Kind(req[p]) = kind
                   /\ req'[p].seen \subseteq req[p].seen \cup {Item(n, e)}
  <2> DEFINE x == req[p]
             w == rs[p]
             z == Outdated(kind, n, rs)[p]
  <2>1. Good(x, p) /\ IsReq(x)
    BY DEF Inv, Good
  <2>2. /\ IsReq(w) /\ \A f \in Fields : f # "seen" => w[f] = x[f]
    BY WitnessedIs
  <2>3. /\ w = x \/ (Active(p) /\ e # None /\ Kind(x) = kind)
        /\ w.seen \subseteq x.seen \cup {Item(n, e)}
    BY <2>1, SeenIs
  <2>4. /\ w.pc = x.pc /\ w.copy = x.copy /\ w.shape = x.shape /\ w.method = x.method
        /\ w.sent = x.sent /\ w.from = x.from
    BY <2>2 DEF Fields
  <2>5. w.pc = "copying" => w.copy \in Copy
    BY <2>1, <2>4 DEF Good, Fair
  <2>6. req'[p] = z
    BY <1>1
  <2>7. w.pc # "copying" => z = w
    BY DEF Outdated
  <2> HIDE DEF rs
  <2>8. IsReq(z) /\ \A f \in Fields : f # "copy" => z[f] = w[f]
    BY <2>2, <2>5, OutdatedIs
  <2> HIDE DEF z, w
  <2>9. /\ z.pc = x.pc /\ z.shape = x.shape /\ z.method = x.method /\ z.sent = x.sent
        /\ z.from = x.from
        /\ z.seen = w.seen
    BY <2>4, <2>8 DEF Fields
  <2>10. z = x \/ x.pc \notin {"idle", "done"}
    BY <2>3, <2>4, <2>7 DEF Active
  <2>11. z.seen = x.seen \/ (/\ x.pc \notin {"idle", "done"} /\ e # None /\ Kind(x) = kind
                             /\ z.seen \subseteq x.seen \cup {Item(n, e)})
    BY <2>3, <2>9 DEF Active
  <2>12. QED
    BY <2>6, <2>9, <2>10, <2>11
<1>3. QED
  BY <1>1, <1>2, ChangedSecond

LEMMA PutSecond ==
  ASSUME Inv, Inv2, NEW kind \in Kinds, NEW n \in Names[kind], NEW e \in Entries[kind], Put(kind,
         n, e)
  PROVE  Inv2'
<1>1. e \in Entry /\ (kind = "resources" => e.location # None)
  BY RegistryAssumption DEF Registrable
<1>2. Kept(kind, n, e) \in Entry /\ Kept(kind, n, e).location = e.location
  BY <1>1, KeptIs
<1>3. QED
  BY <1>1, <1>2, EditSecond DEF Put

LEMMA DeleteSecond ==
  ASSUME Inv, Inv2, NEW kind \in Kinds, NEW n \in Names[kind], Delete(kind, n)
  PROVE  Inv2'
  BY EditSecond DEF Delete

LEMMA WriteCopySecond ==
  ASSUME Inv, Inv2, NEW q \in Requests, WriteCopy(q)
  PROVE  Inv2'
<1> DEFINE c == req[q].copy
           rs == Witnessed("tools", c.name, c.entry)
           w == rs[q]
           y == [w EXCEPT !.pc = "filter", !.copy = None, !.copies = w.copies + 1]
<1>1. Good(req[q], q) /\ req[q].pc = "copying"
  BY DEF WriteCopy, Inv
<1>2. c.name \in Names["tools"] /\ c.entry \in Entry /\ "tools" \in Kinds
  BY <1>1 DEF Good, Fair, Copy, Kinds
<1>3. /\ Writes("tools", c.name, c.entry) /\ edits' = edits + 1
      /\ req' = [rs EXCEPT ![q].pc = "filter", ![q].copy = None, ![q].copies = @ + 1]
  BY DEF WriteCopy, Writes
<1>4. \A p \in Requests :
        /\ IsReq(rs[p]) /\ \A f \in Fields : f # "seen" => rs[p][f] = req[p][f]
  BY <1>2, WitnessedIs
<1>5. \A p \in Requests :
        /\ rs[p] = req[p] \/ (Active(p) /\ c.entry # None /\ Kind(req[p]) = "tools")
        /\ rs[p].seen \subseteq req[p].seen \cup {Item(c.name, c.entry)}
  <2>1. \A p \in Requests : IsReq(req[p])
    BY DEF Inv, Good
  <2>2. QED
    BY <2>1, SeenIs
<1>6. DOMAIN rs = Requests
  BY DEF Witnessed
<1> HIDE DEF c, rs
<1>7. req'[q] = y /\ \A p \in Requests : p # q => req'[p] = rs[p]
  <2>1. IsReq(w) /\ "pc" \in Fields /\ "copy" \in Fields /\ "copies" \in Fields
    BY <1>4 DEF Fields
  <2>2. QED
    BY <1>3, <1>6, <2>1 DEF IsReq, Fields
<1>8. /\ IsReq(y) /\ y.pc = "filter"
      /\ \A f \in Fields : f \notin {"pc", "copy", "copies"} => y[f] = w[f]
  BY <1>4 DEF IsReq, Fields
<1> HIDE DEF y
<1>9. ASSUME NEW p \in Requests
      PROVE  /\ \/ req'[p] = req[p]
                \/ req[p].pc \notin {"idle", "done"} /\ req'[p].pc \notin {"idle", "done"}
             /\ req'[p].pc = "awaiting" => req[p].pc = "awaiting"
             /\ req'[p].shape = req[p].shape /\ req'[p].method = req[p].method
             /\ req'[p].sent = req[p].sent /\ req'[p].from = req[p].from
             /\ \/ req'[p].seen = req[p].seen
                \/ /\ req[p].pc \notin {"idle", "done"} /\ c.entry # None /\ Kind(req[p]) = "tools"
                   /\ req'[p].seen \subseteq req[p].seen \cup {Item(c.name, c.entry)}
  <2> DEFINE x == req[p]
             z == req'[p]
             v == rs[p]
  <2>1. /\ v.pc = x.pc /\ v.shape = x.shape /\ v.method = x.method /\ v.sent = x.sent
        /\ v.from = x.from
    BY <1>4 DEF Fields
  <2>2. v.seen = x.seen \/ (/\ x.pc \notin {"idle", "done"} /\ c.entry # None /\ Kind(x) = "tools"
                            /\ v.seen \subseteq x.seen \cup {Item(c.name, c.entry)})
    BY <1>5 DEF Active
  <2>3. CASE p = q
    <3>1. z.pc = "filter" /\ x.pc = "copying"
      BY <1>1, <1>7, <1>8, <2>3
    <3>2. /\ z.shape = v.shape /\ z.method = v.method /\ z.sent = v.sent
          /\ z.from = v.from /\ z.seen = v.seen
      BY <1>7, <1>8, <2>3 DEF Fields
    <3> HIDE DEF x, z, v
    <3>3. QED
      BY <2>1, <2>2, <3>1, <3>2 DEF x, z
  <2>4. CASE p # q
    <3>1. z = v
      BY <1>7, <2>4
    <3>2. v = x \/ x.pc \notin {"idle", "done"}
      BY <1>5 DEF Active
    <3> HIDE DEF x, z, v
    <3>3. QED
      BY <2>1, <2>2, <3>1, <3>2 DEF x, z
  <2>5. QED
    BY <2>3, <2>4
<1>10. QED
  BY <1>2, <1>3, <1>9, ChangedSecond
-----------------------------------------------------------------------------
(* What is listed is found, and what is read is what was asked for.        *)

LEMMA InitSecond == Init => Inv2
<1> SUFFICES ASSUME Init
             PROVE  Inv2
  OBVIOUS
<1>1. entries \in Registries /\ req = [q \in Requests |-> NoRequest]
  BY DEF Init
<1>2. Sited(entries)
  <2> SUFFICES ASSUME NEW n \in Names["resources"], entries["resources"][n] # None
               PROVE  entries["resources"][n].location # None
    BY DEF Sited
  <2>1. entries["resources"] \in [Names["resources"] -> Registrable("resources") \cup {None}]
    BY <1>1, RegistryAssumption DEF Kinds
  <2>2. entries["resources"][n] \in Registrable("resources")
    BY <2>1
  <2>3. QED
    BY <2>2 DEF Registrable
<1>3. ASSUME NEW q \in Requests
      PROVE  req[q].pc = "idle" /\ Second(req[q], entries, edits)
  <2>1. req[q].pc = "idle"
    BY <1>1 DEF NoRequest
  <2>2. QED
    BY <2>1 DEF Second, Located, Reads, Fresh, Over
<1>4. ListedIsFound
  BY <1>3, Zenon DEF ListedIsFound
<1>5. QED
  BY <1>2, <1>3, <1>4 DEF Inv2

LEMMA HandlingSecond ==
  ASSUME Inv, Inv2, NEW q \in Requests, Handling(q)
  PROVE  Inv2'
<1>1. CASE EvaluatorPasses(q) \/ SetMetadata(q)
  BY <1>1, EvaluatorGoesOnSecond
<1>2. CASE \E kind \in Kinds : \E n \in Names[kind] : Scan(q, n)
  BY <1>2, ScanSecond
<1>3. CASE TokenProxied(q) \/ McpInit(q) \/ EvaluatorRejects(q) \/ UpstreamAnswers(q)
           \/ StaticResponse(q)
  BY <1>3, AnswerStepsSecond
<1>4. CASE Namespace(q) \/ WellKnown(q) \/ FilterTools(q) \/ WriteCopy(q) \/ List(q)
  BY <1>4, NamespaceSecond, WellKnownSecond, FilterToolsSecond, WriteCopySecond, ListSecond
<1>5. CASE ToolCall(q) \/ ResourceRead(q) \/ PromptGet(q)
  BY <1>5, ToolCallSecond, ResourceReadSecond, PromptGetSecond
<1>6. QED
  BY <1>1, <1>2, <1>3, <1>4, <1>5 DEF Handling

LEMMA NextSecond == Inv /\ Inv2 /\ [Next]_vars => Inv2'
<1> SUFFICES ASSUME Inv, Inv2, [Next]_vars
             PROVE  Inv2'
  OBVIOUS
<1>1. ASSUME NEW q \in Requests, NEW s \in Shapes[q], Arrive(q, s)
      PROVE  Inv2'
  BY <1>1, ArriveSecond
<1>2. ASSUME NEW q \in Requests, Handling(q)
      PROVE  Inv2'
  BY <1>2, HandlingSecond
<1>3. ASSUME NEW q \in Requests, NEW scope \in {"namespace", "any"},
             NEW names \in SUBSET Names["tools"], ChooseTools(q, scope, names)
      PROVE  Inv2'
  BY <1>3, ChooseToolsSecond
<1>4. ASSUME NEW q \in Requests, NEW n \in Names["tools"], NEW ns \in Namespaces, ReadCopy(q, n, ns)
      PROVE  Inv2'
  BY <1>4, ReadCopySecond
<1>5. ASSUME NEW kind \in Kinds, NEW n \in Names[kind], NEW e \in Entries[kind], Put(kind, n, e)
      PROVE  Inv2'
  BY <1>5, PutSecond
<1>6. ASSUME NEW kind \in Kinds, NEW n \in Names[kind], Delete(kind, n)
      PROVE  Inv2'
  BY <1>6, DeleteSecond
<1>7. CASE UNCHANGED vars
  <2>1. UNCHANGED <<entries, req, edits, latest, crossed>>
    BY <1>7 DEF vars
  <2>2. \A q \in Requests : Second(req'[q], entries', edits') /\ req'[q] = req[q]
    BY <2>1 DEF Inv2
  <2>3. Sited(entries')
    BY <2>1 DEF Inv2
  <2>4. QED
    BY <2>2, <2>3, SecondNext
<1>8. QED
  BY <1>1, <1>2, <1>3, <1>4, <1>5, <1>6, <1>7 DEF Next

LEMMA SecondAlways == Spec => []Inv2
<1>1. QED
  BY InitInv, NextInv, InitSecond, NextSecond, PTL DEF Spec

LEMMA Inv2Listed == Inv2 => ListedIsFound
  BY DEF Inv2

(* What a client finds in a list, it can call, read or get, whatever other *)
(* requests are doing, as long as nobody edits the registry (the lookups   *)
(* get_*_in_namespace of registry.rs against the list filters, and the     *)
(* location of a resource against matches_uri_template).                   *)
THEOREM ListedAreFound == Spec => []ListedIsFound
<1>1. QED
  BY SecondAlways, Inv2Listed, PTL

LEMMA Inv2Reads == Inv /\ Inv2 => ReadsWhatWasAsked
<1> SUFFICES ASSUME Inv, Inv2, NEW q \in Requests, req[q].method = "resources/read"
             PROVE  LET x == req[q]
                        exact == {item \in x.seen : item.entry.ns = x.ns /\ ~item.entry.template
                                                      /\ item.entry.location = x.shape.uri}
                    IN /\ x.pc = "awaiting" =>
                            /\ IF x.sent.entry.template
                               THEN IsInstance(x.sent.entry.location, x.shape.uri)
                               ELSE x.sent.entry.location = x.shape.uri
                            /\ (edits = x.from /\ exact # {}) => ~x.sent.entry.template
                       /\ x.pc = "done" /\ x.resp = "-32602" /\ x.shape.uri # None
                            /\ edits = x.from
                          => \A n \in Names["resources"] :
                               InNamespace(entries["resources"][n], x.ns)
                                 => ~Serves(entries["resources"][n], x.shape.uri)
  BY Zenon DEF ReadsWhatWasAsked
<1> DEFINE x == req[q]
<1>1. Second(x, entries, edits)
  BY DEF Inv2
<1>2. Reading(x) /\ Kind(x) = "resources" /\ Kind(x) # None
  BY KindIs DEF Reading, Kind, KindOf, Kinds
<1>3. x.pc = "awaiting" =>
        IF x.sent.entry.template THEN IsInstance(x.sent.entry.location, x.shape.uri)
        ELSE x.sent.entry.location = x.shape.uri
  BY <1>1, <1>2 DEF Second, Reads
<1>4. x.pc = "awaiting" => (edits = x.from /\ Exact(x) # {} => ~x.sent.entry.template)
  BY <1>1, <1>2 DEF Second, Fresh
<1>5. x.pc = "done" /\ x.resp = "-32602" /\ x.shape.uri # None /\ edits = x.from
        => \A n \in Names["resources"] : InNamespace(entries["resources"][n], x.ns)
                                          => ~Serves(entries["resources"][n], x.shape.uri)
  BY <1>1, <1>2 DEF Second, Over, Missed, Here
<1>6. QED
  BY <1>3, <1>4, <1>5, Zenon DEF Exact

(* A read goes to the resource at the location that was asked for, or to a *)
(* template of which that location is an instance, and is refused only     *)
(* when there is neither, for templates and URIs of any length             *)
(* (matches_uri_template, and the two lookups of                           *)
(* filters/src/resource_read.rs).                                          *)
THEOREM ReadAsAsked == Spec => []ReadsWhatWasAsked
<1>1. QED
  BY InvAlways, SecondAlways, Inv2Reads, PTL

-----------------------------------------------------------------------------
(* There is always a step.                                                 *)

(* The guards of the steps of Handling, each as its action has it.         *)
CanScan(q) ==
  /\ \E filter \in Scanning : At(q, filter)
  /\ HasRegistry(q)
  /\ \E kind \in Kinds : \E n \in Names[kind] : n \in req[q].todo
  /\ req[q].method = "resources/read" => req[q].shape.uri # None

CanList(q) ==
  /\ \/ At(q, "wanaku_tool_list") \/ At(q, "wanaku_resource_list") \/ At(q, "wanaku_prompt_list")
  /\ ~HasRegistry(q) \/ req[q].todo = {}

CanRead(q) ==
  /\ At(q, "wanaku_resource_read")
  /\ LET x == req[q]
         hits == Hits(Found(x), x.shape.uri)
     IN \/ x.shape.uri = None
        \/ x.shape.uri # None /\ ~HasRegistry(q)
        \/ /\ x.shape.uri # None
           /\ HasRegistry(q)
           /\ x.todo = {}
           /\ \/ hits = {}
              \/ \E i \in DOMAIN x.found :
                   x.found[i] \in hits /\ \A j \in 1..(i - 1) : x.found[j] \notin hits

Ready(q) ==
  \/ req[q].pc \in {"token", "choosing", "copying", "awaiting"}
  \/ At(q, "wanaku_namespace") \/ At(q, "wanaku_well_known") \/ At(q, "wanaku_mcp_init")
  \/ At(q, "wanaku_evaluator") \/ At(q, "wanaku_tool_call")
  \/ At(q, "wanaku_prompt_get") \/ At(q, "static_response")
  \/ CanScan(q) \/ CanList(q) \/ CanRead(q)

LEMMA ReadReady ==
  ASSUME Inv, NEW q \in Requests, HasRegistry(q), At(q, "wanaku_resource_read"), req[q].todo = {}
  PROVE  CanRead(q)
<1> DEFINE x == req[q]
           hits == Hits(Found(x), x.shape.uri)
           at == {i \in DOMAIN x.found : x.found[i] \in hits}
<1>1. x.found \in Seq(Items(x))
  BY DEF Inv, Good, Fair
<1>2. hits \subseteq Found(x)
  BY DEF Hits
<1>3. CASE x.shape.uri = None
  BY <1>3 DEF CanRead
<1>4. CASE x.shape.uri # None /\ hits = {}
  BY <1>4 DEF CanRead
<1>5. CASE x.shape.uri # None /\ hits # {}
  <2>1. at # {} /\ at \subseteq DOMAIN x.found
    BY <1>2, <1>5 DEF Found
  <2>2. DOMAIN x.found = 1..Len(x.found) /\ Len(x.found) \in Nat
    BY <1>1
  <2>3. at \subseteq Nat
    BY <2>1, <2>2
  <2>4. PICK i \in at : \A j \in at : i <= j
    BY <2>1, <2>3, Least
  <2> HIDE DEF hits
  <2>5. \A j \in 1..(i - 1) : x.found[j] \notin hits
    <3>1. ASSUME NEW j \in 1..(i - 1), x.found[j] \in hits PROVE FALSE
      <4>1. j \in DOMAIN x.found /\ j < i
        BY <2>1, <2>2, <2>4
      <4>2. j \in at
        BY <3>1, <4>1
      <4>3. QED
        BY <2>2, <2>4, <4>1, <4>2
    <3>2. QED
      BY <3>1
  <2>6. i \in DOMAIN x.found /\ x.found[i] \in hits
    BY <2>4
  <2>7. QED
    BY <1>5, <2>5, <2>6 DEF CanRead, hits
<1>6. QED
  BY <1>3, <1>4, <1>5

LEMMA IsReady ==
  ASSUME Inv, NEW q \in Requests, Active(q)
  PROVE  Ready(q)
<1> DEFINE x == req[q]
<1>1. x.pc \in Pcs /\ x.at \in 1..11
  BY DEF Inv, Good, Placed, Active
<1>2. CASE x.pc # "filter"
  BY <1>1, <1>2 DEF Ready, Active, Pcs
<1>3. CASE x.pc = "filter"
  <2>1. At(q, Chain[x.at]) /\ Chain[x.at] \in DOMAIN ActsOn
    BY <1>1, <1>3, ChainIs, Filters DEF At
  <2>2. x.method \in ActsOn[Chain[x.at]]
    BY <2>1, AtIs
  <2>3. CASE Chain[x.at] \in Scanning /\ ~HasRegistry(q)
    <3>1. CASE Chain[x.at] = "wanaku_resource_read"
      BY <2>1, <2>3, <3>1 DEF CanRead, Ready
    <3>2. CASE Chain[x.at] # "wanaku_resource_read"
      BY <2>1, <2>3, <3>2 DEF Scanning, CanList, Ready
    <3>3. QED
      BY <3>1, <3>2
  <2>4. CASE Chain[x.at] \in Scanning /\ HasRegistry(q) /\ x.todo # {}
    <3>1. PICK n : n \in x.todo
      BY <2>4
    <3>2. x.todo \subseteq IF Kind(x) = None THEN {} ELSE Names[Kind(x)]
      BY <1>3 DEF Inv, Good, Placed
    <3>3. Kind(x) \in Kinds /\ n \in Names[Kind(x)]
      BY <3>1, <3>2, KindIs DEF Kind
    <3>4. CASE x.method = "resources/read" => x.shape.uri # None
      BY <2>1, <2>4, <3>1, <3>3, <3>4 DEF CanScan, Ready
    <3>5. CASE x.method = "resources/read" /\ x.shape.uri = None
      <4>1. Chain[x.at] = "wanaku_resource_read"
        BY <2>2, <2>4, <3>5 DEF ActsOn, Scanning
      <4>2. QED
        BY <2>1, <3>5, <4>1 DEF CanRead, Ready
    <3>6. QED
      BY <3>4, <3>5
  <2>5. CASE Chain[x.at] \in Scanning /\ HasRegistry(q) /\ x.todo = {}
    <3>1. CASE Chain[x.at] = "wanaku_resource_read"
      BY <2>1, <2>5, <3>1, ReadReady DEF Ready
    <3>2. CASE Chain[x.at] # "wanaku_resource_read"
      BY <2>1, <2>5, <3>2 DEF Scanning, CanList, Ready
    <3>3. QED
      BY <3>1, <3>2
  <2>6. CASE Chain[x.at] \notin Scanning
    <3>1. Chain[x.at] \in {"wanaku_namespace", "wanaku_well_known", "wanaku_mcp_init",
                           "wanaku_evaluator", "wanaku_tool_call", "wanaku_prompt_get",
                           "static_response"}
      BY <2>1, <2>6 DEF ActsOn, Scanning
    <3>2. QED
      BY <2>1, <3>1 DEF Ready
  <2>7. QED
    BY <2>3, <2>4, <2>5, <2>6
<1>4. QED
  BY <1>2, <1>3

(* As long as a request is handled, the guard of one of its steps holds,   *)
(* at every filter and for every method: none is left without an answer.   *)
THEOREM NeverStuck == Spec => [](\A q \in Requests : Active(q) => Ready(q))
<1>1. Inv => \A q \in Requests : Active(q) => Ready(q)
  BY IsReady
<1>2. QED
  BY <1>1, InvAlways, PTL
====
