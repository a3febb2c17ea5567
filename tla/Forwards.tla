------------------------------ MODULE Forwards ------------------------------
(***************************************************************************)
(* The life of a forward: an upstream MCP server whose tools, resources    *)
(* and prompts Wanaku discovers and publishes in its registry              *)
(* (server/src/management/handlers.rs, server/src/main.rs).                *)
(*                                                                         *)
(* A published entry carries the address it is forwarded to: owner[i] is   *)
(* that address, Local for an entry that is not forwarded, and None when   *)
(* the registry has no entry i.  Rank[i] is 1 for a tool, 2 for a resource *)
(* or a template and 3 for a prompt, the order in which the handlers go    *)
(* through them.  Each worker is one management request (or the discovery  *)
(* at startup): it awaits the upstream in the middle, and between two      *)
(* registry calls any other request may run.                               *)
(***************************************************************************)
EXTENDS Naturals, FiniteSets

CONSTANTS
  Names,        \* names of forwards
  Addresses,    \* addresses of upstream servers
  Items,        \* names of the entries that upstream servers offer
  Rank,         \* Rank[i]: 1 a tool, 2 a resource, 3 a prompt
  Catalogs,     \* what an upstream server may answer with
  Config,       \* Config[f]: the address of f in wanaku.yaml, None when f is not there
  Local, None,
  Workers,      \* requests being served
  MaxOps        \* bound: requests and restarts in a behaviour

ASSUME RankAssumption   == Rank \in [Items -> 1..3]
ASSUME CatalogAssumption == Catalogs \subseteq SUBSET Items
ASSUME LocalAssumption  == Local \notin Addresses /\ None \notin Addresses /\ Local # None
ASSUME ConfigAssumption == Config \in [Names -> Addresses \cup {None}]
ASSUME OpsAssumption    == MaxOps \in Nat

VARIABLES
  forwards,     \* forwards[f]: the registered forward, address None when there is none
  owner,        \* owner[i]: where entry i is forwarded to
  op,           \* op[w]: the request worker w is serving
  boot,         \* configured forwards not yet discovered at startup
  ops,          \* requests and restarts so far
  offered,      \* history: offered[a] holds the names that a offered or was given by hand
  reached,      \* history: the addresses that answered a discovery
  via,          \* history: via[i] is the forward that published entry i
  tidy          \* history: no two requests overlapped, no forward changed its address

vars == <<forwards, owner, op, boot, ops, offered, reached, via, tidy>>

NoForward == [address |-> None, available |-> FALSE]
NewOp(pc, kind, name, address, todo) ==
  [pc |-> pc, kind |-> kind, name |-> name, address |-> address,
   rank |-> 1, todo |-> todo, catalog |-> {}, solo |-> FALSE]
NoOp == NewOp("idle", "none", None, None, {})

ForwardEntry == [address : Addresses \cup {None}, available : BOOLEAN]
Op == [pc : {"idle", "discovering", "registering", "deleting", "listing", "removing"},
       kind : {"none", "create", "delete", "refresh", "startup", "update"},
       name : Names \cup {None}, address : Addresses \cup {Local, None}, rank : 1..3,
       todo : SUBSET Items, catalog : SUBSET Items, solo : BOOLEAN]

Init ==
  /\ forwards = [f \in Names |-> [address |-> Config[f], available |-> FALSE]]
  /\ owner = [i \in Items |-> None]
  /\ op = [w \in Workers |-> NoOp]
  /\ boot = {f \in Names : Config[f] # None}
  /\ ops = 0
  /\ offered = [a \in Addresses |-> {}]
  /\ reached = {}
  /\ via = [i \in Items |-> None]
  /\ tidy = TRUE

Idle    == \A w \in Workers : op[w].pc = "idle"
Serving == boot = {} /\ \A w \in Workers : op[w].kind # "startup"

\* A request runs alone when no other one is running from its start to its end.
Start(w, o) ==
  /\ op[w].pc = "idle"
  /\ op' = [u \in Workers |-> IF u = w THEN [o EXCEPT !.solo = Idle]
                                       ELSE [op[u] EXCEPT !.solo = FALSE]]

\* A request that changes the registry in one call, and no operation of its own.
Interfere == op' = [u \in Workers |-> [op[u] EXCEPT !.solo = FALSE]]

-----------------------------------------------------------------------------
(* Discovery: the request awaits the upstream server.                      *)

\* handle_forward_create changes nothing before it awaits the discovery.
Create(w, f, a) ==
  /\ Serving /\ ops < MaxOps
  /\ Start(w, NewOp("discovering", "create", f, a, {}))
  /\ ops' = ops + 1
  /\ tidy' = (tidy /\ Idle /\ forwards[f].address \in {a, None})
  /\ UNCHANGED <<forwards, owner, boot, offered, reached, via>>

\* load_core_config discovers the configured forwards one after the other, before
\* the server takes requests.
StartupDiscover(w, f) ==
  /\ f \in boot
  /\ Idle
  /\ Start(w, NewOp("discovering", "startup", f, Config[f], {}))
  /\ boot' = boot \ {f}
  /\ UNCHANGED <<forwards, owner, ops, offered, reached, via, tidy>>

\* Mutant: only the availability of the forward registered by now is updated.
RecordOfNow(w, found) == [forwards[op[w].name] EXCEPT !.available = found]

\* The forward registered after a discovery has the address the discovery was
\* started for, whatever the registry holds by now.
Record(w, found) == [address |-> op[w].address, available |-> found]

\* The upstream answers with its catalog.
Answer(w, catalog) ==
  /\ op[w].pc = "discovering"
  /\ forwards' = [forwards EXCEPT ![op[w].name] = Record(w, TRUE)]
  /\ reached' = reached \cup {op[w].address}
  /\ offered' = [offered EXCEPT ![op[w].address] = @ \cup catalog]
  /\ op' = [op EXCEPT ![w] = IF catalog = {} THEN NoOp
                             ELSE [@ EXCEPT !.pc = "registering", !.todo = catalog,
                                            !.catalog = catalog]]
  /\ UNCHANGED <<owner, boot, ops, via, tidy>>

\* It cannot be reached, or a step of the handshake times out.
Unreachable(w) ==
  /\ op[w].pc = "discovering"
  /\ forwards' = [forwards EXCEPT ![op[w].name] = Record(w, FALSE)]
  /\ op' = [op EXCEPT ![w] = NoOp]
  /\ UNCHANGED <<owner, boot, ops, offered, reached, via, tidy>>

\* What a request still has to do after item i.
Left(o, i) == [o EXCEPT !.todo = o.todo \ {i}]

\* Mutant: entries are forwarded to the address the forward has by now.
AddressOfNow(w) == IF op[w].name = None THEN op[w].address ELSE forwards[op[w].name].address

\* Mutant: entries are forwarded to the name of the forward.
AddressByName(w) == op[w].name

\* The address that the entries a request registers are forwarded to.
Address(w) == op[w].address

\* register_discovered_tools, _resources and _prompts: each entry is inserted under
\* its own name, over whatever has that name.
RegisterItem(w, i) ==
  /\ op[w].pc = "registering"
  /\ i \in op[w].todo
  /\ \A j \in op[w].todo : Rank[i] <= Rank[j]
  /\ owner' = [owner EXCEPT ![i] = Address(w)]
  /\ via' = [via EXCEPT ![i] = op[w].name]
  /\ op' = [op EXCEPT ![w] = IF op[w].todo = {i} THEN NoOp
                             ELSE Left(op[w], i)]
  /\ UNCHANGED <<forwards, boot, ops, offered, reached, tidy>>

-----------------------------------------------------------------------------
(* Removal of what an address published.                                   *)

\* Mutant: the prompts are forgotten.
RemovedButPrompts(o) ==
  IF o.rank < 2 THEN [o EXCEPT !.pc = "listing", !.rank = @ + 1, !.todo = {}]
  ELSE IF o.kind = "refresh" THEN [o EXCEPT !.pc = "discovering", !.rank = 1, !.todo = {}]
  ELSE NoOp

\* Mutant: a refresh removes the tools only, as the documentation has it.
RemovedToolsFirst(o) ==
  IF o.kind = "refresh" THEN [o EXCEPT !.pc = "discovering", !.rank = 1, !.todo = {}]
  ELSE IF o.rank < 3 THEN [o EXCEPT !.pc = "listing", !.rank = @ + 1, !.todo = {}]
  ELSE NoOp

\* Mutant: the removal starts over until nothing of the address comes back.
RemovedAgain(o) == [o EXCEPT !.pc = "listing", !.rank = (@ % 3) + 1, !.todo = {}]

\* After the prompts, a deletion is over and a refresh goes on to discover.
Removed(o) ==
  IF o.rank < 3 THEN [o EXCEPT !.pc = "listing", !.rank = @ + 1, !.todo = {}]
  ELSE IF o.kind = "refresh" THEN [o EXCEPT !.pc = "discovering", !.rank = 1, !.todo = {}]
  ELSE NoOp

\* Mutant: only what a discovery published belongs to an address.
OwnedAsPublished(a, r) == {i \in Items : Rank[i] = r /\ owner[i] = a /\ via[i] # None}

\* What belongs to an address, whoever registered it.
Owned(a, r) == {i \in Items : Rank[i] = r /\ owner[i] = a}

\* remove_forwarded_tools, _resources, _prompts: first the names are listed ...
ListOwned(w) ==
  /\ op[w].pc = "listing"
  /\ LET names == Owned(op[w].address, op[w].rank)
     IN op' = [op EXCEPT ![w] = IF names = {} THEN Removed(@)
                                ELSE [@ EXCEPT !.pc = "removing", !.todo = names]]
  /\ UNCHANGED <<forwards, owner, boot, ops, offered, reached, via, tidy>>

\* ... then each name is removed, whatever it stands for by then.
RemoveItem(w, i) ==
  /\ op[w].pc = "removing"
  /\ i \in op[w].todo
  /\ owner' = [owner EXCEPT ![i] = None]
  /\ via' = [via EXCEPT ![i] = None]
  /\ op' = [op EXCEPT ![w] = IF op[w].todo = {i} THEN Removed(@)
                             ELSE Left(op[w], i)]
  /\ UNCHANGED <<forwards, boot, ops, offered, reached, tidy>>

\* handle_forward_refresh: an unknown forward is a 404.
Refresh(w, f) ==
  /\ Serving /\ ops < MaxOps
  /\ forwards[f].address # None
  /\ Start(w, NewOp("listing", "refresh", f, forwards[f].address, {}))
  /\ ops' = ops + 1
  /\ tidy' = (tidy /\ Idle)
  /\ UNCHANGED <<forwards, owner, boot, offered, reached, via>>

\* handle_forward_delete reads the forward ...
Delete(w, f) ==
  /\ Serving /\ ops < MaxOps
  /\ Start(w, NewOp("deleting", "delete", f, forwards[f].address, {}))
  /\ ops' = ops + 1
  /\ tidy' = (tidy /\ Idle)
  /\ UNCHANGED <<forwards, owner, boot, offered, reached, via>>

\* Mutant: a forward that is not available has no entries to remove.
CleansAvailable(w) == forwards[op[w].name].available

\* There was a forward to remove, and one when the deletion read it.
Cleans(w) == forwards[op[w].name].address # None /\ op[w].address # None

\* ... and then removes what has its name; without that, a 404.  The entries are
\* those of the address it read.
DeleteForward(w) ==
  /\ op[w].pc = "deleting"
  /\ forwards' = [forwards EXCEPT ![op[w].name] = NoForward]
  /\ op' = [op EXCEPT ![w] = IF Cleans(w) THEN [@ EXCEPT !.pc = "listing"] ELSE NoOp]
  /\ UNCHANGED <<owner, boot, ops, offered, reached, via, tidy>>

-----------------------------------------------------------------------------
(* Requests on single entries.                                             *)

\* The body of an update may forward entry i to an address of its own choice.
Given(i, a) ==
  offered' = [b \in Addresses |-> IF b = a THEN offered[b] \cup {i} ELSE offered[b]]

\* handle_tool_update, handle_resource_update under the entry's own name: the body
\* says where the entry is forwarded to, if it is.
Put(i, a) ==
  /\ Serving /\ ops < MaxOps
  /\ Rank[i] <= 2
  /\ owner' = [owner EXCEPT ![i] = a]
  /\ via' = [via EXCEPT ![i] = None]
  /\ Given(i, a)
  /\ ops' = ops + 1
  /\ tidy' = (tidy /\ Idle /\ a \in {Local, owner[i]})
  /\ Interfere
  /\ UNCHANGED <<forwards, boot, reached>>

\* ... or under another name j: i is removed first, and j is registered in a second
\* call.
Rename(w, i, j, a) ==
  /\ Serving /\ ops < MaxOps
  /\ Rank[i] = Rank[j] /\ Rank[i] <= 2 /\ i # j
  /\ Start(w, NewOp("registering", "update", None, a, {j}))
  /\ owner' = [owner EXCEPT ![i] = None]
  /\ via' = [via EXCEPT ![i] = None]
  /\ Given(j, a)
  /\ ops' = ops + 1
  /\ tidy' = (tidy /\ Idle /\ a \in {Local, owner[i]})
  /\ UNCHANGED <<forwards, boot, reached>>

\* handle_tool_delete, handle_resource_delete, handle_prompt_delete
DeleteItem(i) ==
  /\ Serving /\ ops < MaxOps
  /\ owner[i] # None
  /\ owner' = [owner EXCEPT ![i] = None]
  /\ via' = [via EXCEPT ![i] = None]
  /\ ops' = ops + 1
  /\ tidy' = (tidy /\ Idle)
  /\ Interfere
  /\ UNCHANGED <<forwards, boot, offered, reached>>

-----------------------------------------------------------------------------
(* Restart.                                                                *)

\* main(): the registry comes back from registry.json, or empty where nothing is
\* persisted; the forwards of wanaku.yaml are registered over it and are not
\* available until they are discovered.
Restart(persisted) ==
  /\ ops < MaxOps
  /\ forwards' = [f \in Names |->
                    IF Config[f] # None THEN [address |-> Config[f], available |-> FALSE]
                    ELSE IF persisted THEN forwards[f] ELSE NoForward]
  /\ owner' = [i \in Items |-> IF persisted THEN owner[i] ELSE None]
  /\ via' = [i \in Items |-> IF persisted THEN via[i] ELSE None]
  /\ op' = [w \in Workers |-> NoOp]
  /\ boot' = {f \in Names : Config[f] # None}
  /\ ops' = ops + 1
  /\ tidy' = (tidy /\ Idle
                /\ \A f \in Names : forwards[f].address = None \/ Config[f] = None
                                     \/ Config[f] = forwards[f].address)
  /\ UNCHANGED <<offered, reached>>

-----------------------------------------------------------------------------
Step(w) ==
  \/ \E catalog \in Catalogs : Answer(w, catalog)
  \/ Unreachable(w)
  \/ \E i \in Items : RegisterItem(w, i) \/ RemoveItem(w, i)
  \/ ListOwned(w)
  \/ DeleteForward(w)

Request(w) ==
  \/ \E f \in Names, a \in Addresses : Create(w, f, a)
  \/ \E f \in Names : Refresh(w, f) \/ Delete(w, f)

Startup == \E w \in Workers, f \in Names : StartupDiscover(w, f)

Edit ==
  \/ \E i \in Items, a \in Addresses \cup {Local} : Put(i, a)
  \/ \E w \in Workers, i, j \in Items, a \in Addresses \cup {Local} : Rename(w, i, j, a)
  \/ \E i \in Items : DeleteItem(i)

Next ==
  \/ \E w \in Workers : Step(w) \/ Request(w)
  \/ Startup
  \/ Edit
  \/ \E persisted \in BOOLEAN : Restart(persisted)

Spec == Init /\ [][Next]_vars

\* A handler runs to its end: every await of a discovery has a timeout.  Startup
\* discovers every configured forward; nobody has to send a request or restart.
Fairness == WF_vars(Startup) /\ \A w \in Workers : WF_vars(Step(w))

FairSpec == Spec /\ Fairness
-----------------------------------------------------------------------------
(* Properties.                                                             *)

\* Type invariant of the registry's forwards and entries and of the requests.
TypeOK ==
  /\ forwards \in [Names -> ForwardEntry]
  /\ owner \in [Items -> Addresses \cup {Local, None}]
  /\ op \in [Workers -> Op]
  /\ boot \in SUBSET Names
  /\ ops \in 0..MaxOps
  /\ offered \in [Addresses -> SUBSET Items]
  /\ reached \in SUBSET Addresses
  /\ via \in [Items -> Names \cup {None}]
  /\ tidy \in BOOLEAN

\* An entry is only ever forwarded to a server that offered that name (or to which
\* a request moved the name by hand), also when a forward changes its address
\* while discoveries of the old and the new one are both in flight.
Provenance == \A i \in Items : owner[i] \in Addresses => i \in offered[owner[i]]

\* A forward is shown as available only with an address that did answer: a
\* discovery that ends late never vouches for an address it did not ask.
AvailableWasReached ==
  \A f \in Names : forwards[f].available => forwards[f].address \in reached

\* The entries of an address once this step is taken.
Entries(a) == {i \in Items : owner'[i] = a}

\* Request w ends in this step and ran alone; a restart ends nothing.
EndsAlone(w) == op[w].pc # "idle" /\ op'[w].pc = "idle" /\ op[w].solo /\ ops' = ops

\* A deletion that ran alone leaves neither the forward nor any tool, resource or
\* prompt of its address.
SoloDelete ==
  [][\A w \in Workers : EndsAlone(w) /\ op[w].kind = "delete" =>
       /\ forwards'[op[w].name].address = None
       /\ op[w].address # None => Entries(op[w].address) = {}]_vars

\* A refresh that ran alone leaves exactly what the server offers now: nothing it
\* has dropped since the last discovery, and nothing at all when it is away.
SoloRefresh ==
  [][\A w \in Workers : EndsAlone(w) /\ op[w].kind = "refresh"
       => Entries(op[w].address) = op[w].catalog]_vars

\* As long as requests do not overlap and no forward changes its address, every
\* forwarded entry belongs to a registered forward once the requests are over,
\* through any sequence of creations, refreshes, deletions, renames and restarts.
TidyNoOrphans ==
  tidy /\ Idle =>
    \A i \in Items : owner[i] \in Addresses
      => \E f \in Names : forwards[f].address = owner[i]

\* How many stages a request in state o has before it.
Stage(o) ==
  CASE o.pc = "deleting"    -> 9
    [] o.pc = "listing"     -> 10 - 2 * o.rank
    [] o.pc = "removing"    -> 9 - 2 * o.rank
    [] o.pc = "discovering" -> 2
    [] o.pc = "registering" -> 1
    [] OTHER                -> 0

Nearer(x, o) ==
  \/ Stage(x) < Stage(o)
  \/ Stage(x) = Stage(o) /\ x.todo \subseteq o.todo /\ x.todo # o.todo

\* Each step of a request brings it to a later stage or leaves it fewer names to insert or
\* remove, and no other request sets it back, whatever that inserts and removes meanwhile.
NeverSetBack ==
  [][\A w \in Workers : op[w].pc # "idle" =>
       IF Step(w) THEN Nearer(op'[w], op[w])
       ELSE op'[w] \in {op[w], [op[w] EXCEPT !.solo = FALSE], NoOp}]_vars

\* Every request ends, however the others insert and remove what it works on.
EveryRequestEnds == \A w \in Workers : op[w].pc # "idle" ~> op[w].pc = "idle"

\* docs/management-api.md:172: a deletion "removes the forward and all tools
\* discovered from it".  Entries carry the address and not the forward, so those
\* of an earlier address stay.
DeleteRemovesDiscovered ==
  [][\A w \in Workers : EndsAlone(w) /\ op[w].kind = "delete" /\ op[w].address # None
       => \A i \in Items : Rank[i] = 1 => via'[i] # op[w].name]_vars

\* The same line: a forward that was deleted is back only when it is created again,
\* or by a restart that finds it in wanaku.yaml.  A refresh that was waiting for the
\* server registers it.
DeletedStaysDeleted ==
  [][\A f \in Names : forwards[f].address = None /\ forwards'[f].address # None =>
       \/ f \in boot'
       \/ \E w \in Workers : op[w].kind \in {"create", "startup"} /\ op[w].name = f]_vars
=============================================================================
