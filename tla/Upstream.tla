------------------------------ MODULE Upstream ------------------------------
(***************************************************************************)
(* The MCP client of upstream servers (apis/src/mcp_client.rs).            *)
(*                                                                         *)
(* Every operation opens a session of its own and makes its requests one   *)
(* after the other; each await has the time limit TIMEOUT, so that it ends *)
(* with an answer, with an error or with a timeout.  A request that timed  *)
(* out was sent all the same: the server may execute it later.             *)
(*                                                                         *)
(* A page of a list is [entries, next]: next is the cursor of the next     *)
(* page, Empty for the empty cursor, None where there is none.  The        *)
(* server's catalog does not change while it is listed.  The headers of a  *)
(* call and the arguments are part of its payload.                         *)
(***************************************************************************)
EXTENDS Naturals, Sequences

CONSTANTS
  Operations,   \* operations of the client
  Kinds,        \* "tools", "resources", "templates", "prompts"
  Entry,        \* the entries a server may list
  Cursors,      \* the cursors a server may hand out
  First,        \* the cursor of the first page: no cursor in the request
  Empty, None,
  Catalogs,     \* the catalogs an upstream server may have
  MaxEntries,   \* MAX_TOOLS and its like; 500 in the code
  MaxPages      \* the pages asked for; 100 in the code

Page == [entries : Seq(Entry), next : Cursors \cup {Empty, None}]

ASSUME KindAssumption    == Kinds = {"tools", "resources", "templates", "prompts"}
ASSUME CursorAssumption  == First \in Cursors /\ Empty \notin Cursors /\ None \notin Cursors
ASSUME CatalogAssumption == Catalogs \subseteq [Kinds -> [Cursors -> Page]]
ASSUME LimitAssumption   == MaxEntries \in Nat \ {0} /\ MaxPages \in Nat \ {0}

VARIABLES
  catalog,      \* catalog[k][c]: what the server has
  op,           \* op[o]: operation o
  sent,         \* sent[o]: requests for an execution that the server was sent by o
  executed,     \* executed[o]: how often the server executed the request of o
  failed        \* history: failed[o] holds the kinds of which a page failed

vars == <<catalog, op, sent, executed, failed>>

Discovery == "discovery"
Lists == [tools |-> {"tools"}, resources |-> {"resources"}, templates |-> {"templates"},
          prompts |-> {"prompts"}, discovery |-> Kinds,
          call |-> {}, read |-> {}, prompt |-> {}]

ASSUME NoneAssumption ==
  None \notin DOMAIN Lists /\ None \notin [ok : BOOLEAN, lists : [Kinds -> Seq(Entry)]]

NoLists   == [k \in Kinds |-> <<>>]
NewOp(w)  == [what |-> w, pc |-> "connecting", kind |-> None, cursor |-> First,
              pages |-> 0, lists |-> NoLists, ok |-> FALSE]
NoOp      == [NewOp(None) EXCEPT !.pc = "idle"]
Op == [what : DOMAIN Lists \cup {None},
       pc : {"idle", "connecting", "paging", "between", "calling", "done"},
       kind : Kinds \cup {None}, cursor : Cursors \cup {Empty, None}, pages : 0..MaxPages,
       lists : [Kinds -> {s \in Seq(Entry) : Len(s) <= MaxEntries}], ok : BOOLEAN]

Init ==
  /\ catalog \in Catalogs
  /\ op = [o \in Operations |-> NoOp]
  /\ sent = [o \in Operations |-> 0]
  /\ executed = [o \in Operations |-> 0]
  /\ failed = [o \in Operations |-> {}]

Begin(o, w) ==
  /\ op[o].pc = "idle"
  /\ op' = [op EXCEPT ![o] = NewOp(w)]
  /\ UNCHANGED <<catalog, sent, executed, failed>>

Finished(o) == [op[o] EXCEPT !.pc = "done", !.ok = TRUE]
Failed(o)   == [op[o] EXCEPT !.pc = "done", !.lists = NoLists]

\* Mutant: a strict list that fails returns what it has, as a discovery does.
FailedButKept(o) == [op[o] EXCEPT !.pc = "done", !.ok = TRUE]

\* An error of a strict operation leaves with `?`: what it had is dropped.
Dropped(o) == Failed(o)

\* The transport cannot connect, the handshake fails or takes too long.
NotConnected(o) ==
  /\ op[o].pc = "connecting"
  /\ op' = [op EXCEPT ![o] = Failed(o)]
  /\ UNCHANGED <<catalog, sent, executed, failed>>

-----------------------------------------------------------------------------
(* Lists.                                                                  *)

Paging(o, k) == [op[o] EXCEPT !.pc = "paging", !.kind = k, !.cursor = First, !.pages = 0]

\* Mutant: a list may be one entry too long.
CutLate(s) == IF Len(s) <= MaxEntries + 1 THEN s ELSE SubSeq(s, 1, MaxEntries)

\* all.truncate(MAX_..)
Cut(s) == IF Len(s) < MaxEntries THEN s ELSE SubSeq(s, 1, MaxEntries)

\* Mutant: a page without entries is taken for the last one.
MoreIfEntries(page) == page.entries # <<>> /\ page.next \in Cursors

\* The page names a cursor, and not the empty one.
More(page) == page.next \notin {Empty, None}

\* Mutant: the pages are not counted.
Uncounted(n) == n

Counted(n) == n + 1

\* The list goes on after a page: it is not full, there is a cursor and the loop
\* has a turn left.
GoesOn(o, list, page) ==
  Len(list) < MaxEntries /\ More(page) /\ Counted(op[o].pages) < MaxPages

\* One page is answered; the operation continues at pc `after` when it was the last.
NextPage(o, after) ==
  LET k    == op[o].kind
      page == catalog[k][op[o].cursor]
      list == op[o].lists[k] \o page.entries
      kept == [op[o] EXCEPT !.lists[k] = Cut(list)]
  IN /\ op[o].pc = "paging"
     /\ op' = [op EXCEPT ![o] =
                 IF GoesOn(o, list, page)
                 THEN [kept EXCEPT !.cursor = page.next, !.pages = Counted(@)]
                 ELSE [kept EXCEPT !.pc = after, !.ok = (after = "done")]]
     /\ UNCHANGED <<catalog, sent, executed, failed>>

\* A page fails or times out, and with it the operation ...
LosesList(o) ==
  /\ op[o].pc = "paging"
  /\ op' = [op EXCEPT ![o] = Dropped(o)]
  /\ failed' = [failed EXCEPT ![o] = @ \cup {op[o].kind}]
  /\ UNCHANGED <<catalog, sent, executed>>

\* ... or, in a discovery, only the list of that kind ends here.
EndsList(o) ==
  /\ op[o].pc = "paging"
  /\ op' = [op EXCEPT ![o].pc = "between"]
  /\ failed' = [failed EXCEPT ![o] = @ \cup {op[o].kind}]
  /\ UNCHANGED <<catalog, sent, executed>>

Connect(o, k) ==
  /\ op[o].pc = "connecting"
  /\ op' = [op EXCEPT ![o] = Paging(o, k)]
  /\ UNCHANGED <<catalog, sent, executed, failed>>

Listing(o, k)     == Connect(o, k) \/ NotConnected(o) \/ NextPage(o, "done") \/ LosesList(o)
Discovering(o, k) == op[o].kind = k /\ (NextPage(o, "between") \/ EndsList(o))

ListTools(o)             == op[o].what = "tools" /\ Listing(o, "tools")
ListResources(o)         == op[o].what = "resources" /\ Listing(o, "resources")
ListResourceTemplates(o) == op[o].what = "templates" /\ Listing(o, "templates")
ListPrompts(o)           == op[o].what = "prompts" /\ Listing(o, "prompts")

DiscoverToolsOnSession(o)             == Discovering(o, "tools")
DiscoverResourcesOnSession(o)         == Discovering(o, "resources")
DiscoverResourceTemplatesOnSession(o) == Discovering(o, "templates")
DiscoverPromptsOnSession(o)           == Discovering(o, "prompts")

\* The lists of a discovery follow one another on one session.
After(k) ==
  CASE k = "tools" -> "resources" [] k = "resources" -> "templates" [] k = "templates" -> "prompts"

\* discover_forward fails only when it cannot connect: after that, it succeeds
\* with whatever the four lists came to.
DiscoverForward(o) ==
  /\ op[o].what = Discovery
  /\ \/ Connect(o, "tools")
     \/ NotConnected(o)
     \/ DiscoverToolsOnSession(o)
     \/ DiscoverResourcesOnSession(o)
     \/ DiscoverResourceTemplatesOnSession(o)
     \/ DiscoverPromptsOnSession(o)
     \/ /\ op[o].pc = "between"
        /\ op' = [op EXCEPT ![o] = IF op[o].kind = "prompts" THEN Finished(o)
                                   ELSE Paging(o, After(op[o].kind))]
        /\ UNCHANGED <<catalog, sent, executed, failed>>

-----------------------------------------------------------------------------
(* Calls: tools/call, resources/read, prompts/get.                         *)

Send(o) ==
  /\ op[o].pc = "connecting"
  /\ op' = [op EXCEPT ![o].pc = "calling"]
  /\ sent' = [sent EXCEPT ![o] = @ + 1]
  /\ UNCHANGED <<catalog, executed, failed>>

\* The server executes a request it was sent, whether or not somebody still waits.
Execute(o) ==
  /\ executed[o] < sent[o]
  /\ executed' = [executed EXCEPT ![o] = @ + 1]
  /\ UNCHANGED <<catalog, op, sent, failed>>

\* It answers what it has executed.
Reply(o) ==
  /\ op[o].pc = "calling"
  /\ executed[o] = sent[o]
  /\ op' = [op EXCEPT ![o] = Finished(o)]
  /\ UNCHANGED <<catalog, sent, executed, failed>>

\* Mutant: a call that fails is made again, on a new session.
Retried(o) == IF sent[o] < 3 THEN [op[o] EXCEPT !.pc = "connecting"] ELSE Failed(o)

\* What is left of a call that failed.
CallLost(o) == Failed(o)

\* An error, or no answer in time: before the execution, or after it.
CallFails(o) ==
  /\ op[o].pc = "calling"
  /\ op' = [op EXCEPT ![o] = CallLost(o)]
  /\ UNCHANGED <<catalog, sent, executed, failed>>

Calling(o) == NotConnected(o) \/ Send(o) \/ Reply(o) \/ CallFails(o)

CallTool(o)     == op[o].what = "call" /\ Calling(o)
ReadResource(o) == op[o].what = "read" /\ Calling(o)
GetPrompt(o)    == op[o].what = "prompt" /\ Calling(o)

-----------------------------------------------------------------------------
Step(o) ==
  \/ ListTools(o) \/ ListResources(o) \/ ListResourceTemplates(o) \/ ListPrompts(o)
  \/ DiscoverForward(o)
  \/ CallTool(o) \/ ReadResource(o) \/ GetPrompt(o)

Next == \E o \in Operations :
  \/ \E w \in DOMAIN Lists : Begin(o, w)
  \/ Step(o)
  \/ Execute(o)

Spec == Init /\ [][Next]_vars

\* Every await of an operation ends, with a timeout if nothing else; nothing is
\* assumed of the server.
FairSpec == Spec /\ \A o \in Operations : WF_vars(Step(o))
-----------------------------------------------------------------------------
(* Properties.                                                             *)

\* Type invariant; a list is never longer than its limit.
TypeOK ==
  /\ catalog \in [Kinds -> [Cursors -> Page]]
  /\ op \in [Operations -> Op]
  /\ sent \in [Operations -> Nat]
  /\ executed \in [Operations -> Nat]
  /\ failed \in [Operations -> SUBSET Kinds]

\* The client never repeats a call by itself, so that a tool with effects runs at
\* most once per tools/call, a timeout that races the answer included; and a call
\* that is answered did run.
ExecutedAtMostOnce ==
  \A o \in Operations :
    /\ executed[o] <= 1
    /\ op[o].pc = "done" /\ op[o].ok /\ op[o].what \in {"call", "read", "prompt"}
         => executed[o] = 1

AnswerOf(o) == IF op[o].pc = "done" THEN [ok |-> op[o].ok, lists |-> op[o].lists] ELSE None
Asked   == [o \in Operations |-> op[o].what]
Answers == [o \in Operations |-> AnswerOf(o)]

Abstract == INSTANCE UpstreamAnswers WITH asked <- Asked, answer <- Answers

\* Refinement: an operation is answered once; a list in full up to the limits or
\* not at all, a discovery with a list per kind that ends at a page.
ImplementsAnswers == Abstract!Spec

\* A discovery of which no page failed has the whole catalog, whatever cursors the
\* server hands out: pages without entries, an empty cursor, a cursor that comes back.
\* A refresh replaces what is registered by this list.
WholeUnlessFailed ==
  \A o \in Operations, k \in Kinds :
    op[o].pc = "done" /\ op[o].ok /\ k \in Lists[op[o].what] /\ k \notin failed[o]
      => op[o].lists[k] = Abstract!Whole(k)

\* The lists that an operation in state x has not begun.
ListsLeft(x) ==
  IF x.what # Discovery THEN 0
  ELSE IF x.pc = "connecting" THEN 3
  ELSE CASE x.kind = "tools" -> 3 [] x.kind = "resources" -> 2
         [] x.kind = "templates" -> 1 [] x.kind = "prompts" -> 0

\* The steps that it has left at most: a page is one, and so are the handshake, the end
\* of a discovered list, and the answer.
StepsLeft(x) ==
  CASE x.pc = "connecting" -> ListsLeft(x) * (MaxPages + 1) + MaxPages + 2
    [] x.pc = "paging"     -> ListsLeft(x) * (MaxPages + 1) + MaxPages - x.pages + 1
    [] x.pc = "between"    -> ListsLeft(x) * (MaxPages + 1) + 1
    [] x.pc = "calling"    -> 1
    [] OTHER               -> 0

\* Whatever cursors a server hands out, and whatever it fails to answer, each step of an
\* operation leaves it fewer steps to its end, and no other step touches it: with
\* MAX_PAGES pages a list ends, with or without entries in them.
StepsRunOut ==
  [][\A o \in Operations : op[o].pc # "idle" =>
       IF Step(o) THEN StepsLeft(op'[o]) \in 0..(StepsLeft(op[o]) - 1)
       ELSE op'[o] = op[o]]_vars

\* Every operation ends, also when the server never stops naming a next page.
EveryOperationEnds == \A o \in Operations : op[o].pc # "idle" ~> op[o].pc = "done"
=============================================================================
