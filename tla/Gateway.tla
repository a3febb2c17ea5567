------------------------------ MODULE Gateway ------------------------------
(***************************************************************************)
(* The MCP pipeline (server/default.yaml, filters/): requests go from one  *)
(* filter to the next until a filter answers, while tools, resources and   *)
(* prompts are registered and removed.                                     *)
(*                                                                         *)
(* A client's request is a record:                                         *)
(*   path     the namespace of /{namespace}/mcp, None for any other path   *)
(*   method   the MCP method the mcp filter found in the body, or None     *)
(*   url      what a request that is no MCP request asks of the well-known *)
(*            filter: "metadata", "discovery", "redirect", "token" or None *)
(*   name     the name in the parameters, uri the URI, None if missing     *)
(*   args     the arguments of the call, headers the HTTP headers          *)
(*   has      what the pipeline it comes to was given: the registry, an    *)
(*            issuer (WANAKU_AUTH_ISSUER)                                  *)
(* and an entry of the registry is                                         *)
(*   [ns, forward, address, location, template, allow, inject, messages]   *)
(* where forward says that its type is mcp-forward, allow and inject are   *)
(* its two labels about headers, and messages that a prompt has its own.   *)
(*                                                                         *)
(* A registry map is iterated entry by entry, an entry is read and written *)
(* in one step.  The evaluator is seen from outside: whether it matches,   *)
(* and what its processor decides, is not determined here (see Evaluator). *)
(* Of the metadata that a processor may set, the filters further down read *)
(* the namespace, the method and the name of a tool.                       *)
(***************************************************************************)
EXTENDS UriTemplate, FiniteSets

CONSTANTS
  Requests,       \* the requests
  Shapes,         \* Shapes[q]: what the client of q may send
  Names,          \* Names[kind]: the names of entries, registered or not
  Entries,        \* Entries[kind]: the entries that may be registered
  Registries,     \* the registries to start with
  Namespaces, Headers, Args, Addresses,
  Characters,     \* of locations and URIs
  RequestId,      \* the argument x-request-id
  HeaderOf,       \* HeaderOf[a]: the x-mcp-header of a in the tools' schema, or None
  GlobalHeaders,  \* WANAKU_FORWARD_HEADERS
  Denied,         \* DENIED_HEADERS
  Evaluated,      \* the methods that a definition of an evaluator matches
  Overrides,      \* bound: the methods a processor may set in place of the request's
  MaxCopies,      \* bound: MaxCopies[q], the copies that a processor makes for request q
  MaxEdits,       \* bound: registrations and removals by management and forwards
  None

Kinds == {"tools", "resources", "prompts"}

Entry == [ns : Namespaces, forward : BOOLEAN, address : Addresses \cup {None},
          location : {None} \cup Seq(Characters), template : BOOLEAN, allow : SUBSET Headers,
          inject : BOOLEAN, messages : BOOLEAN]

Responses == {"-32600", "-32601", "-32602", "-32603", "-32001", "-32002", "metadata",
              "discovery", "redirect", "token", "unavailable", "initialize", "ping",
              "notifications/initialized", "messages", "result"} \cup Kinds

ASSUME HeaderAssumption == HeaderOf \in [Args -> Headers \cup {None}] /\ RequestId \in Args

\* A tool that has been read and is to be registered in another namespace.
Copy == [name : Names["tools"], entry : Entry, outdated : BOOLEAN]

ASSUME NoneAssumption   ==
  /\ None \notin Namespaces \cup Responses \cup Entry \cup Copy \cup {"namespace", "any"}
  /\ None \notin UNION {Names[kind] : kind \in Kinds}
ASSUME EditAssumption   == MaxEdits \in Nat /\ MaxCopies \in [Requests -> Nat]

VARIABLES
  entries,  \* entries[kind][n]: the registry
  req,      \* req[q]: request q
  edits,    \* changes of the registry so far
  latest,   \* history: latest[n], the tool last registered under n by anyone but a copy
  crossed   \* history: the tools whose last write is that of an outdated copy

vars == <<entries, req, edits, latest, crossed>>

-----------------------------------------------------------------------------
(* The pipeline.                                                           *)

Methods == {"tools/list", "tools/call", "resources/list", "resources/templates/list",
            "resources/read", "prompts/list", "prompts/get", "initialize", "ping",
            "notifications/initialized", "unknown"}

ASSUME MethodAssumption == None \notin Methods /\ Overrides \subseteq Methods

ASSUME ShapeAssumption ==
  \A q \in Requests : \A s \in Shapes[q] :
    /\ s.path \in Namespaces \cup {None} /\ s.method \in Methods \cup {None}
    /\ s.url \in {"metadata", "discovery", "redirect", "token", None}
    /\ s.uri \in Seq(Characters) \cup {None}
    /\ s.headers \subseteq Headers /\ s.args \subseteq Args
    /\ s.has \subseteq {"registry", "issuer"}

\* A resource always has a location.
Registrable(kind) == {e \in Entry : kind = "resources" => e.location # None}

ASSUME RegistryAssumption ==
  /\ \A kind \in Kinds : Entries[kind] \subseteq Registrable(kind)
  /\ \A r \in Registries :
       /\ DOMAIN r = Kinds
       /\ \A kind \in Kinds : r[kind] \in [Names[kind] -> Registrable(kind) \cup {None}]

KindOf(method) ==
  CASE method \in {"tools/list", "tools/call"} -> "tools"
    [] method \in {"resources/list", "resources/templates/list", "resources/read"} -> "resources"
    [] method \in {"prompts/list", "prompts/get"} -> "prompts"
    [] OTHER -> None

\* Mutant: no filter answers what no other filter has answered.
ChainWithoutStatic ==
  <<"wanaku_namespace", "wanaku_well_known", "wanaku_mcp_init", "wanaku_evaluator",
    "wanaku_tool_list", "wanaku_tool_call", "wanaku_resource_list", "wanaku_resource_read",
    "wanaku_prompt_list", "wanaku_prompt_get">>

Chain ==
  <<"wanaku_namespace", "wanaku_well_known", "wanaku_mcp_init", "wanaku_evaluator",
    "wanaku_tool_list", "wanaku_tool_call", "wanaku_resource_list", "wanaku_resource_read",
    "wanaku_prompt_list", "wanaku_prompt_get", "static_response">>

\* The methods each filter acts on, None being a request that is no MCP request.  Any
\* other request goes on to the next filter.
ActsOn ==
  [wanaku_namespace     |-> Methods \cup {None},
   wanaku_well_known    |-> {None},
   wanaku_mcp_init      |-> {"initialize", "ping", "notifications/initialized"},
   wanaku_evaluator     |-> Methods,
   wanaku_tool_list     |-> {"tools/list"},
   wanaku_tool_call     |-> {"tools/call"},
   wanaku_resource_list |-> {"resources/list", "resources/templates/list"},
   wanaku_resource_read |-> {"resources/read"},
   wanaku_prompt_list   |-> {"prompts/list"},
   wanaku_prompt_get    |-> {"prompts/get"},
   static_response      |-> Methods \cup {None}]

\* The next filter that acts on the request, past the end when there is none.
NextFilter(x) ==
  LET acting == {i \in DOMAIN Chain : i > x.at /\ x.method \in ActsOn[Chain[i]]}
  IN IF acting = {} THEN Len(Chain) + 1 ELSE CHOOSE i \in acting : \A j \in acting : i <= j

\* method, name and ns are the metadata of the request.
NoRequest ==
  [pc |-> "idle", shape |-> None, at |-> 0, method |-> None, name |-> None, ns |-> None,
   todo |-> {}, found |-> <<>>, scope |-> None, chosen |-> {}, copy |-> None, copies |-> 0,
   sent |-> None, shown |-> {}, resp |-> None, from |-> 0, until |-> 0, seen |-> {}]

At(q, filter) == req[q].pc = "filter" /\ req[q].at \in DOMAIN Chain /\ Chain[req[q].at] = filter

HasRegistry(q) == "registry" \in req[q].shape.has

Active(q) == req[q].pc \notin {"idle", "done"}

Become(q, x) == req' = [req EXCEPT ![q] = x] /\ UNCHANGED <<entries, edits, latest, crossed>>

Continue(q, x) == Become(q, [x EXCEPT !.at = NextFilter(x)])

\* A filter answers: the request goes no further.  Of what it has seen, only what a
\* list is about is kept.
Respond(q, x, resp) ==
  Become(q, [x EXCEPT !.pc = "done", !.resp = resp, !.until = edits, !.todo = {}, !.found = <<>>,
               !.chosen = {}, !.copy = None, !.copies = 0, !.sent = None,
               !.seen = IF x.shown = {} THEN {} ELSE @])

-----------------------------------------------------------------------------
(* The registry.                                                           *)

Present(kind) == {n \in Names[kind] : entries[kind][n] # None}
Item(n, e) == [name |-> n, entry |-> e]

\* What is registered under that name, None if nothing is.
Lookup(kind, n) == IF n \in Names[kind] THEN entries[kind][n] ELSE None

\* What the requests that are being handled have had a chance to see.
Witnessed(kind, n, e) ==
  [q \in Requests |-> IF Active(q) /\ e # None /\ KindOf(req[q].method) = kind
                      THEN [req[q] EXCEPT !.seen = @ \cup {Item(n, e)}] ELSE req[q]]

\* The copies of n that have been read and not yet written are now outdated.
Outdated(kind, n, rs) ==
  [q \in Requests |-> IF kind = "tools" /\ rs[q].pc = "copying" /\ rs[q].copy.name = n
                      THEN [rs[q] EXCEPT !.copy.outdated = TRUE] ELSE rs[q]]

Edit(kind, n, e) ==
  /\ edits < MaxEdits
  /\ edits' = edits + 1
  /\ entries' = [entries EXCEPT ![kind][n] = e]
  /\ req' = Outdated(kind, n, Witnessed(kind, n, e))
  /\ latest' = IF kind = "tools" THEN [latest EXCEPT ![n] = e] ELSE latest
  /\ crossed' = IF kind = "tools" THEN crossed \ {n} ELSE crossed

\* The labels of a resource that an update does not bring stay as they are.
Kept(kind, n, e) ==
  LET old == entries[kind][n]
  IN IF kind # "resources" \/ old = None THEN e
     ELSE [e EXCEPT !.address = IF e.address = None THEN old.address ELSE @,
                    !.template = e.template \/ old.template]

\* register_*, by an update of an entry or by the discovery of a forward
Put(kind, n, e) == Edit(kind, n, Kept(kind, n, e))

\* remove_*
Delete(kind, n) == n \in Present(kind) /\ Edit(kind, n, None)

\* Mutant: an entry is looked up wherever it is.
Anywhere(e, ns) == e # None

\* effective_namespace, compared in get_*_in_namespace and list_*_in_namespace
InNamespace(e, ns) == e # None /\ e.ns = ns

-----------------------------------------------------------------------------
(* The filters.                                                            *)

\* The request, from now on, as one of that method.
As(x, method) ==
  LET kind == KindOf(method)
  IN [x EXCEPT !.method = method,
               !.todo = IF kind = None THEN {} ELSE Names[kind],
               !.seen = IF kind = None THEN {}
                        ELSE {Item(n, entries[kind][n]) : n \in Present(kind)}]

Arrive(q, s) ==
  /\ req[q].pc = "idle"
  /\ Continue(q, As([NoRequest EXCEPT !.pc = "filter", !.shape = s, !.name = s.name,
                                     !.from = edits], s.method))

Namespace(q) ==
  /\ At(q, "wanaku_namespace")
  /\ LET x == req[q]
     IN IF x.shape.path # None THEN Continue(q, [x EXCEPT !.ns = x.shape.path])
        ELSE IF x.method # None THEN Respond(q, x, "-32600")
        ELSE Continue(q, x)

\* What an issuer is needed for goes on down the chain when there is none.
WellKnown(q) ==
  /\ At(q, "wanaku_well_known")
  /\ LET x == req[q]
     IN IF x.shape.url = "metadata" THEN Respond(q, x, "metadata")
        ELSE IF x.shape.url = None \/ "issuer" \notin x.shape.has THEN Continue(q, x)
        ELSE IF x.shape.url = "token" THEN Become(q, [x EXCEPT !.pc = "token"])
        ELSE Respond(q, x, x.shape.url)

\* proxy_token_endpoint: what the issuer answers, or that it cannot be reached.
TokenProxied(q) ==
  /\ req[q].pc = "token"
  /\ \E resp \in {"token", "unavailable"} : Respond(q, req[q], resp)

McpInit(q) ==
  /\ At(q, "wanaku_mcp_init")
  /\ Respond(q, req[q], req[q].method)

\* No definition matches, something that an evaluation needs is missing, or the
\* processor passes, warns or sets metadata that no filter reads.
EvaluatorPasses(q) == At(q, "wanaku_evaluator") /\ Continue(q, req[q])

Evaluates(q) ==
  /\ At(q, "wanaku_evaluator")
  /\ HasRegistry(q)
  /\ req[q].method \in Evaluated

\* The processor sets metadata that filters further down read.
SetMetadata(q) ==
  /\ Evaluates(q)
  /\ \/ \E ns \in Namespaces : Continue(q, [req[q] EXCEPT !.ns = ns])
     \/ \E method \in Overrides : Continue(q, As(req[q], method))
     \/ \E n \in Names["tools"] : Continue(q, [req[q] EXCEPT !.name = n])

\* The processor blocks the request, finds it malformed, or is missing and on_error says
\* block.
EvaluatorRejects(q) ==
  Evaluates(q) /\ \E resp \in {"-32001", "-32002", "-32603"} : Respond(q, req[q], resp)

\* The processor picks tools among those of the namespace, or any that it can name ...
ChooseTools(q, scope, names) ==
  /\ Evaluates(q)
  /\ req[q].method = "tools/list"
  /\ scope = "namespace" => \A n \in names : InNamespace(entries["tools"][n], req[q].ns)
  /\ Become(q, [req[q] EXCEPT !.pc = "choosing", !.scope = scope, !.chosen = names])

\* ... and the filter looks them up again, and shows what is registered under their
\* names by now, in whatever namespace.
FilterTools(q) ==
  /\ req[q].pc = "choosing"
  /\ Respond(q, [req[q] EXCEPT !.shown =
       {Item(n, entries["tools"][n]) : n \in req[q].chosen \cap Present("tools")}], "tools")

\* Mutant: the copy is not a forward any more.
CopiedAsLocal(e, ns) == [e EXCEPT !.ns = ns, !.forward = FALSE]

Copied(e, ns) == [e EXCEPT !.ns = ns]

\* copy_tool_to_namespace, which a processor may call again and again, reads the tool ...
ReadCopy(q, n, ns) ==
  /\ Evaluates(q)
  /\ req[q].copies < MaxCopies[q]
  /\ n \in Present("tools")
  /\ Become(q, [req[q] EXCEPT !.pc = "copying",
                  !.copy = [name |-> n, entry |-> Copied(entries["tools"][n], ns),
                            outdated |-> FALSE]])

\* ... and registers it, under the same name.
WriteCopy(q) ==
  /\ req[q].pc = "copying"
  /\ LET c == req[q].copy
     IN /\ entries' = [entries EXCEPT !["tools"][c.name] = c.entry]
        /\ crossed' = IF c.outdated THEN crossed \cup {c.name} ELSE crossed
        /\ req' = [Witnessed("tools", c.name, c.entry) EXCEPT ![q].pc = "filter", ![q].copy = None,
                                                             ![q].copies = @ + 1]
  /\ edits' = edits + 1
  /\ UNCHANGED latest

Scanning == {"wanaku_tool_list", "wanaku_resource_list", "wanaku_resource_read",
             "wanaku_prompt_list"}

\* One entry of the map that a list or a read goes through.
Scan(q, n) ==
  /\ \E filter \in Scanning : At(q, filter)
  /\ HasRegistry(q)
  /\ n \in req[q].todo
  /\ req[q].method = "resources/read" => req[q].shape.uri # None
  /\ LET e == entries[KindOf(req[q].method)][n]
     IN Become(q, [req[q] EXCEPT !.todo = @ \ {n},
                     !.found = IF InNamespace(e, req[q].ns) THEN Append(@, Item(n, e)) ELSE @])

Found(x) == {x.found[i] : i \in DOMAIN x.found}

\* resources/list has those that are no templates, resources/templates/list the others.
Listed(e, method) ==
  CASE method = "resources/list" -> ~e.template
    [] method = "resources/templates/list" -> e.template
    [] OTHER -> TRUE

List(q) ==
  /\ \/ At(q, "wanaku_tool_list") \/ At(q, "wanaku_resource_list") \/ At(q, "wanaku_prompt_list")
  /\ \/ ~HasRegistry(q) /\ Respond(q, req[q], "-32603")
     \/ /\ HasRegistry(q)
        /\ req[q].todo = {}
        /\ LET x == req[q]
           IN Respond(q, [x EXCEPT !.shown = {item \in Found(x) : Listed(item.entry, x.method)}],
                      KindOf(x.method))

\* Mutant: the denylist is not applied to the headers a tool asks for.
ForwardedHeadersAsked(headers, allow) == headers \cap (allow \cup (GlobalHeaders \ Denied))

\* extract_allowed_headers
ForwardedHeaders(headers, allow) == (headers \cap (GlobalHeaders \cup allow)) \ Denied

\* Mutant: a header that is not there is injected as well, as nothing.
SentArgsNull(own, headers) ==
  [a \in Args |-> IF a \in own THEN "caller" ELSE IF HeaderOf[a] # None THEN None ELSE "absent"]

\* inject_header_arguments
SentArgs(own, headers) ==
  [a \in Args |-> IF a \in own THEN "caller"
                  ELSE IF HeaderOf[a] \in headers THEN "header" ELSE "absent"]

Send(q, x, n, e, args, headers) ==
  Become(q, [x EXCEPT !.pc = "awaiting", !.todo = {}, !.found = <<>>,
               !.sent = [name |-> n, entry |-> e, args |-> args, headers |-> headers]])

NoArgs == [a \in Args |-> "absent"]

ToolCall(q) ==
  /\ At(q, "wanaku_tool_call")
  /\ LET x == req[q]
         s == x.shape
         e == Lookup("tools", x.name)
         own == s.args \ {RequestId}
         headers == ForwardedHeaders(s.headers, e.allow)
     IN IF x.name = None THEN Respond(q, x, "-32602")
        ELSE IF ~HasRegistry(q) THEN Respond(q, x, "-32603")
        ELSE IF ~InNamespace(e, x.ns) THEN Respond(q, x, "-32602")
        ELSE IF ~e.forward THEN Respond(q, x, "-32603")
        ELSE Send(q, x, x.name, e, SentArgs(own, IF e.inject THEN headers ELSE {}), headers)

\* Mutant: the test for templates is the wrong way round.
IsTemplateAt(e, uri) == e.template /\ e.location = uri

IsAt(e, uri) == ~e.template /\ e.location = uri

\* The resources at that very location or else the templates that match.
Hits(items, uri) ==
  LET exact == {item \in items : IsAt(item.entry, uri)}
  IN IF exact # {} THEN exact
     ELSE {item \in items : /\ item.entry.template
                            /\ MatchesUriTemplate(item.entry.location, uri)}

\* The first hit is read, at the server it came from.
ResourceRead(q) ==
  /\ At(q, "wanaku_resource_read")
  /\ LET x == req[q]
         hits == Hits(Found(x), x.shape.uri)
     IN \/ x.shape.uri = None /\ Respond(q, x, "-32602")
        \/ x.shape.uri # None /\ ~HasRegistry(q) /\ Respond(q, x, "-32603")
        \/ /\ x.shape.uri # None
           /\ HasRegistry(q)
           /\ x.todo = {}
           /\ \/ hits = {} /\ Respond(q, x, "-32602")
              \/ \E i \in DOMAIN x.found :
                   /\ x.found[i] \in hits /\ \A j \in 1..(i - 1) : x.found[j] \notin hits
                   /\ IF ~x.found[i].entry.forward \/ x.found[i].entry.address = None
                      THEN Respond(q, x, "-32603")
                      ELSE Send(q, x, x.found[i].name, x.found[i].entry, NoArgs, {})

\* A prompt without messages of its own is asked of the server it came from.
PromptGet(q) ==
  /\ At(q, "wanaku_prompt_get")
  /\ LET x == req[q]
         s == x.shape
         e == Lookup("prompts", s.name)
     IN IF s.name = None THEN Respond(q, x, "-32602")
        ELSE IF ~HasRegistry(q) THEN Respond(q, x, "-32603")
        ELSE IF ~InNamespace(e, x.ns) THEN Respond(q, x, "-32602")
        ELSE IF e.messages \/ e.address = None THEN Respond(q, x, "messages")
        ELSE Send(q, x, s.name, e, SentArgs(s.args, {}), {})

\* The upstream server answers, or the call fails or runs out of time (see Upstream).
UpstreamAnswers(q) ==
  /\ req[q].pc = "awaiting"
  /\ \E resp \in {"result", "-32603"} : Respond(q, req[q], resp)

StaticResponse(q) == At(q, "static_response") /\ Respond(q, req[q], "-32601")

-----------------------------------------------------------------------------
Init ==
  /\ entries \in Registries
  /\ req = [q \in Requests |-> NoRequest]
  /\ edits = 0
  /\ latest = entries["tools"]
  /\ crossed = {}

Handling(q) ==
  \/ Namespace(q) \/ WellKnown(q) \/ TokenProxied(q) \/ McpInit(q)
  \/ EvaluatorPasses(q) \/ SetMetadata(q) \/ EvaluatorRejects(q) \/ FilterTools(q) \/ WriteCopy(q)
  \/ (\E kind \in Kinds : \E n \in Names[kind] : Scan(q, n))
  \/ List(q) \/ ToolCall(q) \/ ResourceRead(q) \/ PromptGet(q)
  \/ UpstreamAnswers(q) \/ StaticResponse(q)

Next ==
  \/ \E q \in Requests :
       \/ \E s \in Shapes[q] : Arrive(q, s)
       \/ Handling(q)
       \/ \E scope \in {"namespace", "any"}, names \in SUBSET Names["tools"] :
            ChooseTools(q, scope, names)
       \/ \E n \in Names["tools"], ns \in Namespaces : ReadCopy(q, n, ns)
  \/ \E kind \in Kinds : \E n \in Names[kind] :
       \/ \E e \in Entries[kind] : Put(kind, n, e)
       \/ Delete(kind, n)

Spec == Init /\ [][Next]_vars
-----------------------------------------------------------------------------
(* Properties.                                                             *)

\* Type invariant.
TypeOK ==
  /\ \A kind \in Kinds : \A n \in Names[kind] :
       entries[kind][n] = None \/ entries[kind][n].ns \in Namespaces
  /\ \A q \in Requests :
       LET x == req[q]
       IN /\ x.pc \in {"idle", "filter", "choosing", "copying", "awaiting", "token", "done"}
          /\ x.shape \in Shapes[q] \cup {None}
          /\ x.method \in Methods \cup {None} /\ x.ns \in Namespaces \cup {None}
          /\ x.copies \in 0..MaxCopies[q]
          /\ x.sent # None => x.sent.args \in [Args -> {"caller", "header", "absent"}]
                                /\ x.sent.headers \subseteq Headers
          /\ x.resp \in Responses \cup {None} /\ (x.resp # None <=> x.pc = "done")
          /\ x.from <= edits /\ x.until <= edits
  /\ crossed \subseteq Names["tools"]

\* What a request is forwarded for, and what a list has, was in the namespace of the
\* request at some moment while it was handled.  When a processor picked the tools among
\* those of the namespace, then their names were; what is said of each is registered
\* by the moment of the answer, which may be the entry of another namespace.  A
\* processor that names any tool it likes shows any tool there is.
NothingFromElsewhere ==
  \A q \in Requests :
    LET x == req[q]
        there == {item \in x.seen : item.entry.ns = x.ns}
    IN /\ x.sent # None => Item(x.sent.name, x.sent.entry) \in there
       /\ x.shown \subseteq x.seen
       /\ x.scope = None => x.shown \subseteq there
       /\ x.scope = "namespace" =>
            {item.name : item \in x.shown} \subseteq {item.name : item \in there}

\* What docs/index.md says of namespaces: a tool that is registered with a namespace only
\* appears in requests to that namespace.  A processor that picks any tool it likes, or
\* that sends the request to another namespace, is left out of account.
OnlyOfItsNamespace ==
  \A q \in Requests :
    LET x == req[q]
    IN x.pc = "done" /\ x.scope # "any" /\ x.ns = x.shape.path =>
         \A item \in x.shown : item.entry.ns = x.ns

\* What goes upstream: no header of the denylist and none that neither list allows, the
\* caller's arguments of a call or a prompt as they were, no request id of the caller,
\* and no argument made from a header that does not go upstream itself.
SentAsAllowed ==
  \A q \in Requests :
    LET x == req[q]
    IN x.pc = "awaiting" =>
         /\ x.sent.headers \subseteq x.shape.headers \ Denied
         /\ x.sent.headers \subseteq GlobalHeaders \cup x.sent.entry.allow
         /\ KindOf(x.method) # "resources" =>
              \A a \in Args \ {RequestId} : x.sent.args[a] = "caller" <=> a \in x.shape.args
         /\ KindOf(x.method) = "tools" => x.sent.args[RequestId] # "caller"
         /\ \A a \in Args : x.sent.args[a] = "header" => HeaderOf[a] \in x.sent.headers

\* A tool is what was last registered under its name, in some namespace, unless a copy
\* was read before that registration, or that removal, and written after it.
CopyKeepsLatest ==
  \A n \in Names["tools"] \ crossed :
    LET e == entries["tools"][n]
    IN IF e = None \/ latest[n] = None THEN e = latest[n] ELSE e = [latest[n] EXCEPT !.ns = e.ns]

Uses == {<<"tools/list", "tools/call">>, <<"resources/list", "resources/read">>,
         <<"prompts/list", "prompts/get">>}

\* What a client goes by: the location of a resource, the name of a tool or prompt.
Label(kind, item) == IF kind = "resources" THEN item.entry.location ELSE item.name

\* What one request lists, another request of the same namespace finds, as long as
\* nothing is registered or removed from the start of the first to the end of both.  A
\* list of any tools that a processor likes is not one of the namespace.
ListedIsFound ==
  \A q, r \in Requests :
    LET x == req[q]
        y == req[r]
        asked == IF y.method = "resources/read" THEN y.shape.uri
                 ELSE IF y.method = "tools/call" THEN y.name ELSE y.shape.name
    IN x.pc = "done" /\ y.pc = "done" /\ <<x.method, y.method>> \in Uses
         /\ x.ns = y.ns /\ x.scope # "any"
         /\ asked \in {Label(KindOf(x.method), item) : item \in x.shown}
         /\ {x.from, x.until, y.from, y.until} = {x.from}
       => y.resp # "-32602"

\* The entry is what a read of that URI is about.
Serves(e, uri) ==
  \/ IsAt(e, uri)
  \/ e.template /\ Decided(e.location) /\ IsInstance(e.location, uri)

\* A read goes to the resource at that location when there has been one all along, and
\* otherwise to a template of which the URI is an instance.  It is refused only when
\* there is neither in its namespace, if nothing is registered or removed meanwhile.
ReadsWhatWasAsked ==
  \A q \in Requests :
    LET x == req[q]
        exact == {item \in x.seen : item.entry.ns = x.ns /\ ~item.entry.template
                                      /\ item.entry.location = x.shape.uri}
    IN /\ x.pc = "awaiting" /\ x.method = "resources/read" =>
            /\ IF x.sent.entry.template THEN IsInstance(x.sent.entry.location, x.shape.uri)
               ELSE x.sent.entry.location = x.shape.uri
            /\ (edits = x.from /\ exact # {}) => ~x.sent.entry.template
       /\ x.pc = "done" /\ x.method = "resources/read" /\ x.resp = "-32602"
            /\ x.shape.uri # None /\ edits = x.from
          => \A n \in Names["resources"] :
               InNamespace(entries["resources"][n], x.ns)
                 => ~Serves(entries["resources"][n], x.shape.uri)

\* No request is ever left where nothing handles it: there is a step for it until it is
\* answered, with the registry and an issuer or without.  That a processor returns is
\* not said: nothing limits how long it computes, or how often it calls the host.
AlwaysGoesOn == \A q \in Requests : Active(q) => ENABLED Handling(q)
=============================================================================
