----------------------------- MODULE MCGateway -----------------------------
(***************************************************************************)
(* Gateway with two namespaces, a name for tools and one for prompts, two  *)
(* for resources, and one change of the registry.  One client lists, reads *)
(* and asks for everything else, also of a pipeline that was given neither *)
(* registry nor issuer; the other calls, reads and gets.                   *)
(***************************************************************************)
EXTENDS Gateway, TLC

CONSTANTS q1, q2, t1, r1, r2, p1, sales, ops, s1, s2

MCNames == [tools |-> {t1}, resources |-> {r1, r2}, prompts |-> {p1}]

MCEntry == [ns |-> sales, forward |-> TRUE, address |-> s1, location |-> None, template |-> FALSE,
            allow |-> {}, inject |-> TRUE, messages |-> FALSE]

MCTool   == [MCEntry EXCEPT !.allow = {"authorization", "host"}]
MCExact  == [MCEntry EXCEPT !.location = <<"a", "b", "b">>]
MCTempl  == [MCEntry EXCEPT !.location = <<"a", Var, "b">>, !.template = TRUE]

\* What may be registered: a tool that moves, with its server, to another namespace, or
\* that is not forwarded; a template that does not say where it came from; a prompt with
\* messages of its own.
MCEntries ==
  [tools |-> {[MCTool EXCEPT !.ns = ops, !.address = s2, !.inject = FALSE],
              [MCTool EXCEPT !.forward = FALSE]},
   resources |-> {[MCTempl EXCEPT !.address = None, !.location = <<"a", Var, "b", Var>>]},
   prompts |-> {[MCEntry EXCEPT !.address = None, !.messages = TRUE]}]

MCRegistries == {
  [tools |-> t1 :> MCTool, resources |-> r1 :> MCExact @@ r2 :> MCTempl, prompts |-> p1 :> MCEntry]}

MCShape(path, method) ==
  [path |-> path, method |-> method, url |-> None, name |-> None, uri |-> None,
   args |-> {}, headers |-> {}, has |-> {"registry", "issuer"}]

MCArgs == {"city", "token", "x-request-id"}
MCHeaderOf == [a \in MCArgs |-> IF a = "token" THEN "authorization" ELSE None]

\* q1 lists, reads and asks for everything else, q2 calls, reads and gets.
MCReads == {[MCShape(sales, "resources/read") EXCEPT !.uri = uri] :
              uri \in {<<"a", "b">>, <<"a", "b", "b">>, <<"a", "b", "a">>}}

MCCalls == {[MCShape(sales, "tools/call") EXCEPT !.name = t1, !.args = {"city", "x-request-id"},
               !.headers = {"authorization", "host", "dpop"}]}

MCGets == {[MCShape(sales, "prompts/get") EXCEPT !.name = p1, !.args = {"city"}]}

\* Requests that need what their pipeline was not given.
MCBare == {[s EXCEPT !.has = {}] :
             s \in {MCShape(sales, "tools/list"), [MCShape(None, None) EXCEPT !.url = "token"]}
                  \cup {s \in MCCalls \cup MCGets \cup MCReads : s.uri \in {None, <<"a", "b">>}}}

MCShapes ==
  q1 :> (MCBare \cup {MCShape(sales, method) :
            method \in Methods \ {"ping", "notifications/initialized", "tools/call", "prompts/get"}}
         \cup MCReads \cup {MCShape(None, "tools/list")} \cup
         {[MCShape(None, None) EXCEPT !.url = url] :
            url \in {"metadata", "redirect", "token", None}}) @@
  q2 :> (MCCalls \cup MCGets \cup {s \in MCReads : s.uri = <<"a", "b", "b">>})

MCMaxCopies == q1 :> 2 @@ q2 :> 1
=============================================================================
