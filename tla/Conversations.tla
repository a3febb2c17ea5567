--------------------------- MODULE Conversations ---------------------------
(***************************************************************************)
(* The inference proxy: each exchange of a client, or of the chat API,     *)
(* with the model is given a conversation id and recorded when its         *)
(* response has ended (features/intercept, apis/src/interactions.rs,       *)
(* features/chat).  The evaluator reads the recorded exchanges of a        *)
(* conversation; the management API lists and clears them.                 *)
(*                                                                         *)
(* A body is [ok, msgs]: ok says that it is JSON with an array of          *)
(* messages.  A message is [system, text]: its text is the first id in it, *)
(* Plain when there is none, NotText when its content is not a string.     *)
(* The id that an exchange generates is the exchange itself: generated     *)
(* ids are taken to be distinct.                                           *)
(***************************************************************************)
EXTENDS Naturals, Sequences, FiniteSets

CONSTANTS
  Exchanges,    \* exchanges with the model
  Given,        \* an id that clients put in a system message of their own
  Plain, NotText, None,
  Bodies,       \* request bodies of clients of the proxy
  ChatRequests, \* requests to /api/v1/chat/completions
  Default,      \* DEFAULT_CAPACITY
  Capacities    \* values of WANAKU_INTERACTION_CAPACITY; None when it is not set

Ids      == Exchanges \cup {Given}
Message  == [system : BOOLEAN, text : Ids \cup {Plain, NotText}]
Body     == [ok : BOOLEAN, msgs : Seq(Message)]
Opaque   == [ok |-> FALSE, msgs |-> <<>>]
Statuses == {200, 500}

ASSUME IdAssumption       == {Plain, NotText, None} \cap Ids = {} /\ Plain # NotText
ASSUME BodyAssumption     == Bodies \subseteq Body
ASSUME ChatAssumption     ==
  ChatRequests \subseteq [json : BOOLEAN, system : Ids \cup {Plain, NotText, None},
                          history : Seq(Message)]
ASSUME CapacityAssumption == Default \in Nat /\ Capacities \subseteq Nat \cup {None}

VARIABLES
  boot,         \* what main() still does before it serves
  env,          \* WANAKU_INTERACTION_CAPACITY
  store,        \* store[s]: the interaction stores built so far
  feature,      \* the store of the feature, which the management API uses
  pipeline,     \* the store that the pipelines record in and read, 0 before they are built
  ex,           \* ex[x]: exchange x
  ended         \* history: the exchanges whose response ended since the last clear

vars == <<boot, env, store, feature, pipeline, ex, ended>>

-----------------------------------------------------------------------------
(* The interaction store.                                                  *)

NewStore(capacity) == [capacity |-> capacity, log |-> <<>>]

\* Mutant: the store is cut after the insertion, and one entry late.
RecordedLate(s, i) ==
  [s EXCEPT !.log = IF Len(@) > s.capacity THEN Append(Tail(@), i) ELSE Append(@, i)]

\* record: a full store drops its oldest interaction; an empty one has none to drop.
Recorded(s, i) ==
  [s EXCEPT !.log = IF Len(@) >= s.capacity /\ @ # <<>> THEN Append(Tail(@), i)
                                                         ELSE Append(@, i)]

\* clear
Cleared(s) == [s EXCEPT !.log = <<>>]

\* Mutant: the conversation is the exchange's own generated id.
GetByOwnId(s, c) == SelectSeq(s.log, LAMBDA i : i.x = c)

\* get_by_conversation_id filters the log, in the order of recording: found[n] is
\* what it has of the first n interactions.
GetByConversationId(s, c) ==
  LET found[n \in 0..Len(s.log)] ==
        IF n = 0 THEN <<>>
        ELSE IF s.log[n].conv = c THEN Append(found[n - 1], s.log[n]) ELSE found[n - 1]
  IN found[Len(s.log)]

-----------------------------------------------------------------------------
(* The id of a conversation.                                               *)

\* find_existing_id: the first id in a system message; a system message that is no
\* text ends the search.
FindExistingId(msgs) ==
  LET stops == {i \in DOMAIN msgs : msgs[i].system /\ msgs[i].text # Plain}
      first == msgs[CHOOSE i \in stops : \A j \in stops : i <= j].text
  IN IF stops = {} \/ first = NotText THEN None ELSE first

SystemPrompt(id) == [system |-> TRUE, text |-> id]

\* Mutant: the system message is added at the end.
PromptLast(body, id) ==
  IF ~body.ok THEN [body |-> body, conv |-> id]
  ELSE IF FindExistingId(body.msgs) # None THEN [body |-> body, conv |-> FindExistingId(body.msgs)]
  ELSE [body |-> [body EXCEPT !.msgs = Append(@, SystemPrompt(id))], conv |-> id]

\* Mutant: an id that the client's messages hold is not looked for.
PromptAlways(body, id) ==
  [body |-> IF body.ok THEN [body EXCEPT !.msgs = <<SystemPrompt(id)>> \o @] ELSE body,
   conv |-> id]

\* inject_system_prompt: what is sent on, and the id of the conversation.
InjectSystemPrompt(body, id) ==
  LET existing == FindExistingId(body.msgs)
  IN IF body.ok /\ existing # None THEN [body |-> body, conv |-> existing]
     ELSE [body |-> IF body.ok THEN [body EXCEPT !.msgs = <<SystemPrompt(id)>> \o @] ELSE body,
           conv |-> id]

-----------------------------------------------------------------------------
(* Startup.                                                                *)

Store == [capacity : Nat, log : Seq([x : Exchanges, conv : Ids, status : Statuses \cup {0},
                                     request : Body])]
NoExchange == [pc |-> "idle", via |-> None, body |-> Opaque, sent |-> Opaque, conv |-> None,
               header |-> 0, status |-> 0, answer |-> 0]
Exchange == [pc : {"idle", "requesting", "upstream", "answering", "ended", "cut", "done"},
             via : {"client", "completions", "models", None}, body : Body, sent : Body,
             conv : Ids \cup {None}, header : Statuses \cup {0}, status : Statuses \cup {0},
             answer : {0, 200, 400, 500, 502}]

\* Mutant: the pipelines are built before the environment is read.
BootBackwards == <<"pipelines", "env">>

\* The steps of main() that matter for the store, in their order.
BootSteps == <<"env", "pipelines">>

Init ==
  /\ boot = BootSteps
  /\ env \in Capacities
  /\ store = <<NewStore(Default)>>
  /\ feature = 1
  /\ pipeline = 0
  /\ ex = [x \in Exchanges |-> NoExchange]
  /\ ended = <<>>

Boot(step) == boot # <<>> /\ Head(boot) = step /\ boot' = Tail(boot)

\* load_env_config replaces the store where a capacity is given.
LoadEnvConfig ==
  /\ Boot("env")
  /\ store' = IF env = None THEN store ELSE Append(store, NewStore(env))
  /\ feature' = Len(store')
  /\ UNCHANGED <<env, pipeline, ex, ended>>

\* resolve_pipelines: every pipeline gets a clone of the feature's store, which is
\* a handle on the same log.
ResolvePipelines ==
  /\ Boot("pipelines")
  /\ pipeline' = feature
  /\ UNCHANGED <<env, store, feature, ex, ended>>

Serving == boot = <<>>

-----------------------------------------------------------------------------
(* An exchange.                                                            *)

Become(x, e) ==
  /\ Serving
  /\ ex' = [ex EXCEPT ![x] = e]

\* A client of the proxy sends a request.
Request(x, body) ==
  /\ ex[x].pc = "idle"
  /\ Become(x, [NoExchange EXCEPT !.pc = "requesting", !.via = "client", !.body = body])
  /\ UNCHANGED <<boot, env, store, feature, pipeline, ended>>

\* The messages that the chat API sends: its system prompt, the history it was
\* given and the prompt of the user.
ChatMessages(request) ==
  (IF request.system = None THEN <<>> ELSE <<[system |-> TRUE, text |-> request.system]>>)
    \o request.history \o <<[system |-> FALSE, text |-> Plain]>>

\* handle_chat_completions: a body that is not JSON is refused, any other one makes a
\* request of the proxy.
ChatCompletions(x, request) ==
  /\ ex[x].pc = "idle"
  /\ LET e == [NoExchange EXCEPT !.via = "completions"]
     IN Become(x, IF ~request.json THEN [e EXCEPT !.pc = "done", !.answer = 400]
                  ELSE [e EXCEPT !.pc = "requesting",
                                 !.body = [ok |-> TRUE, msgs |-> ChatMessages(request)]])
  /\ UNCHANGED <<boot, env, store, feature, pipeline, ended>>

\* handle_chat_list_models: a GET, without a body.
ChatListModels(x) ==
  /\ ex[x].pc = "idle"
  /\ Become(x, [NoExchange EXCEPT !.pc = "requesting", !.via = "models"])
  /\ UNCHANGED <<boot, env, store, feature, pipeline, ended>>

\* on_request_body, when the body has ended: the exchange gets its id, and is kept
\* with the body as the client sent it.
OnRequestBody(x) ==
  /\ ex[x].pc = "requesting"
  /\ LET injected == InjectSystemPrompt(ex[x].body, x)
     IN Become(x, [ex[x] EXCEPT !.pc = "upstream", !.sent = injected.body,
                                !.conv = injected.conv])
  /\ UNCHANGED <<boot, env, store, feature, pipeline, ended>>

\* A request without a body may never come by on_request_body.
NoRequestBody(x) ==
  /\ ex[x].pc = "requesting" /\ ex[x].via = "models"
  /\ Become(x, [ex[x] EXCEPT !.pc = "upstream"])
  /\ UNCHANGED <<boot, env, store, feature, pipeline, ended>>

\* on_response: the header of the response, for an exchange that was kept.
OnResponse(x, status) ==
  /\ ex[x].pc = "upstream"
  /\ Become(x, [ex[x] EXCEPT !.pc = "answering", !.header = status,
                             !.status = IF ex[x].conv = None THEN @ ELSE status])
  /\ UNCHANGED <<boot, env, store, feature, pipeline, ended>>

\* Mutant: the interaction holds the body that was sent on.
InteractionAsSent(x) ==
  [x |-> x, conv |-> ex[x].conv, status |-> ex[x].status, request |-> ex[x].sent]

Interaction(x) ==
  [x |-> x, conv |-> ex[x].conv, status |-> ex[x].status, request |-> ex[x].body]

\* Mutant: every response is recorded.
HasAnyState(x) == TRUE

\* The exchange has come by on_request_body, which left its state.
HasState(x) == ex[x].conv # None

\* on_response_body, when the response has ended: it is recorded, and goes on to the
\* client of the proxy.
OnResponseBody(x) ==
  /\ ex[x].pc = "answering"
  /\ Become(x, [ex[x] EXCEPT !.pc = "ended"])
  /\ IF ~HasState(x) THEN UNCHANGED <<store, ended>>
     ELSE /\ store' = [store EXCEPT ![pipeline] = Recorded(@, Interaction(x))]
          /\ ended' = Append(ended, x)
  /\ UNCHANGED <<boot, env, feature, pipeline>>

\* The client, the model or the network breaks an exchange off: nothing is recorded.
Cut(x) ==
  /\ ex[x].pc \in {"requesting", "upstream", "answering"}
  /\ Become(x, [ex[x] EXCEPT !.pc = "cut"])
  /\ UNCHANGED <<boot, env, store, feature, pipeline, ended>>

\* Mutant: the chat API answers with the status, and does not look at the rest.
AnswerToHeader(x, parses) ==
  IF ex[x].header = 0 THEN 502 ELSE ex[x].header

\* The answer of the chat API: 502 when nothing, not all or no JSON comes back, and
\* the status of the model when that is an error.
AnswerOf(x, parses) ==
  IF ex[x].pc = "cut" THEN 502
  ELSE IF ex[x].header # 200 THEN ex[x].header
  ELSE IF parses THEN 200 ELSE 502

ChatReply(x, parses) ==
  /\ ex[x].via \in {"completions", "models"} /\ ex[x].pc \in {"ended", "cut"}
  /\ Become(x, [ex[x] EXCEPT !.pc = "done", !.answer = AnswerOf(x, parses)])
  /\ UNCHANGED <<boot, env, store, feature, pipeline, ended>>

\* handle_interaction_clear
InteractionClear ==
  /\ Serving
  /\ store[feature].log # <<>>
  /\ store' = [store EXCEPT ![feature] = Cleared(@)]
  /\ ended' = <<>>
  /\ UNCHANGED <<boot, env, feature, pipeline, ex>>

-----------------------------------------------------------------------------
Step(x) ==
  \/ \E body \in Bodies : Request(x, body)
  \/ \E request \in ChatRequests : ChatCompletions(x, request)
  \/ ChatListModels(x)
  \/ OnRequestBody(x) \/ NoRequestBody(x)
  \/ \E status \in Statuses : OnResponse(x, status)
  \/ OnResponseBody(x)
  \/ Cut(x)
  \/ \E parses \in BOOLEAN : ChatReply(x, parses)

Next ==
  \/ LoadEnvConfig \/ ResolvePipelines
  \/ \E x \in Exchanges : Step(x)
  \/ InteractionClear

Spec == Init /\ [][Next]_vars
-----------------------------------------------------------------------------
(* Properties.                                                             *)

\* Type invariant.
TypeOK ==
  /\ boot \in Seq({"env", "pipelines"})
  /\ env \in Capacities
  /\ store \in Seq(Store)
  /\ feature \in DOMAIN store
  /\ pipeline \in {0} \cup DOMAIN store
  /\ ex \in [Exchanges -> Exchange]
  /\ ended \in Seq(Exchanges)

\* What the management API lists.
Listed == store[feature].log

\* The store keeps at least one interaction, whatever its capacity.
Kept == IF store[feature].capacity = 0 THEN 1 ELSE store[feature].capacity

\* The management API lists the exchanges that ended last since the store was
\* cleared, in the order of their ends and up to the configured capacity: the
\* pipelines record in the store that it lists, also where the environment replaced
\* it; an exchange that was in flight at a clear is there once it ends.
WindowOfRecent ==
  LET n == Len(Listed)
  IN /\ n = IF Len(ended) < Kept THEN Len(ended) ELSE Kept
     /\ \A i \in 1..n : Listed[i].x = ended[Len(ended) - n + i]
     /\ Serving /\ env # None => store[feature].capacity = env

\* A recorded interaction is what happened: the request as its client sent it, the
\* status of its own response, its conversation; and no exchange is recorded twice.
RecordedAsHappened ==
  /\ \A i \in DOMAIN Listed :
       LET x == Listed[i].x
       IN /\ Listed[i].request = ex[x].body
          /\ Listed[i].status = ex[x].header /\ ex[x].header # 0
          /\ Listed[i].conv = ex[x].conv
  /\ \A i, j \in DOMAIN Listed : Listed[i].x = Listed[j].x => i = j

\* A message that tells the model a conversation id.
Tells(m) == m.system /\ m.text \in Ids

\* The first id that the messages tell is id.
TellsFirst(msgs, id) ==
  \E i \in DOMAIN msgs :
    Tells(msgs[i]) /\ msgs[i].text = id /\ \A j \in 1..(i - 1) : ~Tells(msgs[j])

\* The messages tell no id but id.
TellsOnly(msgs, id) == \A i \in DOMAIN msgs : Tells(msgs[i]) => msgs[i].text = id

\* What the model is told under id of an exchange, whose client sent body.
Informed(body, sent, id) ==
  /\ sent.msgs = body.msgs \/ sent.msgs = <<SystemPrompt(id)>> \o body.msgs
  /\ TellsFirst(sent.msgs, id)
  /\ /\ \A i \in DOMAIN body.msgs : body.msgs[i].system => body.msgs[i].text # NotText
     /\ \E known \in Ids : TellsOnly(body.msgs, known)
     => TellsOnly(sent.msgs, id)

\* The model gets the client's messages as they were and is told, before any other,
\* the id that the exchange is recorded under; a request that passes the proxy a
\* second time keeps its id.  It is the only id the model is told where the client
\* sends at most one and all its system messages are text: one that is no text ends
\* the search of find_existing_id, so that an id behind it is told as well.
ModelKnowsConversation ==
  \A x \in Exchanges : ex[x].conv # None /\ ex[x].sent.ok =>
    /\ Informed(ex[x].body, ex[x].sent, ex[x].conv)
    /\ InjectSystemPrompt(ex[x].sent, None) = [body |-> ex[x].sent, conv |-> ex[x].conv]

\* When the client has the answer of an exchange, and may call the tools it names,
\* the evaluator finds that exchange in the history of the conversation, unless so
\* many have ended since that it was dropped, or the store was cleared.
AnsweredIsInHistory ==
  \A i \in DOMAIN ended : Len(ended) - i < Kept =>
    LET history == GetByConversationId(store[pipeline], ex[ended[i]].conv)
    IN \E j \in DOMAIN history : history[j].x = ended[i]

\* A completion that the chat API answers with 200 has passed the proxy to its end:
\* it has an id and, but for a clear, it was recorded.
ChatAnsweredHasEnded ==
  [][\A x \in Exchanges :
       ex'[x].via = "completions" /\ ex'[x].answer = 200 /\ ex[x].answer # 200 =>
         ex[x].pc = "ended" /\ ex[x].conv # None]_vars
=============================================================================
