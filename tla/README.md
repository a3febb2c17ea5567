# Wanaku in TLA+

Wanaku is a router for the Model Context Protocol (MCP). Agents send it JSON-RPC
requests; a pipeline of filters picks the namespace, lets LLM-backed evaluators
narrow the tools down, and answers from a registry or forwards the call to an
upstream MCP server. A management API changes the registry, discovers what
upstream servers offer and loads evaluators, while requests are being served.

This directory holds the specifications, the TLC configurations that check them
on small instances, and the proofs checked by TLAPS. Paths below are relative to
the root of the repository.

## The system

| Component | State | Operations | Interacts with | Modules |
|---|---|---|---|---|
| Registry (`apis/src/registry.rs`) and file persistence (`apis/src/persistence.rs`) | five concurrent maps keyed by name; `registry.json`, `registry.json.tmp` | register, remove, batches of both, lookups; save (write the temporary file, rename it), load | called from every management request and every filter, on many threads, with no lock over more than one map access; one save task on the blocking pool per change | `RegistryStore` |
| Forwards (`server/src/management/handlers.rs`, `server/src/main.rs`) | the forward's record; the entries that carry its address | create, refresh, delete, discovery at startup, edits of single entries | awaits the upstream server, then writes the registry in several calls | `Forwards` |
| MCP client (`apis/src/mcp_client.rs`) | one session per discovery or call | handshake, four paginated lists, tool call, resource read, prompt get, all with time limits | upstream servers; its result is what discovery registers and what a call answers | `Upstream`, `UpstreamAnswers` |
| MCP pipeline (`filters/src/*.rs`, `server/src/default.yaml`, `features/mcp-metadata/src/*.rs`) | the metadata of one request: namespace, method, parameters | namespace, well-known URLs, initialize, evaluator, lists, call, read, get, the final refusal | reads the registry at several points of a request, awaits upstream servers | `Gateway`, `UriTemplate` |
| Evaluator engine (`features/evaluator/src/*.rs`) | definitions, compiled modules and compiled schemas under three locks; bindings of namespaces to conversations | reload, match, gather context, ask the LLM, validate and retry, run the processor | the LLM, the interaction store, the registry through host functions, the metrics | `Evaluator`; the host functions in `Gateway` |
| Metrics (`apis/src/metrics.rs`) | counters per filter and per evaluator, of the pipeline, and gauges | record, set, snapshot | filters and evaluations write it, the API reads it | `Metrics`, `Evaluator` |
| Interaction store and intercept filter (`apis/src/interactions.rs`, `features/intercept/src/*.rs`) | a bounded list of interactions; the open exchange of each request | record, list by conversation, clear, replacement at startup | exchanges with the model; evaluators read the history of a conversation | `Conversations` |
| Chat (`features/chat/src/routes.rs`) | none of its own | completions, list of models | makes requests of the inference proxy, which the intercept filter handles | `Conversations` |
| LLM client (`apis/src/llm.rs`) | endpoint and key from the environment | complete | evaluations; an answer or a failure in `Evaluator` | (`Evaluator`) |
| Plugins, UI, routing of the management service, configuration | none that changes after startup | serving files, matching a path, reading variables | | none |

What is hard, and what makes each part correct:

- **Registry and persistence.** Changes, the listing of the maps for a snapshot
  and the writing of the snapshot are separate steps of different threads, and
  nothing orders the save tasks. Correct means: a snapshot is no older than the
  request that takes it; some snapshot catches every change; a file that is
  loaded is complete; what was saved is what a restart brings back.
- **Forwards.** Requests await a server for up to many seconds in their middle and
  then act on what they read before. Correct means: an entry is forwarded to a
  server that offers it; a forward is available only when its address answered;
  deleting or refreshing removes what it should and nothing of it is left behind;
  a deleted forward stays deleted.
- **MCP client.** Pages that fail, cursors that repeat, limits, answers that come
  after the time limit. Correct means: every operation ends and is answered once; a
  list is whole up to the limits or has failed; no call is repeated.
- **Pipeline.** One request reads the registry several times while it changes, and
  what it sends upstream is put together from lists, labels and a schema. Correct
  means: it lists and calls what was in its namespace while it was handled; no
  header goes upstream that may not; every request is answered.
- **Evaluators.** A reload takes three locks in turn; an evaluation looks the parts
  of a definition up one after the other, with awaits in between. Correct means:
  what is left after a reload is one configuration; an evaluation has the module and
  the schema of its definition unless a reload stepped in; every evaluation is
  accounted for.
- **Interaction store.** Exchanges end in any order, are broken off, and a clear
  comes between a request and its response. Correct means: bounded, in order, each
  interaction as it happened and under the id that its model was told.

The hazards behind this list, each at its line, are in `PROJECT.json` ("hazards"),
with the properties that would catch them going wrong, or a note why none does: most of
those are faults that the code has only when requests overlap, and that no document
rules out. A property whose name begins with `Serial`, `Solo` or `Tidy`, or that speaks of
what is `calm` or not `crossed`, excludes such overlaps and says nothing about them.

## How the project is laid out

Each component has a module, an `MC` module that gives its constants values, one
configuration per run, and a `_proofs` module. `Gateway` extends `UriTemplate`,
`Evaluator` extends `Metrics`, `Upstream` implements `UpstreamAnswers`;
`NumberFacts` holds what several proofs need to know of numbers: least and
greatest elements, induction over a set of numbers, and sums. Where two components meet, one sees the other from outside, as little
determined as its own module allows: `Forwards` takes any of `Catalogs`, which its
proofs leave open and its runs bound to three, for what `Upstream` answers; `Gateway` lets the evaluator decide anything that `Evaluator` lets a
processor decide, and lets an upstream call end as `Upstream` says it may; in
`Evaluator` the LLM answers anything or nothing.

The operators marked "Mutant" in a module's comments are plausible mistakes. Nothing
in a specification uses them: put in the place of the definition that follows
them, each breaks the property that `PROJECT.json` ("mutants") pairs it with, which
shows that the property depends on the code being the way it is.

## RegistryStore

`RegistryStore.tla` models `InMemoryRegistry` with its persistence and
`FilePersistence`.

| Variable | Code |
|---|---|
| `mem` | the five maps, as one function on `Keys`; `Rank` says which map a key is in |
| `job[w]` | what a thread is doing: writing the entries of a call (`writing`), or listing the maps in `snapshot()` (`listing`) |
| `save[i]` | the task `persist()` hands to `spawn_blocking` for request `i` |
| `disk`, `tmp`, `file` | the files that exist, and which of them the two paths name |
| `overlapped`, `since` | history, read by the properties only: some request began before an earlier one was saved; `since[i][k]`, what an entry has held since request `i` wrote it, or since `i` began if it does not write it |

`Register`, `Remove` start a call, `WriteEntry` is one insert or remove of a map
(a batch is a loop of them; a removal that finds nothing persists nothing),
`ListEntry` is one step of `snapshot()`, whose last one spawns the save. `OpenTmp`,
`WriteTmp`, `WriteFails`, `SaveFails` and `RenameTmp` are the steps of `save()`:
opening truncates, the write goes to the file that was opened wherever it has been
renamed to, the rename moves whatever is at the temporary path. `Crash` is a crash
or a shutdown (nothing is written at shutdown) together with the next start:
`new()` puts the default namespace in, `load_persisted` adds what the file holds.

The data is abstracted to what the properties tell apart: an entry is a model
value, the text of a snapshot is the snapshot, a file is empty, whole or torn (a
torn one does not parse). A text written over a longer one is whole or torn.

`overlapped` becomes true when a request begins while another request, or the save
of one, is under way. The properties named `Serial...` say what holds before that;
the two expected violations show that it does not hold after it.

| Property | What it says |
|---|---|
| `SnapshotsAreRecent` | a save has each entry of its own request as that left it or as somebody put it later, and any other entry as it was at some moment while the request ran, although the maps are listed one after the other while others write |
| `SomeSaveIsCurrent` | once no request runs, one of the saves spawned since the start took exactly what memory holds, although no snapshot is taken under a lock |
| `SerialFileWhole` | without overlap `registry.json` is complete, whatever a crash leaves in the temporary file |
| `SerialDurable`, `SerialRestart` | without overlap a save that succeeds leaves memory in the file, and a restart brings it back, but for a removed default namespace |
| `DurableAtLast` | without overlap every change whose save does not fail is at last in the file |
| `AtomicWrites` (violated) | `docs/migration-from-classic.md`: atomic writes. A save can rename the file that another one has just truncated |
| `SurvivesRestart` (violated) | `docs/configuration.md`: the registry survives restarts. The older of two saves may be renamed last |

## Forwards

`Forwards.tla` models the handlers of `server/src/management/handlers.rs` that
create, refresh and delete forwards and change single entries, and
`load_core_config` of `main.rs`.

| Variable | Code |
|---|---|
| `forwards[f]` | the registered `ForwardEntry`: address and availability |
| `owner[i]` | the address entry `i` is forwarded to: `uri` of a tool, the forward-address label of a resource, `configurationURI` of a prompt; `Local` when it is no forwarded entry |
| `op[w]` | a request: what it read (`name`, `address`), where it is, which names it has still to insert or remove |
| `boot` | forwards of `wanaku.yaml` still to be discovered; no request is served before that |
| `offered`, `reached`, `via`, `tidy` | history, read by the properties only |

`Create`, `Refresh`, `StartupDiscover` lead to the await of the server, which ends
in `Answer` (with any of `Catalogs`) or `Unreachable`; both register the record as it was
read before the await. `RegisterItem` inserts the catalog, tools first, then
resources, then prompts. `ListOwned` and `RemoveItem` are the three
`remove_forwarded_*` calls: the names are listed and then removed one by one.
`Delete` reads the forward, `DeleteForward` removes it. `Put`, `Rename` and
`DeleteItem` are the update and deletion of a tool or a resource and the deletion of
a prompt; the body of an update may forward the entry anywhere. `Restart` starts the
process again with the registry that was saved, or with an empty one where nothing is
persisted; whether it was saved is `RegistryStore`'s subject, and is not repeated.

The namespace of an entry, its schema and its other labels are left out: no handler
here reads them. The forwards of `wanaku.yaml` have different names.

| Property | What it says |
|---|---|
| `Provenance` | an entry is only forwarded to a server that offered its name (or for which it was given by hand), also while one forward is created twice with different addresses |
| `AvailableWasReached` | a forward is available only with an address that answered: a late discovery never vouches for another address |
| `SoloDelete`, `SoloRefresh` | a deletion that ran alone leaves no entry of the address; a refresh that ran alone leaves exactly what the server offers now |
| `TidyNoOrphans` | through any sequence of requests and restarts, without overlap and without a forward changing its address, every forwarded entry belongs to a registered forward |
| `EveryRequestEnds` | a request ends, however others insert and remove what it works on |
| `DeleteRemovesDiscovered` (violated) | `docs/management-api.md`: a deletion removes all tools discovered from the forward. Those of an earlier address stay |
| `DeletedStaysDeleted` (violated) | a deleted forward stays deleted. A refresh that was waiting for the server registers it again |

## Upstream and UpstreamAnswers

`Upstream.tla` models `apis/src/mcp_client.rs`: the four strict lists, the discovery
of four lists on one session, and the three calls.

| Variable | Code |
|---|---|
| `catalog[k][c]` | what the server has: the page of kind `k` at cursor `c`, with its entries and the cursor of the next one (none, empty, or any) |
| `op[o]` | an operation: what it is, where it is, the kind and cursor it is at, the pages it has counted, the lists it has, its outcome |
| `sent[o]`, `executed[o]` | requests that reached the server, and how often it executed them, also after the client gave up |
| `failed[o]` | history: the kinds of which a page failed |

`Connect` and `NotConnected` are the transport and the handshake under `TIMEOUT`;
`NextPage` is a turn of a list's loop, with its cut at `MAX_*` and its three ways to
end; `LosesList` is the `?` of a strict list, `EndsList` the `break` of a discovery;
`Send`, `Execute`, `Reply` and `CallFails` are a call, whose time limit may pass
before or after the server executed it.

`UpstreamAnswers.tla` says what the rest of the program may expect: every operation
is answered once; a strict list in full or not at all, a discovery with a list per
kind that may end early, at a page; "in full" is up to the limits. It knows nothing
of pages in flight, and computes its lists by a recursive function from the catalog.

| Property | What it says |
|---|---|
| `ImplementsAnswers` | `Upstream` implements `UpstreamAnswers` |
| `ExecutedAtMostOnce` | a call runs at most once, with timeouts that race the answer, and a call that is answered did run |
| `WholeUnlessFailed` | a list of which no page failed is the whole of the server's, whatever cursors the server hands out: a refresh replaces what is registered by it |
| `EveryOperationEnds` | an operation ends, also on a server that never stops naming a next page |

## Conversations

`Conversations.tla` models the intercept filter, the interaction store, the startup
that connects them, and the chat API, whose requests pass the same proxy.

| Variable | Code |
|---|---|
| `boot`, `env` | what `main()` has still to do for the store: `load_env_config`, then `resolve_pipelines`; the value of `WANAKU_INTERACTION_CAPACITY` |
| `store`, `feature`, `pipeline` | the stores that were built; the one the feature and the management API hold; the one the pipelines hold |
| `ex[x]` | an exchange: the body as it came, the body as it was sent on, the conversation id, the status, what the chat API answered |
| `ended` | history: the exchanges whose response ended, since the last clear |

`OnRequestBody`, `OnResponse` and `OnResponseBody` are the callbacks of the filter,
each of which may never come (`Cut`, `NoRequestBody`). `InjectSystemPrompt` looks for
an id in the system messages, `FindExistingId` with its early `return` at a message
that is no text, and else puts one in front. `Tells` and what is built on it say what a
model is told, without that search. `Recorded` is `record`, whose drop comes
before its push.

| Property | What it says |
|---|---|
| `WindowOfRecent` | the API lists the exchanges that ended last, in the order of their ends, up to the configured capacity: the store that the pipelines record in is the one that is listed |
| `RecordedAsHappened` | an interaction is what its exchange was, and is there once |
| `ModelKnowsConversation` | the client's messages reach the model as they came; the first id that the model is told is the one the exchange is recorded under, and stays so when a request passes the proxy twice; it is the only one where the client's system messages are all text and tell at most one. Behind a system message that is no text the search does not go on (`filter.rs:49`), and an id there is told as a second one |
| `AnsweredIsInHistory` | when the client has an answer, the history of its conversation has that exchange |
| `ChatAnsweredHasEnded` | the chat API answers 200 only for an exchange that passed the proxy to its end |

## Evaluator and Metrics

`Evaluator.tla` models `features/evaluator`: reloads, bindings, and the path of one
request through the engine. `Metrics.tla` has the store of `apis/src/metrics.rs` as
a record and each `record_*` and `set_*` call as an operator on it; the actions of
`Evaluator` make those calls where the code makes them.

| Variable | Code |
|---|---|
| `evaluators`, `compiled`, `schemas` | the three values under three locks in `EvaluatorState` |
| `bindings` | the conversation a namespace is bound to |
| `reload[r]` | a `PUT /api/v1/evaluators` under way: its definitions, the modules that compiled, and the locks it has still to take |
| `ev[e]` | an evaluation: the definition it matched, what the LLM answered, the schema it looked up, the result it took, the answer |
| `metrics`, `view` | the metrics store, and the snapshot that is being copied from it |
| `broken`, `serial`, `ev[e].calm` | history, read by the properties only: what did not compile; no two reloads have overlapped; no reload has interfered with this evaluation |

`UpdateEvaluators` compiles, `InstallModules`, `InstallSchemas` and
`InstallDefinitions` take one lock each. `Match`, `GatherContext`, `LlmAnswers`,
`Validate`, `RetryAnswers`, then `MissingModule` or `Evaluate`, then `Respond` are
the stretches of `handle_body` between two awaits or two locks. A configuration is any
sequence of definitions. `docs/evaluator-engine.md:15` calls a name a unique identifier,
which nothing enforces: `SchemasOf` keeps the last schema of a name, as the loop of
`compile_schemas` does. JSON is "good", "bad" or
empty; which of the processor's decisions is taken is left open.

| Property | What it says |
|---|---|
| `SerialReloadsAgree` | reloads that do not overlap leave definitions, modules, schemas and gauges of one configuration |
| `FoundIsLoaded` | a module is missed only when it did not compile, or a reload stepped in: modules are stored before the definitions that name them |
| `ResultFitsSchema` | where its definition has a schema, a processor gets a result that satisfies the last schema of that name, unless the LLM was asked twice or a reload stepped in |
| `SnapshotAddsUp` | a snapshot never shows more requests decided than matched, although its counters are read one after the other |
| `EveryMatchCounted` | at rest, every match is accounted for: calls, retries, validations, executions and outcomes agree |
| `BlockedOnFailure` (violated) | `docs/evaluator-engine.md`: `on_error: block` ends the request when the processor fails. A trap passes it |

## Gateway and UriTemplate

`Gateway.tla` models the `mcp_router` chain of `server/src/default.yaml` and its
filters, over a registry that changes between the steps of a request.
`UriTemplate.tla` models `matches_uri_template` and states, as a reference, what it
is to be an instance of a template.

| Variable | Code |
|---|---|
| `entries[kind][n]` | the registry: namespace, type, address and the labels that a filter reads |
| `req[q]` | a request: the filter it is at, its namespace, method and tool name (metadata that a processor may set), the entries a scan has still to look at and has found, the tools a processor chose or is copying, what it sends upstream, its answer |
| `edits` | registrations and removals so far; bounded by `MaxEdits` |
| `req[q].seen`, `latest`, `crossed` | history, read by the properties only: the entries that were there while `q` was handled; the last registration of a tool; the tools last written by an outdated copy |

Each filter is an action or two (`Namespace`, `WellKnown`, `TokenProxied`, `McpInit`,
`EvaluatorPasses`, `SetMetadata`, `EvaluatorRejects`, `List`, `ToolCall`, `ResourceRead`,
`PromptGet`, `StaticResponse`); `Scan` is one entry of a `DashMap` iteration;
`ChooseTools` and `FilterTools` are the processor's choice and the second lookup of
`dispatch_action`; `ReadCopy` and `WriteCopy` are `copy_tool_to_namespace`, which
reads a tool and registers it again, as often as a processor calls it. `SetMetadata` may give
a request another namespace, method or tool name, which is all that the filters further down
read of the metadata. What a list shows is recorded with its content (`Item`), as it was in
the registry when it was read. What the pipeline of
a request was given, a registry and an issuer, is part of the request (`has`); `resolve_pipelines`
always attaches the registry, but each filter has a path for when there is none. `Put` and `Delete` are what management and
discovery do to the registry meanwhile.

| Property | What it says |
|---|---|
| `NothingFromElsewhere` | what a request lists, content included, or is forwarded for, was in its namespace while it was handled; of tools that a processor picked in the namespace their names were; of tools that it picked anywhere, only that they were registered |
| `OnlyOfItsNamespace` (violated) | `docs/index.md`: a tool only appears in requests to its namespace. `filter_tools` looks the picked names up again, in whatever namespace they are by then |
| `SentAsAllowed` | only headers that are allowed and not denied go upstream, no argument is made of another one, the caller's arguments stay |
| `CopyKeepsLatest` | a tool is what was last registered under its name, unless an outdated copy was written over it |
| `ListedIsFound` | with nothing changing, what one request lists another one finds |
| `ReadsWhatWasAsked` | a read goes to the resource at that location, or to a template of which the URI is an instance; it is refused only when there is neither, as far as the greedy search decides that (`Decided`) |
| `AlwaysGoesOn` | while a request is handled there is a step for it: no method, path, missing registry or missing issuer leaves it unanswered. That a processor returns is not said |

## Runs and bounds

| Run | Instance | Why it is enough |
|---|---|---|
| `registry_store` | two tools, the default namespace, two threads, two requests, two restarts; 123 thousand states | two saves are the fewest that share a temporary file, two tools the fewest for a batch and for two requests that conflict or not, the namespace has a rank of its own and is in `Base`; the second restart starts from the leftovers of the first |
| `registry_atomic`, `registry_restart` | the same with one restart | a counterexample needs no more |
| `forwards` | a forward in `wanaku.yaml` and one that is not, two servers that offer nothing, a tool, or a tool and a prompt, a second name for the tool, two requests at a time, three requests or restarts; 390 thousand states | two requests overlap after a third has set the stage; a tool and a prompt are the first and the last rank; a rename needs two names of one kind |
| `forward_delete`, `forward_deleted` | as `forwards` | |
| `upstream` | one operation of every sort; catalogs out of eight books of pages with two cursors; `MaxEntries` 3, `MaxPages` 4; 19 thousand states | operations share nothing but the catalog, which does not change; the books have a list that fits, one over the limit, a cursor that comes back with and without entries, a page without entries before the last one, an empty cursor; 4 pages of 2 entries pass both limits |
| `conversations` | three exchanges, of clients or of the chat API, with three bodies and one that is not JSON; capacities not set (then 1), 0 and 2; exchanges are interchangeable; 1.1 million states | three is the fewest that overflow a store of two; the bodies have an id in a user message, after another system message, and after one that is no text |
| `evaluator` | two evaluators, the second of one namespace, two configurations that change schema, module and policy, in one of which two definitions, for lists and for calls, have one name and different schemas; one evaluation, two reloads and any snapshot or binding, two of them in all; reloads are interchangeable; 405 thousand states | two reloads are the fewest that overlap; of what evaluations change, only the metrics are common to them, and each of their counters is changed in one step |
| `evaluator_on_error` | the same | |
| `gateway` | two requests, the first of every method but `ping` and the notification, which `McpInit` answers as it does `initialize`; one registration or removal and up to two copies by the first request's processor and one by the second's, a processor that turns a request into one for prompts, two namespaces, two servers, a tool, a resource, a template and a prompt, and requests of each filter that come to a pipeline without a registry and an issuer; 1.3 million states | one change between two reads of a request is what its filters can meet; a list and a call that follow it are the two requests; a resource and a template match one URI |
| `gateway_isolation` | as `gateway` | |

`MaxRequests`, `MaxCrashes`, `MaxOps`, `MaxEdits` and `MaxCopies` bound the number of requests,
restarts, changes and copies in a behaviour and nothing else. `Overrides` bounds the methods that
a processor may set; the proofs are about any. `MaxEntries` and `MaxPages` are
limits of the code, made small. Deadlock is not checked: at the bound, with everything
served, the system stops, as the program does when nobody sends it anything.

**Fairness.** A request of `RegistryStore` or `Forwards` that has begun takes its next
step at last (it is a function running on a thread, and each of its awaits has a time
limit), the blocking pool runs every task it is given, and startup discovers every
configured forward. In `Upstream` every step of an operation is fair, because each of
its awaits is under `TIMEOUT`; the server's execution is not, because nothing makes an
upstream server answer. Nobody has to send a request, and nothing has to crash. Only
`DurableAtLast`, `EveryRequestEnds` and `EveryOperationEnds` use it. The other modules
state no fairness: an exchange with a model may stay open, because the chat API's
HTTP client has no time limit; that a request of the pipeline never gets stuck is the
invariant `AlwaysGoesOn`. That its steps run out is not said: the chain itself is the proxy
framework's, and nothing limits how long a WASM processor computes.

## Proofs

The `_proofs` modules and `Upstream_refinement.tla` prove, for every value of the
constants that their modules' assumptions allow (so for any number of keys, workers,
servers, exchanges, requests, definitions, and any bound):

- `TypeCorrect` in each: `Spec => []TypeOK`.
- **RegistryStore.** `AlwaysRecent`: `RecentInv` says of each running request that what memory
  holds of every entry it has not still to write, and what it has listed, is in `since`
  (`Recent`), whatever the others write. `SomeSaveAlwaysCurrent`: the property speaks of moments when no request
  runs, so it is not inductive. The invariant behind it, `CurrentInv`, says that once
  something was persisted some worker still tracks memory (it has yet to list the maps,
  or what it has listed agrees with them), or a spawned save took memory whole: whoever
  changes memory becomes such a worker. `JobsInv` adds that every request has a number
  of its own and lists nothing before it has written. `SerialFileAlwaysWhole`,
  `SerialAlwaysDurable` and `RestartBringsBack`: a file is torn only between two steps of
  a save, so `SerialInv` says that without overlap at most one request or save is under
  way, which is the last one and whose copy is what memory holds (`OneAtATime`), that a
  save that has opened a file has the one at the temporary path (`TmpIsOpen`), which is
  never the one at `registry.json` (`FilesApart`), and that once the last save has been
  renamed, the file is what memory holds until a request changes something
  (`SavedIsCurrent`).
- **Forwards.** `ProvenanceHolds`, strengthened by `TodoInv`: what a request has still to
  register was offered by the address it registers it with, which is the one it asked.
  `AvailableReached`. `NoOrphans`: the invariant behind it, `TidyInv`, says that at most
  one request runs (`Alone`), that the forward it works on is as it read it (`Steady`),
  and that every forwarded entry either has its forward or is still going to be removed
  by the deletion under way (`Tended`). `StartupInv` adds that until requests are served
  only startup discovers, with the addresses of `wanaku.yaml`. `SoloDeletes` and
  `SoloRefreshes` are about the last step of a request, and follow from what `SoloInv`
  says of every stage of one that has run alone so far: nobody else runs (`Lonely`), the
  kinds it went through have no entry of its address left, and of the kind it is at only
  those it has still to remove (`Cleared`), and what a refresh has registered is what the
  server answered, but for what it has still to register (`Refreshing`).
- **Upstream.** `AtMostOnce`: `OnceInv` ties what was sent and executed to where the call
  is. `WholeWhenNotFailed` and the refinement (`Implements`: `Spec => Abstract!Spec`)
  rest on `Progress`: what an operation has of a list, followed by what the abstract
  walk still finds from its cursor in the turns it has left, is the whole walk; the
  entries are cut at the end or as one goes along, with the same result. The recursive
  function of the abstract list is used through its defining equation only.
- **Conversations.** `StoreIsWindow`, `RecordedOnceAsHappened`, `ModelKnowsId` and
  `ChatAnswered` follow from one invariant: its parts say what is left of the startup
  (`Booted`), that a conversation's id is the one found in what was sent (`Sound`), that
  the recorded interactions are those of exchanges that have ended (`Faithful`), that an
  exchange ends once (`EndedOnce`), and that the store is the tail of `ended`
  (`WindowInv`). What the model reads is not defined by the code's search, so
  `FoundIsFirst`, `ToldIsFound` and `PromptTells` relate the two: an id that is found is the
  first one told, and an id that is told is found unless a message that is no text stands
  before it. `AnsweredIsFound` follows from it and from what the filter of
  `get_by_conversation_id` keeps of a log of any length, by induction over its prefixes.
- **Evaluator.** `SerialAgree`: halfway through a reload the three values disagree, so the
  invariant says, as long as reloads have not overlapped, which of them the reload under
  way has replaced (`Replaced`), and that they agree when none is halfway (`Agreed`);
  `Gauged` ties the gauges to what they count, through every counter that is recorded.
  `FoundLoaded` and `ResultFits`: `Undisturbed` follows a definition through the stages
  of its evaluation; a reload clears `calm` in the same step in which it replaces a
  value. Names may repeat in a configuration, so `ResultFits` takes the last of the definitions
  of a name with a schema, which is there because they are finitely many (`Greatest`). `MatchesAccounted`: once no evaluation runs the counters agree; on the way one is
  ahead of another by the evaluations that have made the one call that records and not yet
  the other. `Counted` says by how many, for the sum over all names and for each name
  (`Open`, `Called`, `Again` are the evaluations in question). `SnapshotsAddUp`: `Copied`
  adds that the evaluators' counters in a snapshot are behind those of the store, so that
  the matches, read last, are at least as many as what was read first.
- **Gateway.** `NoneFromElsewhere`: whatever a scan has found, and what a call is forwarded
  to, is with its content among the entries seen in the request's namespace, and of what a
  processor chose the names are (`Fair`, `ShownWell`); a request has seen what is in the
  registry (`Linked`), also after a processor gave it another method.
  `OnlyAllowedSent` (`Allowed`). `CopiesKeepLatest`: a copy that is not outdated agrees with
  the last registration but for its namespace (`Linked`), and so does an entry that no
  outdated copy was written over (`Same`). `ListedAreFound` relates two requests that
  need not run at the same time, so its invariant, `Inv2`, ties each to the registry
  instead: as long as nothing has changed since a request began, what it has seen is what
  is there, and what its scan has passed is found if it is of its namespace (`Fresh`);
  once it is done, what it shows is there and what it did not find is not (`Over`, which
  says nothing after an edit, because the request is then of an earlier `edits`; two
  requests of the same `edits` are both of the last one or were related before it).
  `ReadAsAsked`: `Reads` says of a read that waits for its server what the property says,
  `Located` and `Sited` that resources have locations. A template is used only if
  `matches_uri_template` says so, and `MatchesAreInstances` proves that it then has the
  URI as an instance, for templates and URIs of any length: from the last part backwards,
  each part that the greedy search finds leaves a cut of the URI behind it. `InstancesMatch`
  is the converse, for the templates that have no variable or end in one: whatever cuts the
  URI has, the search ends no later than they do (`Minimal`), so it ends. `Missed` then says
  that a read which is refused has missed nothing that is there.

**Operations end.** That something fair happens at last is out of the prover's reach; what
can be proved is that there is no way around it. For each component whose operations must
end, a measure goes down with every step of an operation and goes up with nobody's:

- `OperationsRunOut` (`StepsRunOut` of `Upstream.tla`): an operation of the client has a
  number of steps left, computed from the lists and pages it may still fetch; each of its
  steps lowers it, whatever cursors the server hands out, and nobody else touches it.
- `RequestsNotSetBack` (`NeverSetBack` of `Forwards.tla`): each step of a request leads to a
  later stage, or leaves fewer names to insert or remove at the same one; no other request
  gives it more.
- `GoesForward` (`NeverStartedOver` of `RegistryStore.tla`): the same for requests and for
  saves, which go from queued over opened and written to saved or failed; a save that fails
  is not queued again. Only a restart ends them early.

For a request of the pipeline no such measure is stated: a processor may call the host as often
as it likes. `NeverStuck` says that a request which is handled always meets the guard of one of
its steps (`Ready`, the guards of `Handling` written out, for every method, path and setting,
with the registry and an issuer or without). It follows from the invariant of the other
theorems, `Placed` in particular: such a request is at a filter that acts on its method.

With the fairness of the last section, a measure that only goes down leaves an operation no
run without an end; that last inference, from fairness, is TLC's (`EveryOperationEnds`,
`EveryRequestEnds`, `DurableAtLast`). TLC has checked the three measures on the same instances,
where the runs have the liveness properties instead.

The proofs assume what the modules assume of their constants and nothing else. Beside sizes
and types that is: the metrics have finitely many names (`NamesAssumption` of
`Metrics.tla`; a map in memory is finite); a resource has a location and a URI is a
sequence of characters (`Registrable`, `ShapeAssumption` of `Gateway.tla`; `location` is
a required string); and "no value" is not also a value (`NoneAssumption`).

What the code computes by a loop is a recursive function in the modules: the list that
pages add up to, the filter of a history, the search for a template's parts. Its defining
equation is proved where it is used, by showing that such a function exists; what it
computes is then shown by induction over a set of numbers (`Induction` of `NumberFacts`:
a set that has 0 and the successors of its members has them all), which needs no operator
as a parameter. Sums of counters are the library's fold, and `NumberFacts` shows that they
count a set of units, from which it follows how a sum moves when one counter does.

Only model-checked:

- liveness (`DurableAtLast`, `EveryRequestEnds`, `EveryOperationEnds`): that operations do
  end, given fairness. What is proved of it is that they never go back;
- `AlwaysGoesOn`, which is about ENABLED. What is proved is `NeverStuck`, which has the guards
  in its place; that they are the conditions under which `Handling` is enabled is read off
  the actions, not proved.

The six violations are counterexamples that TLC finds.

## Where the documentation and the code differ

Beyond the six findings of the runs, met while reading:

- `docs/architecture.md` has the forward registered before its tools are listed;
  the code discovers first, and registers the forward with the outcome.
- `docs/architecture.md` has a refresh remove tools; the code also removes resources
  and prompts.
- `docs/configuration.md` and `docs/index.md` have the registry written back on shutdown;
  the code writes after each change and nothing at shutdown.
- `docs/configuration.md` gives `WANAKU_INTERACTION_CAPACITY` as the maximum number of
  interactions; with 0 the store keeps one (`interactions.rs:50`).
- `docs/evaluator-engine.md` has an evaluator skipped when its LLM fails; the code goes on
  with an empty result, which is validated and given to the processor (`filter.rs:113`).
- `docs/evaluator-engine.md` has an evaluator disabled whose module does not compile; the
  definition stays and matches, and `on_error` decides (`filter.rs`, `get_compiled`).
- `docs/evaluator-engine.md` has `copy_tool_to_namespace` copy a tool; the registry is
  keyed by name, so the tool moves (`host.rs:50`).

And of the code alone, seen in the models and stated by no document: a copy brings back a
tool that was removed between its two halves (`crossed`); `filter_tools` with the scope
"all" lists tools of other namespaces, which a call then does not find; a template is
matched greedily, so that `a{x}b` does not match `abb` although it is an instance;
a second system message with an id, behind one that is no text, makes the model read two
conversation ids; exchanges in flight at a clear are recorded after it; the metadata of the protected
resource names `/mcp` for the default namespace, a path that the namespace filter
refuses for MCP requests.

## Not modelled

- Plugins, the configuration, the routing and body limits of the management service, the
  UI and the SDK: stateless, or fixed at startup. Each is listed with its reason in
  `PROJECT.json`.
- Namespaces as records of their own, and statistics: a handler registers or removes one
  of them in one call, which `RegistryStore` covers; no filter asks whether a namespace
  exists, so that deleting one leaves its tools reachable.
- `HotSwap` of `apis/src/llm.rs`: nothing in the repository uses it. The text of prompts
  and its sanitizing, the conversion of MCP entries to JSON, the durations whose sums and averages
  the metrics hold, and all wording.
- Conversation ids are taken to be distinct; a client may still carry one of its own
  choice, which is modelled.
- Poisoned locks (no step panics while it holds one), and a client that closes its
  connection while a management handler awaits: what happens to the handler then is up to
  the proxy framework. A client of the inference proxy that leaves is modelled (`Cut`).
