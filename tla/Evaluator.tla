----------------------------- MODULE Evaluator -----------------------------
(***************************************************************************)
(* The evaluator engine (features/evaluator): MCP requests are matched     *)
(* with a definition, an LLM is asked about them, and a WASM processor     *)
(* decides what becomes of them; PUT /api/v1/evaluators replaces the       *)
(* definitions while requests are being evaluated.                         *)
(*                                                                         *)
(* The definitions, their compiled modules and their compiled schemas are  *)
(* three values under three locks.  A reload replaces them one after the   *)
(* other; an evaluation reads them one after the other, with awaits of the *)
(* LLM in between.  A definition is                                        *)
(*   [name, method, namespace, operation, path, schema, on_error]          *)
(* where namespace is None for every namespace and schema None where there *)
(* is none.  What an LLM answers is "good", "bad" (JSON that a strict      *)
(* schema refuses), "" or "none" when the call fails.                      *)
(*                                                                         *)
(* Pipelines always carry the state, the registry and the interaction      *)
(* store, so the skips for their absence do not occur; no lock is ever     *)
(* poisoned, and the HTTP client for the LLM can be built.                 *)
(***************************************************************************)
EXTENDS Metrics, Sequences, FiniteSets

CONSTANTS
  Evaluations,  \* requests that pass the evaluator filter
  Reloads,      \* requests that replace the definitions
  Paths,        \* paths of WASM modules
  Configs,      \* sequences of definitions that wanaku.yaml or a reload may bring
  Namespaces, Conversations,
  MaxRequests,  \* bound: management requests (reloads, bindings, snapshots)
  None

Methods  == {"tools/call", "tools/list"}
Results  == {"good", "bad", ""}
Schemas  == {"strict", "lax", "broken"}
Def == [name : Names, method : Methods, namespace : Namespaces \cup {None},
        operation : {"classify", "filter", "augment"}, path : Paths,
        schema : Schemas \cup {None}, on_error : {"continue", "block"}]

ASSUME RequestAssumption == MaxRequests \in Nat /\ IsFiniteSet(Namespaces)
ASSUME NoneAssumption == None \notin Namespaces \cup Conversations \cup Paths
ASSUME ConfigAssumption == Configs \subseteq Seq(Def)

VARIABLES
  evaluators,   \* the definitions
  compiled,     \* the paths of the compiled modules
  schemas,      \* schemas[n]: the compiled schema of the evaluator called n, None if none
  bindings,     \* bindings[ns]: the conversation namespace ns is bound to
  reload,       \* reload[r]: what is left of reload r
  ev,           \* ev[e]: evaluation e
  metrics,      \* the metrics store
  view,         \* the snapshot of the metrics being taken, or the last one
  requests,     \* management requests so far
  broken,       \* history: the paths that the last reload could not compile
  serial        \* history: no two reloads have overlapped

vars == <<evaluators, compiled, schemas, bindings, reload, ev, metrics, view, requests,
          broken, serial>>

state == <<evaluators, compiled, schemas, reload, broken, serial>>

-----------------------------------------------------------------------------
(* Definitions, modules and schemas.                                       *)

PathsOf(defs) == {defs[i].path : i \in DOMAIN defs}

\* Mutant: a schema that does not compile is kept.
Kept(schema) == schema

\* CompiledSchema::compile: a schema that is none itself is not kept.
Compiled(schema) == IF schema = "broken" THEN None ELSE schema

\* The definitions called n that have a schema which compiles.
WithSchema(defs, n) == {i \in DOMAIN defs : defs[i].name = n /\ Compiled(defs[i].schema) # None}

\* Mutant: the first definition of a name has its schema kept.
FirstSchemas(defs) ==
  [n \in Names |-> LET having == WithSchema(defs, n)
                   IN IF having = {} THEN None
                      ELSE Compiled(defs[CHOOSE i \in having : \A j \in having : i <= j].schema)]

\* compile_schemas: nothing keeps a name from being used twice, and the last schema
\* of a name is kept.
SchemasOf(defs) ==
  [n \in Names |-> LET having == WithSchema(defs, n)
                   IN IF having = {} THEN None
                      ELSE Compiled(defs[CHOOSE i \in having : \A j \in having : j <= i].schema)]

\* Mutant: schemas are added to those that are there.
AddedSchemas(defs) ==
  [n \in Names |-> IF SchemasOf(defs)[n] = None THEN schemas[n] ELSE SchemasOf(defs)[n]]

NewSchemas(defs) == SchemasOf(defs)

\* CompiledSchema::validate
Valid(schema, result) == IF schema = "strict" THEN result = "good" ELSE result \in {"good", "bad"}

\* TriggerDef::matches
Matches(d, method, ns) == d.method = method /\ d.namespace \in {None, ns}

\* find_matching: the first definition that matches, None if no one does.
FindMatching(method, ns) ==
  LET hits == {i \in DOMAIN evaluators : Matches(evaluators[i], method, ns)}
  IN IF hits = {} THEN None ELSE evaluators[CHOOSE i \in hits : \A j \in hits : i <= j]

-----------------------------------------------------------------------------
(* Reloads.                                                                *)

NoReload == [left |-> <<>>, defs |-> <<>>, ok |-> {}]
ReloadType == [left : Seq({"modules", "schemas", "definitions"}),
               defs : Configs \cup {<<>>}, ok : SUBSET Paths]

\* Mutant: the definitions are shown before their modules are compiled.
LoadBackwards == <<"schemas", "definitions", "modules">>

\* load_evaluators: the values it replaces, each under a lock of its own.
LoadSteps == <<"modules", "schemas", "definitions">>

\* The evaluations that no reload interferes with.
Disturb == [e \in Evaluations |-> [ev[e] EXCEPT !.calm = FALSE]]

Requested == requests < MaxRequests /\ requests' = requests + 1

\* handle_update_evaluators: the modules that compile are known before any lock is
\* taken.
UpdateEvaluators(r, defs, ok) ==
  /\ Requested
  /\ reload[r].left = <<>>
  /\ ok \subseteq PathsOf(defs)
  /\ reload' = [reload EXCEPT ![r] = [left |-> LoadSteps, defs |-> defs, ok |-> ok]]
  /\ serial' = (serial /\ \A q \in Reloads : reload[q].left = <<>>)
  /\ UNCHANGED <<evaluators, compiled, schemas, bindings, ev, metrics, view, broken>>

\* Mutant: the gauge counts the definitions that were there before.
CountedBefore(defs) == Len(evaluators)

CountOf(defs) == Len(defs)

LoadStep(r, step) ==
  /\ reload[r].left # <<>> /\ Head(reload[r].left) = step
  /\ LET left == Tail(reload[r].left)
     IN reload' = [reload EXCEPT ![r] = IF left = <<>> THEN NoReload
                                        ELSE [reload[r] EXCEPT !.left = left]]
  /\ UNCHANGED <<bindings, view, requests, serial>>

\* compile_modules, with the gauge it sets from the modules it has just stored.
InstallModules(r) ==
  /\ LoadStep(r, "modules")
  /\ compiled' = reload[r].ok
  /\ broken' = PathsOf(reload[r].defs) \ reload[r].ok
  /\ metrics' = SetCompiled(metrics, Cardinality(reload[r].ok))
  /\ ev' = Disturb
  /\ UNCHANGED <<evaluators, schemas>>

InstallSchemas(r) ==
  /\ LoadStep(r, "schemas")
  /\ schemas' = NewSchemas(reload[r].defs)
  /\ ev' = Disturb
  /\ UNCHANGED <<evaluators, compiled, metrics, broken>>

InstallDefinitions(r) ==
  /\ LoadStep(r, "definitions")
  /\ evaluators' = reload[r].defs
  /\ metrics' = SetLoaded(metrics, CountOf(reload[r].defs))
  /\ ev' = Disturb
  /\ UNCHANGED <<compiled, schemas, broken>>

\* A reload has replaced some of the values and not yet the definitions.
HalfLoaded(r) ==
  reload[r].left # LoadSteps /\ \E i \in DOMAIN reload[r].left : reload[r].left[i] = "definitions"

-----------------------------------------------------------------------------
(* Namespace bindings.                                                     *)

Bindings(b) == Cardinality({ns \in Namespaces : b[ns] # None})

\* bind_namespace, and unbind_namespace where c is None; the gauge is set under the
\* lock.
BindNamespace(ns, c) ==
  /\ Requested
  /\ bindings' = [bindings EXCEPT ![ns] = c]
  /\ metrics' = SetBindings(metrics, Bindings(bindings'))
  /\ UNCHANGED <<evaluators, compiled, schemas, reload, ev, view, broken, serial>>

-----------------------------------------------------------------------------
(* An evaluation.                                                          *)

NoEvaluation ==
  [pc |-> "idle", method |-> None, ns |-> None, def |-> None, conv |-> None, raw |-> "",
   schema |-> None, result |-> "", asked |-> 0, trapped |-> FALSE, found |-> TRUE,
   answer |-> None, calm |-> FALSE]
Evaluation ==
  [pc : {"idle", "matched", "asking", "answered", "retrying", "decided", "answering", "done"},
   method : Methods \cup {None}, ns : Namespaces \cup {None}, def : Def \cup {None},
   conv : Conversations \cup {None}, raw : Results, schema : Schemas \cup {None},
   result : Results, asked : 0..2, trapped : BOOLEAN, found : BOOLEAN,
   answer : {None, "continue", "warning", "metadata", "tools", "-32001", "-32002", "-32603"},
   calm : BOOLEAN]

Become(e, x) ==
  /\ ev' = [ev EXCEPT ![e] = x]
  /\ UNCHANGED <<evaluators, compiled, schemas, bindings, reload, view, requests, broken, serial>>

\* handle_body up to the match: a request without a method, or that matches no
\* definition, goes on down the pipeline.
Match(e, method, ns) ==
  /\ ev[e].pc = "idle"
  /\ LET d == FindMatching(method, ns)
         x == [NoEvaluation EXCEPT !.method = method, !.ns = ns]
     IN IF method = None
        THEN /\ Become(e, [x EXCEPT !.pc = "answering", !.answer = "continue"])
             /\ metrics' = RecordSkip(metrics, "no_method")
        ELSE IF d = None
        THEN /\ Become(e, [x EXCEPT !.pc = "answering", !.answer = "continue"])
             /\ metrics' = RecordTrigger(RecordSkip(metrics, "no_match"), FALSE)
        ELSE /\ Become(e, [x EXCEPT !.pc = "matched", !.def = d,
                                    !.calm = serial /\ \A r \in Reloads : ~HalfLoaded(r)])
             /\ metrics' = RecordTrigger(metrics, TRUE)

\* The conversation is that of the request, or else the one its namespace is bound
\* to; its history goes into the prompt.
GatherContext(e, argument) ==
  /\ ev[e].pc = "matched"
  /\ Become(e, [ev[e] EXCEPT !.pc = "asking", !.asked = 1,
                  !.conv = IF argument # None THEN argument ELSE bindings[ev[e].ns]])
  /\ UNCHANGED metrics

Name(e) == ev[e].def.name

\* run_llm_operation; a call that fails gives an empty result.
LlmAnswers(e, r) ==
  /\ ev[e].pc = "asking"
  /\ Become(e, [ev[e] EXCEPT !.pc = "answered", !.raw = IF r = "none" THEN "" ELSE r])
  /\ LET called == RecordLlmCall(metrics, Name(e), r # "none")
     IN metrics' = IF r \in {"none", ""} THEN RecordLlmEmpty(called, Name(e)) ELSE called

\* Mutant: an empty result is not validated.
NeedsNoRetryWhenEmpty(schema, result) == Valid(schema, result) \/ result = ""

Passes(schema, result) == Valid(schema, result)

\* validate_and_retry_if_needed: the compiled schema is looked up by name, once the LLM
\* has answered.  Without one any result will do; a result that does not validate is
\* asked for again, when the definition has a schema.
Validate(e) ==
  /\ ev[e].pc = "answered"
  /\ LET x  == ev[e]
         schema  == schemas[Name(e)]
         ok      == Passes(schema, x.raw)
         taken   == [x EXCEPT !.pc = "decided", !.result = x.raw]
         counted == RecordValidation(metrics, Name(e), ok)
     IN IF schema = None THEN Become(e, taken) /\ UNCHANGED metrics
        ELSE IF ok       THEN Become(e, taken) /\ metrics' = counted
        ELSE IF x.def.schema # None
        THEN /\ Become(e, [x EXCEPT !.pc = "retrying", !.asked = 2, !.schema = schema])
             /\ metrics' = counted
        ELSE Become(e, taken) /\ metrics' = RecordRetry(counted, Name(e), FALSE)

\* Mutant: the result of the retry is taken as it is.
RetryTaken(x, r) == IF r = "none" THEN x.raw ELSE r

\* The second result when it validates, and else the first, invalid one.
AfterRetry(x, r) == IF r # "none" /\ Valid(x.schema, r) THEN r ELSE x.raw

\* retry_with_schema_correction
RetryAnswers(e, r) ==
  /\ ev[e].pc = "retrying"
  /\ LET x == ev[e]
     IN /\ Become(e, [x EXCEPT !.pc = "decided", !.result = AfterRetry(x, r)])
        /\ metrics' = RecordRetry(metrics, Name(e), r # "none" /\ Valid(x.schema, r))

\* Mutant: a missing module is counted as an execution.
NotFoundCounted(e) == RecordExecution(metrics, Name(e))

NotFound(e) == RecordNotFound(metrics, Name(e))

\* get_compiled, and what on_error says when there is no module.
MissingModule(e) ==
  /\ ev[e].pc = "decided"
  /\ ev[e].def.path \notin compiled
  /\ Become(e, [ev[e] EXCEPT !.pc = "answering", !.found = FALSE,
                  !.answer = IF ev[e].def.on_error = "block" THEN "-32603" ELSE "continue"])
  /\ metrics' = NotFound(e)

\* dispatch_action; filter_tools makes the answer of a tools/list, and nothing else.
AnswerTo(d, method) ==
  CASE d = "pass" -> "continue"
    [] d = "block" -> "-32001"
    [] d = "reject_malformed" -> "-32002"
    [] d = "warn" -> "warning"
    [] d = "set_metadata" -> "metadata"
    [] d = "filter_tools" -> IF method = "tools/list" THEN "tools" ELSE "continue"

\* CompiledEvaluator::evaluate runs the processor in one go: the module found is used
\* even when a reload replaces it meanwhile.  A processor that cannot be instantiated,
\* or that traps, whatever it decided before that, passes the request.
Evaluate(e, d, trapped) ==
  /\ ev[e].pc = "decided"
  /\ ev[e].def.path \in compiled
  /\ trapped => d = "pass"
  /\ Become(e, [ev[e] EXCEPT !.pc = "answering", !.trapped = trapped,
                  !.answer = AnswerTo(d, ev[e].method)])
  /\ LET executed == RecordDecision(RecordExecution(metrics, Name(e)), Name(e), d)
     IN metrics' = RecordPipeline(executed, Name(e))

FilterResult(answer) ==
  IF answer \in {"continue", "warning", "metadata"} THEN "continue" ELSE "reject"

\* on_request_body of the filter counts the outcome.
Respond(e) ==
  /\ ev[e].pc = "answering"
  /\ Become(e, [ev[e] EXCEPT !.pc = "done", !.conv = None, !.raw = "", !.result = "",
                  !.schema = None])
  /\ \E f \in FilterNames :
       metrics' = RecordFilterResult(metrics, f, FilterResult(ev[e].answer))

-----------------------------------------------------------------------------
(* Snapshots.                                                              *)

NoView == [left |-> <<>>, todo |-> {}, copy |-> NoMetrics, taken |-> 0]

\* Mutant: the pipeline is read before the evaluators.
SnapshotBackwards == <<"filters", "pipeline_and_gauges", "evaluators">>

\* snapshot: the order in which it reads the store.
SnapshotSteps == <<"filters", "evaluators", "pipeline_and_gauges">>

TakeSnapshot ==
  /\ Requested
  /\ view.left = <<>>
  /\ view' = [left |-> SnapshotSteps, todo |-> Names, copy |-> NoMetrics, taken |-> view.taken + 1]
  /\ UNCHANGED <<state, bindings, ev, metrics>>

ReadPart(part) == view.left # <<>> /\ Head(view.left) = part

\* The entries of a map are copied one at a time.
ReadEvaluator(n) ==
  /\ ReadPart("evaluators") /\ n \in view.todo
  /\ view' = [view EXCEPT !.copy.evaluators[n] = metrics.evaluators[n], !.todo = @ \ {n},
                          !.left = IF view.todo = {n} THEN Tail(@) ELSE @]
  /\ UNCHANGED <<state, bindings, ev, metrics, requests>>

ReadRest ==
  /\ \/ /\ ReadPart("filters")
        /\ view' = [view EXCEPT !.copy.filters = metrics.filters, !.left = Tail(@)]
     \/ /\ ReadPart("pipeline_and_gauges")
        /\ view' = [view EXCEPT !.copy.pipeline = metrics.pipeline, !.left = Tail(@),
                                !.copy.gauges = metrics.gauges]
  /\ UNCHANGED <<state, bindings, ev, metrics, requests>>

-----------------------------------------------------------------------------
Init ==
  /\ evaluators \in Configs
  /\ compiled = PathsOf(evaluators)
  /\ schemas = SchemasOf(evaluators)
  /\ bindings = [ns \in Namespaces |-> None]
  /\ reload = [r \in Reloads |-> NoReload]
  /\ ev = [e \in Evaluations |-> NoEvaluation]
  /\ metrics = SetLoaded(SetCompiled(NoMetrics, Cardinality(compiled)), Len(evaluators))
  /\ view = NoView
  /\ requests = 0
  /\ broken = {}
  /\ serial = TRUE

Evaluating(e) ==
  \/ \E c \in Conversations \cup {None} : GatherContext(e, c)
  \/ \E r \in Results \cup {"none"} : LlmAnswers(e, r) \/ RetryAnswers(e, r)
  \/ Validate(e) \/ MissingModule(e)
  \/ \E d \in Decisions, trapped \in BOOLEAN : Evaluate(e, d, trapped)
  \/ Respond(e)

Loading(r) ==
  InstallModules(r) \/ InstallSchemas(r) \/ InstallDefinitions(r)

Next ==
  \/ \E e \in Evaluations :
       \/ \E m \in Methods \cup {None}, ns \in Namespaces : Match(e, m, ns)
       \/ Evaluating(e)
  \/ \E r \in Reloads :
       \/ \E defs \in Configs, ok \in SUBSET Paths : UpdateEvaluators(r, defs, ok)
       \/ Loading(r)
  \/ \E ns \in Namespaces, c \in Conversations \cup {None} : BindNamespace(ns, c)
  \/ TakeSnapshot \/ ReadRest \/ \E n \in Names : ReadEvaluator(n)

Spec == Init /\ [][Next]_vars
-----------------------------------------------------------------------------
(* Properties.                                                             *)

\* Type invariant.
TypeOK ==
  /\ evaluators \in Configs
  /\ compiled \subseteq Paths
  /\ schemas \in [Names -> (Schemas \ {"broken"}) \cup {None}]
  /\ bindings \in [Namespaces -> Conversations \cup {None}]
  /\ reload \in [Reloads -> ReloadType]
  /\ ev \in [Evaluations -> Evaluation]
  /\ metrics \in MetricsType
  /\ view.copy \in MetricsType
  /\ broken \subseteq Paths
  /\ serial \in BOOLEAN

\* Reloads that do not overlap leave the definitions, the modules, the schemas and
\* the gauges of one and the same configuration: nothing of an earlier one stays.
SerialReloadsAgree ==
  serial /\ (\A r \in Reloads : reload[r].left = <<>>) =>
    /\ schemas = SchemasOf(evaluators)
    /\ compiled = PathsOf(evaluators) \ broken
    /\ metrics.gauges.loaded = Len(evaluators)
    /\ metrics.gauges.compiled = Cardinality(compiled)
    /\ metrics.gauges.bindings = Bindings(bindings)

\* An evaluation misses its module only when that did not compile, or when a reload
\* replaced something during the evaluation or at its start: a definition is shown
\* only once its module is there.
FoundIsLoaded ==
  \A e \in Evaluations : ~ev[e].found /\ ev[e].calm => ev[e].def.path \in broken

\* The result that a processor gets satisfies the schema of its definition, or where
\* several have the same name, that of the last of them with one that compiles;
\* unless the LLM was asked twice, or a reload intervened (the schema is looked up by
\* name after the LLM has answered, and may then be that of another configuration).
\* Where the definition itself has no schema, nothing makes its result fit another's.
ResultFitsSchema ==
  \A e \in Evaluations, i \in DOMAIN evaluators :
    LET x == ev[e]
    IN /\ x.pc \in {"decided", "answering"} /\ x.calm /\ x.def.schema # None
       /\ i \in WithSchema(evaluators, x.def.name)
       /\ \A j \in WithSchema(evaluators, x.def.name) : j <= i
       => Valid(evaluators[i].schema, x.result) \/ (x.asked = 2 /\ x.result = x.raw)

\* A snapshot never shows more requests decided, or given up for want of a module,
\* than requests that matched a definition, whatever was evaluated while it was
\* taken: the counters that come last are read first.
SnapshotAddsUp ==
  view.taken > 0 /\ view.left = <<>> => Accounted(view.copy) <= view.copy.pipeline.matches

\* Once no evaluation runs, every request that matched a definition is counted as
\* decided or as without a module, in each evaluator every call of the LLM, every
\* retry and every execution is accounted for, and every request by the filter.
EveryMatchCounted ==
  (\A e \in Evaluations : ev[e].pc \in {"idle", "done"}) =>
    /\ Accounted(metrics) = metrics.pipeline.matches
    /\ \A n \in Names :
         LET c == metrics.evaluators[n]
         IN /\ c.llm_success + c.llm_failure = Decided(c) + c.not_found
            /\ c.executions = Decided(c) /\ c.pipeline_timed = Decided(c)
            /\ c.retries_success + c.retries_failure = c.invalid
    /\ \A f \in FilterNames : Filtered(metrics.filters[f]) = metrics.filters[f].timed

\* docs/evaluator-engine.md:822: with on_error block, a WASM runtime failure is
\* "logged, request blocked with JSON-RPC error".
BlockedOnFailure ==
  \A e \in Evaluations :
    ev[e].pc = "done" /\ ev[e].trapped /\ ev[e].def.on_error = "block"
      => ev[e].answer # "continue"
=============================================================================
